---------------------------- MODULE AtomicIndex ----------------------------
(***************************************************************************)
(* What a reader on any instance is promised of the index: a source holds  *)
(* the whole of one ingestion, and an ingestion takes its place at once.   *)
(***************************************************************************)
CONSTANTS Sources, Ingestions, Nothing

VARIABLES
    content,  \* source -> the ingestion the index holds of it
    applied   \* ingestions that have taken their place, kept or since replaced

Init ==
    /\ content = [s \in Sources |-> Nothing]
    /\ applied = {}

Replace(s, v) ==
    /\ v \notin applied
    /\ content' = [content EXCEPT ![s] = v]
    /\ applied' = applied \cup {v}

Next == \E s \in Sources, v \in Ingestions : Replace(s, v)

Spec == Init /\ [][Next]_<<content, applied>>
=============================================================================
