------------------------------- MODULE Search -------------------------------
(***************************************************************************)
(* One hit of a search (pipeline.py search, _placement, _adjacency,        *)
(* _section): it is retrieved, placed in its source, and the chunks around *)
(* it are read one at a time.  The instance's own writers wait for its     *)
(* lock; another instance's commit between any two of the reads.           *)
(*                                                                         *)
(* One source is modelled, for every read of a hit is keyed by its source. *)
(* A chunk's id is its source and its position, so the ids a source has    *)
(* are the positions below some number.                                    *)
(***************************************************************************)
EXTENDS Integers, Sequences, FiniteSets, SequencesExt, FiniteSetsExt

CONSTANTS
    Leads,       \* what chunks may begin with: headings, or none of them
    Ceiling,     \* max_section_chunks
    Neighbours,  \* neighbours asked for on each side
    MaxChunks,   \* most chunks of an ingestion (a bound)
    MaxIngests   \* ingestions in a behaviour (a bound)

ASSUME SearchAssumption ==
    /\ Ceiling \in Nat \ {0}
    /\ {Neighbours, MaxChunks, MaxIngests} \subseteq Nat

VARIABLES
    durable,  \* whether the store is the durable one
    store,    \* what the source's record describes and what its nodes are
    listed,   \* the record in this instance's catalog snapshot
    mapped,   \* how many ids of the source this instance's index mentions
    reader,   \* where the search is and what it has read
    ingests   \* ingestions so far

vars == <<durable, store, listed, mapped, reader, ingests>>

-----------------------------------------------------------------------------
(* An ingestion is its number and what each of its chunks begins with.     *)

Ingestions == [nth : 0..MaxIngests, leads : BoundedSeq(Leads, MaxChunks)]
Nothing == [nth |-> 0, leads |-> <<>>]
Count(ingestion) == Len(ingestion.leads)
Chunk(ingestion, place) ==
    [nth |-> ingestion.nth, place |-> place, lead |-> ingestion.leads[place + 1]]

Places == 0..MaxChunks - 1
Chunks == [nth : 1..MaxIngests, place : Places, lead : Leads]
NoChunk == [nth |-> 0, place |-> 0, lead |-> "none"]

\* get_node of the docstore, which may find nothing.
Held(place) == place \in 0..Count(store.nodes) - 1
Node(place) == Chunk(store.nodes, place)

PCs == {"idle", "hit", "beside", "back", "on", "window", "answered"}

Readers ==
    [pc        : PCs,
     hit       : Chunks \cup {NoChunk},
     count     : 0..MaxChunks,  \* chunk_count, from the snapshot
     tried     : 0..2 * Neighbours,
     beside    : SUBSET Chunks, \* the neighbours found
     run       : Seq(Chunks),   \* the walk so far: the hit and what joins it
     size      : 0..MaxChunks,  \* section_size
     passage   : Seq(Chunks),   \* section
     placed    : BOOLEAN,
     disturbed : BOOLEAN]       \* another instance has committed meanwhile (history)

AtRest == [pc |-> "idle", hit |-> NoChunk, count |-> 0, tried |-> 0, beside |-> {},
           run |-> <<>>, size |-> 0, passage |-> <<>>, placed |-> FALSE,
           disturbed |-> FALSE]

TypeOK ==
    /\ durable \in BOOLEAN
    /\ store \in [record : Ingestions, nodes : Ingestions]
    /\ listed \in Ingestions
    /\ mapped \in 0..MaxChunks
    /\ reader \in Readers
    /\ ingests \in 0..MaxIngests

Init ==
    /\ durable \in BOOLEAN
    /\ store = [record |-> Nothing, nodes |-> Nothing]
    /\ listed = Nothing
    /\ mapped = 0
    /\ reader = AtRest
    /\ ingests = 0

-----------------------------------------------------------------------------
(* What writers leave.  Nothing of this process writes during a search,    *)
(* which holds _index_lock throughout.                                     *)

LockFree == reader.pc = "idle"

New(leads) == [nth |-> ingests + 1, leads |-> leads]
Whole(new) == [record |-> new, nodes |-> new]

Ingesting(leads) ==
    /\ ingests < MaxIngests
    /\ ingests' = ingests + 1
    /\ UNCHANGED durable

\* Mutant: this process's writers do not take the lock.
IngestHereUnlocked(leads) ==
    /\ Ingesting(leads)
    /\ store' = Whole(New(leads))
    /\ mapped' = Len(leads)
    /\ listed' \in {New(leads), listed}
    /\ UNCHANGED reader
\* _replace_source returns, or raises while it rebuilds the snapshot.
IngestHere(leads) ==
    /\ LockFree
    /\ Ingesting(leads)
    /\ store' = Whole(New(leads))
    /\ mapped' = Len(leads)
    /\ listed' \in {New(leads), listed}
    /\ UNCHANGED reader

\* The durable transaction is rolled back; the index in memory is as the raise
\* left it: not read back yet, read back, emptied of the source, or filled.
FailDurably(leads) ==
    /\ durable
    /\ LockFree
    /\ Ingesting(leads)
    /\ mapped' \in {mapped, Count(store.nodes), 0, Len(leads)}
    /\ UNCHANGED <<store, listed, reader>>

\* The in-process transaction undoes nothing: the record and the positions are
\* the new ones, and the nodes those of before or, once deleted, none.
FailInMemory(leads) ==
    /\ ~durable
    /\ LockFree
    /\ Ingesting(leads)
    /\ \/ /\ store' = [store EXCEPT !.record = New(leads)]
          /\ mapped' = mapped
       \/ /\ store' = [record |-> New(leads), nodes |-> Nothing]
          /\ mapped' = 0
    /\ UNCHANGED <<listed, reader>>

\* Another instance's replacement commits, at any time.
IngestElsewhere(leads) ==
    /\ durable
    /\ Ingesting(leads)
    /\ store' = Whole(New(leads))
    /\ reader' = [reader EXCEPT !.disturbed = reader.pc # "idle"]
    /\ UNCHANGED <<listed, mapped>>

\* refresh(), or the rebuild after another source's ingestion.
Refresh ==
    /\ LockFree
    /\ listed' = store.record
    /\ UNCHANGED <<durable, store, mapped, reader, ingests>>

\* A pipeline is built over the durable store, whose map is read.
Restart ==
    /\ durable
    /\ LockFree
    /\ listed' = store.record
    /\ mapped' = Count(store.nodes)
    /\ UNCHANGED <<durable, store, reader, ingests>>

-----------------------------------------------------------------------------
(* The search of one hit.                                                  *)

Reads(r) == reader' = r /\ UNCHANGED <<durable, store, listed, mapped, ingests>>

\* The ids the retriever is handed: those this instance's index mentions.
Searched == {place \in Places : place < mapped}

Retrieve(place) ==
    /\ LockFree
    /\ place \in Searched
    /\ Held(place)
    /\ Reads([reader EXCEPT !.pc = "hit", !.hit = Node(place)])

\* _placement: the record from the snapshot, the position from the store.
Place ==
    /\ reader.pc = "hit"
    /\ listed # Nothing
    /\ reader.hit.place < Count(store.record)
    /\ Reads([reader EXCEPT !.pc = "beside", !.placed = TRUE, !.count = Count(listed),
                            !.run = <<reader.hit>>])

Unplaced ==
    /\ reader.pc = "hit"
    /\ listed = Nothing \/ reader.hit.place >= Count(store.record)
    /\ Reads([reader EXCEPT !.pc = "answered"])

\* _adjacency tries the places outwards, before the hit and then after it.
Tried(n) == IF n % 2 = 1 THEN reader.hit.place - (n + 1) \div 2 ELSE reader.hit.place + n \div 2

Lists(place) == 0 <= place /\ place < reader.count

\* Mutant: one place more is tried than was asked for.
BesideOnceMore ==
    /\ reader.pc = "beside"
    /\ reader.tried <= 2 * Neighbours
    /\ LET place == Tried(reader.tried + 1) IN
         Reads([reader EXCEPT
             !.tried = @ + 1,
             !.beside = IF Lists(place) /\ Held(place) THEN @ \cup {Node(place)} ELSE @])
Beside ==
    /\ reader.pc = "beside"
    /\ reader.tried < 2 * Neighbours
    /\ LET place == Tried(reader.tried + 1) IN
         Reads([reader EXCEPT
             !.tried = @ + 1,
             !.beside = IF Lists(place) /\ Held(place) THEN @ \cup {Node(place)} ELSE @])

BesideDone ==
    /\ reader.pc = "beside"
    /\ reader.tried = 2 * Neighbours
    /\ Reads([reader EXCEPT !.pc = "back"])

\* belonging_text of _section.
First == Head(reader.run).place
End == Last(reader.run).place
\* Mutant: whatever a chunk begins with, it belongs.
BelongsAnyway(place) == Held(place)
Belongs(place) == IF Held(place) THEN Node(place).lead = reader.hit.lead ELSE FALSE

JoinsBack == First > 0 /\ Belongs(First - 1)
JoinsOn == End + 1 < reader.count /\ Belongs(End + 1)

WalkBack ==
    /\ reader.pc = "back"
    /\ JoinsBack
    /\ Reads([reader EXCEPT !.run = <<Node(First - 1)>> \o @])

StopBack ==
    /\ reader.pc = "back"
    /\ JoinsBack = FALSE
    /\ Reads([reader EXCEPT !.pc = "on"])

\* Mutant: the walk looks at the chunk it is at again.
WalkInPlace ==
    /\ reader.pc = "on"
    /\ JoinsOn
    /\ UNCHANGED vars
WalkOn ==
    /\ reader.pc = "on"
    /\ JoinsOn
    /\ Reads([reader EXCEPT !.run = Append(@, Node(End + 1))])

StopOn ==
    /\ reader.pc = "on"
    /\ JoinsOn = FALSE
    /\ Reads([reader EXCEPT !.pc = "window"])

\* _section_window.
\* Mutant: the window is not moved back from the end of the section.
WindowCut(first, last, position) ==
    LET start == Max({first, position - (Ceiling - 1) \div 2}) IN
    [start |-> start, end |-> Min({last, start + Ceiling - 1})]
Window(first, last, position) ==
    LET start == Max({first, position - (Ceiling - 1) \div 2})
        end   == Min({last, start + Ceiling - 1})
    IN IF last - first + 1 <= Ceiling
       THEN [start |-> first, end |-> last]
       ELSE [start |-> Min({start, end - Ceiling + 1}), end |-> end]

Answer ==
    /\ reader.pc = "window"
    /\ LET window == Window(First, End, reader.hit.place) IN
         Reads([reader EXCEPT
             !.pc = "answered",
             !.size = End - First + 1,
             !.passage = SubSeq(reader.run, window.start - First + 1, window.end - First + 1)])

Finish ==
    /\ reader.pc = "answered"
    /\ Reads(AtRest)

Read ==
    \/ Place \/ Unplaced \/ Beside \/ BesideDone
    \/ WalkBack \/ StopBack \/ WalkOn \/ StopOn \/ Answer \/ Finish

Next ==
    \/ \E leads \in BoundedSeq(Leads, MaxChunks) :
         \/ IngestHere(leads) \/ FailDurably(leads) \/ FailInMemory(leads)
         \/ IngestElsewhere(leads)
    \/ Refresh \/ Restart
    \/ \E place \in Places : Retrieve(place)
    \/ Read

\* Nothing is assumed of writers; a search that has begun is carried on.
Spec == Init /\ [][Next]_vars /\ WF_vars(Read)

-----------------------------------------------------------------------------
(* Properties.                                                             *)

Answered == reader.pc = "answered" /\ reader.placed

\* The section of a chunk by its definition: the longest run around it of chunks
\* that begin alike.
SectionOf(ingestion, place) ==
    {p \in 0..Count(ingestion) - 1 :
        \A q \in Min({p, place})..Max({p, place}) :
            ingestion.leads[q + 1] = ingestion.leads[place + 1]}

\* The windows a bounded section may be cut to, and how far off centre each is.
Cuts(section, place) ==
    {cut \in {first..last : first, last \in section} :
        /\ place \in cut
        /\ Cardinality(cut) = Min({Ceiling, Cardinality(section)})}
OffCentre(cut, place) ==
    LET before == place - Min(cut)
        after  == Max(cut) - place
    IN Max({before - after, after - before})

\* A search of a source that is stored whole and listed as it is stored, with no
\* other instance's commit meanwhile, answers with the hit's section or the most
\* centred part of it that the ceiling allows, with the section's true size, and
\* with every neighbour that was asked for (pipeline.py _section, _adjacency).
Current == store.record = listed /\ store.nodes = listed /\ ~reader.disturbed

AnswerIsThePassage ==
    Answered /\ Current =>
        LET place   == reader.hit.place
            section == SectionOf(store.nodes, place)
            cut     == {chunk.place : chunk \in ToSet(reader.passage)}
        IN /\ reader.size = Cardinality(section)
           /\ cut \in Cuts(section, place)
           /\ \A other \in Cuts(section, place) :
                 OffCentre(cut, place) <= OffCentre(other, place)
           /\ {chunk.place : chunk \in reader.beside} =
                 {p \in 0..Count(listed) - 1 :
                     p # place /\ p \in place - Neighbours..place + Neighbours}

\* Whatever other instances commit between the reads and whatever a failed
\* ingestion left, a passage is a run of consecutive places around the hit as it
\* was retrieved, of chunks that begin as it does, and as long as the ceiling or
\* the section it was cut from (_section_window: "never a window from one end
\* that the hit happens not to fall inside").
PassageHoldsTogether ==
    Answered =>
        LET passage == reader.passage IN
        /\ reader.hit \in ToSet(passage)
        /\ Len(passage) = Min({Ceiling, reader.size})
        /\ \A k \in DOMAIN passage :
              /\ passage[k].place = passage[1].place + k - 1
              /\ passage[k].lead = reader.hit.lead

\* All the texts of one answer are of one ingestion, unless another instance
\* committed during the search: this instance's own ingestions, and those that
\* failed in memory, are never read half done (pipeline.py search: "this reading
\* one ingestion's hits against another's").
AnswersOneIngestion ==
    Answered /\ ~reader.disturbed =>
        \A chunk \in ToSet(reader.passage) \cup reader.beside : chunk.nth = reader.hit.nth

\* A search ends, and with it the lock it holds: the walk is bounded by the count
\* it began with, however often the source is replaced meanwhile.
SearchEnds == (reader.pc # "idle") ~> (reader.pc = "idle")
=============================================================================
