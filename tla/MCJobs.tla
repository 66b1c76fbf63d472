------------------------------- MODULE MCJobs -------------------------------
(* Two instances: a accepts the requests and may stop, b only answers polls. *)
EXTENDS Jobs, TLC

CONSTANTS a, b, r1, r2

OneRequest  == {r1}
TwoRequests == {r1, r2}
OneHome == [r \in {r1} |-> a]
TwoHomes == [r \in {r1, r2} |-> a]
=============================================================================
