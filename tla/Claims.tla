------------------------------- MODULE Claims -------------------------------
(***************************************************************************)
(* Claims on corpus sources (claims.py, PostgresClaimStore): one row per   *)
(* claimed source, naming the instance that loads it.  Each operation is   *)
(* one statement under the row's lock, hence one conjunct of one step.     *)
(* A row holds the ticks since its claimed_at, which is all that is read   *)
(* of it; ages saturate past the threshold.                                *)
(***************************************************************************)
EXTENDS Integers

CONSTANTS
    Instances,   \* processes sharing the collection
    CorpusSize,  \* sources of the configured corpus, walked in a stable order
    StaleAfter   \* job_orphan_threshold_seconds, in ticks

ASSUME ClaimsAssumption ==
    /\ CorpusSize \in Nat \ {0}
    /\ StaleAfter \in Nat \ {0}

Sources == 1..CorpusSize

VARIABLE claims  \* source -> the row naming its holder, if there is one

MaxAge == StaleAfter + 1
Older(age) == IF age < MaxAge THEN age + 1 ELSE age

Claim(i, age) == [owner |-> i, age |-> age]
NoClaim == [owner |-> "nobody", age |-> 0]
Rows == {NoClaim} \cup [owner : Instances, age : 0..MaxAge]

ClaimsTypeOK == claims \in [Sources -> Rows]

Held(s) == claims[s] # NoClaim
HeldBy(s, i) == Held(s) /\ claims[s].owner = i
Stale(s) == claims[s].age > StaleAfter

\* What the upsert's condition lets through.
MayTake(s, i) == ~Held(s) \/ claims[s].owner = i \/ Stale(s)

Take(s, i) == claims' = [claims EXCEPT ![s] = Claim(i, 0)]

\* refresh(): writes nothing once the claim has moved to another instance.
Refresh(s, i) ==
    claims' = IF HeldBy(s, i) THEN [claims EXCEPT ![s] = Claim(i, 0)] ELSE claims

\* release(): deletes nothing that is another instance's.
\* Mutant: the owner is not part of the delete's condition.
ReleaseAny(s, i) == claims' = [claims EXCEPT ![s] = NoClaim]
Release(s, i) ==
    claims' = IF HeldBy(s, i) THEN [claims EXCEPT ![s] = NoClaim] ELSE claims

ClaimsAge ==
    claims' = [s \in Sources |-> IF Held(s) THEN [claims[s] EXCEPT !.age = Older(@)]
                                            ELSE claims[s]]
=============================================================================
