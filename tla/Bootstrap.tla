------------------------------ MODULE Bootstrap ------------------------------
(***************************************************************************)
(* The startup corpus, loaded by several instances at once (bootstrap.py): *)
(* each walks the corpus in the same order, takes a claim on a source      *)
(* before reading it, loads it under a heartbeat, or waits for the         *)
(* instance that has it and then asks the index.                           *)
(***************************************************************************)
EXTENDS Claims

CONSTANTS
    Mortal,      \* the instances that may be paused or killed
    Poll,        \* CLAIM_POLL_SECONDS, in ticks
    Interval,    \* the claim heartbeat's interval, in ticks
    Misnamed,    \* entries of knowledge_corpus_file_collections naming no source
    Faults       \* what may go wrong in a behaviour

AllFaults == {"crash", "restart", "pause", "beat", "store", "read"}

ASSUME BootstrapAssumption ==
    /\ Mortal \subseteq Instances
    /\ "nobody" \notin Instances
    /\ Poll \in Nat \ {0}
    /\ Interval \in Nat \ {0}
    /\ Misnamed \cap Sources = {}
    /\ Faults \subseteq AllFaults

VARIABLES
    proc,     \* instance -> "up", "paused" or "down"
    index,    \* source -> what the shared index holds of it
    boot      \* instance -> its knowledge-bootstrap thread

vars == <<claims, proc, index, boot>>

\* How long _hold_claim keeps trying, counted from its own first attempt.
Patience == StaleAfter + Poll

\* The index holds nothing current of a source, or its current content as it
\* was before documents were kept, or all of it.
Contents == {"missing", "bare", "whole"}

PCs == {"idle", "claim", "sleep", "refresh", "check", "loading", "release",
        "late", "ask", "ended", "raised"}

Threads ==
    [pc      : PCs,
     src     : Sources,             \* the source it has come to
     waited  : 0..Patience,     \* ticks since it began to wait for the claim
     nap     : 0..Poll,         \* ticks slept of the present poll
     heart   : 0..Interval,     \* ticks since the beat thread last woke
     beats   : BOOLEAN,         \* the beat thread is alive
     seen    : SUBSET Sources,  \* sources current in this process's snapshot
     failures : SUBSET (Sources \cup Misnamed),
     status  : {"pending", "in_progress", "complete", "failed"}]

Fresh == [pc |-> "idle", src |-> 1, waited |-> 0, nap |-> 0, heart |-> 0,
          beats |-> FALSE, seen |-> {}, failures |-> {}, status |-> "pending"]

Up(i) == proc[i] = "up"
At(i, pc) == Up(i) /\ boot[i].pc = pc
Src(i) == boot[i].src
Current == {s \in Sources : index[s] # "missing"}

TypeOK ==
    /\ ClaimsTypeOK
    /\ proc \in [Instances -> {"up", "paused", "down"}]
    /\ index \in [Sources -> Contents]
    /\ boot \in [Instances -> Threads]

Init ==
    /\ claims = [s \in Sources |-> NoClaim]
    /\ proc = [i \in Instances |-> "up"]
    /\ index \in [Sources -> {"missing", "bare"}]
    /\ boot = [i \in Instances |-> Fresh]

-----------------------------------------------------------------------------
(* The thread, one source after another.                                   *)

Becomes(i, b) == boot' = [boot EXCEPT ![i] = b]

To(b, pc) == [b EXCEPT !.pc = pc]
Goto(i, pc) == Becomes(i, To(boot[i], pc))

\* refresh(): the snapshot is rebuilt from what the store holds.
Snapshot(b, held) == [b EXCEPT !.seen = held]

\* claim_heartbeat: the beat thread is started, and stopped before the release.
Beating(b) == [b EXCEPT !.heart = 0, !.beats = TRUE]
Unbeating(b) == [b EXCEPT !.heart = 0, !.beats = FALSE]

\* _record_failure.
Failed(b) == [b EXCEPT !.failures = b.failures \cup {b.src}]

\* The thread goes on to the next source, or reports how the corpus went.  The
\* misnamed entries are recorded with the verdict that depends on them.
\* Mutant: the walk takes one step more than there are sources.
AdvancedTooFar(b) ==
    IF b.src <= CorpusSize
    THEN [b EXCEPT !.pc = "claim", !.src = b.src + 1, !.waited = 0]
    ELSE [b EXCEPT !.pc = "ended", !.failures = b.failures \cup Misnamed,
                   !.status = IF b.failures \cup Misnamed = {} THEN "complete"
                                                               ELSE "failed"]
Advanced(b) ==
    IF b.src < CorpusSize
    THEN [b EXCEPT !.pc = "claim", !.src = b.src + 1, !.waited = 0]
    ELSE [b EXCEPT !.pc = "ended", !.failures = b.failures \cup Misnamed,
                   !.status = IF b.failures \cup Misnamed = {} THEN "complete"
                                                               ELSE "failed"]

\* main.py starts the thread when the process has loaded its models.
Start(i) ==
    /\ At(i, "idle")
    /\ Becomes(i, [boot[i] EXCEPT !.pc = "claim", !.status = "in_progress"])
    /\ UNCHANGED <<claims, proc, index>>

TakeClaim(i) ==
    /\ At(i, "claim")
    /\ MayTake(Src(i), i)
    /\ Take(Src(i), i)
    /\ Goto(i, "refresh")
    /\ UNCHANGED <<proc, index>>

\* Refused: another try after a poll, until the deadline has passed.
AwaitClaim(i) ==
    /\ At(i, "claim")
    /\ ~MayTake(Src(i), i)
    /\ LET pc == IF boot[i].waited >= Patience THEN "late" ELSE "sleep"
       IN  Becomes(i, [boot[i] EXCEPT !.pc = pc, !.nap = 0])
    /\ UNCHANGED <<claims, proc, index>>

\* Mutant: the deadline is computed inside the loop.
WakeAnew(i) ==
    /\ At(i, "sleep")
    /\ boot[i].nap = Poll
    /\ Becomes(i, [boot[i] EXCEPT !.pc = "claim", !.waited = 0])
    /\ UNCHANGED <<claims, proc, index>>
Wake(i) ==
    /\ At(i, "sleep")
    /\ boot[i].nap = Poll
    /\ Goto(i, "claim")
    /\ UNCHANGED <<claims, proc, index>>

\* pipeline.refresh() under the claim, and the beat thread is started.
RefreshAndBeat(i) ==
    /\ At(i, "refresh")
    /\ Becomes(i, To(Beating(Snapshot(boot[i], Current)), "check"))
    /\ UNCHANGED <<claims, proc, index>>

\* The source's digest is compared with the snapshot, its document asked of the
\* store: a source that has both needs no work.
Check(i) ==
    /\ At(i, "check")
    /\ IF Src(i) \in boot[i].seen /\ index[Src(i)] = "whole"
       THEN Becomes(i, To(Unbeating(boot[i]), "release"))
       ELSE Goto(i, "loading")
    /\ UNCHANGED <<claims, proc, index>>

\* The replacement commits, and the snapshot is rebuilt from the store.
Load(i) ==
    /\ At(i, "loading")
    /\ index' = [index EXCEPT ![Src(i)] = "whole"]
    /\ Becomes(i, To(Unbeating(Snapshot(boot[i], Current \cup {Src(i)})), "release"))
    /\ UNCHANGED <<claims, proc>>

\* Reading, fetching, converting or storing raises; _ingest_one records it.
LoadFails(i) ==
    /\ "read" \in Faults
    /\ At(i, "check") \/ At(i, "loading")
    /\ Becomes(i, To(Unbeating(Failed(boot[i])), "release"))
    /\ UNCHANGED <<claims, proc, index>>

\* The replacement commits and what follows it raises - the snapshot's rebuild, or
\* the commit itself, unheard: a failure over a source the index holds.
LoadUnseen(i) ==
    /\ "read" \in Faults
    /\ At(i, "loading")
    /\ index' = [index EXCEPT ![Src(i)] = "whole"]
    /\ Becomes(i, To(Unbeating(Failed(boot[i])), "release"))
    /\ UNCHANGED <<claims, proc>>

ReleaseClaim(i) ==
    /\ At(i, "release")
    /\ Release(Src(i), i)
    /\ Becomes(i, Advanced(boot[i]))
    /\ UNCHANGED <<proc, index>>

-----------------------------------------------------------------------------
(* The wait has run out: the index is asked, not the holder.               *)

RefreshLate(i) ==
    /\ At(i, "late")
    /\ Becomes(i, To(Snapshot(boot[i], Current), "ask"))
    /\ UNCHANGED <<claims, proc, index>>

\* Mutant: a source that is still missing is reported like one that is there.
SkipAnyway(i) ==
    /\ At(i, "ask")
    /\ Becomes(i, Advanced(boot[i]))
    /\ UNCHANGED <<claims, proc, index>>
AskIndex(i) ==
    /\ At(i, "ask")
    /\ Becomes(i, Advanced(IF Src(i) \in boot[i].seen THEN boot[i] ELSE Failed(boot[i])))
    /\ UNCHANGED <<claims, proc, index>>

-----------------------------------------------------------------------------
(* What is raised outside _ingest_one ends the thread: nothing catches it, *)
(* and the status stays what it was.                                       *)

\* present() reads or fetches the source, and that raises.
AskRaises(i) ==
    /\ "read" \in Faults
    /\ At(i, "ask")
    /\ Goto(i, "raised")
    /\ UNCHANGED <<claims, proc, index>>

\* claim(), refresh() or release() raises.
StoreRaises(i) ==
    /\ "store" \in Faults
    /\ At(i, "claim") \/ At(i, "late") \/ At(i, "release")
    /\ Goto(i, "raised")
    /\ UNCHANGED <<claims, proc, index>>

\* refresh() raises under the claim, which the finally clause then gives up.
RefreshRaises(i) ==
    /\ "store" \in Faults
    /\ At(i, "refresh")
    /\ Release(Src(i), i)
    /\ Goto(i, "raised")
    /\ UNCHANGED <<proc, index>>

-----------------------------------------------------------------------------
(* The beat thread, processes and time.                                    *)

BeatDue(i) == Up(i) /\ boot[i].beats /\ boot[i].heart = Interval

\* Mutant: the beat is the job's, which says nothing of the claim.
BeatWithoutRefresh(i) ==
    /\ BeatDue(i)
    /\ Becomes(i, [boot[i] EXCEPT !.heart = 0])
    /\ UNCHANGED <<claims, proc, index>>
Beat(i) ==
    /\ BeatDue(i)
    /\ Refresh(Src(i), i)
    /\ Becomes(i, [boot[i] EXCEPT !.heart = 0])
    /\ UNCHANGED <<proc, index>>

\* refresh() raises in beat(), which ends the beat thread and nothing else.
BeatRaises(i) ==
    /\ "beat" \in Faults
    /\ BeatDue(i)
    /\ Becomes(i, [boot[i] EXCEPT !.beats = FALSE])
    /\ UNCHANGED <<claims, proc, index>>

Crash(i) ==
    /\ "crash" \in Faults
    /\ i \in Mortal
    /\ proc[i] # "down"
    /\ proc' = [proc EXCEPT ![i] = "down"]
    /\ Becomes(i, [Fresh EXCEPT !.status = boot[i].status])
    /\ UNCHANGED <<claims, index>>

\* A restarted container is the same host and process id, so the same owner.
Restart(i) ==
    /\ "restart" \in Faults
    /\ proc[i] = "down"
    /\ proc' = [proc EXCEPT ![i] = "up"]
    /\ Becomes(i, Fresh)
    /\ UNCHANGED <<claims, index>>

Pause(i) ==
    /\ "pause" \in Faults
    /\ i \in Mortal
    /\ Up(i)
    /\ proc' = [proc EXCEPT ![i] = "paused"]
    /\ UNCHANGED <<claims, index, boot>>

Resume(i) ==
    /\ proc[i] = "paused"
    /\ proc' = [proc EXCEPT ![i] = "up"]
    /\ UNCHANGED <<claims, index, boot>>

\* Steps of a live instance that take far less than a tick: everything but a
\* source's reading, fetching and loading, and the waits.
Prompt ==
    \E i \in Instances :
        \/ \E pc \in {"claim", "refresh", "release", "late"} : At(i, pc)
        \/ At(i, "sleep") /\ boot[i].nap = Poll
        \/ BeatDue(i)

UpTo(n, limit) == IF n < limit THEN n + 1 ELSE n

Tick ==
    /\ ~Prompt
    /\ ClaimsAge
    /\ boot' = [i \in Instances |->
                  [boot[i] EXCEPT
                     !.waited = IF boot[i].pc = "sleep" THEN UpTo(@, Patience) ELSE @,
                     !.nap    = IF boot[i].pc = "sleep" THEN UpTo(@, Poll) ELSE @,
                     !.heart  = IF boot[i].beats THEN UpTo(@, Interval) ELSE @]]
    /\ UNCHANGED <<proc, index>>

Step(i) ==
    \/ Start(i) \/ TakeClaim(i) \/ AwaitClaim(i) \/ Wake(i) \/ RefreshAndBeat(i)
    \/ Check(i) \/ ReleaseClaim(i) \/ RefreshLate(i) \/ AskIndex(i) \/ Beat(i)

Next ==
    \/ \E i \in Instances :
         \/ Start(i) \/ TakeClaim(i) \/ AwaitClaim(i) \/ Wake(i) \/ RefreshAndBeat(i)
         \/ Check(i) \/ Load(i) \/ LoadFails(i) \/ LoadUnseen(i) \/ ReleaseClaim(i)
         \/ RefreshLate(i) \/ AskIndex(i)
         \/ AskRaises(i) \/ StoreRaises(i) \/ RefreshRaises(i)
         \/ Beat(i) \/ BeatRaises(i)
         \/ Crash(i) \/ Restart(i) \/ Pause(i) \/ Resume(i)
    \/ Tick

Spec == Init /\ [][Next]_vars

\* A live thread is scheduled, and time passes even if instances crash and
\* restart for ever.  Nothing says a load ever ends: a stuck holder is what a
\* waiting instance has to survive.
FairSpec ==
    /\ Spec
    /\ \A i \in Instances : WF_vars(Step(i))
    /\ SF_vars(Tick)

-----------------------------------------------------------------------------
(* Properties.                                                             *)

\* An instance between taking a source's claim and releasing it.
Loads(i, s) ==
    Up(i) /\ Src(i) = s /\ boot[i].pc \in {"refresh", "check", "loading"}

\* A source is loaded by one instance at a time, however long it takes to
\* load and whichever instances stop (README, "Replicas therefore do one
\* instance's worth of startup work between them").
OneLoader ==
    \A s \in Sources, i, k \in Instances : Loads(i, s) /\ Loads(k, s) => i = k

\* An instance reports complete only of a corpus the index holds, whoever
\* loaded it (README, "never complete for a corpus nobody has loaded").
CompleteIsTrue ==
    \A i \in Instances : boot[i].status = "complete" => Current = Sources

\* A claim leaves its holder only by the holder's own step or once it is
\* stale, and is kept young by nobody else: a superseded holder that wakes up
\* neither deletes nor refreshes its successor's claim (claims.py release).
ClaimMovesWithItsOwner ==
    [][\A s \in Sources :
         LET k == claims[s].owner IN
           /\ Held(s)
           /\ ~Stale(s)
           /\ claims'[s].owner # k \/ claims'[s].age < claims[s].age
           => boot'[k] # boot[k]]_vars

\* A deferring instance does not wait for ever, even on a holder whose beat
\* thread lives and whose load never returns (bootstrap.py _hold_claim).
WaitEnds ==
    \A i \in Instances :
        boot[i].pc = "sleep" ~> (boot[i].pc \notin {"sleep", "claim"} \/ ~Up(i))

-----------------------------------------------------------------------------
(* Statements of the repository that the code does not keep.               *)

\* README, "The startup corpus, across several instances": a dead instance's
\* claim "is taken over once it goes stale, so a dead instance's source is
\* loaded by a surviving one rather than left out of the index".
DeadHolderIsReplaced ==
    \A i \in Instances : Up(i) /\ boot[i].pc = "ended" =>
        \A s \in Sources :
            s \in Current \/ \E k \in Instances : Up(k) /\ HeldBy(s, k)
=============================================================================
