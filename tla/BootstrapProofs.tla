-------------------------- MODULE BootstrapProofs --------------------------
(***************************************************************************)
(* What Bootstrap keeps for every number of instances, every corpus, every *)
(* threshold, poll and interval.                                           *)
(***************************************************************************)
EXTENDS Bootstrap, TLAPS

LEMMA ConstantTypes ==
    /\ CorpusSize \in Nat \ {0} /\ StaleAfter \in Nat \ {0}
    /\ Poll \in Nat \ {0} /\ Interval \in Nat \ {0}
    /\ MaxAge \in Nat /\ MaxAge = StaleAfter + 1
    /\ Patience \in Nat /\ Patience = StaleAfter + Poll
    /\ 1 \in Sources
BY ClaimsAssumption, BootstrapAssumption DEF MaxAge, Patience, Sources

LEMMA ZeroTypes == 0 \in 0..Patience /\ 0 \in 0..Poll /\ 0 \in 0..Interval
BY ConstantTypes

LEMMA PCTypes ==
    {"idle", "claim", "sleep", "refresh", "check", "loading", "release",
     "late", "ask", "ended", "raised"} \subseteq PCs
BY DEF PCs

-----------------------------------------------------------------------------
(* What each of the thread's operations makes of its record.               *)

\* The fields of a thread that no operation named in the lemma changes.
SameWalk(b, c) ==
    c.src = b.src /\ c.failures = b.failures /\ c.status = b.status

LEMMA ToFacts ==
    \A b \in Threads, pc \in PCs :
        /\ To(b, pc) \in Threads
        /\ To(b, pc).pc = pc
        /\ SameWalk(b, To(b, pc))
        /\ To(b, pc).seen = b.seen
        /\ To(b, pc).heart = b.heart
        /\ To(b, pc).beats = b.beats
BY DEF To, Threads, SameWalk

LEMMA SnapshotFacts ==
    \A b \in Threads, held \in SUBSET Sources :
        /\ Snapshot(b, held) \in Threads
        /\ SameWalk(b, Snapshot(b, held))
        /\ Snapshot(b, held).seen = held
        /\ Snapshot(b, held).heart = b.heart
        /\ Snapshot(b, held).beats = b.beats
BY DEF Snapshot, Threads, SameWalk

LEMMA BeatingFacts ==
    \A b \in Threads :
        /\ Beating(b) \in Threads
        /\ SameWalk(b, Beating(b))
        /\ Beating(b).seen = b.seen
        /\ Beating(b).heart = 0 /\ Beating(b).beats
BY ZeroTypes DEF Beating, Threads, SameWalk

LEMMA UnbeatingFacts ==
    \A b \in Threads :
        /\ Unbeating(b) \in Threads
        /\ SameWalk(b, Unbeating(b))
        /\ Unbeating(b).seen = b.seen
BY ZeroTypes DEF Unbeating, Threads, SameWalk

\* Leaving for the release: the beat is stopped and nothing else is touched.
LEMMA LeavingFacts ==
    \A b \in Threads :
        /\ To(Unbeating(b), "release") \in Threads
        /\ SameWalk(b, To(Unbeating(b), "release"))
        /\ To(Unbeating(b), "release").seen = b.seen
<1> TAKE b \in Threads
<1>1. Unbeating(b) \in Threads /\ SameWalk(b, Unbeating(b)) /\ Unbeating(b).seen = b.seen
  BY UnbeatingFacts
<1>2. /\ To(Unbeating(b), "release") \in Threads
      /\ SameWalk(Unbeating(b), To(Unbeating(b), "release"))
      /\ To(Unbeating(b), "release").seen = Unbeating(b).seen
  BY <1>1, ToFacts, PCTypes
<1> QED BY <1>1, <1>2 DEF SameWalk

LEMMA FailedFacts ==
    \A b \in Threads :
        /\ Failed(b) \in Threads
        /\ Failed(b).failures = b.failures \cup {b.src}
        /\ Failed(b).src = b.src
        /\ Failed(b).seen = b.seen
        /\ Failed(b).status = b.status
BY DEF Failed, Threads

LEMMA AdvancedFacts ==
    \A b \in Threads :
        /\ Advanced(b) \in Threads
        /\ Advanced(b).seen = b.seen
        /\ \/ /\ b.src < CorpusSize
              /\ Advanced(b).pc = "claim"
              /\ Advanced(b).src = b.src + 1
              /\ Advanced(b).failures = b.failures
              /\ Advanced(b).status = b.status
           \/ /\ b.src = CorpusSize
              /\ Advanced(b).pc = "ended"
              /\ Advanced(b).src = b.src
              /\ Advanced(b).failures = b.failures \cup Misnamed
              /\ Advanced(b).status = "complete" => b.failures = {}
              /\ Advanced(b).status = "complete" \/ Advanced(b).status = "failed"
<1> TAKE b \in Threads
<1>0. b.src \in 1..CorpusSize /\ b.failures \in SUBSET (Sources \cup Misnamed)
  BY DEF Threads, Sources
<1>1. CASE b.src < CorpusSize
  <2>1. b.src + 1 \in Sources /\ "claim" \in PCs /\ 0 \in 0..Patience
    BY <1>0, <1>1, ConstantTypes, PCTypes DEF Sources
  <2>2. Advanced(b) = [b EXCEPT !.pc = "claim", !.src = b.src + 1, !.waited = 0]
    BY <1>1 DEF Advanced
  <2>3. [b EXCEPT !.pc = "claim", !.src = b.src + 1, !.waited = 0] \in Threads
    BY <2>1 DEF Threads
  <2> QED BY <1>1, <2>2, <2>3 DEF Threads
<1>2. CASE ~(b.src < CorpusSize)
  <2> DEFINE status == IF b.failures \cup Misnamed = {} THEN "complete" ELSE "failed"
  <2>1. "ended" \in PCs /\ b.src = CorpusSize
    BY <1>0, <1>2, ConstantTypes, PCTypes
  <2>2. Advanced(b) = [b EXCEPT !.pc = "ended", !.failures = b.failures \cup Misnamed,
                                !.status = status]
    BY <1>2 DEF Advanced
  <2>3. [b EXCEPT !.pc = "ended", !.failures = b.failures \cup Misnamed,
                  !.status = status] \in Threads
    BY <1>0, <2>1 DEF Threads
  <2> QED BY <2>1, <2>2, <2>3 DEF Threads
<1> QED BY <1>1, <1>2

\* A tick.
LEMMA OlderTypes ==
    \A b \in Threads :
        [b EXCEPT !.waited = IF b.pc = "sleep" THEN UpTo(b.waited, Patience) ELSE b.waited,
                  !.nap    = IF b.pc = "sleep" THEN UpTo(b.nap, Poll) ELSE b.nap,
                  !.heart  = IF b.beats THEN UpTo(b.heart, Interval) ELSE b.heart] \in Threads
<1>1. \A limit \in Nat : \A n \in 0..limit : UpTo(n, limit) \in 0..limit
  BY DEF UpTo
<1>2. Patience \in Nat /\ Poll \in Nat /\ Interval \in Nat
  BY ConstantTypes
<1>3. \A b \in Threads, waited \in 0..Patience, nap \in 0..Poll, heart \in 0..Interval :
        [b EXCEPT !.waited = waited, !.nap = nap, !.heart = heart] \in Threads
  BY DEF Threads
<1>4. ASSUME NEW b \in Threads
      PROVE  /\ UpTo(b.waited, Patience) \in 0..Patience /\ b.waited \in 0..Patience
             /\ UpTo(b.nap, Poll) \in 0..Poll /\ b.nap \in 0..Poll
             /\ UpTo(b.heart, Interval) \in 0..Interval /\ b.heart \in 0..Interval
  <2>1. b.waited \in 0..Patience /\ b.nap \in 0..Poll /\ b.heart \in 0..Interval
    BY DEF Threads
  <2> QED BY <1>1, <1>2, <2>1
<1> QED BY <1>3, <1>4

-----------------------------------------------------------------------------
(* The state stays within its types.                                       *)

LEMMA FreshTypes ==
    /\ Fresh \in Threads
    /\ \A status \in {"pending", "in_progress", "complete", "failed"} :
         [Fresh EXCEPT !.status = status] \in Threads
<1>1. 1 \in Sources /\ "idle" \in PCs /\ {} \in SUBSET Sources
      /\ {} \in SUBSET (Sources \cup Misnamed)
  BY ConstantTypes, PCTypes
<1>2. Fresh \in Threads
  BY <1>1, ZeroTypes DEF Fresh, Threads
<1>3. \A status \in {"pending", "in_progress", "complete", "failed"} :
        [Fresh EXCEPT !.status = status] \in Threads
  BY <1>2 DEF Threads
<1> QED BY <1>2, <1>3

LEMMA ClaimTypes ==
    /\ NoClaim \in Rows
    /\ \A i \in Instances : Claim(i, 0) \in Rows
    /\ \A row \in Rows : row # NoClaim => [row EXCEPT !.age = Older(row.age)] \in Rows
BY ConstantTypes DEF NoClaim, Claim, Rows, Older

LEMMA ClaimsKeepTypes ==
    ASSUME TypeOK, NEW s \in Sources, NEW i \in Instances
    PROVE  /\ Take(s, i) => ClaimsTypeOK'
           /\ Refresh(s, i) => ClaimsTypeOK'
           /\ Release(s, i) => ClaimsTypeOK'
BY ClaimTypes DEF TypeOK, ClaimsTypeOK, Take, Refresh, Release

LEMMA BecomesKeepsTypes ==
    ASSUME TypeOK, NEW i \in Instances, NEW b \in Threads, Becomes(i, b)
    PROVE  boot' \in [Instances -> Threads]
BY DEF TypeOK, Becomes

LEMMA InitTyped == Init => TypeOK
BY FreshTypes, ClaimTypes DEF Init, TypeOK, ClaimsTypeOK, Contents

LEMMA TypedStep == TypeOK /\ [Next]_vars => TypeOK'
<1> SUFFICES ASSUME TypeOK, [Next]_vars PROVE TypeOK'
  OBVIOUS
<1>0. /\ \A i \in Instances : boot[i] \in Threads /\ Src(i) \in Sources
      /\ Current \in SUBSET Sources
  BY DEF TypeOK, Src, Threads, Current
<1>1. ASSUME NEW i \in Instances, Start(i) PROVE TypeOK'
  <2>1. [boot[i] EXCEPT !.pc = "claim", !.status = "in_progress"] \in Threads
    BY <1>0, PCTypes DEF Threads
  <2> QED BY <1>1, <2>1, BecomesKeepsTypes DEF Start, TypeOK, ClaimsTypeOK
<1>2. ASSUME NEW i \in Instances, TakeClaim(i) PROVE TypeOK'
  BY <1>0, <1>2, ToFacts, PCTypes, ClaimsKeepTypes, BecomesKeepsTypes
     DEF TakeClaim, Goto, TypeOK
<1>3. ASSUME NEW i \in Instances, AwaitClaim(i) PROVE TypeOK'
  <2>1. \A pc \in {"late", "sleep"} : [boot[i] EXCEPT !.pc = pc, !.nap = 0] \in Threads
    BY <1>0, PCTypes, ZeroTypes DEF Threads
  <2> QED BY <1>3, <2>1, BecomesKeepsTypes DEF AwaitClaim, TypeOK, ClaimsTypeOK
<1>4. ASSUME NEW i \in Instances, Wake(i) PROVE TypeOK'
  BY <1>0, <1>4, ToFacts, PCTypes, BecomesKeepsTypes DEF Wake, Goto, TypeOK, ClaimsTypeOK
<1>5. ASSUME NEW i \in Instances, RefreshAndBeat(i) PROVE TypeOK'
  <2>1. To(Beating(Snapshot(boot[i], Current)), "check") \in Threads
    BY <1>0, ToFacts, BeatingFacts, SnapshotFacts, PCTypes
  <2> QED BY <1>5, <2>1, BecomesKeepsTypes DEF RefreshAndBeat, TypeOK, ClaimsTypeOK
<1>6. ASSUME NEW i \in Instances, Check(i) PROVE TypeOK'
  <2>1. To(Unbeating(boot[i]), "release") \in Threads /\ To(boot[i], "loading") \in Threads
    BY <1>0, ToFacts, UnbeatingFacts, PCTypes
  <2> QED BY <1>6, <2>1, BecomesKeepsTypes DEF Check, Goto, TypeOK, ClaimsTypeOK
<1>7. ASSUME NEW i \in Instances, Load(i) PROVE TypeOK'
  <2>1. To(Unbeating(Snapshot(boot[i], Current \cup {Src(i)})), "release") \in Threads
    <3>1. Current \cup {Src(i)} \in SUBSET Sources
      BY <1>0
    <3> QED BY <1>0, <3>1, ToFacts, UnbeatingFacts, SnapshotFacts, PCTypes
  <2> QED BY <1>7, <2>1, BecomesKeepsTypes DEF Load, TypeOK, ClaimsTypeOK, Contents
<1>8. ASSUME NEW i \in Instances, LoadFails(i) \/ LoadUnseen(i) PROVE TypeOK'
  <2>1. To(Unbeating(Failed(boot[i])), "release") \in Threads
    BY <1>0, ToFacts, UnbeatingFacts, FailedFacts, PCTypes
  <2>2. index' \in [Sources -> Contents] /\ proc' = proc /\ claims' = claims
    BY <1>8 DEF LoadFails, LoadUnseen, TypeOK, Contents
  <2>3. Becomes(i, To(Unbeating(Failed(boot[i])), "release"))
    BY <1>8 DEF LoadFails, LoadUnseen
  <2> QED BY <2>1, <2>2, <2>3, BecomesKeepsTypes DEF TypeOK, ClaimsTypeOK
<1>9. ASSUME NEW i \in Instances, ReleaseClaim(i) PROVE TypeOK'
  BY <1>0, <1>9, AdvancedFacts, ClaimsKeepTypes, BecomesKeepsTypes DEF ReleaseClaim, TypeOK
<1>10. ASSUME NEW i \in Instances, RefreshLate(i) PROVE TypeOK'
  <2>1. To(Snapshot(boot[i], Current), "ask") \in Threads
    BY <1>0, ToFacts, SnapshotFacts, PCTypes
  <2> QED BY <1>10, <2>1, BecomesKeepsTypes DEF RefreshLate, TypeOK, ClaimsTypeOK
<1>11. ASSUME NEW i \in Instances, AskIndex(i) PROVE TypeOK'
  <2>1. Advanced(boot[i]) \in Threads /\ Advanced(Failed(boot[i])) \in Threads
    BY <1>0, AdvancedFacts, FailedFacts
  <2> QED BY <1>11, <2>1, BecomesKeepsTypes DEF AskIndex, TypeOK, ClaimsTypeOK
<1>12. ASSUME NEW i \in Instances, AskRaises(i) \/ StoreRaises(i) PROVE TypeOK'
  BY <1>0, <1>12, ToFacts, PCTypes, BecomesKeepsTypes
     DEF AskRaises, StoreRaises, Goto, TypeOK, ClaimsTypeOK
<1>13. ASSUME NEW i \in Instances, RefreshRaises(i) PROVE TypeOK'
  BY <1>0, <1>13, ToFacts, PCTypes, ClaimsKeepTypes, BecomesKeepsTypes
     DEF RefreshRaises, Goto, TypeOK
<1>14. ASSUME NEW i \in Instances, Beat(i) \/ BeatRaises(i) PROVE TypeOK'
  <2>1. /\ [boot[i] EXCEPT !.heart = 0] \in Threads
        /\ [boot[i] EXCEPT !.beats = FALSE] \in Threads
    BY <1>0, ZeroTypes DEF Threads
  <2>2. CASE Beat(i)
    BY <1>0, <2>1, <2>2, ClaimsKeepTypes, BecomesKeepsTypes DEF Beat, TypeOK
  <2>3. CASE BeatRaises(i)
    BY <2>1, <2>3, BecomesKeepsTypes DEF BeatRaises, TypeOK, ClaimsTypeOK
  <2> QED BY <1>14, <2>2, <2>3
<1>15. ASSUME NEW i \in Instances, Crash(i) \/ Restart(i) PROVE TypeOK'
  <2>1. boot[i].status \in {"pending", "in_progress", "complete", "failed"}
    BY <1>0 DEF Threads
  <2> QED BY <1>15, <2>1, FreshTypes, BecomesKeepsTypes DEF Crash, Restart, TypeOK, ClaimsTypeOK
<1>16. ASSUME NEW i \in Instances, Pause(i) \/ Resume(i) PROVE TypeOK'
  BY <1>16 DEF Pause, Resume, TypeOK, ClaimsTypeOK
<1>17. CASE Tick
  <2>1. ClaimsTypeOK'
    BY <1>17, ClaimTypes DEF Tick, ClaimsAge, Held, TypeOK, ClaimsTypeOK
  <2>2. boot' \in [Instances -> Threads]
    BY <1>0, <1>17, OlderTypes DEF Tick
  <2> QED BY <1>17, <2>1, <2>2 DEF Tick, TypeOK
<1>18. CASE UNCHANGED vars
  BY <1>18 DEF vars, TypeOK, ClaimsTypeOK
<1> QED
  BY <1>1, <1>2, <1>3, <1>4, <1>5, <1>6, <1>7, <1>8, <1>9, <1>10, <1>11, <1>12,
     <1>13, <1>14, <1>15, <1>16, <1>17, <1>18 DEF Next

\* Every reachable state is well typed, whatever the constants: in particular a
\* thread never walks past the end of its corpus.
THEOREM TypeCorrect == Spec => []TypeOK
BY InitTyped, TypedStep, PTL DEF Spec

-----------------------------------------------------------------------------
(* A complete report is true.                                              *)

\* Every source the walk has passed is in the index or among the failures, and
\* the snapshot a thread compares with holds nothing the index does not.
Passed(b, s) == s < b.src \/ (s = b.src /\ b.pc = "release")
Accounted(b, held) ==
    /\ b.seen \subseteq held
    /\ \A s \in Sources : Passed(b, s) => s \in held \cup b.failures

Walks ==
    /\ \A i \in Instances : Accounted(boot[i], Current)
    /\ CompleteIsTrue

Inv == TypeOK /\ Walks

LEMMA InitWalks == Init => Walks
<1> SUFFICES ASSUME Init PROVE Walks
  OBVIOUS
<1>1. \A s \in Sources : ~(s < 1)
  BY ConstantTypes DEF Sources
<1> QED BY <1>1 DEF Init, Walks, Accounted, Passed, CompleteIsTrue, Fresh

\* The index forgets nothing.
LEMMA IndexGrows ==
    ASSUME TypeOK, [Next]_vars
    PROVE  Current \subseteq Current'
<1>1. ASSUME NEW i \in Instances, Load(i) \/ LoadUnseen(i) PROVE Current \subseteq Current'
  BY <1>1 DEF Load, LoadUnseen, Current, TypeOK
<1>2. UNCHANGED index => Current \subseteq Current'
  BY DEF Current
<1> QED
  BY <1>1, <1>2, Zenon DEF Next, vars, Start, TakeClaim, AwaitClaim, Wake, RefreshAndBeat, Check,
     LoadFails, ReleaseClaim, RefreshLate, AskIndex, AskRaises, StoreRaises, RefreshRaises,
     Beat, BeatRaises, Crash, Restart, Pause, Resume, Tick

\* A step that leaves one thread with a record that accounts for the sources it
\* has passed, and with a verdict that is true, preserves the invariant.
LEMMA OneThreadWalks ==
    ASSUME Inv, [Next]_vars, NEW i \in Instances, NEW b \in Threads, Becomes(i, b),
           Accounted(b, Current'), b.status = "complete" => Current' = Sources
    PROVE  Walks'
<1>1. Current \subseteq Current' /\ Current' \subseteq Sources
  BY IndexGrows DEF Inv, Current
<1>2. \A k \in Instances : boot'[k] = IF k = i THEN b ELSE boot[k]
  BY DEF Becomes, Inv, TypeOK
<1>3. \A k \in Instances : Accounted(boot'[k], Current')
  BY <1>1, <1>2 DEF Inv, Walks, Accounted
<1>4. \A k \in Instances : boot'[k].status = "complete" => Current' = Sources
  BY <1>1, <1>2 DEF Inv, Walks, CompleteIsTrue
<1> QED BY <1>3, <1>4 DEF Walks, CompleteIsTrue

\* Moving to a place that passes nothing new, with a sound snapshot.
LEMMA StaysAccounted ==
    ASSUME NEW b \in Threads, NEW c \in Threads, NEW held, NEW heldNow,
           Accounted(b, held), held \subseteq heldNow,
           SameWalk(b, c), c.seen \subseteq heldNow, c.pc # "release" \/ b.pc = "release"
    PROVE  Accounted(c, heldNow)
BY DEF Accounted, Passed, SameWalk

\* Reaching the release with the source in the index, or among the failures.
LEMMA ReachesRelease ==
    ASSUME NEW b \in Threads, NEW c \in Threads, NEW held, NEW heldNow,
           Accounted(b, held), held \subseteq heldNow,
           c.src = b.src, b.failures \subseteq c.failures, c.seen \subseteq heldNow,
           b.src \in heldNow \cup c.failures
    PROVE  Accounted(c, heldNow)
BY DEF Accounted, Passed

\* Going on once the source is accounted for.
LEMMA AdvancedAccounted ==
    ASSUME NEW b \in Threads, NEW held \in SUBSET Sources,
           Accounted(b, held), b.src \in held \cup b.failures
    PROVE  /\ Accounted(Advanced(b), held)
           /\ \/ Advanced(b).status = b.status
              \/ Advanced(b).status = "complete" => held = Sources
<1>0. b.src \in 1..CorpusSize /\ CorpusSize \in Nat /\ Sources = 1..CorpusSize
  BY ConstantTypes DEF Threads, Sources
<1>1. CASE b.src < CorpusSize
  <2>1. /\ Advanced(b).pc = "claim" /\ Advanced(b).src = b.src + 1
        /\ Advanced(b).failures = b.failures /\ Advanced(b).status = b.status
        /\ Advanced(b).seen = b.seen
    BY <1>0, <1>1, AdvancedFacts
  <2>2. \A s \in Sources : s < b.src + 1 => s < b.src \/ s = b.src
    BY <1>0
  <2> QED BY <2>1, <2>2 DEF Accounted, Passed
<1>2. CASE b.src = CorpusSize
  <2>1. /\ Advanced(b).pc = "ended" /\ Advanced(b).src = b.src
        /\ Advanced(b).failures = b.failures \cup Misnamed
        /\ Advanced(b).status = "complete" => b.failures = {}
        /\ Advanced(b).seen = b.seen
    BY <1>0, <1>2, AdvancedFacts
  <2>2. Accounted(Advanced(b), held)
    BY <2>1 DEF Accounted, Passed
  <2>3. \A s \in Sources : s < b.src \/ s = b.src
    BY <1>0, <1>2
  <2>4. b.failures = {} => held = Sources
    BY <2>3 DEF Accounted, Passed
  <2> QED BY <2>1, <2>2, <2>4
<1> QED BY <1>0, <1>1, <1>2

LEMMA WalksStep == Inv /\ [Next]_vars => Walks'
<1> SUFFICES ASSUME Inv, [Next]_vars PROVE Walks'
  OBVIOUS
<1>0. /\ \A i \in Instances : /\ boot[i] \in Threads /\ Src(i) \in Sources
                              /\ Accounted(boot[i], Current)
                              /\ boot[i].status = "complete" => Current = Sources
                              /\ boot[i].seen \subseteq Current
      /\ Current \in SUBSET Sources
      /\ UNCHANGED index => Current' = Current
      /\ TypeOK
  BY DEF Inv, Walks, Accounted, CompleteIsTrue, TypeOK, Src, Threads, Current
<1>1. ASSUME NEW i \in Instances, Start(i) PROVE Walks'
  <2> DEFINE b == [boot[i] EXCEPT !.pc = "claim", !.status = "in_progress"]
  <2>1. b \in Threads
    BY <1>0, PCTypes DEF Threads
  <2>2. /\ b.pc = "claim" /\ b.src = boot[i].src /\ b.failures = boot[i].failures
        /\ b.seen = boot[i].seen /\ b.status = "in_progress"
    BY <1>0 DEF Threads
  <2>3. Becomes(i, b) /\ Current' = Current
    BY <1>0, <1>1 DEF Start
  <2> HIDE DEF b
  <2>4. Accounted(b, Current')
    BY <1>0, <2>2, <2>3 DEF Accounted, Passed
  <2> QED BY <2>1, <2>2, <2>3, <2>4, OneThreadWalks
\* A step of thread i to a place of the same walk, index and snapshot.
<1>2. ASSUME NEW i \in Instances, NEW pc \in PCs \ {"release"}, Goto(i, pc), UNCHANGED index
      PROVE  Walks'
  <2> DEFINE b == To(boot[i], pc)
  <2>1. b \in Threads /\ SameWalk(boot[i], b) /\ b.seen = boot[i].seen /\ b.pc = pc
    BY <1>0, <1>2, ToFacts
  <2>2. Becomes(i, b) /\ Current' = Current
    BY <1>0, <1>2 DEF Goto
  <2> HIDE DEF b
  <2>3. Accounted(b, Current') /\ b.status = boot[i].status
    BY <1>0, <1>2, <2>1, <2>2, StaysAccounted DEF SameWalk
  <2> QED BY <1>0, <2>1, <2>2, <2>3, OneThreadWalks
<1>3. ASSUME NEW i \in Instances,
             TakeClaim(i) \/ Wake(i) \/ AskRaises(i) \/ StoreRaises(i) \/ RefreshRaises(i)
      PROVE  Walks'
  BY <1>2, <1>3, PCTypes DEF TakeClaim, Wake, AskRaises, StoreRaises, RefreshRaises
<1>4. ASSUME NEW i \in Instances, AwaitClaim(i) PROVE Walks'
  <2> PICK pc \in {"late", "sleep"} : Becomes(i, [boot[i] EXCEPT !.pc = pc, !.nap = 0])
    BY <1>4 DEF AwaitClaim
  <2> DEFINE b == [boot[i] EXCEPT !.pc = pc, !.nap = 0]
  <2>1. /\ b \in Threads /\ SameWalk(boot[i], b) /\ b.seen = boot[i].seen
        /\ b.pc = pc /\ b.status = boot[i].status
    BY <1>0, PCTypes, ZeroTypes DEF Threads, SameWalk
  <2>2. Becomes(i, b) /\ Current' = Current
    BY <1>0, <1>4 DEF AwaitClaim
  <2> HIDE DEF b
  <2>3. Accounted(b, Current')
    BY <1>0, <2>1, <2>2, StaysAccounted
  <2> QED BY <1>0, <2>1, <2>2, <2>3, OneThreadWalks
<1>5. ASSUME NEW i \in Instances, RefreshAndBeat(i) PROVE Walks'
  <2> DEFINE b == To(Beating(Snapshot(boot[i], Current)), "check")
  <2>1. b \in Threads /\ SameWalk(boot[i], b) /\ b.seen = Current /\ b.pc = "check"
    <3> DEFINE c == Snapshot(boot[i], Current)
    <3>1. c \in Threads /\ SameWalk(boot[i], c) /\ c.seen = Current
      BY <1>0, SnapshotFacts
    <3> HIDE DEF c
    <3>2. Beating(c) \in Threads /\ SameWalk(c, Beating(c)) /\ Beating(c).seen = c.seen
      BY <3>1, BeatingFacts
    <3>3. /\ To(Beating(c), "check") \in Threads
          /\ SameWalk(Beating(c), To(Beating(c), "check"))
          /\ To(Beating(c), "check").seen = Beating(c).seen
          /\ To(Beating(c), "check").pc = "check"
      BY <3>2, ToFacts, PCTypes
    <3> QED BY <3>1, <3>2, <3>3 DEF SameWalk, c
  <2>2. Becomes(i, b) /\ Current' = Current
    BY <1>0, <1>5 DEF RefreshAndBeat
  <2> HIDE DEF b
  <2>3. Accounted(b, Current') /\ b.status = boot[i].status
    BY <1>0, <2>1, <2>2, StaysAccounted DEF SameWalk
  <2> QED BY <1>0, <2>1, <2>2, <2>3, OneThreadWalks
<1>6. ASSUME NEW i \in Instances, Check(i) PROVE Walks'
  <2>1. CASE Src(i) \in boot[i].seen /\ index[Src(i)] = "whole"
    <3> DEFINE b == To(Unbeating(boot[i]), "release")
    <3>1. b \in Threads /\ SameWalk(boot[i], b) /\ b.seen = boot[i].seen
      BY <1>0, LeavingFacts
    <3>2. Becomes(i, b) /\ Current' = Current
      BY <1>0, <1>6, <2>1 DEF Check
    <3> HIDE DEF b
    <3>3. Accounted(b, Current') /\ b.status = boot[i].status
      BY <1>0, <2>1, <3>1, <3>2, ReachesRelease DEF SameWalk, Src
    <3> QED BY <1>0, <3>1, <3>2, <3>3, OneThreadWalks
  <2>2. CASE ~(Src(i) \in boot[i].seen /\ index[Src(i)] = "whole")
    BY <1>2, <1>6, <2>2, PCTypes DEF Check
  <2> QED BY <2>1, <2>2
<1>7. ASSUME NEW i \in Instances, Load(i) PROVE Walks'
  <2> DEFINE held == Current \cup {Src(i)}
             b == To(Unbeating(Snapshot(boot[i], held)), "release")
  <2>1. b \in Threads /\ SameWalk(boot[i], b) /\ b.seen = held
    <3>1. held \in SUBSET Sources
      BY <1>0
    <3> DEFINE c == Snapshot(boot[i], held)
    <3> HIDE DEF held
    <3>2. c \in Threads /\ SameWalk(boot[i], c) /\ c.seen = held
      BY <1>0, <3>1, SnapshotFacts
    <3> HIDE DEF c
    <3>3. LET d == To(Unbeating(c), "release")
          IN  d \in Threads /\ SameWalk(c, d) /\ d.seen = c.seen
      BY <3>2, LeavingFacts
    <3> QED BY <3>2, <3>3 DEF SameWalk, c
  <2>2. Becomes(i, b) /\ Current' = held
    BY <1>0, <1>7 DEF Load, Current, TypeOK
  <2>3. Current \subseteq held /\ Src(i) \in held
    OBVIOUS
  <2> HIDE DEF b, held
  <2>4. Accounted(b, Current') /\ b.status = boot[i].status
    BY <1>0, <2>1, <2>2, <2>3, ReachesRelease DEF SameWalk, Src
  <2>5. b.status = "complete" => Current' = Sources
    BY <1>0, <2>2, <2>3, <2>4, IndexGrows DEF Current
  <2> QED BY <2>1, <2>2, <2>4, <2>5, OneThreadWalks
<1>8. ASSUME NEW i \in Instances, LoadFails(i) \/ LoadUnseen(i) PROVE Walks'
  <2> DEFINE b == To(Unbeating(Failed(boot[i])), "release")
  <2>1. /\ b \in Threads /\ b.src = Src(i) /\ b.seen = boot[i].seen
        /\ b.failures = boot[i].failures \cup {Src(i)} /\ b.status = boot[i].status
    <3> DEFINE c == Failed(boot[i])
    <3>1. /\ c \in Threads /\ c.src = Src(i) /\ c.seen = boot[i].seen
          /\ c.failures = boot[i].failures \cup {Src(i)} /\ c.status = boot[i].status
      BY <1>0, FailedFacts DEF Src
    <3> HIDE DEF c
    <3>2. LET d == To(Unbeating(c), "release")
          IN  d \in Threads /\ SameWalk(c, d) /\ d.seen = c.seen
      BY <3>1, LeavingFacts
    <3> QED BY <3>1, <3>2 DEF SameWalk, c
  <2>2. Becomes(i, b)
    BY <1>8 DEF LoadFails, LoadUnseen
  <2>3. Current \subseteq Current' /\ Current' \subseteq Sources
    BY <1>0, IndexGrows DEF Current
  <2> HIDE DEF b
  <2>4. Accounted(b, Current')
    BY <1>0, <2>1, <2>3, ReachesRelease DEF Src
  <2>5. b.status = "complete" => Current' = Sources
    BY <1>0, <2>1, <2>3
  <2> QED BY <2>1, <2>2, <2>4, <2>5, OneThreadWalks
<1>9. ASSUME NEW i \in Instances, ReleaseClaim(i) PROVE Walks'
  <2>1. Src(i) \in Current \cup boot[i].failures
    BY <1>0, <1>9 DEF ReleaseClaim, At, Accounted, Passed, Src
  <2>2. Becomes(i, Advanced(boot[i])) /\ Current' = Current
    BY <1>0, <1>9 DEF ReleaseClaim
  <2> QED BY <1>0, <2>1, <2>2, AdvancedFacts, AdvancedAccounted, OneThreadWalks DEF Src
<1>10. ASSUME NEW i \in Instances, RefreshLate(i) PROVE Walks'
  <2> DEFINE b == To(Snapshot(boot[i], Current), "ask")
  <2>1. b \in Threads /\ SameWalk(boot[i], b) /\ b.seen = Current /\ b.pc = "ask"
    <3> DEFINE c == Snapshot(boot[i], Current)
    <3>1. c \in Threads /\ SameWalk(boot[i], c) /\ c.seen = Current
      BY <1>0, SnapshotFacts
    <3> HIDE DEF c
    <3>2. /\ To(c, "ask") \in Threads /\ SameWalk(c, To(c, "ask"))
          /\ To(c, "ask").seen = c.seen /\ To(c, "ask").pc = "ask"
      BY <3>1, ToFacts, PCTypes
    <3> QED BY <3>1, <3>2 DEF SameWalk, c
  <2>2. Becomes(i, b) /\ Current' = Current
    BY <1>0, <1>10 DEF RefreshLate
  <2> HIDE DEF b
  <2>3. Accounted(b, Current') /\ b.status = boot[i].status
    BY <1>0, <2>1, <2>2, StaysAccounted DEF SameWalk
  <2> QED BY <1>0, <2>1, <2>2, <2>3, OneThreadWalks
<1>11. ASSUME NEW i \in Instances, AskIndex(i) PROVE Walks'
  <2> DEFINE b == IF Src(i) \in boot[i].seen THEN boot[i] ELSE Failed(boot[i])
  <2>1. /\ b \in Threads /\ b.src = Src(i) /\ b.seen = boot[i].seen
        /\ boot[i].failures \subseteq b.failures /\ b.status = boot[i].status
        /\ Src(i) \in Current \cup b.failures
    BY <1>0, FailedFacts DEF Src
  <2>2. Becomes(i, Advanced(b)) /\ Current' = Current
    BY <1>0, <1>11 DEF AskIndex
  <2> HIDE DEF b
  <2>3. Accounted(b, Current)
    BY <1>0, <2>1, ReachesRelease DEF Src
  <2>4. /\ Advanced(b) \in Threads
        /\ Accounted(Advanced(b), Current)
        /\ Advanced(b).status = "complete" => Current = Sources
    BY <1>0, <2>1, <2>3, AdvancedFacts, AdvancedAccounted
  <2> QED BY <2>2, <2>4, OneThreadWalks
<1>12. ASSUME NEW i \in Instances, Beat(i) \/ BeatRaises(i) PROVE Walks'
  <2> PICK b \in {[boot[i] EXCEPT !.heart = 0], [boot[i] EXCEPT !.beats = FALSE]} :
             Becomes(i, b)
    BY <1>12 DEF Beat, BeatRaises
  <2>1. /\ b \in Threads /\ SameWalk(boot[i], b) /\ b.seen = boot[i].seen
        /\ b.pc = boot[i].pc /\ b.status = boot[i].status
    BY <1>0, ZeroTypes DEF Threads, SameWalk
  <2>2. Current' = Current
    BY <1>0, <1>12 DEF Beat, BeatRaises
  <2>3. Accounted(b, Current')
    BY <1>0, <2>1, <2>2, StaysAccounted
  <2> QED BY <1>0, <2>1, <2>2, <2>3, OneThreadWalks
<1>13. ASSUME NEW i \in Instances, Crash(i) \/ Restart(i) PROVE Walks'
  <2> PICK status \in {boot[i].status, "pending"} : Becomes(i, [Fresh EXCEPT !.status = status])
    BY <1>13 DEF Crash, Restart, Fresh
  <2> DEFINE b == [Fresh EXCEPT !.status = status]
  <2>1. boot[i].status \in {"pending", "in_progress", "complete", "failed"}
    BY <1>0 DEF Threads
  <2>2. b \in Threads
    BY <2>1, FreshTypes
  <2>3. b.src = 1 /\ b.seen = {} /\ b.pc = "idle" /\ b.status = status
    BY DEF Fresh
  <2>4. \A s \in Sources : ~(s < 1)
    BY ConstantTypes DEF Sources
  <2>5. Current' = Current
    BY <1>0, <1>13 DEF Crash, Restart
  <2> HIDE DEF b
  <2>6. Accounted(b, Current')
    BY <2>3, <2>4 DEF Accounted, Passed
  <2>7. Becomes(i, b)
    BY DEF b
  <2> QED BY <1>0, <2>2, <2>3, <2>5, <2>6, <2>7, OneThreadWalks
<1>14. ASSUME NEW i \in Instances, Pause(i) \/ Resume(i) PROVE Walks'
  BY <1>0, <1>14 DEF Pause, Resume, Inv, Walks, CompleteIsTrue
<1>15. CASE Tick
  <2>1. \A i \in Instances : /\ SameWalk(boot[i], boot'[i]) /\ boot'[i].seen = boot[i].seen
                             /\ boot'[i].pc = boot[i].pc
    BY <1>0, <1>15 DEF Tick, Threads, SameWalk
  <2>2. Current' = Current
    BY <1>0, <1>15 DEF Tick
  <2> QED BY <1>0, <2>1, <2>2 DEF Walks, CompleteIsTrue, Accounted, Passed, SameWalk
<1>16. CASE UNCHANGED vars
  BY <1>0, <1>16 DEF vars, Walks, CompleteIsTrue
<1> QED
  BY <1>1, <1>3, <1>4, <1>5, <1>6, <1>7, <1>8, <1>9, <1>10, <1>11, <1>12, <1>13, <1>14,
     <1>15, <1>16 DEF Next

\* An instance reports complete only of a corpus that is in the index, whatever
\* crashes, pauses, takeovers and failing stores have happened on the way.
THEOREM CompleteReportsAreTrue == Spec => []CompleteIsTrue
<1>1. Init => Inv
  BY InitTyped, InitWalks DEF Inv
<1>2. Inv /\ [Next]_vars => Inv'
  BY TypedStep, WalksStep DEF Inv
<1>3. Inv => CompleteIsTrue
  BY DEF Inv, Walks
<1> QED BY <1>1, <1>2, <1>3, PTL DEF Spec

-----------------------------------------------------------------------------
(* A claim that is not stale moves by its holder's own step.               *)

LEMMA OtherClaimsStay ==
    ASSUME TypeOK, NEW s \in Sources, NEW t \in Sources, NEW i, claims'[s] # claims[s]
    PROVE  /\ Take(t, i) => s = t
           /\ Refresh(t, i) \/ Release(t, i) => HeldBy(s, i)
BY DEF TypeOK, ClaimsTypeOK, Take, Refresh, Release

MovesWithItsOwner ==
    \A s \in Sources :
         LET k == claims[s].owner IN
           /\ Held(s)
           /\ ~Stale(s)
           /\ claims'[s].owner # k \/ claims'[s].age < claims[s].age
           => boot'[k] # boot[k]

LEMMA OwnerMoves == TypeOK /\ [Next]_vars => MovesWithItsOwner
<1> SUFFICES ASSUME TypeOK, [Next]_vars, NEW s \in Sources, Held(s), ~Stale(s),
                    \/ claims'[s].owner # claims[s].owner
                    \/ claims'[s].age < claims[s].age
             PROVE  boot'[claims[s].owner] # boot[claims[s].owner]
  BY DEF MovesWithItsOwner
<1>a. claims[s] \in Rows /\ claims[s].age \in 0..MaxAge
  BY ClaimTypes DEF TypeOK, ClaimsTypeOK, Rows, NoClaim, Held
<1>b. \A i \in Instances : boot[i] \in Threads /\ Src(i) \in Sources
  BY DEF TypeOK, Src, Threads
<1>c. claims'[s] # claims[s]
  <2>1. ~(claims[s].age < claims[s].age)
    BY <1>a, ConstantTypes
  <2> QED BY <2>1
<1>0. claims[s] \in Rows /\ claims[s].age \in 0..MaxAge /\ \A i \in Instances : boot[i] \in Threads
  BY <1>a, <1>b
<1>1. ASSUME NEW i \in Instances, TakeClaim(i) PROVE claims[s].owner = i /\ boot'[i] # boot[i]
  <2>1. claims[s].owner = i
    BY <1>1, <1>b, <1>c, OtherClaimsStay DEF TakeClaim, MayTake
  <2>2. boot'[i].pc = "refresh" /\ boot[i].pc = "claim"
    BY <1>0, <1>1, ToFacts, PCTypes DEF TakeClaim, Goto, Becomes, At, TypeOK
  <2> QED BY <2>1, <2>2
<1>2. ASSUME NEW i \in Instances, ReleaseClaim(i) PROVE claims[s].owner = i /\ boot'[i] # boot[i]
  <2>1. claims[s].owner = i
    BY <1>2, <1>b, <1>c, OtherClaimsStay DEF ReleaseClaim, HeldBy
  <2>2. boot'[i].pc # "release" /\ boot[i].pc = "release"
    BY <1>0, <1>2, AdvancedFacts DEF ReleaseClaim, Becomes, At, TypeOK
  <2> QED BY <2>1, <2>2
<1>3. ASSUME NEW i \in Instances, RefreshRaises(i) PROVE claims[s].owner = i /\ boot'[i] # boot[i]
  <2>1. claims[s].owner = i
    BY <1>3, <1>b, <1>c, OtherClaimsStay DEF RefreshRaises, HeldBy
  <2>2. boot'[i].pc = "raised" /\ boot[i].pc = "refresh"
    BY <1>0, <1>3, ToFacts, PCTypes DEF RefreshRaises, Goto, Becomes, At, TypeOK
  <2> QED BY <2>1, <2>2
<1>4. ASSUME NEW i \in Instances, Beat(i) PROVE claims[s].owner = i /\ boot'[i] # boot[i]
  <2>1. claims[s].owner = i
    BY <1>4, <1>b, <1>c, OtherClaimsStay DEF Beat, HeldBy
  <2>2. boot[i].heart = Interval /\ Interval # 0
    BY <1>4, ConstantTypes DEF Beat, BeatDue
  <2>3. boot'[i].heart = 0
    BY <1>0, <1>4 DEF Beat, Becomes, TypeOK, Threads
  <2> QED BY <2>1, <2>2, <2>3
<1>5. ~Tick
  <2> SUFFICES ASSUME Tick PROVE FALSE
    OBVIOUS
  <2>1. claims'[s] = [claims[s] EXCEPT !.age = Older(claims[s].age)]
    BY DEF Tick, ClaimsAge
  <2>2. claims'[s].owner = claims[s].owner /\ claims'[s].age = Older(claims[s].age)
    BY <1>0, <2>1 DEF Rows, Held
  <2>3. ~(Older(claims[s].age) < claims[s].age)
    BY <1>0, ConstantTypes DEF Older
  <2> QED BY <2>2, <2>3
<1>6. ~(UNCHANGED claims)
  BY <1>c
<1> QED
  BY <1>1, <1>2, <1>3, <1>4, <1>5, <1>6, Zenon
     DEF Next, vars, Start, AwaitClaim, Wake, RefreshAndBeat, Check, Load, LoadFails, LoadUnseen,
         RefreshLate, AskIndex, AskRaises, StoreRaises, BeatRaises, Crash, Restart, Pause, Resume

\* Whatever instance stops, wakes up late or lost a race: nobody but a claim's
\* holder gives it up, hands it on or keeps it young before it is stale.
THEOREM ClaimsMoveWithTheirOwner == Spec => ClaimMovesWithItsOwner
<1>1. TypeOK /\ [Next]_vars => [MovesWithItsOwner]_vars
  BY OwnerMoves
<1> QED BY <1>1, TypeCorrect, PTL DEF Spec, ClaimMovesWithItsOwner, MovesWithItsOwner

-----------------------------------------------------------------------------
(* One loader of a source at a time.                                       *)

\* The deployment this holds of: instances may stop and come back, sources and
\* the store may fail, but nothing suspends a process and no beat is lost; the
\* beat is at least as frequent as the threshold.
Regime ==
    /\ Faults \subseteq {"crash", "restart", "store", "read"}
    /\ Interval <= StaleAfter

Loading == {"refresh", "check", "loading"}

\* The claim of an instance that loads is its own, and no older than its beat.
Holds(i) ==
    /\ HeldBy(Src(i), i)
    /\ boot[i].pc = "refresh" => claims[Src(i)].age = 0
    /\ boot[i].pc # "refresh" => /\ boot[i].beats
                                 /\ claims[Src(i)].age <= boot[i].heart

HoldersInv ==
    /\ \A i \in Instances : proc[i] # "paused"
    /\ \A i \in Instances : Up(i) /\ boot[i].pc \in Loading => Holds(i)

LEMMA InitHolders == Init => HoldersInv
BY DEF Init, HoldersInv, Fresh, Loading

\* A claim that an instance loads under cannot be taken from it.
LEMMA HolderKeepsClaim ==
    ASSUME Regime, TypeOK, HoldersInv, NEW k \in Instances, Up(k), boot[k].pc \in Loading,
           NEW i \in Instances, i # k, NEW s \in Sources
    PROVE  /\ MayTake(s, i) /\ Take(s, i) => claims'[Src(k)] = claims[Src(k)]
           /\ Refresh(s, i) \/ Release(s, i) => claims'[Src(k)] = claims[Src(k)]
<1>1. Src(k) \in Sources /\ boot[k].heart \in 0..Interval
  BY DEF TypeOK, Threads, Src
<1>2. HeldBy(Src(k), k) /\ claims[Src(k)] \in Rows
  BY <1>1 DEF HoldersInv, Holds, TypeOK, ClaimsTypeOK
<1>3. claims[Src(k)].age <= boot[k].heart \/ claims[Src(k)].age = 0
  BY DEF HoldersInv, Holds
<1>4. claims[Src(k)].age \in 0..MaxAge
  BY <1>2, ConstantTypes DEF Rows, NoClaim
<1>5. ~(claims[Src(k)].age > StaleAfter)
  BY <1>1, <1>3, <1>4, ConstantTypes DEF Regime
<1>6. ~MayTake(Src(k), i) /\ ~HeldBy(Src(k), i)
  BY <1>2, <1>5 DEF MayTake, HeldBy, Stale
<1>7. claims \in [Sources -> Rows]
  BY DEF TypeOK, ClaimsTypeOK
<1> QED BY <1>1, <1>6, <1>7 DEF Take, Refresh, Release

\* A step of one instance leaves the others holding their claims.
LEMMA OthersHold ==
    ASSUME Regime, TypeOK, HoldersInv, NEW i \in Instances, NEW b,
           Becomes(i, b), \A k \in Instances \ {i} : proc'[k] = proc[k],
           \/ UNCHANGED claims
           \/ MayTake(Src(i), i) /\ Take(Src(i), i)
           \/ Refresh(Src(i), i)
           \/ Release(Src(i), i)
    PROVE  \A k \in Instances \ {i} : (Up(k) /\ boot[k].pc \in Loading => Holds(k))'
<1> SUFFICES ASSUME NEW k \in Instances \ {i}, (Up(k) /\ boot[k].pc \in Loading)'
             PROVE  Holds(k)'
  OBVIOUS
<1>1. boot'[k] = boot[k]
  BY DEF Becomes, TypeOK
<1>2. Up(k) /\ boot[k].pc \in Loading /\ Holds(k)
  BY <1>1 DEF Up, HoldersInv
<1>3. Src(i) \in Sources
  BY DEF TypeOK, Threads, Src
<1>4. claims'[Src(k)] = claims[Src(k)]
  BY <1>2, <1>3, HolderKeepsClaim
<1> QED BY <1>1, <1>2, <1>4 DEF Holds, HeldBy, Held, Src

\* So does one that leaves its own thread elsewhere, or holding its claim too.
LEMMA OneStepHolds ==
    ASSUME Regime, TypeOK, HoldersInv, NEW i \in Instances, NEW b,
           Becomes(i, b), UNCHANGED proc,
           \/ UNCHANGED claims
           \/ MayTake(Src(i), i) /\ Take(Src(i), i)
           \/ Refresh(Src(i), i)
           \/ Release(Src(i), i),
           b.pc \notin Loading \/ Holds(i)'
    PROVE  HoldersInv'
<1>1. boot'[i] = b
  BY DEF Becomes, TypeOK
<1>2. \A k \in Instances \ {i} : (Up(k) /\ boot[k].pc \in Loading => Holds(k))'
  BY OthersHold
<1>3. (Up(i) /\ boot[i].pc \in Loading => Holds(i))'
  BY <1>1
<1> QED BY <1>2, <1>3 DEF HoldersInv

LEMMA HoldersStep ==
    ASSUME Regime, TypeOK, HoldersInv, [Next]_vars
    PROVE  HoldersInv'
<1>0. /\ \A i \in Instances : boot[i] \in Threads /\ Src(i) \in Sources
      /\ claims \in [Sources -> Rows]
      /\ boot \in [Instances -> Threads]
      /\ Current \in SUBSET Sources
  BY DEF TypeOK, ClaimsTypeOK, Src, Threads, Current
<1>1. ASSUME NEW i \in Instances, Start(i) PROVE HoldersInv'
  <2>1. [boot[i] EXCEPT !.pc = "claim", !.status = "in_progress"].pc = "claim"
    BY <1>0 DEF Threads
  <2> QED BY <1>1, <2>1, OneStepHolds DEF Start, Loading
<1>2. ASSUME NEW i \in Instances, TakeClaim(i) PROVE HoldersInv'
  <2> DEFINE b == To(boot[i], "refresh")
  <2>1. b.src = Src(i) /\ b.pc = "refresh"
    BY <1>0, ToFacts, PCTypes DEF SameWalk, Src
  <2>2. boot'[i] = b
    BY <1>0, <1>2 DEF TakeClaim, Goto, Becomes
  <2>3. claims'[Src(i)] = Claim(i, 0)
    BY <1>0, <1>2 DEF TakeClaim, Take
  <2>4. Claim(i, 0) # NoClaim
    BY BootstrapAssumption DEF Claim, NoClaim
  <2> HIDE DEF b
  <2>5. Holds(i)'
    BY <2>1, <2>2, <2>3, <2>4 DEF Holds, HeldBy, Held, Src, Claim
  <2> QED BY <1>2, <2>5, OneStepHolds DEF TakeClaim, Goto
<1>3. ASSUME NEW i \in Instances, AwaitClaim(i) PROVE HoldersInv'
  <2>1. \A pc \in {"late", "sleep"} : [boot[i] EXCEPT !.pc = pc, !.nap = 0].pc = pc
    BY <1>0 DEF Threads
  <2> QED BY <1>3, <2>1, OneStepHolds DEF AwaitClaim, Loading
\* A thread that goes somewhere it loads nothing.
<1>4. ASSUME NEW i \in Instances, NEW pc \in PCs \ Loading, Goto(i, pc), UNCHANGED proc,
             UNCHANGED claims \/ Release(Src(i), i)
      PROVE  HoldersInv'
  <2>1. To(boot[i], pc).pc = pc
    BY <1>0, ToFacts
  <2> QED BY <1>4, <2>1, OneStepHolds DEF Goto
<1>5. ASSUME NEW i \in Instances,
             Wake(i) \/ AskRaises(i) \/ StoreRaises(i) \/ RefreshRaises(i)
      PROVE  HoldersInv'
  BY <1>4, <1>5, PCTypes DEF Wake, AskRaises, StoreRaises, RefreshRaises, Loading
<1>6. ASSUME NEW i \in Instances, RefreshAndBeat(i) PROVE HoldersInv'
  <2> DEFINE c == Snapshot(boot[i], Current)
             b == To(Beating(c), "check")
  <2>1. c \in Threads /\ SameWalk(boot[i], c)
    BY <1>0, SnapshotFacts
  <2>2. b.src = Src(i) /\ b.pc = "check" /\ b.heart = 0 /\ b.beats
    <3> HIDE DEF c
    <3>1. /\ Beating(c) \in Threads /\ SameWalk(c, Beating(c))
          /\ Beating(c).heart = 0 /\ Beating(c).beats
      BY <2>1, BeatingFacts
    <3>2. /\ b.pc = "check" /\ SameWalk(Beating(c), b)
          /\ b.heart = Beating(c).heart /\ b.beats = Beating(c).beats
      BY <3>1, ToFacts, PCTypes
    <3> HIDE DEF b
    <3> QED BY <2>1, <3>1, <3>2 DEF SameWalk, Src
  <2>3. Holds(i) /\ boot[i].pc = "refresh" /\ Becomes(i, b)
    BY <1>6 DEF RefreshAndBeat, HoldersInv, At, Loading
  <2>4. boot'[i] = b /\ claims' = claims /\ UNCHANGED proc
    BY <1>0, <1>6 DEF RefreshAndBeat, Becomes
  <2> HIDE DEF b
  <2>5. Holds(i)'
    BY <2>2, <2>3, <2>4 DEF Holds, HeldBy, Held, Src
  <2> QED BY <2>3, <2>4, <2>5, OneStepHolds
<1>7. ASSUME NEW i \in Instances, Check(i) PROVE HoldersInv'
  <2>1. To(Unbeating(boot[i]), "release").pc = "release"
    BY <1>0, UnbeatingFacts, ToFacts, PCTypes
  <2>2. CASE Becomes(i, To(Unbeating(boot[i]), "release"))
    BY <1>7, <2>1, <2>2, OneStepHolds DEF Check, Loading
  <2>3. CASE Goto(i, "loading")
    <3> DEFINE b == To(boot[i], "loading")
    <3>1. b.src = Src(i) /\ b.pc = "loading" /\ b.heart = boot[i].heart /\ b.beats = boot[i].beats
      BY <1>0, ToFacts, PCTypes DEF SameWalk, Src
    <3>2. Holds(i) /\ boot[i].pc = "check" /\ Becomes(i, b)
      BY <1>7, <2>3 DEF Check, Goto, HoldersInv, At, Loading
    <3>3. boot'[i] = b /\ claims' = claims /\ UNCHANGED proc
      BY <1>0, <1>7, <3>2 DEF Check, Becomes
    <3> HIDE DEF b
    <3>4. Holds(i)'
      BY <3>1, <3>2, <3>3 DEF Holds, HeldBy, Held, Src
    <3> QED BY <3>2, <3>3, <3>4, OneStepHolds
  <2> QED BY <1>7, <2>2, <2>3 DEF Check
<1>8. ASSUME NEW i \in Instances, Load(i) PROVE HoldersInv'
  <2> DEFINE c == Snapshot(boot[i], Current \cup {Src(i)})
  <2>1. c \in Threads
    <3>1. Current \cup {Src(i)} \in SUBSET Sources
      BY <1>0
    <3> QED BY <1>0, <3>1, SnapshotFacts
  <2> HIDE DEF c
  <2>2. To(Unbeating(c), "release").pc = "release"
    BY <2>1, UnbeatingFacts, ToFacts, PCTypes
  <2> QED BY <1>8, <2>2, OneStepHolds DEF Load, Loading, c
<1>9. ASSUME NEW i \in Instances, LoadFails(i) \/ LoadUnseen(i) PROVE HoldersInv'
  <2> DEFINE b == To(Unbeating(Failed(boot[i])), "release")
  <2>1. b.pc = "release"
    BY <1>0, FailedFacts, UnbeatingFacts, ToFacts, PCTypes
  <2>2. Becomes(i, b) /\ UNCHANGED proc /\ UNCHANGED claims
    BY <1>9 DEF LoadFails, LoadUnseen
  <2>3. b.pc \notin Loading
    BY <2>1 DEF Loading
  <2> HIDE DEF b
  <2> QED BY <1>0, <2>2, <2>3, OneStepHolds
<1>10. \A b \in Threads : Advanced(b).pc \notin Loading
  BY AdvancedFacts DEF Loading
<1>11. ASSUME NEW i \in Instances, ReleaseClaim(i) PROVE HoldersInv'
  BY <1>0, <1>10, <1>11, OneStepHolds DEF ReleaseClaim
<1>12. ASSUME NEW i \in Instances, RefreshLate(i) PROVE HoldersInv'
  <2> DEFINE c == Snapshot(boot[i], Current)
             b == To(c, "ask")
  <2>1. c \in Threads
    BY <1>0, SnapshotFacts
  <2>2. Becomes(i, b) /\ UNCHANGED proc /\ UNCHANGED claims
    BY <1>12 DEF RefreshLate
  <2>3. b.pc \notin Loading
    <3> HIDE DEF c
    <3> QED BY <2>1, ToFacts, PCTypes DEF Loading
  <2> HIDE DEF b
  <2> QED BY <1>0, <2>2, <2>3, OneStepHolds
<1>13. ASSUME NEW i \in Instances, AskIndex(i) PROVE HoldersInv'
  <2>1. boot[i] \in Threads /\ Failed(boot[i]) \in Threads
    BY <1>0, FailedFacts
  <2> QED BY <1>10, <1>13, <2>1, OneStepHolds DEF AskIndex
<1>14. ASSUME NEW i \in Instances, Beat(i) PROVE HoldersInv'
  <2> DEFINE b == [boot[i] EXCEPT !.heart = 0]
  <2>1. b.src = Src(i) /\ b.pc = boot[i].pc /\ b.heart = 0 /\ b.beats = boot[i].beats
    BY <1>0 DEF Threads, Src
  <2>2. Becomes(i, b) /\ boot'[i] = b /\ UNCHANGED proc /\ Refresh(Src(i), i) /\ Up(i)
    BY <1>0, <1>14 DEF Beat, BeatDue, Becomes
  <2>3. Claim(i, 0) # NoClaim
    BY BootstrapAssumption DEF Claim, NoClaim
  <2> HIDE DEF b
  <2>4. CASE boot[i].pc \in Loading
    <3>1. Holds(i)
      BY <2>2, <2>4 DEF HoldersInv
    <3>2. claims'[Src(i)] = Claim(i, 0)
      BY <1>0, <2>2, <3>1 DEF Refresh, Holds
    <3>3. Holds(i)'
      BY <2>1, <2>2, <2>3, <3>1, <3>2 DEF Holds, HeldBy, Held, Src, Claim
    <3> QED BY <2>2, <3>3, OneStepHolds
  <2>5. CASE boot[i].pc \notin Loading
    BY <2>1, <2>2, <2>5, OneStepHolds
  <2> QED BY <2>4, <2>5
<1>15. ASSUME NEW i \in Instances PROVE ~BeatRaises(i) /\ ~Pause(i) /\ ~Resume(i)
  BY DEF Regime, BeatRaises, Pause, Resume, HoldersInv
<1>16. ASSUME NEW i \in Instances, Crash(i) \/ Restart(i) PROVE HoldersInv'
  <2> PICK b : Becomes(i, b) /\ b.pc = "idle"
    BY <1>16 DEF Crash, Restart, Fresh
  <2>1. /\ \A k \in Instances \ {i} : proc'[k] = proc[k]
        /\ \A k \in Instances : proc'[k] # "paused"
        /\ UNCHANGED claims
    BY <1>16 DEF Crash, Restart, TypeOK, HoldersInv
  <2>2. \A k \in Instances \ {i} : (Up(k) /\ boot[k].pc \in Loading => Holds(k))'
    BY <2>1, OthersHold
  <2>3. (boot[i].pc \notin Loading)'
    BY <1>0 DEF Becomes, Loading
  <2> QED BY <2>1, <2>2, <2>3 DEF HoldersInv
<1>17. CASE Tick
  <2>1. SUFFICES ASSUME NEW i \in Instances, (Up(i) /\ boot[i].pc \in Loading)'
                 PROVE  Holds(i)'
    BY <1>17 DEF HoldersInv, Tick
  <2> DEFINE s == Src(i)
  <2>2. /\ boot'[i].pc = boot[i].pc /\ boot'[i].src = boot[i].src
        /\ boot'[i].beats = boot[i].beats
        /\ boot'[i].heart = IF boot[i].beats THEN UpTo(boot[i].heart, Interval) ELSE boot[i].heart
    BY <1>0, <1>17 DEF Tick, Threads
  <2>3. Up(i) /\ boot[i].pc \in Loading /\ Holds(i)
    BY <1>17, <2>1, <2>2 DEF Tick, Up, HoldersInv
  <2>4. boot[i].pc # "refresh"
    BY <1>17, <2>3 DEF Tick, Prompt, At
  <2>5. boot[i].beats /\ claims[s].age <= boot[i].heart /\ HeldBy(s, i)
    BY <2>3, <2>4 DEF Holds
  <2>6. boot[i].heart # Interval
    BY <1>17, <2>3, <2>5 DEF Tick, Prompt, BeatDue
  <2>7. s \in Sources /\ claims[s] \in Rows /\ claims[s] # NoClaim
    BY <1>0, <2>5 DEF HeldBy, Held
  <2>8. claims'[s] = [claims[s] EXCEPT !.age = Older(claims[s].age)]
    BY <1>17, <2>7 DEF Tick, ClaimsAge, Held
  <2>9. /\ claims'[s].owner = claims[s].owner /\ claims'[s].age = Older(claims[s].age)
        /\ claims[s].age \in 0..MaxAge /\ claims[s].owner \in Instances
    BY <2>7, <2>8 DEF Rows
  <2>10. claims'[s] # NoClaim
    BY <2>9, BootstrapAssumption DEF NoClaim
  <2>11. boot[i].heart \in 0..Interval
    BY <1>0 DEF Threads
  <2>12. Older(claims[s].age) <= claims[s].age + 1
    BY <2>9, ConstantTypes DEF Older
  <2>13. UpTo(boot[i].heart, Interval) = boot[i].heart + 1
    BY <2>6, <2>11, ConstantTypes DEF UpTo
  <2>14. Older(claims[s].age) \in Nat
    BY <2>9, ConstantTypes DEF Older
  <2>15. claims'[s].age <= boot'[i].heart
    BY <2>2, <2>5, <2>9, <2>11, <2>12, <2>13, <2>14
  <2> QED BY <2>2, <2>4, <2>5, <2>9, <2>10, <2>15 DEF Holds, HeldBy, Held, Src
<1>18. CASE UNCHANGED vars
  BY <1>18 DEF vars, HoldersInv, Up, Holds, HeldBy, Held, Src
<1> QED
  BY <1>1, <1>2, <1>3, <1>5, <1>6, <1>7, <1>8, <1>9, <1>11, <1>12, <1>13, <1>14, <1>15,
     <1>16, <1>17, <1>18 DEF Next

\* However long a source takes and whichever instances stop and come back, no
\* two instances are between taking a source's claim and giving it up.
THEOREM SourcesHaveOneLoader ==
    ASSUME Regime
    PROVE  Spec => []OneLoader
<1>1. HoldersInv => OneLoader
  BY DEF HoldersInv, OneLoader, Loads, Loading, Holds, HeldBy
<1>2. TypeOK /\ HoldersInv /\ [Next]_vars => HoldersInv'
  BY HoldersStep
<1> QED BY <1>1, <1>2, InitHolders, TypeCorrect, PTL DEF Spec
=============================================================================
