----------------------------- MODULE JobsProofs -----------------------------
(***************************************************************************)
(* What Jobs keeps for every number of instances, requests and jobs, every *)
(* threshold, interval and pool, and every combination of faults.          *)
(***************************************************************************)
EXTENDS Jobs, FiniteSetTheorems, TLAPS

(* The state stays within its types: in particular no age passes the point *)
(* where it saturates and no worker runs past the end of its request.      *)

\* A worker that has a job in hand has one the request created.
InHand ==
    \A r \in Requests :
        /\ req[r].pc = "accepting" => req[r].next = 1
        /\ req[r].pc \in Busy \cup {"ready"} => req[r].next <= req[r].made

Typed == TypeOK /\ InHand

LEMMA ConstantTypes ==
    /\ MaxBatch \in Nat \ {0} /\ Threshold \in Nat \ {0} /\ Interval \in Nat \ {0}
    /\ MaxAge \in Nat /\ MaxAge = Threshold + 1
BY JobsAssumption DEF MaxAge

LEMMA RecordTypes ==
    /\ Absent \in JobRows
    /\ NewJob \in JobRows
    /\ \A job \in JobRows :
              /\ Complete(job) \in JobRows
              /\ Fail(job, "abandoned") \in JobRows
              /\ Fail(job, "raised") \in JobRows
              /\ [job EXCEPT !.silence = 0] \in JobRows
              /\ Touched(job) \in JobRows
              /\ Aged(job) \in JobRows
<1> USE ConstantTypes
<1>1. Absent \in JobRows /\ NewJob \in JobRows
  BY DEF JobRows, Absent, NewJob
<1>2. ASSUME NEW job \in JobRows
      PROVE  /\ Complete(job) \in JobRows
             /\ Fail(job, "abandoned") \in JobRows
             /\ Fail(job, "raised") \in JobRows
             /\ [job EXCEPT !.silence = 0] \in JobRows
             /\ Touched(job) \in JobRows
             /\ Aged(job) \in JobRows
  <2>1. Complete(job) \in JobRows
    BY DEF JobRows, Complete
  <2>2. Fail(job, "abandoned") \in JobRows /\ Fail(job, "raised") \in JobRows
    BY DEF JobRows, Fail
  <2>3. [job EXCEPT !.silence = 0] \in JobRows /\ Touched(job) \in JobRows
    BY DEF JobRows, Touched
  <2>4. Older(job.silence) \in 0..MaxAge
    BY DEF JobRows, Older
  <2>5. Aged(job) \in JobRows
    BY <2>4 DEF JobRows, Aged
  <2> QED BY <2>1, <2>2, <2>3, <2>5
<1> QED BY <1>1, <1>2

LEMMA PCTypes ==
    {"accepting", "ready", "verdict", "running", "writing", "done", "dropped"} \subseteq PCs
BY DEF PCs

\* What a step does to a request keeps it a request.
LEMMA RequestTypes ==
    \A q \in Reqs, pc \in PCs :
        /\ [q EXCEPT !.pc = pc] \in Reqs
        /\ \A heart \in 0..Interval, beats \in BOOLEAN :
             [q EXCEPT !.pc = pc, !.heart = heart, !.beats = beats] \in Reqs
        /\ \A job \in JobRows :
             /\ [q EXCEPT !.pc = pc, !.job = job] \in Reqs
             /\ \A next \in 1..(MaxBatch + 1) :
                  [q EXCEPT !.pc = pc, !.next = next, !.job = job] \in Reqs
             /\ \A heart \in 0..Interval, beats \in BOOLEAN :
                  [q EXCEPT !.pc = pc, !.job = job, !.heart = heart, !.beats = beats] \in Reqs
<1> SUFFICES ASSUME NEW q \in Reqs, NEW pc \in PCs
             PROVE  /\ [q EXCEPT !.pc = pc] \in Reqs
                    /\ \A heart \in 0..Interval, beats \in BOOLEAN :
                         [q EXCEPT !.pc = pc, !.heart = heart, !.beats = beats] \in Reqs
                    /\ \A job \in JobRows :
                         /\ [q EXCEPT !.pc = pc, !.job = job] \in Reqs
                         /\ \A next \in 1..(MaxBatch + 1) :
                              [q EXCEPT !.pc = pc, !.next = next, !.job = job] \in Reqs
                         /\ \A heart \in 0..Interval, beats \in BOOLEAN :
                              [q EXCEPT !.pc = pc, !.job = job, !.heart = heart,
                                        !.beats = beats] \in Reqs
  OBVIOUS
<1>1. [q EXCEPT !.pc = pc] \in Reqs
  BY DEF Reqs
<1>2. ASSUME NEW heart \in 0..Interval, NEW beats \in BOOLEAN
      PROVE  [q EXCEPT !.pc = pc, !.heart = heart, !.beats = beats] \in Reqs
  BY DEF Reqs
<1>3. ASSUME NEW job \in JobRows
      PROVE  [q EXCEPT !.pc = pc, !.job = job] \in Reqs
  BY DEF Reqs
<1>4. ASSUME NEW job \in JobRows, NEW next \in 1..(MaxBatch + 1)
      PROVE  [q EXCEPT !.pc = pc, !.next = next, !.job = job] \in Reqs
  BY DEF Reqs
<1>5. ASSUME NEW job \in JobRows, NEW heart \in 0..Interval, NEW beats \in BOOLEAN
      PROVE  [q EXCEPT !.pc = pc, !.job = job, !.heart = heart, !.beats = beats] \in Reqs
  BY DEF Reqs
<1> QED BY <1>1, <1>2, <1>3, <1>4, <1>5, Zenon

LEMMA RequestFields ==
    ASSUME NEW q \in Reqs, NEW pc, NEW job, NEW next, NEW heart, NEW beats
    PROVE  LET started == [q EXCEPT !.pc = pc, !.job = job, !.heart = heart, !.beats = beats]
               judged  == [q EXCEPT !.pc = pc, !.job = job]
               resumed == [q EXCEPT !.pc = pc, !.heart = heart, !.beats = beats]
               moved   == [q EXCEPT !.pc = pc, !.next = next, !.job = job]
           IN  /\ \A new \in {started, judged, resumed} :
                     new.pc = pc /\ new.next = q.next /\ new.made = q.made
               /\ moved.pc = pc /\ moved.next = next /\ moved.made = q.made
BY DEF Reqs

LEMMA IdInJobIds ==
    ASSUME Typed, NEW r \in Requests, req[r].pc \in Busy \cup {"ready"}
    PROVE  Id(r) \in JobIds /\ req[r].next \in 1..MaxBatch
BY ConstantTypes DEF Typed, TypeOK, InHand, Reqs, Id, JobIds

LEMMA InitTyped == Init => Typed
<1> SUFFICES ASSUME Init PROVE Typed
  OBVIOUS
<1>1. TypeOK
  BY ConstantTypes, RecordTypes DEF Init, TypeOK, Reqs, PCs, PollRecs
<1>2. InHand
  BY DEF Init, InHand, Busy
<1> QED BY <1>1, <1>2 DEF Typed

LEMMA TypedStep == Typed /\ [Next]_vars => Typed'
<1> SUFFICES ASSUME Typed, [Next]_vars PROVE Typed'
  OBVIOUS
<1> USE DEF Typed, TypeOK, InHand
<1>1. ASSUME NEW r \in Requests, CreateJob(r) PROVE Typed'
  <2>1. <<r, req[r].made + 1>> \in JobIds
    BY <1>1, ConstantTypes DEF CreateJob, JobIds, Reqs
  <2> QED BY <1>1, <2>1, ConstantTypes, RecordTypes DEF CreateJob, Reqs, Busy
<1>2. ASSUME NEW r \in Requests, RejectRequest(r) PROVE Typed'
  BY <1>2 DEF RejectRequest, Reqs, PCs, Busy
<1>3. ASSUME NEW r \in Requests, Respond(r) PROVE Typed'
  BY <1>3 DEF Respond, Reqs, PCs, Busy
<1>4. ASSUME NEW r \in Requests, StartTask(r) PROVE Typed'
  <2>0. /\ req[r] \in Reqs
        /\ {"verdict", "running", "writing", "done", "ready"} \subseteq PCs
        /\ 0 \in 0..Interval
    BY ConstantTypes, PCTypes
  <2>1. rows[Id(r)] \in JobRows /\ req[r].next <= req[r].made
    BY <1>4, IdInJobIds DEF StartTask, CanStart
  <2>2. /\ Fail(rows[Id(r)], "abandoned") \in JobRows
        /\ [rows[Id(r)] EXCEPT !.silence = 0] \in JobRows
    BY <2>1, RecordTypes
  <2>3. CASE IsAbandoned(rows[Id(r)])
    <3> DEFINE new == [req[r] EXCEPT !.pc = "verdict",
                                     !.job = Fail(rows[Id(r)], "abandoned")]
    <3>1. req' = [req EXCEPT ![r] = new]
      BY <1>4, <2>3 DEF StartTask
    <3>2. new \in Reqs
      BY <2>0, <2>2, RequestTypes
    <3>3. new.pc = "verdict" /\ new.next <= new.made
      BY <2>0, <2>1, RequestFields
    <3> HIDE DEF new
    <3> QED BY <1>4, <3>1, <3>2, <3>3, Zenon DEF StartTask
  <2>4. CASE ~IsAbandoned(rows[Id(r)])
    <3> DEFINE new == [req[r] EXCEPT !.pc = "running",
                                     !.job = [rows[Id(r)] EXCEPT !.silence = 0],
                                     !.heart = 0, !.beats = TRUE]
    <3>1. req' = [req EXCEPT ![r] = new]
      BY <1>4, <2>4 DEF StartTask
    <3>2. new \in Reqs
      BY <2>0, <2>2, RequestTypes
    <3>3. new.pc = "running" /\ new.next <= new.made
      BY <2>0, <2>1, RequestFields
    <3> HIDE DEF new
    <3> QED BY <1>4, <3>1, <3>2, <3>3 DEF StartTask
  <2> QED BY <2>3, <2>4
<1>5. ASSUME NEW r \in Requests, WriteOwnVerdict(r) PROVE Typed'
  <2>0. /\ req[r] \in Reqs
        /\ {"verdict", "running", "writing", "done", "ready"} \subseteq PCs
        /\ 0 \in 0..Interval
    BY ConstantTypes, PCTypes
  <2> DEFINE new == [req[r] EXCEPT !.pc = "running", !.heart = 0, !.beats = TRUE]
  <2>1. Id(r) \in JobIds /\ req[r].next <= req[r].made
    BY <1>5, IdInJobIds DEF WriteOwnVerdict, Busy
  <2>2. new \in Reqs
    BY <2>0, RequestTypes
  <2>3. new.pc = "running" /\ new.next <= new.made
    BY <2>0, <2>1, RequestFields
  <2>5. rows' \in [JobIds -> JobRows]
    BY <1>5, <2>1 DEF WriteOwnVerdict, Reqs
  <2> HIDE DEF new
  <2>4. req' = [req EXCEPT ![r] = new]
    BY <1>5 DEF WriteOwnVerdict, new
  <2> QED BY <1>5, <2>2, <2>3, <2>4, <2>5, Zenon DEF WriteOwnVerdict
<1>6. ASSUME NEW r \in Requests, Beat(r) PROVE Typed'
  <2>1. Id(r) \in JobIds
    BY <1>6, IdInJobIds DEF Beat, BeatDue, Busy
  <2>2. Touched(rows[Id(r)]) \in JobRows
    BY <2>1, RecordTypes
  <2> QED BY <1>6, <2>1, <2>2, ConstantTypes DEF Beat, BeatDue, Reqs, PCs, Busy
<1>7. ASSUME NEW r \in Requests, BeatRaises(r) PROVE Typed'
  <2> DEFINE new == [req[r] EXCEPT !.beats = FALSE]
  <2>1. new \in Reqs /\ new.pc = req[r].pc /\ new.next = req[r].next /\ new.made = req[r].made
    BY DEF Reqs
  <2>2. req' = [req EXCEPT ![r] = new] /\ UNCHANGED <<proc, rows, poll, ingested>>
    BY <1>7 DEF BeatRaises
  <2> HIDE DEF new
  <2> QED BY <2>1, <2>2
<1>8. ASSUME NEW r \in Requests, IngestReturns(r) PROVE Typed'
  <2>0. /\ req[r] \in Reqs
        /\ {"verdict", "running", "writing", "done", "ready"} \subseteq PCs
        /\ 0 \in 0..Interval
    BY ConstantTypes, PCTypes
  <2> DEFINE new == [req[r] EXCEPT !.pc = "writing", !.job = Complete(req[r].job),
                                   !.heart = 0, !.beats = FALSE]
  <2>1. Id(r) \in JobIds /\ req[r].next <= req[r].made
    BY <1>8, IdInJobIds DEF IngestReturns, Busy
  <2>2. Complete(req[r].job) \in JobRows
    BY RecordTypes DEF Reqs
  <2>3. new \in Reqs
    BY <2>0, <2>2, RequestTypes
  <2>4. new.pc = "writing" /\ new.next <= new.made
    BY <2>0, <2>1, RequestFields
  <2> HIDE DEF new
  <2>5. req' = [req EXCEPT ![r] = new]
    BY <1>8 DEF IngestReturns, new
  <2> QED BY <1>8, <2>1, <2>3, <2>4, <2>5 DEF IngestReturns
<1>9. ASSUME NEW r \in Requests, IngestRaises(r) PROVE Typed'
  <2>0. /\ req[r] \in Reqs
        /\ {"verdict", "running", "writing", "done", "ready"} \subseteq PCs
        /\ 0 \in 0..Interval
    BY ConstantTypes, PCTypes
  <2> DEFINE new == [req[r] EXCEPT !.pc = "writing", !.job = Fail(req[r].job, "raised"),
                                   !.heart = 0, !.beats = FALSE]
  <2>1. Id(r) \in JobIds /\ req[r].next <= req[r].made
    BY <1>9, IdInJobIds DEF IngestRaises, Busy
  <2>2. Fail(req[r].job, "raised") \in JobRows
    BY RecordTypes DEF Reqs
  <2>3. new \in Reqs
    BY <2>0, <2>2, RequestTypes
  <2>4. new.pc = "writing" /\ new.next <= new.made
    BY <2>0, <2>1, RequestFields
  <2> HIDE DEF new
  <2>5. req' = [req EXCEPT ![r] = new]
    BY <1>9 DEF IngestRaises, new
  <2> QED BY <1>9, <2>1, <2>3, <2>4, <2>5 DEF IngestRaises
<1>10. ASSUME NEW r \in Requests, WriteOutcome(r) PROVE Typed'
  <2>0. /\ req[r] \in Reqs
        /\ {"verdict", "running", "writing", "done", "ready"} \subseteq PCs
        /\ 0 \in 0..Interval
    BY ConstantTypes, PCTypes
  <2>1. Id(r) \in JobIds /\ req[r].next \in 1..MaxBatch /\ req[r].next <= req[r].made
    BY <1>10, IdInJobIds DEF WriteOutcome, Busy
  <2> DEFINE pc == IF req[r].next = req[r].made THEN "done" ELSE "ready"
             new == [req[r] EXCEPT !.pc = pc, !.next = req[r].next + 1, !.job = Absent]
  <2>2. req[r].next + 1 \in 1..(MaxBatch + 1)
    <3>1. MaxBatch \in Int
      BY ConstantTypes
    <3>2. PICK next \in 1..MaxBatch : next = req[r].next
      BY <2>1, Zenon
    <3>3. next \in Int /\ 1 <= next /\ next <= MaxBatch
      BY <3>1, <3>2
    <3>4. next + 1 \in 1..(MaxBatch + 1)
      BY ONLY <3>1, <3>3
    <3> QED BY <3>2, <3>4, Zenon
  <2>3. new \in Reqs
    BY <2>0, <2>2, RecordTypes, RequestTypes
  <2>4. new.pc = pc /\ new.next = req[r].next + 1 /\ new.made = req[r].made
    BY <2>0 DEF Reqs
  <2>5. rows' \in [JobIds -> JobRows]
    BY <1>10, <2>0, <2>1 DEF WriteOutcome, Reqs
  <2>6. pc = "ready" => req[r].next + 1 <= req[r].made
    <3> req[r].made \in 0..MaxBatch
      BY <2>0 DEF Reqs
    <3> QED BY <2>1, ConstantTypes
  <2> HIDE DEF new
  <2>7. req' = [req EXCEPT ![r] = new]
    BY <1>10 DEF WriteOutcome, new
  <2> QED BY <1>10, <2>3, <2>4, <2>5, <2>6, <2>7 DEF WriteOutcome, Busy
<1>11. ASSUME NEW r \in Requests, TaskRaises(r) PROVE Typed'
  BY <1>11 DEF TaskRaises, Reqs, PCs, Busy
<1>12. ASSUME NEW i \in Instances, NEW j \in JobIds, PollFindsAbandoned(i, j) PROVE Typed'
  <2>1. Fail(rows[j], "abandoned") \in JobRows
    BY RecordTypes
  <2> QED BY <1>12, <2>1 DEF PollFindsAbandoned, PollRecs
<1>13. ASSUME NEW i \in Instances, PollWritesVerdict(i) PROVE Typed'
  BY <1>13 DEF PollWritesVerdict, PollRecs
<1>14. ASSUME NEW i \in Instances, PollRaises(i) PROVE Typed'
  BY <1>14 DEF PollRaises, PollRecs
<1>15. ASSUME NEW i \in Instances, Crash(i) \/ Pause(i) \/ Resume(i) PROVE Typed'
  BY <1>15 DEF Crash, Pause, Resume, PollRecs
<1>16. CASE Tick
  <2>1. rows' \in [JobIds -> JobRows]
    BY <1>16, RecordTypes DEF Tick
  <2>2. req' \in [Requests -> Reqs]
    BY <1>16, ConstantTypes DEF Tick, Reqs
  <2>3. InHand'
    BY <1>16, ConstantTypes DEF Tick, Reqs
  <2> QED BY <1>16, <2>1, <2>2, <2>3 DEF Tick
<1>17. CASE UNCHANGED vars
  BY <1>17 DEF vars
<1> QED
  BY <1>1, <1>2, <1>3, <1>4, <1>5, <1>6, <1>7, <1>8, <1>9, <1>10, <1>11, <1>12,
     <1>13, <1>14, <1>15, <1>16, <1>17 DEF Next

\* Every reachable state is well typed, whatever the constants.
THEOREM TypeCorrect == Spec => []TypeOK
<1>1. Typed => TypeOK
  BY DEF Typed
<1> QED BY <1>1, InitTyped, TypedStep, PTL DEF Spec

-----------------------------------------------------------------------------
(* What the rows and the copies in flight have to do with each other.      *)

\* Whoever is about to write a whole record writes an outcome, and writes it
\* over a job that exists; jobs a request has not created have no row.
Writers ==
    /\ \A r \in Requests, k \in 1..MaxBatch :
          k > req[r].made => rows[<<r, k>>].status = "absent"
    /\ \A r \in Requests :
          req[r].pc \in {"verdict", "writing"} => Finished(req[r].job)
    /\ \A i \in Instances :
          poll[i] # NoPoll => /\ poll[i].job \in JobIds
                              /\ poll[i].rec.status = "failed"
                              /\ rows[poll[i].job].status # "absent"

\* No copy of a record says completed unless the source was ingested.
Copies ==
    /\ CompletedMeansIngested
    /\ \A r \in Requests : req[r].job.status = "completed" => Id(r) \in ingested

Inv == Typed /\ Writers /\ Copies

LEMMA InitInv == Init => Inv
<1> SUFFICES ASSUME Init PROVE Inv
  OBVIOUS
<1>1. Writers
  BY DEF Init, Writers, Absent, NoPoll, JobIds
<1>2. Copies
  BY DEF Init, Copies, CompletedMeansIngested, Absent
<1> QED BY <1>1, <1>2, InitTyped DEF Inv

\* What NeverReopened says of a step.
Kept == \A j \in JobIds : Finished(rows[j]) => Finished(rows'[j])

LEMMA InvStep == Inv /\ [Next]_vars => Inv' /\ Kept
<1> SUFFICES ASSUME Inv, [Next]_vars PROVE Inv' /\ Kept
  OBVIOUS
<1>0. Typed /\ Typed'
  BY TypedStep DEF Inv
<1> USE DEF Inv, CompletedMeansIngested
<1>1. ASSUME NEW r \in Requests, CreateJob(r) PROVE Writers' /\ Copies' /\ Kept
  <2> DEFINE new == <<r, req[r].made + 1>>
  <2>1. /\ new \in JobIds /\ rows[new].status = "absent"
        /\ rows' = [rows EXCEPT ![new] = NewJob]
        /\ req[r].made \in Nat
    BY <1>1, <1>0, ConstantTypes DEF CreateJob, Writers, Typed, TypeOK, Reqs, JobIds
  <2>2. req' = [req EXCEPT ![r].made = @ + 1] /\ UNCHANGED <<proc, poll, ingested>>
    BY <1>1 DEF CreateJob
  <2>3. Kept
    BY <2>1, <1>0 DEF Kept, Finished, Typed, TypeOK
  <2>4. Copies'
    BY <2>1, <2>2, <1>0 DEF Copies, Typed, TypeOK, Reqs, NewJob, Id
  <2>5. Writers'
    BY <2>1, <2>2, <1>0 DEF Kept, Finished, Writers, Typed, TypeOK, Reqs, NewJob, JobIds
  <2> QED BY <2>3, <2>4, <2>5
<1>2. ASSUME NEW r \in Requests, RejectRequest(r) \/ Respond(r) \/ TaskRaises(r) \/ BeatRaises(r)
      PROVE  Writers' /\ Copies' /\ Kept
  <2>1. /\ UNCHANGED <<rows, poll, ingested>>
        /\ \/ \E pc \in {"dropped", "ready"} : req' = [req EXCEPT ![r].pc = pc]
           \/ req' = [req EXCEPT ![r].beats = FALSE]
    BY <1>2 DEF RejectRequest, Respond, TaskRaises, BeatRaises
  <2>2. \A q \in Requests :
           /\ req'[q].made = req[q].made /\ req'[q].next = req[q].next
           /\ req'[q].job = req[q].job
           /\ req'[q].pc \in {"verdict", "writing"} => req'[q].pc = req[q].pc
    BY <2>1, <1>0 DEF Typed, TypeOK, Reqs
  <2>3. Writers'
    BY <2>1, <2>2, <1>0 DEF Writers, Finished
  <2>4. Copies' /\ Kept
    BY <2>1, <2>2, <1>0 DEF Copies, CompletedMeansIngested, Id, Kept
  <2> QED BY <2>3, <2>4
<1>3. ASSUME NEW r \in Requests, StartTask(r) PROVE Writers' /\ Copies' /\ Kept
  <2>1. Id(r) \in JobIds /\ UNCHANGED <<rows, ingested, poll>>
    BY <1>3, <1>0, IdInJobIds DEF StartTask, CanStart
  <2>2. /\ req'[r].pc \in {"verdict", "running"}
        /\ req'[r].pc = "verdict" => req'[r].job.status = "failed"
        /\ req'[r].job.status = "completed" => rows[Id(r)].status = "completed"
        /\ req'[r].next = req[r].next /\ req'[r].made = req[r].made
        /\ \A q \in Requests : q # r => req'[q] = req[q]
    <3>1. CASE IsAbandoned(rows[Id(r)])
      <4>1. req' = [req EXCEPT ![r] = [req[r] EXCEPT !.pc = "verdict",
                                         !.job = Fail(rows[Id(r)], "abandoned")]]
        BY <1>3, <3>1 DEF StartTask
      <4>2. Fail(rows[Id(r)], "abandoned").status = "failed"
        BY DEF Fail
      <4> QED BY <4>1, <4>2, <1>0, RequestFields DEF Typed, TypeOK
    <3>2. CASE ~IsAbandoned(rows[Id(r)])
      <4> DEFINE copy == [rows[Id(r)] EXCEPT !.silence = 0]
      <4>1. req' = [req EXCEPT ![r] = [req[r] EXCEPT !.pc = "running", !.job = copy,
                                         !.heart = 0, !.beats = TRUE]]
        BY <1>3, <3>2 DEF StartTask
      <4>2. rows[Id(r)] \in JobRows
        BY <1>0, <2>1 DEF Typed, TypeOK
      <4>3. copy.status = rows[Id(r)].status
        BY <4>2 DEF JobRows
      <4> HIDE DEF copy
      <4> QED BY <4>1, <4>3, <1>0, RequestFields DEF Typed, TypeOK
    <3> QED BY <3>1, <3>2
  <2> QED BY <2>1, <2>2, <1>0 DEF Kept, Finished, Writers, Copies, Id
<1>4. ASSUME NEW r \in Requests, WriteOwnVerdict(r) PROVE Writers' /\ Copies' /\ Kept
  <2>1. /\ Id(r) \in JobIds /\ req[r].next <= req[r].made
        /\ UNCHANGED <<ingested, poll>>
        /\ Finished(req[r].job)
        /\ rows' = [rows EXCEPT ![Id(r)] = req[r].job]
    BY <1>4, <1>0, IdInJobIds DEF WriteOwnVerdict, Writers, Busy, Typed, InHand
  <2>2. /\ req'[r].pc = "running" /\ req'[r].job = req[r].job
        /\ req'[r].next = req[r].next /\ req'[r].made = req[r].made
        /\ \A q \in Requests : q # r => req'[q] = req[q]
    BY <1>4, <1>0 DEF WriteOwnVerdict, Typed, TypeOK, Reqs
  <2>3. \A q \in Requests : Id(q)' = Id(q) /\ req'[q].made = req[q].made
    BY <2>2 DEF Id
  <2>4. Kept
    BY <2>1, <1>0 DEF Kept, Finished, Typed, TypeOK
  <2>5. Copies'
    BY <2>1, <2>2, <2>3, <1>0 DEF Copies, Typed, TypeOK
  <2>6. \A k \in 1..MaxBatch : k > req[r].made => <<r, k>> # Id(r)
    BY <2>1, <1>0 DEF Id, Typed, TypeOK, Reqs
  <2>7. Writers'
    BY <2>1, <2>2, <2>3, <2>6, <1>0 DEF Kept, Finished, Writers, Typed, TypeOK, Id
  <2> QED BY <2>4, <2>5, <2>7
<1>5. ASSUME NEW r \in Requests, Beat(r) PROVE Writers' /\ Copies' /\ Kept
  <2>1. /\ Id(r) \in JobIds /\ UNCHANGED <<ingested, poll>>
        /\ rows' = [rows EXCEPT ![Id(r)] = Touched(rows[Id(r)])]
    BY <1>5, <1>0, IdInJobIds DEF Beat, BeatDue, Busy
  <2>2. \A j \in JobIds : rows'[j].status = rows[j].status
    BY <2>1, <1>0 DEF Typed, TypeOK, JobRows, Touched
  <2>3. \A q \in Requests : /\ req'[q].pc = req[q].pc /\ req'[q].job = req[q].job
                            /\ req'[q].next = req[q].next /\ req'[q].made = req[q].made
    BY <1>5, <1>0 DEF Beat, Typed, TypeOK, Reqs
  <2> QED BY <2>1, <2>2, <2>3, <1>0 DEF Kept, Finished, Writers, Copies, Id, JobIds
<1>6. ASSUME NEW r \in Requests, IngestReturns(r) PROVE Writers' /\ Copies' /\ Kept
  <2>1. /\ Id(r) \in JobIds /\ UNCHANGED <<rows, poll>> /\ ingested' = ingested \cup {Id(r)}
    BY <1>6, <1>0, IdInJobIds DEF IngestReturns, Busy
  <2>2. /\ req'[r].pc = "writing" /\ req'[r].job = Complete(req[r].job)
        /\ req'[r].next = req[r].next /\ req'[r].made = req[r].made
        /\ \A q \in Requests : q # r => req'[q] = req[q]
    BY <1>6, <1>0, RequestFields DEF IngestReturns, Typed, TypeOK
  <2> QED BY <2>1, <2>2, <1>0 DEF Kept, Finished, Writers, Copies, Id, Complete
<1>7. ASSUME NEW r \in Requests, IngestRaises(r) PROVE Writers' /\ Copies' /\ Kept
  <2>1. UNCHANGED <<rows, poll, ingested>>
    BY <1>7 DEF IngestRaises
  <2>2. /\ req'[r].pc = "writing" /\ req'[r].job = Fail(req[r].job, "raised")
        /\ req'[r].next = req[r].next /\ req'[r].made = req[r].made
        /\ \A q \in Requests : q # r => req'[q] = req[q]
    BY <1>7, <1>0, RequestFields DEF IngestRaises, Typed, TypeOK
  <2> QED BY <2>1, <2>2, <1>0 DEF Kept, Finished, Writers, Copies, Id, Fail
<1>8. ASSUME NEW r \in Requests, WriteOutcome(r) PROVE Writers' /\ Copies' /\ Kept
  <2>1. /\ Id(r) \in JobIds /\ req[r].next <= req[r].made
        /\ UNCHANGED <<ingested, poll>>
        /\ Finished(req[r].job)
        /\ rows' = [rows EXCEPT ![Id(r)] = req[r].job]
    BY <1>8, <1>0, IdInJobIds DEF WriteOutcome, Writers, Busy, Typed, InHand
  <2>2. /\ req'[r].pc \in {"done", "ready"} /\ req'[r].job = Absent
        /\ req'[r].made = req[r].made
        /\ \A q \in Requests : q # r => req'[q] = req[q]
    BY <1>8, <1>0, RequestFields DEF WriteOutcome, Typed, TypeOK
  <2>3. Kept
    BY <2>1, <1>0 DEF Kept, Finished, Typed, TypeOK
  <2>4. Copies'
    BY <2>1, <2>2, <1>0 DEF Copies, Typed, TypeOK, Id, Absent
  <2>5. \A k \in 1..MaxBatch : k > req[r].made => <<r, k>> # Id(r)
    BY <2>1, <1>0 DEF Id, Typed, TypeOK, Reqs
  <2>6. Writers'
    BY <2>1, <2>2, <2>5, <1>0 DEF Kept, Finished, Writers, Typed, TypeOK, Id
  <2> QED BY <2>3, <2>4, <2>6
<1>9. ASSUME NEW i \in Instances, NEW j \in JobIds, PollFindsAbandoned(i, j)
      PROVE  Writers' /\ Copies' /\ Kept
  BY <1>9, <1>0 DEF PollFindsAbandoned, IsAbandoned, Fail, Kept, Finished, Writers, Copies, Typed, TypeOK, Id
<1>10. ASSUME NEW i \in Instances, PollWritesVerdict(i) PROVE Writers' /\ Copies' /\ Kept
  <2> DEFINE j == poll[i].job
  <2>1. /\ j \in JobIds /\ rows[j].status # "absent" /\ poll[i].rec.status = "failed"
        /\ rows' = [rows EXCEPT ![j] = poll[i].rec]
        /\ poll' = [poll EXCEPT ![i] = NoPoll] /\ UNCHANGED <<proc, req, ingested>>
    BY <1>10 DEF PollWritesVerdict, Writers
  <2>2. Kept
    BY <2>1, <1>0 DEF Kept, Finished, Typed, TypeOK
  <2>3. Copies'
    BY <2>1, <1>0 DEF Copies, Typed, TypeOK, Id
  <2>4. Writers'
    BY <2>1, <1>0 DEF Kept, Finished, Writers, Typed, TypeOK, JobIds
  <2> QED BY <2>2, <2>3, <2>4
<1>11. ASSUME NEW i \in Instances, PollRaises(i) \/ Crash(i) \/ Pause(i) \/ Resume(i)
       PROVE  Writers' /\ Copies' /\ Kept
  BY <1>11, <1>0 DEF PollRaises, Crash, Pause, Resume, Kept, Finished, Writers, Copies, Typed, TypeOK, Id
<1>12. CASE Tick
  <2>1. UNCHANGED <<poll, ingested>> /\ \A j \in JobIds : rows'[j].status = rows[j].status
    BY <1>12, <1>0 DEF Tick, Aged, Typed, TypeOK, JobRows
  <2>2. \A q \in Requests : /\ req'[q].pc = req[q].pc /\ req'[q].job = req[q].job
                            /\ req'[q].next = req[q].next /\ req'[q].made = req[q].made
    BY <1>12, <1>0 DEF Tick, Typed, TypeOK, Reqs
  <2> QED BY <2>1, <2>2, <1>0 DEF Kept, Finished, Writers, Copies, Id, JobIds
<1>13. CASE UNCHANGED vars
  BY <1>0, <1>13 DEF Inv, vars, Kept, Finished, Writers, Copies, Id
<1>14. Writers' /\ Copies' /\ Kept
  BY <1>1, <1>2, <1>3, <1>4, <1>5, <1>6, <1>7, <1>8, <1>9, <1>10, <1>11, <1>12, <1>13
     DEF Next
<1> QED BY <1>0, <1>14 DEF Inv

LEMMA InvHolds == Spec => []Inv
BY InitInv, InvStep, PTL DEF Spec

\* However the writes of workers, beats and readers interleave, a finished job
\* is never pending or absent again.
THEOREM FinishedForGood == Spec => NeverReopened
<1>1. Inv /\ [Next]_vars => [\A j \in JobIds : Finished(rows[j]) => Finished(rows'[j])]_vars
  BY InvStep DEF Kept
<1> QED BY <1>1, InvHolds, PTL DEF Spec, NeverReopened

\* A row says completed only of a source the pipeline did store.
THEOREM CompletionIsHonest == Spec => []CompletedMeansIngested
<1>1. Inv => CompletedMeansIngested
  BY DEF Inv, Copies
<1> QED BY <1>1, InvHolds, PTL

-----------------------------------------------------------------------------
(* Without pauses, lost beats and queues, a job in the hands of a live      *)
(* worker is never called abandoned, however long its ingestion takes.     *)

\* The deployment this holds of: requests of one source, a pool with a thread
\* for each, a beat at least as frequent as the threshold, and instances that
\* may stop, requests that may be refused and writes that may fail.
Regime ==
    /\ Faults \subseteq {"crash", "store", "reject"}
    /\ MaxBatch = 1
    /\ Interval <= Threshold
    /\ IsFiniteSet(Requests) /\ Cardinality(Requests) <= Threads

\* A live instance has the request's only job in hand.
Live(r) ==
    /\ Up(r)
    /\ req[r].pc \in Busy \cup {"ready"} \/ (req[r].pc = "accepting" /\ req[r].made > 0)

\* How old the job's row may be: no older than the beat thread's last beat
\* while the ingestion runs, not yet too old when its outcome is written.
Allowance(r) ==
    IF req[r].pc = "running" THEN req[r].heart
    ELSE IF req[r].pc = "writing" THEN Threshold ELSE 0

Fresh(r) ==
    /\ req[r].pc # "verdict"
    /\ req[r].pc = "running" => req[r].beats
    /\ rows[<<r, 1>>].status = "pending"
    /\ rows[<<r, 1>>].error = "none"
    /\ rows[<<r, 1>>].silence <= Allowance(r)
    /\ \A i \in Instances : poll[i] = NoPoll \/ poll[i].job # <<r, 1>>

FreshJobs ==
    /\ \A i \in Instances : proc[i] # "paused"
    /\ \A r \in Requests : Live(r) => Fresh(r)

LEMMA ThreadForEach ==
    ASSUME Regime, TypeOK, NEW r \in Requests, req[r].pc = "ready"
    PROVE  ThreadFree(HomeOf[r])
<1> DEFINE others == {q \in Requests : HomeOf[q] = HomeOf[r] /\ req[q].pc \in Busy}
<1>1. others \subseteq Requests \ {r}
  BY DEF Busy
<1>2. IsFiniteSet(Requests \ {r}) /\ Cardinality(Requests \ {r}) = Cardinality(Requests) - 1
  BY FS_RemoveElement DEF Regime
<1>3. Cardinality(others) <= Cardinality(Requests \ {r})
  BY <1>1, <1>2, FS_Subset
<1>4. Cardinality(Requests) \in Nat /\ Cardinality(others) \in Nat
  BY <1>1, <1>2, FS_Subset, FS_CardinalityType DEF Regime
<1>5. Cardinality(others) < Threads
  BY <1>2, <1>3, <1>4, JobsAssumption DEF Regime
<1> QED BY <1>5 DEF ThreadFree

\* Facts about a job in hand that every step below uses.
LEMMA LiveFacts ==
    ASSUME Regime, Inv, NEW r \in Requests
    PROVE  /\ <<r, 1>> \in JobIds
           /\ req[r].pc \in Busy \cup {"ready"} => Id(r) = <<r, 1>>
           /\ req[r].heart \in 0..Interval /\ Allowance(r) \in 0..Threshold
           /\ rows[<<r, 1>>].silence \in Nat
<1>1. /\ <<r, 1>> \in JobIds /\ req[r].heart \in 0..Interval
      /\ Allowance(r) \in 0..Threshold
  BY ConstantTypes DEF Regime, Inv, Typed, TypeOK, Reqs, JobIds, Allowance
<1>2. req[r].pc \in Busy \cup {"ready"} => Id(r) = <<r, 1>>
  BY DEF Regime, Inv, Typed, TypeOK, InHand, Reqs, Id
<1>3. rows[<<r, 1>>].silence \in Nat
  BY <1>1, ConstantTypes DEF Inv, Typed, TypeOK, JobRows
<1> QED BY <1>1, <1>2, <1>3

LEMMA InitFresh == Init => FreshJobs
BY DEF Init, FreshJobs, Live, Busy

LEMMA FreshStep ==
    ASSUME Regime, Inv, FreshJobs, [Next]_vars
    PROVE  FreshJobs'
<1>0. TypeOK
  BY DEF Inv, Typed
<1>1. ASSUME NEW r \in Requests, CreateJob(r) PROVE FreshJobs'
  <2>1. /\ req[r].made = 0 /\ req[r].pc = "accepting"
        /\ rows' = [rows EXCEPT ![<<r, 1>>] = NewJob]
        /\ req' = [req EXCEPT ![r].made = @ + 1] /\ UNCHANGED <<proc, poll>>
    <3>1. req[r].made \in 0..1 /\ req[r].made < 1
      BY <1>0, <1>1 DEF CreateJob, Regime, TypeOK, Reqs
    <3>2. req[r].made = 0
      BY <3>1
    <3> QED BY <1>1, <3>2 DEF CreateJob
  <2>2. rows[<<r, 1>>].status = "absent"
    BY <2>1, <1>0 DEF Inv, Writers, Regime
  <2>3. \A i \in Instances : poll[i] = NoPoll \/ poll[i].job # <<r, 1>>
    BY <2>2 DEF Inv, Writers
  <2>4. Fresh(r)'
    BY <2>1, <2>3, <1>0, LiveFacts DEF Fresh, TypeOK, Reqs, Allowance, NewJob
  <2>5. \A q \in Requests : q # r => (Live(q)' => Fresh(q)')
    BY <2>1, <1>0 DEF FreshJobs, Live, Fresh, TypeOK, Allowance, Up, JobIds
  <2> QED BY <2>1, <2>4, <2>5 DEF FreshJobs
<1>2. ASSUME NEW r \in Requests, RejectRequest(r) \/ TaskRaises(r) PROVE FreshJobs'
  <2>1. req' = [req EXCEPT ![r].pc = "dropped"] /\ UNCHANGED <<proc, rows, poll, ingested>>
    BY <1>2 DEF RejectRequest, TaskRaises
  <2>2. ~Live(r)'
    BY <2>1, <1>0 DEF Live, TypeOK, Reqs, Busy
  <2>3. \A q \in Requests : q # r => (Live(q)' => Fresh(q)')
    BY <2>1, <1>0 DEF FreshJobs, Live, Fresh, TypeOK, Allowance, Up
  <2> QED BY <2>1, <2>2, <2>3, <1>0 DEF FreshJobs
<1>2a. ASSUME NEW r \in Requests, Respond(r) PROVE FreshJobs'
  <2>1. /\ Live(r) /\ req[r].pc = "accepting"
        /\ req' = [req EXCEPT ![r].pc = "ready"] /\ UNCHANGED <<proc, rows, poll, ingested>>
    BY <1>2a DEF Respond, Live
  <2>2. Fresh(r)'
    BY <2>1, <1>0 DEF FreshJobs, Fresh, TypeOK, Reqs, Allowance
  <2>3. \A q \in Requests : q # r => (Live(q)' => Fresh(q)')
    BY <2>1, <1>0 DEF FreshJobs, Live, Fresh, TypeOK, Allowance, Up
  <2> QED BY <2>1, <2>2, <2>3, <1>0 DEF FreshJobs
<1>3. ASSUME NEW r \in Requests, StartTask(r) PROVE FreshJobs'
  <2>1. /\ Id(r) = <<r, 1>> /\ Live(r) /\ req[r].pc = "ready"
        /\ UNCHANGED <<rows, poll, proc>>
    BY <1>3, LiveFacts DEF StartTask, CanStart, Live
  <2>2. Fresh(r) /\ rows[Id(r)].silence \in Nat /\ rows[Id(r)].silence <= 0
    BY <2>1, LiveFacts DEF FreshJobs, Fresh, Allowance
  <2>3. ~IsAbandoned(rows[Id(r)])
    BY <2>2, ConstantTypes DEF IsAbandoned
  <2>4. /\ req'[r].pc = "running" /\ req'[r].heart = 0 /\ req'[r].beats
        /\ \A q \in Requests : q # r => req'[q] = req[q]
    <3>1. req' = [req EXCEPT ![r] = [req[r] EXCEPT !.pc = "running",
                      !.job = [rows[Id(r)] EXCEPT !.silence = 0], !.heart = 0, !.beats = TRUE]]
      BY <1>3, <2>3 DEF StartTask
    <3>2. req[r] \in Reqs
      BY <1>0 DEF TypeOK
    <3> QED BY <1>0, <3>1, <3>2 DEF TypeOK, Reqs
  <2> QED BY <2>1, <2>2, <2>4 DEF FreshJobs, Live, Fresh, Allowance, Up
<1>4. ASSUME NEW r \in Requests, WriteOwnVerdict(r) PROVE FreshJobs'
  BY <1>4 DEF WriteOwnVerdict, FreshJobs, Live, Fresh, Busy
<1>5. ASSUME NEW r \in Requests, Beat(r) PROVE FreshJobs'
  <2>1. /\ Id(r) = <<r, 1>> /\ Live(r) /\ Fresh(r) /\ <<r, 1>> \in JobIds
        /\ rows' = [rows EXCEPT ![<<r, 1>>] = Touched(rows[<<r, 1>>])]
        /\ req' = [req EXCEPT ![r].heart = 0] /\ UNCHANGED <<proc, poll>>
    BY <1>5, LiveFacts DEF Beat, BeatDue, Live, FreshJobs, Busy
  <2>2. rows'[<<r, 1>>] = [rows[<<r, 1>>] EXCEPT !.silence = 0]
    BY <2>1, <1>0 DEF Fresh, Touched, TypeOK
  <2>3. rows[<<r, 1>>] \in JobRows /\ req[r] \in Reqs
    BY <2>1, <1>0 DEF TypeOK
  <2>4. /\ rows'[<<r, 1>>].status = "pending" /\ rows'[<<r, 1>>].error = "none"
        /\ rows'[<<r, 1>>].silence = 0
    BY <2>1, <2>2, <2>3 DEF Fresh, JobRows
  <2>5. /\ req'[r].pc = req[r].pc /\ req'[r].beats = req[r].beats /\ req'[r].heart = 0
    BY <2>1, <2>3, <1>0 DEF TypeOK, Reqs
  <2>6. Fresh(r)'
    BY <2>1, <2>4, <2>5, ConstantTypes DEF Fresh, Allowance
  <2>7. \A q \in Requests : q # r => (Live(q)' => Fresh(q)')
    BY <2>1, <1>0 DEF FreshJobs, Live, Fresh, TypeOK, Allowance, Up, JobIds
  <2> QED BY <2>1, <2>6, <2>7 DEF FreshJobs
<1>6. ASSUME NEW r \in Requests, BeatRaises(r) PROVE FreshJobs'
  BY <1>6 DEF BeatRaises, Regime
<1>7. ASSUME NEW r \in Requests, IngestReturns(r) \/ IngestRaises(r) PROVE FreshJobs'
  <2>1. /\ Live(r) /\ Fresh(r) /\ req[r].pc = "running" /\ req[r] \in Reqs
        /\ UNCHANGED <<rows, proc, poll>>
    BY <1>7, <1>0 DEF IngestReturns, IngestRaises, Live, FreshJobs, Busy, TypeOK
  <2>2. req'[r].pc = "writing" /\ \A q \in Requests : q # r => req'[q] = req[q]
    <3>1. CASE IngestReturns(r)
      BY <3>1, <2>1, <1>0, RequestFields DEF IngestReturns, TypeOK
    <3>2. CASE IngestRaises(r)
      BY <3>2, <2>1, <1>0, RequestFields DEF IngestRaises, TypeOK
    <3> QED BY <1>7, <3>1, <3>2
  <2>3. rows[<<r, 1>>].silence <= Threshold
    BY <2>1, LiveFacts, ConstantTypes DEF Fresh, Allowance, Regime
  <2> QED BY <2>1, <2>2, <2>3 DEF FreshJobs, Live, Fresh, Allowance, Up
<1>8. ASSUME NEW r \in Requests, WriteOutcome(r) PROVE FreshJobs'
  <2>1. /\ Id(r) = <<r, 1>> /\ req[r] \in Reqs /\ req[r].pc = "writing"
        /\ rows' = [rows EXCEPT ![<<r, 1>>] = req[r].job] /\ UNCHANGED <<proc, poll>>
        /\ req[r].made = 1 /\ req[r].next = 1
    <3>1. req[r].pc = "writing" /\ req[r] \in Reqs /\ Id(r) = <<r, 1>>
      BY <1>8, <1>0, LiveFacts DEF WriteOutcome, Busy, TypeOK
    <3>2. req[r].next <= req[r].made
      BY <3>1 DEF Inv, Typed, InHand, Busy
    <3>3. req[r].next \in 1..2 /\ req[r].made \in 0..1
      BY <3>1 DEF Reqs, Regime
    <3>4. req[r].made = 1 /\ req[r].next = 1
      BY <3>2, <3>3
    <3> QED BY <1>8, <3>1, <3>4 DEF WriteOutcome
  <2>2. req'[r].pc = "done" /\ \A q \in Requests : q # r => req'[q] = req[q]
    BY <1>8, <1>0, <2>1, RequestFields DEF WriteOutcome, TypeOK
  <2> QED BY <2>1, <2>2, <1>0 DEF FreshJobs, Live, Fresh, Allowance, Up, Busy, TypeOK, JobIds
<1>9. ASSUME NEW i \in Instances, NEW j \in JobIds, PollFindsAbandoned(i, j) PROVE FreshJobs'
  <2>1. /\ rows[j].status = "pending" /\ rows[j].silence > Threshold
        /\ UNCHANGED <<rows, proc, req>>
        /\ poll' = [poll EXCEPT ![i] = [job |-> j, rec |-> Fail(rows[j], "abandoned")]]
    BY <1>9 DEF PollFindsAbandoned, IsAbandoned
  <2>2. \A r \in Requests : Live(r) => <<r, 1>> # j
    BY <2>1, LiveFacts, ConstantTypes DEF FreshJobs, Fresh
  <2> QED BY <2>1, <2>2, <1>0 DEF FreshJobs, Live, Fresh, Allowance, Up, TypeOK
<1>10. ASSUME NEW i \in Instances, PollWritesVerdict(i) PROVE FreshJobs'
  BY <1>10, <1>0 DEF PollWritesVerdict, FreshJobs, Live, Fresh, Allowance, Up, TypeOK, JobIds
<1>11. ASSUME NEW i \in Instances, PollRaises(i) \/ Crash(i) PROVE FreshJobs'
  BY <1>11, <1>0, JobsAssumption
     DEF PollRaises, Crash, FreshJobs, Live, Fresh, Allowance, Up, TypeOK
<1>12. ASSUME NEW i \in Instances, Pause(i) \/ Resume(i) PROVE FreshJobs'
  BY <1>12 DEF Pause, Resume, FreshJobs, Regime
<1>13. CASE Tick
  <2>1. UNCHANGED <<proc, poll>> /\ ~Prompt
    BY <1>13 DEF Tick
  <2>2. ASSUME NEW r \in Requests, Live(r)'
        PROVE  Fresh(r)'
    <3>1. req[r] \in Reqs /\ <<r, 1>> \in JobIds /\ rows[<<r, 1>>] \in JobRows
      BY <1>0, LiveFacts DEF TypeOK
    <3>2. req'[r].pc = req[r].pc /\ req'[r].made = req[r].made /\ req'[r].beats = req[r].beats
      BY <1>13, <3>1 DEF Tick, Reqs
    <3>3. Live(r) /\ Fresh(r)
      BY <2>1, <2>2, <3>2 DEF Live, Up, FreshJobs
    <3>4. req[r].pc = "running"
      BY <2>1, <3>3, <1>0, ThreadForEach DEF Live, Prompt, CanStart, Busy
    <3>5. req[r].beats /\ req[r].heart < Interval /\ req[r].heart \in Nat
      BY <2>1, <3>3, <3>4, LiveFacts, ConstantTypes DEF Prompt, BeatDue, Fresh, Live
    <3>6. req'[r].heart = req[r].heart + 1
      BY <1>13, <3>1, <3>5 DEF Tick, Reqs
    <3>7. rows'[<<r, 1>>] = [rows[<<r, 1>>] EXCEPT !.silence = Older(rows[<<r, 1>>].silence)]
      BY <1>13, <3>1, <3>3 DEF Tick, Aged, Fresh
    <3>8. rows[<<r, 1>>].silence <= req[r].heart /\ rows[<<r, 1>>].silence \in Nat
      BY <3>3, <3>4, LiveFacts DEF Fresh, Allowance
    <3>9. Older(rows[<<r, 1>>].silence) <= req[r].heart + 1
      BY <3>5, <3>8, ConstantTypes DEF Older
    <3>10. /\ rows'[<<r, 1>>].status = "pending" /\ rows'[<<r, 1>>].error = "none"
           /\ rows'[<<r, 1>>].silence = Older(rows[<<r, 1>>].silence)
      BY <3>1, <3>3, <3>7 DEF Fresh, JobRows
    <3> QED BY <2>1, <3>2, <3>3, <3>4, <3>6, <3>9, <3>10 DEF Fresh, Allowance
  <2> QED BY <2>1, <2>2 DEF FreshJobs
<1>14. CASE UNCHANGED vars
  BY <1>14 DEF vars, FreshJobs, Live, Fresh, Allowance, Up
<1> QED
  BY <1>1, <1>2, <1>2a, <1>3, <1>4, <1>5, <1>6, <1>7, <1>8, <1>9, <1>10, <1>11, <1>12, <1>13,
     <1>14 DEF Next

\* A job a live worker has in hand is never called abandoned, and no reader is
\* about to call it so, for any number of instances, requests and pollers.
THEOREM HealthyJobIsNotAbandoned ==
    ASSUME Regime
    PROVE  Spec => []NoVerdictOnRunningJob
<1>1. Inv /\ FreshJobs => NoVerdictOnRunningJob
  BY LiveFacts DEF FreshJobs, Live, Fresh, NoVerdictOnRunningJob
<1>2. Inv /\ FreshJobs /\ [Next]_vars => FreshJobs'
  BY FreshStep
<1> QED BY <1>1, <1>2, InitFresh, InvHolds, PTL DEF Spec

\* The readiness count includes every job a live worker is running.
THEOREM RunningWorkIsCounted ==
    ASSUME Regime
    PROVE  Spec => []RunningIsCounted
<1>1. Inv /\ FreshJobs => RunningIsCounted
  <2> SUFFICES ASSUME Inv, FreshJobs, NEW r \in Requests, Up(r), req[r].pc = "running"
               PROVE  Id(r) \in InFlight
    BY DEF RunningIsCounted
  <2>1. Id(r) = <<r, 1>> /\ <<r, 1>> \in JobIds /\ Allowance(r) \in 0..Threshold
    BY LiveFacts DEF Busy
  <2>2. /\ rows[<<r, 1>>].status = "pending"
        /\ rows[<<r, 1>>].silence <= Allowance(r)
        /\ rows[<<r, 1>>].silence \in Nat
    BY LiveFacts DEF FreshJobs, Live, Fresh, Busy
  <2>3. rows[<<r, 1>>].silence <= Threshold
    BY <2>1, <2>2, JobsAssumption
  <2> QED BY <2>1, <2>2, <2>3 DEF InFlight
<1>2. Inv /\ FreshJobs /\ [Next]_vars => FreshJobs'
  BY FreshStep
<1> QED BY <1>1, <1>2, InitFresh, InvHolds, PTL DEF Spec

-----------------------------------------------------------------------------
(* In the same deployment the rows carry out JobLifecycle: each step of    *)
(* any worker, beat or reader accepts one job, settles one pending job, or *)
(* changes nothing a caller can see.                                       *)

\* No reason stands on a job that is not settled, every copy a live worker will
\* write is an outcome of the ingestion, and a reader about to call a job
\* abandoned finds it pending or, by another reader's hand, abandoned already.
Settling ==
    /\ \A j \in JobIds : rows[j].status \in {"absent", "pending"} => rows[j].error = "none"
    /\ \A r \in Requests : Up(r) =>
          /\ req[r].pc = "running" => req[r].job.error = "none"
          /\ req[r].pc = "writing" =>
               \/ req[r].job.status = "completed" /\ req[r].job.error = "none"
               \/ req[r].job.status = "failed" /\ req[r].job.error = "raised"
    /\ \A i \in Instances : poll[i] # NoPoll =>
          /\ poll[i].rec.status = "failed" /\ poll[i].rec.error = "abandoned"
          /\ \/ rows[poll[i].job].status = "pending"
             \/ rows[poll[i].job].status = "failed" /\ rows[poll[i].job].error = "abandoned"

\* What a caller is told of a job, and what a step may do to it.
Told(row) == [status |-> row.status, error |-> row.error]

\* A row changes as JobLifecycle lets it, or not in anything a caller is told.
Proceeds(old, new) ==
    \/ Told(new) = Told(old)
    \/ Told(old) = Lifecycle!Says("absent", "none") /\ Told(new) = Lifecycle!Says("pending", "none")
    \/ Told(old) = Lifecycle!Says("pending", "none") /\ Told(new) \in Lifecycle!Outcomes

\* At most one row changes in what a caller is told.
StepOfOne ==
    \E k : /\ k \in JobIds => Proceeds(rows[k], rows'[k])
           /\ \A j \in JobIds : j # k => Told(rows'[j]) = Told(rows[j])

LEMMA InitSettling == Init => Settling
BY DEF Init, Settling, Absent, NoPoll

LEMMA SettlingStep ==
    ASSUME Regime, Inv, FreshJobs, Settling, [Next]_vars
    PROVE  Settling' /\ StepOfOne
<1>0. TypeOK /\ rows \in [JobIds -> JobRows]
  BY DEF Inv, Typed, TypeOK
<1>s. ASSUME \A j \in JobIds : Told(rows'[j]) = Told(rows[j])
      PROVE  StepOfOne
  BY <1>s DEF StepOfOne, Proceeds
<1>1. ASSUME NEW r \in Requests, CreateJob(r) PROVE Settling' /\ StepOfOne
  <2>1. PICK new : new = <<r, req[r].made + 1>>
    OBVIOUS
  <2>2. /\ new \in JobIds /\ rows[new].status = "absent"
        /\ rows' = [rows EXCEPT ![new] = NewJob]
        /\ req' = [req EXCEPT ![r].made = @ + 1] /\ UNCHANGED <<proc, poll>>
    BY <1>1, <1>0, <2>1, ConstantTypes DEF CreateJob, Inv, Writers, TypeOK, Reqs, JobIds
  <2>3. \A q \in Requests : req'[q].pc = req[q].pc /\ req'[q].job = req[q].job
    BY <2>2, <1>0 DEF TypeOK, Reqs
  <2>4. \A i \in Instances : poll[i] # NoPoll => poll[i].job \in JobIds /\ poll[i].job # new
    BY <2>2 DEF Inv, Writers
  <2>5. Settling'
    BY <2>2, <2>3, <2>4, <1>0 DEF Settling, NewJob, Up
  <2>6. rows[new].error = "none"
    BY <2>2 DEF Settling
  <2>7. Proceeds(rows[new], rows'[new])
    BY <2>2, <2>6, <1>0 DEF Proceeds, Told, NewJob, Lifecycle!Says
  <2>8. \A j \in JobIds : j # new => Told(rows'[j]) = Told(rows[j])
    BY <2>2, <1>0
  <2> QED BY <2>5, <2>7, <2>8 DEF StepOfOne
<1>2. ASSUME NEW r \in Requests, RejectRequest(r) \/ TaskRaises(r) \/ Respond(r) \/ BeatRaises(r)
      PROVE  Settling' /\ StepOfOne
  <2>1. UNCHANGED <<proc, rows, poll>>
    BY <1>2 DEF RejectRequest, TaskRaises, Respond, BeatRaises
  <2>2. \A q \in Requests : /\ req'[q].job = req[q].job
                            /\ req'[q].pc \in {"running", "writing"} => req'[q].pc = req[q].pc
    BY <1>2, <1>0 DEF RejectRequest, TaskRaises, Respond, BeatRaises, TypeOK, Reqs
  <2> QED BY <2>1, <2>2, <1>s DEF Settling, Up
<1>3. ASSUME NEW r \in Requests, StartTask(r) PROVE Settling' /\ StepOfOne
  <2>1. /\ Id(r) = <<r, 1>> /\ <<r, 1>> \in JobIds /\ Live(r) /\ req[r].pc = "ready"
        /\ UNCHANGED <<rows, poll, proc>>
    BY <1>3, LiveFacts DEF StartTask, CanStart, Live
  <2>2. Fresh(r) /\ rows[Id(r)].silence \in Nat /\ rows[Id(r)].silence <= 0
    BY <2>1, LiveFacts DEF FreshJobs, Fresh, Allowance
  <2>3. ~IsAbandoned(rows[Id(r)])
    BY <2>2, ConstantTypes DEF IsAbandoned
  <2>4. PICK job : job = [rows[Id(r)] EXCEPT !.silence = 0]
    OBVIOUS
  <2>5. job.error = "none"
    BY <2>1, <2>2, <2>4, <1>0 DEF Fresh, JobRows
  <2>6. req' = [req EXCEPT ![r] = [req[r] EXCEPT !.pc = "running", !.job = job,
                                                 !.heart = 0, !.beats = TRUE]]
    BY <1>3, <2>3, <2>4 DEF StartTask
  <2>7. req[r] \in Reqs
    BY <1>0 DEF TypeOK
  <2>8. /\ req'[r].pc = "running" /\ req'[r].job = job
        /\ \A q \in Requests : q # r => req'[q] = req[q]
    BY <2>6, <2>7, <1>0 DEF TypeOK, Reqs
  <2> QED BY <2>1, <2>5, <2>8, <1>s DEF Settling, Up
<1>4. ASSUME NEW r \in Requests, WriteOwnVerdict(r) PROVE Settling' /\ StepOfOne
  BY <1>4 DEF WriteOwnVerdict, FreshJobs, Live, Fresh, Busy
<1>5. ASSUME NEW r \in Requests, Beat(r) PROVE Settling' /\ StepOfOne
  <2>1. /\ rows' = [rows EXCEPT ![Id(r)] = Touched(rows[Id(r)])] /\ Id(r) \in JobIds
        /\ req' = [req EXCEPT ![r].heart = 0] /\ UNCHANGED <<proc, poll>>
    BY <1>5, IdInJobIds DEF Beat, BeatDue, Busy, Inv
  <2>2. Told(Touched(rows[Id(r)])) = Told(rows[Id(r)])
    BY <2>1, <1>0 DEF Told, Touched, JobRows
  <2>3. \A j \in JobIds : rows'[j] = IF j = Id(r) THEN Touched(rows[Id(r)]) ELSE rows[j]
    BY <2>1, <1>0
  <2>4. \A j \in JobIds : Told(rows'[j]) = Told(rows[j])
    BY <2>2, <2>3
  <2>5. \A j \in JobIds : rows'[j].status = rows[j].status /\ rows'[j].error = rows[j].error
    BY <2>4 DEF Told
  <2>6. \A q \in Requests : req'[q].pc = req[q].pc /\ req'[q].job = req[q].job
    BY <2>1, <1>0 DEF TypeOK, Reqs
  <2> QED BY <2>1, <2>4, <2>5, <2>6, <1>s DEF Settling, Up, Inv, Writers
<1>6. ASSUME NEW r \in Requests, IngestReturns(r) \/ IngestRaises(r)
      PROVE  Settling' /\ StepOfOne
  <2>1. PICK job : /\ \/ job = Complete(req[r].job) \/ job = Fail(req[r].job, "raised")
                   /\ req' = [req EXCEPT ![r] =
                        [req[r] EXCEPT !.pc = "writing", !.job = job, !.heart = 0, !.beats = FALSE]]
    BY <1>6 DEF IngestReturns, IngestRaises
  <2>2. Up(r) /\ req[r].pc = "running" /\ req[r] \in Reqs /\ UNCHANGED <<rows, proc, poll>>
    BY <1>6, <1>0 DEF IngestReturns, IngestRaises, TypeOK
  <2>3. \/ job.status = "completed" /\ job.error = "none"
        \/ job.status = "failed" /\ job.error = "raised"
    BY <2>1, <2>2 DEF Settling, Complete, Fail
  <2>4. /\ req'[r].pc = "writing" /\ req'[r].job = job
        /\ \A q \in Requests : q # r => req'[q] = req[q]
    BY <2>1, <2>2, <1>0 DEF TypeOK, Reqs
  <2> QED BY <2>2, <2>3, <2>4, <1>s DEF Settling, Up
<1>7. ASSUME NEW r \in Requests, WriteOutcome(r) PROVE Settling' /\ StepOfOne
  <2>1. /\ Id(r) = <<r, 1>> /\ <<r, 1>> \in JobIds /\ req[r] \in Reqs
        /\ req[r].pc = "writing" /\ Up(r) /\ Live(r) /\ Fresh(r)
        /\ rows' = [rows EXCEPT ![<<r, 1>>] = req[r].job] /\ UNCHANGED <<proc, poll>>
    BY <1>7, <1>0, LiveFacts DEF WriteOutcome, Busy, TypeOK, Live, FreshJobs
  <2>a. PICK pc \in {"done", "ready"} :
          pc = IF req[r].next = req[r].made THEN "done" ELSE "ready"
    OBVIOUS
  <2>2. req' = [req EXCEPT ![r] =
                   [req[r] EXCEPT !.pc = pc, !.next = req[r].next + 1, !.job = Absent]]
    BY <1>7, <2>a DEF WriteOutcome
  <2>3. req'[r].pc = pc /\ \A q \in Requests : q # r => req'[q] = req[q]
    BY <2>1, <2>2, <1>0 DEF TypeOK, Reqs
  <2>4. \/ req[r].job.status = "completed" /\ req[r].job.error = "none"
        \/ req[r].job.status = "failed" /\ req[r].job.error = "raised"
    BY <2>1 DEF Settling
  <2>5. \A i \in Instances : poll[i] # NoPoll => poll[i].job \in JobIds /\ poll[i].job # <<r, 1>>
    BY <2>1 DEF Fresh, Inv, Writers
  <2>6. Settling'
    BY <2>1, <2>2, <2>3, <2>4, <2>5, <1>0 DEF Settling, Up
  <2>7. Told(rows[<<r, 1>>]) = Lifecycle!Says("pending", "none")
    BY <2>1 DEF Fresh, Told, Lifecycle!Says
  <2>8. Told(req[r].job) \in Lifecycle!Outcomes
    BY <2>4 DEF Told, Lifecycle!Says, Lifecycle!Outcomes
  <2>9. /\ rows'[<<r, 1>>] = req[r].job
        /\ \A j \in JobIds : j # <<r, 1>> => rows'[j] = rows[j]
    BY <2>1, <1>0
  <2>10. Proceeds(rows[<<r, 1>>], rows'[<<r, 1>>])
    BY <2>7, <2>8, <2>9 DEF Proceeds
  <2> QED BY <2>6, <2>9, <2>10 DEF StepOfOne
<1>8. ASSUME NEW i \in Instances, NEW j \in JobIds, PollFindsAbandoned(i, j)
      PROVE  Settling' /\ StepOfOne
  <2>1. PICK verdict : verdict = [job |-> j, rec |-> Fail(rows[j], "abandoned")]
    OBVIOUS
  <2>2. /\ rows[j].status = "pending" /\ UNCHANGED <<rows, proc, req>>
        /\ poll' = [poll EXCEPT ![i] = verdict]
    BY <1>8, <2>1 DEF PollFindsAbandoned, IsAbandoned
  <2>3. verdict.job = j /\ verdict.rec.status = "failed" /\ verdict.rec.error = "abandoned"
    BY <2>1 DEF Fail
  <2>4. \A k \in Instances : poll'[k] = IF k = i THEN verdict ELSE poll[k]
    BY <2>2, <1>0 DEF TypeOK
  <2> QED BY <2>2, <2>3, <2>4, <1>s DEF Settling, Up
<1>9. ASSUME NEW i \in Instances, PollWritesVerdict(i) PROVE Settling' /\ StepOfOne
  <2>1. PICK j, rec : j = poll[i].job /\ rec = poll[i].rec
    OBVIOUS
  <2>2. /\ poll[i] # NoPoll /\ UNCHANGED <<proc, req>> /\ j \in JobIds
        /\ rows' = [rows EXCEPT ![j] = rec] /\ poll' = [poll EXCEPT ![i] = NoPoll]
        /\ rec.status = "failed" /\ rec.error = "abandoned"
        /\ \/ rows[j].status = "pending" /\ rows[j].error = "none"
           \/ rows[j].status = "failed" /\ rows[j].error = "abandoned"
    BY <1>9, <2>1 DEF PollWritesVerdict, Settling, Inv, Writers
  <2>3. \A k \in JobIds : rows'[k] = IF k = j THEN rec ELSE rows[k]
    BY <2>2, <1>0
  <2>4. \A k \in Instances : poll'[k] = IF k = i THEN NoPoll ELSE poll[k]
    BY <2>2, <1>0 DEF TypeOK
  <2>5. Settling'
    BY <2>2, <2>3, <2>4 DEF Settling, Up, Inv, Writers
  <2>6. Proceeds(rows[j], rows'[j])
    BY <2>2, <2>3 DEF Proceeds, Told, Lifecycle!Says, Lifecycle!Outcomes
  <2> QED BY <2>3, <2>5, <2>6 DEF StepOfOne
<1>10. ASSUME NEW i \in Instances, PollRaises(i) \/ Crash(i) PROVE Settling' /\ StepOfOne
  <2>1. /\ UNCHANGED <<rows, req>> /\ poll' = [poll EXCEPT ![i] = NoPoll]
        /\ \A r \in Requests : Up(r)' => Up(r)
    BY <1>10, <1>0, JobsAssumption DEF PollRaises, Crash, Up, TypeOK
  <2>2. \A k \in Instances : poll'[k] = IF k = i THEN NoPoll ELSE poll[k]
    BY <2>1, <1>0 DEF TypeOK
  <2> QED BY <2>1, <2>2, <1>s DEF Settling
<1>11. ASSUME NEW i \in Instances, Pause(i) \/ Resume(i) PROVE Settling' /\ StepOfOne
  BY <1>11 DEF Pause, Resume, FreshJobs, Regime
<1>12. CASE Tick
  <2>1. UNCHANGED <<proc, poll>>
    BY <1>12 DEF Tick
  <2>2. \A j \in JobIds : rows'[j].status = rows[j].status /\ rows'[j].error = rows[j].error
    BY <1>12, <1>0 DEF Tick, Aged, JobRows
  <2>3. \A q \in Requests : req'[q].pc = req[q].pc /\ req'[q].job = req[q].job
    BY <1>12, <1>0 DEF Tick, TypeOK, Reqs
  <2>4. \A j \in JobIds : Told(rows'[j]) = Told(rows[j])
    BY <2>2 DEF Told
  <2> QED BY <2>1, <2>2, <2>3, <2>4, <1>s DEF Settling, Up, Inv, Writers
<1>13. CASE UNCHANGED vars
  BY <1>13, <1>s DEF vars, Settling, Up
<1> QED BY <1>1, <1>2, <1>3, <1>4, <1>5, <1>6, <1>7, <1>8, <1>9, <1>10, <1>11, <1>12, <1>13 DEF Next

\* A caller is told of each job that it was accepted once and settled once, and
\* never again anything else, for any number of instances, requests and pollers
\* (jobs.py create, get, update, touch; routes.py get_job).
THEOREM JobsSettleOnce ==
    ASSUME Regime
    PROVE  Spec => Lifecycle!Safety
<1> DEFINE answer == [j \in JobIds |-> [status |-> rows[j].status, error |-> rows[j].error]]
<1>1. Init => Lifecycle!Init
  BY DEF Init, Absent, Lifecycle!Init, Lifecycle!Says
<1>2. ASSUME Inv, FreshJobs, Settling, [Next]_vars
      PROVE  Lifecycle!Next \/ answer' = answer
  <2>1. PICK k : /\ k \in JobIds => Proceeds(rows[k], rows'[k])
                 /\ \A j \in JobIds : j # k => Told(rows'[j]) = Told(rows[j])
    BY <1>2, SettlingStep DEF StepOfOne
  <2>2. PICK old, new : /\ old = [j \in JobIds |-> Told(rows[j])]
                        /\ new = [j \in JobIds |-> Told(rows'[j])]
    OBVIOUS
  <2>3. answer = old /\ answer' = new
    BY <2>2 DEF Told
  <2>4. CASE \A j \in JobIds : Told(rows'[j]) = Told(rows[j])
    <3>1. old = new
      BY <2>2, <2>4
    <3> QED BY <2>3, <3>1
  <2>5. ASSUME k \in JobIds
        PROVE  /\ old[k] = Told(rows[k])
               /\ new = [old EXCEPT ![k] = Told(rows'[k])]
    BY <2>1, <2>2, <2>5
  <2>6. CASE /\ k \in JobIds
             /\ Told(rows[k]) = Lifecycle!Says("absent", "none")
             /\ Told(rows'[k]) = Lifecycle!Says("pending", "none")
    <3>1. Lifecycle!Accept(k)
      BY <2>3, <2>5, <2>6 DEF Lifecycle!Accept
    <3>2. Lifecycle!Next
      BY <3>1, <2>6 DEF Lifecycle!Next
    <3> QED BY <3>2
  <2>7. CASE /\ k \in JobIds
             /\ Told(rows[k]) = Lifecycle!Says("pending", "none")
             /\ Told(rows'[k]) \in Lifecycle!Outcomes
    <3>1. Lifecycle!Settle(k)
      BY <2>3, <2>5, <2>7 DEF Lifecycle!Settle
    <3>2. Lifecycle!Next
      BY <3>1, <2>7 DEF Lifecycle!Next
    <3> QED BY <3>2
  <2>8. k \notin JobIds => \A j \in JobIds : Told(rows'[j]) = Told(rows[j])
    BY <2>1
  <2>9. k \in JobIds /\ Told(rows'[k]) = Told(rows[k]) =>
          \A j \in JobIds : Told(rows'[j]) = Told(rows[j])
    BY <2>1
  <2>10. \/ \A j \in JobIds : Told(rows'[j]) = Told(rows[j])
         \/ /\ k \in JobIds
            /\ Told(rows[k]) = Lifecycle!Says("absent", "none")
            /\ Told(rows'[k]) = Lifecycle!Says("pending", "none")
         \/ /\ k \in JobIds
            /\ Told(rows[k]) = Lifecycle!Says("pending", "none")
            /\ Told(rows'[k]) \in Lifecycle!Outcomes
    BY <2>1, <2>8, <2>9 DEF Proceeds
  <2> QED BY <2>4, <2>6, <2>7, <2>10
<1>3. Inv /\ FreshJobs /\ Settling /\ [Next]_vars =>
        FreshJobs' /\ Settling' /\ [Lifecycle!Next]_answer
  BY <1>2, FreshStep, SettlingStep
<1> QED BY <1>1, <1>3, InitFresh, InitSettling, InvHolds, PTL DEF Spec, Lifecycle!Safety
=============================================================================
