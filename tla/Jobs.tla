-------------------------------- MODULE Jobs --------------------------------
(***************************************************************************)
(* Ingestion jobs: the rows every instance of the service shares           *)
(* (jobs.py), the background tasks that carry them out (routes.py), the    *)
(* heartbeat that keeps a running job's row fresh, and the read that calls *)
(* a silent job abandoned.                                                 *)
(*                                                                         *)
(* Every timestamp the code compares is compared with the present, so a    *)
(* row holds the ticks since its updated_at (silence) and there is no      *)
(* clock to bound.  Ages saturate just past the threshold, beyond which    *)
(* nothing distinguishes them.                                             *)
(***************************************************************************)
EXTENDS Integers, FiniteSets

CONSTANTS
    Instances,   \* processes of the service, as instance_id() names them
    Mortal,      \* the instances that may be paused or killed
    Requests,    \* submissions accepted by POST /sources/files or /urls
    HomeOf,      \* the instance that accepts each request
    MaxBatch,    \* most sources one request names (a bound)
    Threads,     \* worker threads of an instance's pool
    Threshold,   \* job_orphan_threshold_seconds, in ticks
    Interval,    \* HEARTBEAT_INTERVAL_SECONDS, in ticks
    Faults       \* what may go wrong in a behaviour

AllFaults == {"crash", "pause", "beat", "store", "reject"}

ASSUME JobsAssumption ==
    /\ Mortal \subseteq Instances
    /\ HomeOf \in [Requests -> Instances]
    /\ MaxBatch \in Nat \ {0}
    /\ Threads \in Nat \ {0}
    /\ Threshold \in Nat \ {0}
    /\ Interval \in Nat \ {0}
    /\ Faults \subseteq AllFaults

JobIds == Requests \X (1..MaxBatch)
MaxAge == Threshold + 1
Older(age) == IF age < MaxAge THEN age + 1 ELSE age

VARIABLES
    proc,      \* instance -> "up", "paused" or "down"
    rows,      \* the jobs table
    req,       \* request -> the handler and then the worker that serve it
    poll,      \* instance -> the verdict a GET /jobs/{id} has yet to write
    ingested   \* jobs whose pipeline call returned without raising

vars == <<proc, rows, req, poll, ingested>>

-----------------------------------------------------------------------------
(* Records.  A job's result stands for the pipeline's answer, its error    *)
(* for the two texts the code can put there.                               *)

Absent  == [status |-> "absent", error |-> "none", silence |-> 0]
NewJob  == [status |-> "pending", error |-> "none", silence |-> 0]
JobRows == [status : {"absent", "pending", "completed", "failed"},
            error : {"none", "abandoned", "raised"},
            silence : 0..MaxAge]

\* Mutant: the bootstrap's word for its own end, "complete".
CompletePlain(job) == [status |-> "complete", error |-> job.error, silence |-> 0]
\* complete() sets the result and leaves the error as it was.
Complete(job) == [status |-> "completed", error |-> job.error, silence |-> 0]
Fail(job, why) == [status |-> "failed", error |-> why, silence |-> 0]

\* Mutant: the verdict forgets to ask whether the job is still pending.
IsAbandonedAtAnyStatus(job) == job.status # "absent" /\ job.silence > Threshold
IsAbandoned(job) == job.status = "pending" /\ job.silence > Threshold

Finished(job) == job.status \in {"completed", "failed"}

\* Mutant: the count leaves out a row that is just at its cutoff.
InFlightLately == {j \in JobIds : /\ rows[j].status = "pending"
                                  /\ rows[j].silence < Threshold}
\* What readiness counts.
InFlight == {j \in JobIds : /\ rows[j].status = "pending"
                            /\ rows[j].silence <= Threshold}

NoPoll   == [job |-> <<>>, rec |-> Absent]
PollRecs == {NoPoll} \cup [job : JobIds, rec : JobRows]

PCs == {"accepting", "ready", "verdict", "running", "writing", "done", "dropped"}
Busy == {"verdict", "running", "writing"}
Reqs == [pc   : PCs,
         made : 0..MaxBatch,      \* jobs created so far
         next : 1..(MaxBatch + 1),\* the task the worker takes next
         job  : JobRows,          \* the worker's own copy of the record
         heart : 0..Interval,     \* ticks since the beat thread last woke
         beats : BOOLEAN]         \* the beat thread is alive

Id(r) == <<r, req[r].next>>
Up(r) == proc[HomeOf[r]] = "up"
ThreadFree(i) ==
    Cardinality({r \in Requests : HomeOf[r] = i /\ req[r].pc \in Busy}) < Threads

TypeOK ==
    /\ proc \in [Instances -> {"up", "paused", "down"}]
    /\ rows \in [JobIds -> JobRows]
    /\ req \in [Requests -> Reqs]
    /\ poll \in [Instances -> PollRecs]
    /\ ingested \subseteq JobIds

Init ==
    /\ proc = [i \in Instances |-> "up"]
    /\ rows = [j \in JobIds |-> Absent]
    /\ req = [r \in Requests |->
                [pc |-> "accepting", made |-> 0, next |-> 1, job |-> Absent,
                 heart |-> 0, beats |-> FALSE]]
    /\ poll = [i \in Instances |-> NoPoll]
    /\ ingested = {}

-----------------------------------------------------------------------------
(* The handler that accepts a request.                                     *)

\* One turn of the upload loop: the job is recorded and its task queued.
CreateJob(r) ==
    /\ Up(r)
    /\ req[r].pc = "accepting"
    /\ req[r].made < MaxBatch
    /\ rows' = [rows EXCEPT ![<<r, req[r].made + 1>>] = NewJob]
    /\ req' = [req EXCEPT ![r].made = @ + 1]
    /\ UNCHANGED <<proc, poll, ingested>>

\* A later upload is refused with a 400, or create() raises: the response
\* carries no tasks, and the jobs already recorded stay in the table.
RejectRequest(r) ==
    /\ "reject" \in Faults
    /\ Up(r)
    /\ req[r].pc = "accepting"
    /\ req' = [req EXCEPT ![r].pc = "dropped"]
    /\ UNCHANGED <<proc, rows, poll, ingested>>

\* The response is sent and the request's tasks begin, one after another.
Respond(r) ==
    /\ Up(r)
    /\ req[r].pc = "accepting"
    /\ req[r].made > 0
    /\ req' = [req EXCEPT ![r].pc = "ready"]
    /\ UNCHANGED <<proc, rows, poll, ingested>>

-----------------------------------------------------------------------------
(* _run_file_ingestion and _run_url_ingestion, one job at a time.          *)

CanStart(r) ==
    /\ Up(r)
    /\ req[r].pc = "ready"
    /\ ThreadFree(HomeOf[r])

\* jobs.get(job_id): the worker reads its own job like any other reader, so
\* a job that waited too long is judged abandoned by the instance that owns it.
StartTask(r) ==
    /\ CanStart(r)
    /\ LET row == rows[Id(r)] IN
         req' = [req EXCEPT ![r] =
                   IF IsAbandoned(row)
                   THEN [req[r] EXCEPT !.pc = "verdict", !.job = Fail(row, "abandoned")]
                   ELSE [req[r] EXCEPT !.pc = "running",
                                       !.job = [row EXCEPT !.silence = 0],
                                       !.heart = 0, !.beats = TRUE]]
    /\ UNCHANGED <<proc, rows, poll, ingested>>

\* The worker's read writes its verdict back, and the work starts all the same.
WriteOwnVerdict(r) ==
    /\ Up(r)
    /\ req[r].pc = "verdict"
    /\ rows' = [rows EXCEPT ![Id(r)] = req[r].job]
    /\ req' = [req EXCEPT ![r] =
                 [req[r] EXCEPT !.pc = "running", !.heart = 0, !.beats = TRUE]]
    /\ UNCHANGED <<proc, poll, ingested>>

\* Mutant: the status test of touch() inverted.
TouchedUnlessPending(row) ==
    IF row.status = "pending" THEN row ELSE [row EXCEPT !.silence = 0]
Touched(row) == IF row.status = "pending" THEN [row EXCEPT !.silence = 0] ELSE row

BeatDue(r) ==
    /\ Up(r)
    /\ req[r].pc = "running"
    /\ req[r].beats
    /\ req[r].heart = Interval

\* Mutant: the beat writes the worker's whole copy, as update() does.
BeatWritesCopy(r) ==
    /\ BeatDue(r)
    /\ rows' = [rows EXCEPT ![Id(r)] = req[r].job]
    /\ req' = [req EXCEPT ![r].heart = 0]
    /\ UNCHANGED <<proc, poll, ingested>>
Beat(r) ==
    /\ BeatDue(r)
    /\ rows' = [rows EXCEPT ![Id(r)] = Touched(@)]
    /\ req' = [req EXCEPT ![r].heart = 0]
    /\ UNCHANGED <<proc, poll, ingested>>

\* touch() raises: nothing in beat() catches it, so the thread ends.
BeatRaises(r) ==
    /\ "beat" \in Faults
    /\ BeatDue(r)
    /\ req' = [req EXCEPT ![r].beats = FALSE]
    /\ UNCHANGED <<proc, rows, poll, ingested>>

\* The pipeline call ends, the beat thread is joined, the copy is settled.
IngestReturns(r) ==
    /\ Up(r)
    /\ req[r].pc = "running"
    /\ ingested' = ingested \cup {Id(r)}
    /\ req' = [req EXCEPT ![r] =
                 [req[r] EXCEPT !.pc = "writing", !.job = Complete(req[r].job), !.heart = 0, !.beats = FALSE]]
    /\ UNCHANGED <<proc, rows, poll>>

\* Mutant: the job is completed on the way out of the heartbeat, raised or not.
IngestRaisesCompleted(r) ==
    /\ Up(r)
    /\ req[r].pc = "running"
    /\ req' = [req EXCEPT ![r] =
                 [req[r] EXCEPT !.pc = "writing", !.job = Complete(req[r].job),
                                !.heart = 0, !.beats = FALSE]]
    /\ UNCHANGED <<proc, rows, poll, ingested>>
IngestRaises(r) ==
    /\ Up(r)
    /\ req[r].pc = "running"
    /\ req' = [req EXCEPT ![r] =
                 [req[r] EXCEPT !.pc = "writing", !.job = Fail(req[r].job, "raised"), !.heart = 0, !.beats = FALSE]]
    /\ UNCHANGED <<proc, rows, poll, ingested>>

\* jobs.update(job), unconditional; then the request's next task, if any.
WriteOutcome(r) ==
    /\ Up(r)
    /\ req[r].pc = "writing"
    /\ rows' = [rows EXCEPT ![Id(r)] = req[r].job]
    /\ req' = [req EXCEPT ![r] =
                 [req[r] EXCEPT !.pc = IF req[r].next = req[r].made THEN "done" ELSE "ready",
                           !.next = req[r].next + 1, !.job = Absent]]
    /\ UNCHANGED <<proc, poll, ingested>>

\* The store raises outside the task's try: the exception ends this task and
\* every task queued behind it.
TaskRaises(r) ==
    /\ "store" \in Faults
    /\ Up(r)
    /\ \/ CanStart(r)
       \/ req[r].pc \in {"verdict", "writing"}
    /\ req' = [req EXCEPT ![r].pc = "dropped"]
    /\ UNCHANGED <<proc, rows, poll, ingested>>

-----------------------------------------------------------------------------
(* GET /jobs/{job_id}.  A read that answers from the row changes nothing;  *)
(* one that finds it abandoned writes its verdict before it answers.       *)

PollFindsAbandoned(i, j) ==
    /\ proc[i] = "up"
    /\ poll[i] = NoPoll
    /\ IsAbandoned(rows[j])
    /\ poll' = [poll EXCEPT ![i] = [job |-> j, rec |-> Fail(rows[j], "abandoned")]]
    /\ UNCHANGED <<proc, rows, req, ingested>>

\* Mutant: the verdict is answered and not written back.
PollOnlyAnswers(i) ==
    /\ proc[i] = "up"
    /\ poll[i] # NoPoll
    /\ poll' = [poll EXCEPT ![i] = NoPoll]
    /\ UNCHANGED <<proc, rows, req, ingested>>
PollWritesVerdict(i) ==
    /\ proc[i] = "up"
    /\ poll[i] # NoPoll
    /\ rows' = [rows EXCEPT ![poll[i].job] = poll[i].rec]
    /\ poll' = [poll EXCEPT ![i] = NoPoll]
    /\ UNCHANGED <<proc, req, ingested>>

PollRaises(i) ==
    /\ "store" \in Faults
    /\ proc[i] = "up"
    /\ poll[i] # NoPoll
    /\ poll' = [poll EXCEPT ![i] = NoPoll]
    /\ UNCHANGED <<proc, rows, req, ingested>>

-----------------------------------------------------------------------------
(* Processes and time.                                                     *)

Crash(i) ==
    /\ "crash" \in Faults
    /\ i \in Mortal
    /\ proc[i] # "down"
    /\ proc' = [proc EXCEPT ![i] = "down"]
    /\ poll' = [poll EXCEPT ![i] = NoPoll]
    /\ UNCHANGED <<rows, req, ingested>>

Pause(i) ==
    /\ "pause" \in Faults
    /\ i \in Mortal
    /\ proc[i] = "up"
    /\ proc' = [proc EXCEPT ![i] = "paused"]
    /\ UNCHANGED <<rows, req, poll, ingested>>

Resume(i) ==
    /\ proc[i] = "paused"
    /\ proc' = [proc EXCEPT ![i] = "up"]
    /\ UNCHANGED <<rows, req, poll, ingested>>

\* A step of a live instance that takes far less than a tick: everything but
\* the pipeline call, the wait for a free thread and the wait between beats.
Prompt ==
    \/ \E r \in Requests : Up(r) /\ req[r].pc \in {"verdict", "writing"}
    \/ \E r \in Requests : Up(r) /\ req[r].pc = "accepting" /\ req[r].made > 0
    \/ \E r \in Requests : CanStart(r) \/ BeatDue(r)
    \/ \E i \in Instances : proc[i] = "up" /\ poll[i] # NoPoll

Aged(row) == IF row.status = "absent" THEN row ELSE [row EXCEPT !.silence = Older(@)]

Tick ==
    /\ ~Prompt
    /\ rows' = [j \in JobIds |-> Aged(rows[j])]
    /\ req' = [r \in Requests |->
                 IF req[r].beats /\ req[r].heart < Interval
                 THEN [req[r] EXCEPT !.heart = @ + 1] ELSE req[r]]
    /\ UNCHANGED <<proc, poll, ingested>>

Work(r) ==
    \/ CreateJob(r) \/ Respond(r) \/ StartTask(r) \/ WriteOwnVerdict(r)
    \/ Beat(r) \/ WriteOutcome(r)

Ends(r) == IngestReturns(r) \/ IngestRaises(r)

Next ==
    \/ \E r \in Requests :
         \/ CreateJob(r) \/ RejectRequest(r) \/ Respond(r)
         \/ StartTask(r) \/ WriteOwnVerdict(r) \/ Beat(r) \/ BeatRaises(r)
         \/ IngestReturns(r) \/ IngestRaises(r) \/ WriteOutcome(r) \/ TaskRaises(r)
    \/ \E i \in Instances :
         \/ \E j \in JobIds : PollFindsAbandoned(i, j)
         \/ PollWritesVerdict(i) \/ PollRaises(i)
         \/ Crash(i) \/ Pause(i) \/ Resume(i)
    \/ Tick

Spec == Init /\ [][Next]_vars

\* Threads are scheduled, a pipeline call ends, time passes, and a caller
\* keeps polling each job at whatever instance is up.  Fairness is strong where
\* a pause or a failing store can disable a step again and again: an instance
\* is not suspended for ever just before its next instruction, and the store
\* does not refuse the same write for ever.
FairSpec ==
    /\ Spec
    /\ \A r \in Requests : SF_vars(Work(r)) /\ SF_vars(Ends(r))
    /\ \A j \in JobIds : WF_vars(\E i \in Instances : PollFindsAbandoned(i, j))
    /\ \A i \in Instances : SF_vars(PollWritesVerdict(i))
    /\ SF_vars(Tick)
-----------------------------------------------------------------------------
(* Properties.                                                             *)

\* A job is called abandoned only when nothing carries it out: no live worker
\* has it in hand, whatever other readers are about to write (jobs.py
\* _is_abandoned, job_heartbeat: a slow job must not look like a dead one).
NoVerdictOnRunningJob ==
    \A r \in Requests :
        Up(r) /\ req[r].pc \in Busy =>
            /\ rows[Id(r)].error # "abandoned"
            /\ \A i \in Instances : poll[i] = NoPoll \/ poll[i].job # Id(r)

\* The readiness count of any instance includes every job a live worker is
\* running, however long it has run (jobs.py in_flight, routes.py health): the
\* cutoff of the count never hides work that the beat keeps fresh.
RunningIsCounted ==
    \A r \in Requests : Up(r) /\ req[r].pc = "running" => Id(r) \in InFlight

\* A row says completed only if the pipeline did store the job's source,
\* however the writes of workers and readers interleave.
CompletedMeansIngested ==
    \A j \in JobIds : rows[j].status = "completed" => j \in ingested

\* No write of any worker, beat or reader takes a finished job back to pending.
NeverReopened ==
    [][\A j \in JobIds : Finished(rows[j]) => Finished(rows'[j])]_vars

\* Every recorded job comes to an end a caller can see, through crashes,
\* rejected requests, dropped tasks and beat threads that died.
EventuallySettled ==
    \A j \in JobIds : rows[j].status = "pending" ~> Finished(rows[j])

\* What a caller is promised of one job: accepted, then settled once and for
\* all, with an error exactly when it failed.
Lifecycle == INSTANCE JobLifecycle WITH
    Jobs <- JobIds,
    answer <- [j \in JobIds |-> [status |-> rows[j].status, error |-> rows[j].error]]

ImplementsLifecycle == Lifecycle!Spec
=============================================================================
