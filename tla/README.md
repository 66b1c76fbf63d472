# Verification of doc-etl-api

doc-etl-api is a retrieval service: a client submits a source (an uploaded file
or a URL), the service converts it to markdown, cuts that into chunks, embeds
them and stores them, and answers searches with the chunks. Several instances of
it may run over one PostgreSQL database. This directory holds TLA+ models of the
parts in which something can go wrong between two steps, the TLC runs that check
them on small instances, and the theorems TLAPS proves about them for every
value of their constants.

Paths below are relative to `src/`. Line numbers of every modelled definition
are in `PROJECT.json` ("map").

## 1. The system

| Part | Code | State | Modules |
|---|---|---|---|
| Job records, registry, heartbeat | `doc_etl_api/jobs.py` | one row per job, shared | `Jobs`, `JobLifecycle` |
| Ingestion handlers and tasks | `doc_etl_api/routes.py` | a request's queue of tasks; the worker's copy of a record | `Jobs` |
| Claims on corpus sources | `doc_etl_api/claims.py` | one row per claimed source, shared | `Claims` |
| Corpus bootstrap | `doc_etl_api/bootstrap.py` | one thread per instance, its failures and status | `Bootstrap` |
| Index writes, snapshot, content read | `doc_etl_api/pipeline.py`, `store.py` | catalog, documents, nodes and map, shared; a snapshot and a lock per instance | `SourceIndex`, `AtomicIndex` |
| Chunking | `doc_etl_api/pipeline.py` | none between documents | `Layout`, then `Chunking` |
| Search and the surroundings of a hit | `doc_etl_api/pipeline.py` | none of its own | `Search` |
| Start-up of the durable store | `doc_etl_api/store.py` | extension, tables, vector column's width, recorded embedding model, shared | `Startup` |
| Conversion of documents and pages | `doc_etl_api/extraction.py` | none | an ingestion that returns or raises |
| Settings, schemas, assembly | `config.py`, `schemas.py`, `main.py` | none | the models' constants |
| OCR ordering script | a diagnostic run by hand | none | not modelled |

How they interact: a handler records jobs and queues tasks; a task ingests
through the pipeline under a heartbeat and settles its job; any instance answers
`GET /jobs/{id}` from the shared rows, and writes one when it finds a job
abandoned. At start an instance's bootstrap thread walks the corpus, takes a
claim on each source, refreshes its snapshot, ingests under a claim heartbeat,
and releases. Both ways of ingesting end in `_replace_source`, one transaction
of the database behind the process's index lock, followed by a rebuild of the
process's snapshot. Searches and content reads answer from that snapshot and
from the shared store, under the same process lock. Before any of this an
instance establishes what is missing of the shared database and checks that the
collection is of its embedding model.

### What is hard, and what makes each part correct

*Jobs.* Operations: create, touch (conditional), update (the whole record,
unconditional), the read that judges, and the readiness count. A row is written
by its worker, by the worker's beat thread, and by any reader on any instance,
each from a copy it read earlier. Instances die, are suspended, and lose the
store. Correct means: a job in a live worker's hands is not called abandoned and
is counted; a finished job is not reopened; completed is true; every recorded
job comes to an end a caller can see.

*Bootstrap and claims.* Operations: claim, refresh, release, and the walk. Correct
means: one instance loads a source at a time; a claim moves by its owner or by
going stale; complete is reported of a corpus the index holds; nobody waits for
ever; a dead instance's source is loaded by another.

*Index.* Operations: replace, refresh, content read, start. Three kinds of
locks (the process's, the source's row, the map's row), READ COMMITTED, a
snapshot that is behind. Correct means: every committed state holds whole
sources, and a replacement takes effect at once; snapshots do not go back; a
reader is not given two ingestions mixed; no circle of locks.

*Start-up.* Each step looks at the database in one statement and changes it in a
later one, while other instances do the same and may die between two steps.
Correct means: an instance serves only from a collection its vectors fit and that
records its model; two models do not share one; a lost race fails a start-up and
not the deployment.

*Search.* A hit is followed by one read of the store per chunk around it. The
process's own writers wait; another instance's commit comes between any two
reads, and a failed ingestion may have left the index, the snapshot and the store
at odds. Correct means: the passage is the hit's section, cut to the ceiling
around the hit; it never mixes what is not one run; the walk ends.

*Chunking.* Reading lines (fences, headings, blank lines, tables) into units,
dividing what is too wide within budgets that shrink by the heading, the table's
header and the model's own tokens, then a loop that merges, steps back and gives
up. Correct means: it ends, loses and reorders nothing, makes nothing longer than
the model reads, misses no legal merge, and leaves text under its heading and
rows under their header.

The list of hazards, each at its line with the properties that cover it, is in
`PROJECT.json`.

## 2. Modules

### Jobs, JobLifecycle, MCJobs, JobsProofs

`rows` is the jobs table, `req` what serves each request (the handler, then the
background task, with its copy of the record and its beat thread), `poll` the
verdict an instance's reader has yet to write, `proc` whether an instance runs,
and `ingested` a history variable, the jobs whose pipeline call returned.

| Code | Actions |
|---|---|
| upload loop and its refusals, the response | `CreateJob`, `RejectRequest`, `Respond` |
| `_run_file_ingestion`, `_run_url_ingestion` | `StartTask`, `WriteOwnVerdict`, `IngestReturns`, `IngestRaises`, `WriteOutcome`, `TaskRaises` |
| `job_heartbeat` | `Beat`, `BeatRaises` |
| `GET /jobs/{id}` to `_report_abandoned` | `PollFindsAbandoned`, `PollWritesVerdict`, `PollRaises` |

A worker reads its own job through the same verdict as anyone (`StartTask`), so
it may judge itself. The read of a job that is not abandoned changes nothing and
is no action. A result is abstracted to "the pipeline returned", an error to
which of the two texts it is.

*Time.* The code compares `updated_at` only with the present, so a row holds the
ticks since (`silence`), which saturate one past the threshold. There is no
clock, and no bound on how long a behaviour lasts. A tick is not taken while a
step that needs far less than a tick is due (`Prompt`): store calls, waking
beats, the response. Ingestion, the wait for a thread and the wait between beats
take any time. A suspended instance is the one whose prompt steps do not hold
time up.

`JobLifecycle` is what a caller is promised of a job: accepted once, pending,
then settled once with an error exactly when it failed. `Jobs` is shown to
implement it by reading status and error off the rows. `Safety` is its part
without the promise that every job settles.

### Claims, Bootstrap, MCBootstrap, BootstrapProofs

`claims` is the table, a row being the owner and the ticks since `claimed_at`;
`MayTake`, `Take`, `Refresh` and `Release` are the conditions and effects of the
four statements, each atomic under its row's lock. `boot` is each instance's
thread: the place in the code, the source it has come to, how long it has waited
(`_hold_claim` counts its deadline from its own first attempt), its beat thread,
its snapshot, its failures and its status. `index` is what the shared index holds
of each source: nothing current, its content without a kept document ("bare",
which `ingest_if_changed` re-ingests), or all of it.

| Code | Actions |
|---|---|
| `_hold_claim` | `TakeClaim`, `AwaitClaim`, `Wake` |
| `refresh()` under the claim, `claim_heartbeat` | `RefreshAndBeat`, `Beat`, `BeatRaises`, `RefreshRaises` |
| `_ingest_one`, `ingest_if_changed` | `Check`, `Load`, `LoadFails`, `LoadUnseen` |
| the `finally` clause | `ReleaseClaim` |
| the wait has run out | `RefreshLate`, `AskIndex`, `AskRaises` |
| exceptions nothing catches | `StoreRaises`, `AskRaises`, `RefreshRaises` |

A restarted container has the same host name and process id, so it is the same
owner and may take its own claim again. A beat thread's death is invisible to
the load.

A replacement is one step here (`Load`): that it is atomic for other instances is
what `SourceIndex` is about. It may commit and then raise, in the rebuild of the
snapshot or because the commit's acknowledgement was lost (`LoadUnseen`): the
instance records a failure over a source the index holds.

### SourceIndex, AtomicIndex, MCSourceIndex, SourceIndexProofs

`stored` is what the committed tables hold of each source (the ingestion the
catalog row describes, the ingestion the document is of, the ingestions whose
nodes are in the vector table and the docstore), `map` the one row that maps
all node ids, `snap` each instance's catalog snapshot, `boot` how far an instance's
start-up is, `work` each thread: where it is and what its open transaction has
read and will write. `past` and `owed` are history: what has been committed, and
the instances whose last commit no rebuild of the snapshot followed.

| Code | Actions |
|---|---|
| `ingest_file`, `ingest_page` up to the lock | `Prepare` |
| `_replace_source`, `transaction`, `replace` | `TakeIndexLock`, `Record`, `DeleteNodes`, `DeleteRaises`, `WriteNodes`, `Commit`, `CommitUnheard`, `Rollback` |
| `_build_index` in a replacement | `ReadMap`, `BuildIndex` |
| `refresh`, `_refresh_catalog` | `Refresh`, `ReadRecords`, `Publish`, `RefreshRaises` |
| `IndexPipeline.__init__` | `StartReadsMap`, `StartWritesMap`, `Restart` |

A transaction's writes are kept in `work` and applied by `Commit`; a rollback or
a lost connection forgets them. Locks are not variables: a lock is held exactly
by being at certain places in the code (`IndexLockFree`, `RowFree`, `MapHeld`).
The order is the code's: process lock, the record's upsert (which claims the
source's row), the read of the map, the index built over it (whose constructor
writes the map straight back, and so takes the map's row), the deletion over that
map, the insertion and the map's next write, the commit, the rebuild. At READ
COMMITTED a statement sees what is committed when it runs, so a delete sees the
nodes there are then, and a read of the map is not held up by another's write.
Since every replacement holds the map's row from before its deletion, deletions of
all sources come one after another, and the claim on the source's row is not the
only thing that keeps a source whole.

`CommitUnheard` is a commit that takes effect and whose acknowledgement is lost:
`commit()` raises, the caller sees a failure, and no rebuild follows. Any other
statement that raises is undone (`Rollback`).

An instance that starts builds its index the same way, but in no transaction and
with nothing claimed: it reads the map and writes it back, and may undo what was
committed in between. `Init` has every instance running over an empty collection
whose one map row exists.

A content read changes nothing and is no action: `Answers(w)` is the set of pairs
a thread could be answered in a state.

`AtomicIndex` is the promise: each source holds the whole of one ingestion, and
an ingestion takes its place in one step and once. `SourceIndex` refines it by
mapping a source whose tables disagree to `Mixture`, which the promise has no
step to.

### Startup, MCStartup, StartupProofs

`database` is what is established in the shared database (extension, the
service's tables, the width of the vector column, the recorded models), `server`
what it allows, `pc` the step each instance's start-up is at, `early` a history
variable: the start-ups under way that began before any model was recorded.

| Code | Actions |
|---|---|
| `_require_reachable` | `Start`, `Reach` |
| `_require_vector_extension` | `LookForExtension`, `RefuseExtension`, `Enable`, `EnableRaises` |
| `_define_catalog_tables` | `LookForCatalog`, `CreateCatalog`, `CreateCatalogRaises` |
| `PGVectorStore`, `_establish_vector_table` | `LookForVectors`, `EstablishVectors`, `EstablishRaises` |
| `_validate_collection`, `_embedding_column_width` | `CheckWidth`, `RefuseWidth`, `ReadModel`, `RefuseModel`, `RecordModel`, `RecordRaises` |

The service's tables are created in one transaction, so they are one thing that
is there or not. A CREATE or an INSERT of what another transaction is creating
waits for it and then fails, so a step that did not find a thing raises if it is
there by now. The rows of the model table are read without an order: where two
models raced into an empty collection, either may be read. `Foreign` is a table of
the collection's name without a vector column of a declared width.

### Search, MCSearch, SearchProofs

One source, for every read of a hit is keyed by the hit's source; a chunk is the
ingestion it is of, its place and what it begins with. `store` is what the record
and positions describe and what the nodes are, `listed` the record in this
instance's snapshot, `mapped` how many ids of the source its index mentions (the
retriever is handed those), `reader` the search: what it has read so far.
`durable` says which of the two stores it is over.

| Code | Actions |
|---|---|
| `_replace_source` of this instance: returns, or raises in the rebuild | `IngestHere` |
| the same, raising within the transaction, durable and in-process | `FailDurably`, `FailInMemory` |
| another instance's commit; `refresh`; a restart | `IngestElsewhere`, `Refresh`, `Restart` |
| `search`, `_placement` | `Retrieve`, `Place`, `Unplaced`, `Finish` |
| `_adjacency`, one read a step | `Beside`, `BesideDone` |
| `_section`, one read a step; `_section_window` | `WalkBack`, `StopBack`, `WalkOn`, `StopOn`, `Answer` |

The lock is held from `Retrieve` to `Finish`. A search for several hits is several
such readings under one hold of the lock, each of which reads for itself.

### Layout, MCLayout, LayoutProofs

The first half of chunking. A line is its number and its kind; a text is a
sequence of tokens, each a place in a word of a line. `doc`, `read`, `fenced`,
`heading`, `kind`, `lines`, `units` and `sections` are the locals of
`_split_sections`; `todo`, `rows`, `row`, `parts` and `pieces` those of
`_section_nodes`, `_table_parts` and `_bounded_parts`; `nodes` what is laid out.

| Code | Actions |
|---|---|
| `_split_sections` | `OpenSection`, `EndUnit`, `TakeLine`, `EndDocument` |
| `_section_nodes` | `KeepParagraph`, `DivideParagraph`, `SplitterRefuses`, `UnitDone`, `Finish` |
| `_table_parts` | `KeepTable`, `DivideTable`, `TakeRow`, `CutRow`, `EndTable` |
| `_bounded_parts`, `_split_oversized_text` (`Cut`) | `PartFits`, `PartIsCut`, `RecursionEnds` |

A slice that begins inside a word may come back from the tokenizer one token
longer, which is why the code measures each piece again. Here such a token is
counted as its two halves, the most a cut costs. Not modelled: the sentences the
library's splitter finds (it may cut a paragraph after any of its lines) and the
text it repeats from one piece in the next, and the even spans that stand in for
tokens when a tokenizer reports no offsets.

`LayoutAssumption` says of the kinds of line what the code's tests of a line decide
(`pipeline.py:328-339`): a line that begins with a fence's marks is no heading, and a
blank one is neither. A heading, a fence and a row each have a token.

`Chunking` takes the nodes up from here: `SectionsAreTheDocuments` is the shape
its `Documents` have, and `NodesFit` is what its assumption `PiecesFit` says of a
divided unit, for headings that leave room.

### Chunking, MCChunking, ChunkingProofs, SequenceFacts

A text is the sequence of the headings and units in it, a size the sum of their
costs and of the model's own tokens. `Nodes` gives the first nodes of a document
(a unit under its heading, divided when it is wider than the cap); `Keep`,
`Merge` and `Refuse` are the three ways through one turn of `_merge_below_floor`;
`Collapse` is `_dedupe_texts` and the numbering. `Chosen` is the order in which
neighbours are offered.

`SequenceFacts` models nothing: it holds the facts about sequences, folds and
counts that the proofs about `Layout` and `Chunking` rest on.

### External code

Modelled from how `src/` uses it, and marked external in the map: PostgreSQL
(rolls back what a lost connection left open; an upsert waits for another
transaction's upsert of the same row), llama-index (`delete_ref_doc` raises on a
stored node its map does not mention; `insert_nodes` adds to tables and map), the
background-task queue of the web framework (a request's tasks run in order, in a
bounded pool, and an exception in one drops the rest), the tokenizer, and
llama-index's sentence splitter (it may not be built for a chunk size below its
overlap; what it returns is `PiecesFit` in `Chunking` and any cut between lines in
`Layout`).

## 3. Runs

### What holds

| Run | Instance | Shows |
|---|---|---|
| `jobs_healthy` | two requests of one source at `a`, two threads, beat 2, threshold 2; crashes, refusals, store failures | `TypeOK`; `NoVerdictOnRunningJob`; `RunningIsCounted`; `ImplementsLifecycle` with its liveness |
| `jobs_faults` | one request of two sources, one thread, beat 1, threshold 2; every fault, suspension and dead beats included | `CompletedMeansIngested`; `NeverReopened`; `EventuallySettled` |
| `bootstrap_claims` | two instances, two sources, threshold 2, a misnamed entry; `a` crashes and restarts, loads fail; index empty or bare | `TypeOK`; `OneLoader`; `WaitEnds` |
| `bootstrap_faults` | the same with threshold 1, no misnamed entry, and every fault, suspension, dead beats and store failures included | `CompleteIsTrue`; `ClaimMovesWithItsOwner` |
| `index_replace` | three threads, two of them in one instance, two sources, one ingestion each; rollback, crash, start-ups, a failing rebuild, a lost acknowledgement | `TypeOK`; `SourcesAreWhole`; `OwnContentMatches`; `NoCircleOfLocks`; `SnapshotsAdvance`; `ImplementsAtomicIndex` |
| `chunk_floor` | every document of up to three sections of up to two units, two headings of different cost or none, a unit that fits everywhere and one that is divided under one heading | `TypeOK`; `ContentIsKept`; `WithinCeiling`; `FloorIsReached`; `ChunkingEnds` |
| `startup` | three instances, three models of which two have one width; an empty or a foreign table, a server with or without the extension and the right to create it; one death | `TypeOK`; `RunningFits`; `RecordIsFinal`; `SomeoneRuns`; `ItsInstancesRun` |
| `search` | either store; up to two ingestions of up to four chunks, of none too, each under a heading or none; ceiling 3, one neighbour a side | `TypeOK`; `AnswerIsThePassage`; `PassageHoldsTogether`; `AnswersOneIngestion`; `SearchEnds` |
| `layout` | every document of up to five lines (heading, prose, fence, blank, row); tables of up to four rows, some wider than a part, and paragraphs of up to three lines, alone and under headings that leave much, one token or none | `TypeOK`; `SectionsAreTheDocuments`; `ContentIsStored`; `NodesFit`; `RowsNameTheirColumns`; `OnlyHeadingsRefuse`; `LayoutEnds` |

What some of them say: `RecordIsFinal` that a second model joins a collection only
through the race for an empty one; `SomeoneRuns` that instances starting together
over an able server do not all fail on what the others are creating;
`AnswerIsThePassage` compares the walk and the window with the section's
definition and with the most centred cut of it; `PassageHoldsTogether` holds even
when another instance replaces the source between two reads; `AnswersOneIngestion`
covers a failed replacement of the in-process store, after which the record is
new and the nodes old or gone; `OnlyHeadingsRefuse` that laying out never fails in
content without a heading.

### What the repository states and the code does not do

Each of these runs checks one statement and TLC finds a behaviour against it.

| Run | Statement | What happens |
|---|---|---|
| `bootstrap_takeover` | a dead instance's source is loaded by a surviving one (`README.md:799-802`) | the holder refreshed its claim after the waiter's deadline began and then died: the claim is still young when the wait ends, and nobody loads the source |
| `index_map` | the map describes the stored nodes (`store.py:421-422`), and instances replacing different sources run side by side (`store.py:184-185`) | both read the one map row, both write it whole, the second drops the first's entry (a start-up that reads and writes the row back, `pipeline.py:929`, does so too); the next re-ingestion of that source raises on nodes its map does not mention |
| `layout_progress` | cutting again always makes progress (`pipeline.py:469-470`) | under a heading that leaves a table no token the limit is 1 and so is the budget: the cut returns a one-token piece as it is, which is over the limit, and `_bounded_parts` recurses on it until Python raises, so the source fails |

Others were met and have no run of their own; each follows from one or two steps
of a model here.

* A job queued behind a slow one in a healthy instance does not beat, so a reader
  judges it abandoned and its own task then completes it, with the error text
  kept, though an abandoned job "will not finish" (`jobs.py:433-437`).
* A reader that judged a suspended instance's job writes its copy after the
  instance resumed and completed it, so a completed row becomes a failed one,
  though whole records leave "no ordering to get wrong" (`jobs.py:266-269`). That
  a finished row is never *reopened* holds, and is proved.
* The write of a chunk to the vector table and the one to the docstore "are two
  statements rather than one transaction" (`README.md:720-722`). The code joins both
  stores' sessions to the transaction of the replacement (`store.py:731-783`), and
  `SourcesAreWhole`, which takes the nodes of both, holds because it does: here the
  code keeps more than the document says.
* Two instances replacing different sources do not run side by side
  (`store.py:184-185`) all the way: from the index built in its transaction to its
  commit, each holds the map's one row.
* A content read takes its record from this process's snapshot and its document
  from the store, which another instance may have replaced
  (`pipeline.py:1310-1311`: "never a mixture"). Within an instance
  `OwnContentMatches` holds.
* Sections A, B, A folded into one node: the third heading equals the node's first
  line and is dropped as "says nothing the first did not"
  (`pipeline.py:558-560`), so its text reads as part of B.
* The retriever is handed the ids this instance's index mentions
  (`pipeline.py:1612-1617`: "Which nodes exist and which are searched have to be
  the same moment"). After another instance's ingestion, or after its own
  replacement was rolled back with the index already edited in memory, those are
  not the stored ids, until its next replacement or a restart.
* The in-process store's `transaction` undoes nothing (`store.py:264-274`), so a
  replacement that raises leaves the new record over old nodes or none, though "a
  failure part way through leaves the earlier content in place"
  (`pipeline.py:1312`).
* Two instances of different models of one width that start over an empty
  collection may both record theirs (`store.py:610-620`), though a collection
  refuses a model it does not belong to (`store.py:589`).
* A node without a heading whose first line is a `# comment` of a fenced block is
  read back as belonging to a section of that name (`pipeline.py:268-285`).
* `bootstrap.py:166-167` asks `present()`, which reads or fetches the source,
  outside `_ingest_one`, so when that raises the thread ends, later sources are
  not walked and the status stays `in_progress`; `bootstrap.py:199-200` and
  `README.md:771-772` say one source's failure is recorded and the others go on.
  It is the action `AskRaises`.

### Bounds, and why they are enough

* *Ages* saturate one past the threshold, so nothing is cut off: two ages beyond
  it are compared with nothing. Thresholds of 1 and 2 ticks with a beat of 1
  (3 with a beat of 2 in `bootstrap_takeover`) give ages before, at and after the
  threshold. `jobs_healthy` has a beat as long as
  the threshold (2 and 2), the slowest the theorems allow: a running job's row then
  gets exactly as old as the threshold, where the cutoff readiness counts by and the
  one a read judges by have to agree.
* *Two instances* of jobs and bootstrap: an interference is between an owner and
  one other (a reader, a waiter). Only `a` may fail; the names are
  interchangeable apart from that, and `b` stays to observe.
* *One request of two sources and one thread* is the least in which a job queues
  behind another and in which an exception drops a later task; *two requests and
  two threads* is the least in which two jobs run at once.
* *Two sources* of a corpus: one walk has a first, a next and a last source, and
  two walks can be at different ones.
* *Three threads in two instances* over two sources has both kinds of
  competition, within a process and between processes, on the same source and on
  different ones. Node counts are {1} in `index_replace`, whose properties do not
  depend on them, and {0, 1} in `index_map`. One
  ingestion per thread gives a source up to three successive contents. The two
  threads of one instance, and the two sources, are interchangeable in
  `index_replace` (`Alike`): its properties name none of them, and none is about
  liveness, so that symmetry is sound.
* *Costs in chunking* (headings 1 and 2, units 1 and 3, the model's own 1; floor
  5, cap 5, ceiling 7) are chosen so that a text may be kept, merged once or
  several times, refused on either side, and divided. Three sections are the
  least in which a heading comes back.

* *Three instances and three models* at start-up: two that race to record two
  models of one width, and one that finds both or a width that is not its own.
* *Four chunks, a ceiling of 3 and one neighbour*: a section may be longer than
  the ceiling, reach either end of the source or neither, and be cut on both
  sides; an odd ceiling has a centre. Two ingestions are an old and a new.
* *Layout*: the model's own tokens 2, overlap 3, cap 9. Five lines hold two
  sections with a fence between them, or a fence with a heading in it and one
  after. Four rows hold a header, its underline and two rows, one of them too
  wide. The headings `h`, `tight` and `title` leave most of the cap, one token and
  none.

Deadlock is checked in the runs of jobs, bootstrap, index and search: there time,
polls, refreshes or restarts always go on. It is not in those of `Layout` and
`Chunking`, which end when the document is done, nor in `startup`, which ends when
every instance runs and no more deaths are allowed.

### Fairness

* `Jobs!FairSpec`: the steps of a worker and the end of its pipeline call (SF,
  for a suspension or a failing store may disable them again and again, and
  neither lasts for ever just there), time (SF), and callers who go on polling
  each job at some instance that is up (WF), with the verdict they started to
  write (SF). The last two are about the environment: nothing but a read ends an
  abandoned job's row, and a client that waits for its job reads.
* `Bootstrap!FairSpec`: a live thread is scheduled (WF per instance) and time
  passes (SF). Nothing is assumed of `Load`: `WaitEnds` is about surviving a load
  that never returns.
* `Chunking!Spec`, `Layout!Spec`: WF of their one thread.
* `Search!Spec`: WF of the search that has begun. Writers may do anything or
  nothing.
* `Startup!FairSpec`: WF of each instance's steps and of its start. The second is
  about the environment: a process that ended is started again, by the container's
  restart policy or an operator, as the refusals ask.
* `SourceIndex` states no fairness and no liveness; that writers do not lock each
  other out is the invariant `NoCircleOfLocks`.

## 4. Proofs

`tlapm` checks the proofs of the modules `JobsProofs`, `BootstrapProofs`,
`StartupProofs`, `SourceIndexProofs`, `SearchProofs`, `LayoutProofs`,
`ChunkingProofs` and `SequenceFacts` (`tlapm JobsProofs.tla`, and so on). They are
for any instances, requests, thresholds, intervals, corpus, models, widths,
sources, counts, documents, costs and set of faults, except as said.

| Theorem | Says | Assumes |
|---|---|---|
| `JobsProofs!TypeCorrect` | `[]TypeOK` | - |
| `JobsProofs!FinishedForGood` | `NeverReopened` | - |
| `JobsProofs!CompletionIsHonest` | `[]CompletedMeansIngested` | - |
| `JobsProofs!HealthyJobIsNotAbandoned` | `[]NoVerdictOnRunningJob` | Regime |
| `JobsProofs!RunningWorkIsCounted` | `[]RunningIsCounted` | Regime |
| `JobsProofs!JobsSettleOnce` | `Jobs` implements `JobLifecycle!Safety` | Regime |
| `BootstrapProofs!TypeCorrect` | `[]TypeOK` | - |
| `BootstrapProofs!CompleteReportsAreTrue` | `[]CompleteIsTrue` | - |
| `BootstrapProofs!ClaimsMoveWithTheirOwner` | `ClaimMovesWithItsOwner` | - |
| `BootstrapProofs!SourcesHaveOneLoader` | `[]OneLoader` | Regime |
| `StartupProofs!TypeCorrect` | `[]TypeOK` | - |
| `StartupProofs!ServingFits` | `[]RunningFits` | - |
| `StartupProofs!RecordsAreFinal` | `RecordIsFinal` | - |
| `SourceIndexProofs!TypeCorrect` | `[]TypeOK` | - |
| `SourceIndexProofs!SourcesStayWhole` | `[]SourcesAreWhole` | - |
| `SourceIndexProofs!LocksHaveNoCircle` | `[]NoCircleOfLocks` | - |
| `SourceIndexProofs!OwnContentIsRead` | `[]OwnContentMatches` | - |
| `SourceIndexProofs!SnapshotsOnlyAdvance` | `SnapshotsAdvance` | - |
| `SourceIndexProofs!IndexIsAtomic` | `ImplementsAtomicIndex`: `SourceIndex` implements `AtomicIndex` | - |
| `SearchProofs!TypeCorrect` | `[]TypeOK` | - |
| `SearchProofs!AnswerIsTheSection` | `[]AnswerIsThePassage` | - |
| `SearchProofs!PassagesHoldTogether` | `[]PassageHoldsTogether` | - |
| `SearchProofs!AnswersAreOfOneIngestion` | `[]AnswersOneIngestion` | - |
| `LayoutProofs!TypeCorrect` | `[]TypeOK` | - |
| `LayoutProofs!NodesFitTheCap` | `[]NodesFit` | - |
| `LayoutProofs!RefusalsHaveAHeading` | `[]OnlyHeadingsRefuse` | - |
| `LayoutProofs!RowsKeepTheirHeader` | `[]RowsNameTheirColumns` | `Special >= 1` |
| `LayoutProofs!SectionsAreTheReaders` | `[]SectionsAreTheDocuments` | - |
| `LayoutProofs!AllContentIsStored` | `[]ContentIsStored` | - |
| `ChunkingProofs!TypeCorrect` | `[]TypeOK` | - |
| `ChunkingProofs!NodesAreWithinCeiling` | `[]WithinCeiling` | `PiecesFit` |
| `ChunkingProofs!FloorIsAFixpoint` | `[]FloorIsReached` | `PiecesFit` |
| `ChunkingProofs!ContentStays` | `[]ContentIsKept` | `PiecesFit` |

*Jobs.* `FinishedForGood` and `CompletionIsHonest` depend on copies that are yet to be
written, so neither is inductive alone. The invariant (`Inv`, in `JobsProofs`)
adds `Writers`: a worker about to write holds a finished record, a reader's
verdict is a failure of a job that exists, and a job not yet created has no row
(so that `CreateJob` overwrites nothing); `Copies`: a worker's copy that says
completed is of an ingested job; and `InHand`: a worker's job is one its request
created. `HealthyJobIsNotAbandoned` and `RunningWorkIsCounted` hold only where a
running job is kept fresh, and the regime says where: no suspension and no dead
beats, one job per request, a thread for every request, and a beat no slower than
the threshold. `FreshJobs` bounds each live job's silence by an `Allowance`: the
ticks since the beat last woke while it runs, the threshold while its outcome is
due, nothing while it is about to start. `Tick` cannot pass while something prompt
is due, which is what keeps the bound. The first two of the list under "What the
repository states" are what happens outside the regime.
`JobsSettleOnce` is proved step by step in the same regime: at most one row
changes in what a caller is told of it (`StepOfOne`), and it changes as
`JobLifecycle` lets it. That needs `Settling`: no reason stands on a job that is not
settled, what a live worker will write is an outcome, and a reader about to write
its verdict finds the job pending, or called abandoned already.

*Bootstrap.* `CompleteReportsAreTrue` follows from an invariant about the walk: each
source an instance has passed is in its failures or in the index, snapshots
hold only what the index holds, and the index never loses a source. `OneLoader`
needs more: a loader in the regime holds the claim, and the claim's age is at
most the ticks since its beat, which is at most the interval, so it is never
stale and no one else may take it. Outside the regime (a suspended holder, a dead
beat thread) two loaders are possible, and the code leaves the result to the
index's own claim on a source.

*Start-up.* `RunningFits` says nothing of an instance that is still starting, so it
is not inductive. `Fits` ties each place in the code to what is established by
then (the extension past its step, the tables past theirs, the width past the
check), and the database only grows (`Grows`), so an instance that does not move
keeps it. `RecordsAreFinal` needs that whoever may record a first model, or is about
to, began when none was recorded (`IsEarly`).

*Index.* The invariant has three parts. `Places` says who is where: nobody in an
instance that is down, no instance up while it starts, every replacement with its own source and ingestion, and
locks that exclude; `NoCircleOfLocks` follows, for locks are taken in the order of
the places, and of the threads under way one that has come furthest can go on. `Committed` says that sources are
whole, that the record is the last ingestion committed, that a transaction past its
deletes removed what is stored, and that no ingestion is committed twice.
`Answering` says that a snapshot holds what was committed, that the one about to be
published is no older than the one it replaces, and that what a snapshot lacks
another instance wrote, unless a rebuild is under way, or raised, or never came because
the commit was not acknowledged; `OwnContentMatches`
and `SnapshotsAdvance` rest on it. `IndexIsAtomic` maps every step but a commit that takes
effect (`Commit`, `CommitUnheard`) to a stutter, and such a commit to the replacement of one source by an ingestion that was
never there before.

*Search.* `Reading` says that a walk is a run of consecutive places under the hit's
heading, around the hit (`IsRun`), `ReadAsStored` that what an undisturbed reader
has read is what is stored, and `NothingMissed` that a walk stops only where the
section does. The answer is then the section, or the window of it: that the window
is the most centred cut there is, for every length of section, place of the hit and
ceiling, is `WindowIsCentred`, which is arithmetic and no part of the steps.

*Layout.* `NodesFit` is about what is stored, and what is stored was measured some
steps before. The invariant (`Inv`, in `LayoutProofs`) has what was measured: the
pieces bounded so far fit what the heading of the unit under way leaves (`Within`),
and what is left of the document is units of its lines and texts of its tokens, none
of them empty (`Whole`, `Body`). `RefusalsHaveAHeading` is arithmetic about the
limit and the two budgets at the step that fails. `CutType` has it that a cut gives
texts of the same kind, whatever it is cut from: its slices are a walk from place to
place (`Walks`) that passes the end.
`RowsKeepTheirHeader` needs two more invariants. `Disjoint`: no line is in two units,
open or closed, and a table has rows only, so that a node with a token of a table is of
that table. `Naming`: every text under way is of its unit's lines (`Owned`), and of a
table whose header leaves a row a token each part begins with the header, has some of a
row under it and is short enough not to be cut again (`Short`): cutting is what would
part the two. It holds of the rows collected because they were measured, and of the
slices of a wide row (`RowSliceIsShort`) because the budget spends the model's own
tokens twice, of which one pays for a word cut in two. That is why the theorem supposes
that the model adds a token, as `[CLS]` and `[SEP]` are; with `Special = 0` TLC finds a
slice that is cut again, and half of it without the header.

`SectionsAreTheReaders` compares the splitter, which sees a line at a time, with a
reader who sees the document, so its invariant (`ReadAs`) is about the lines read so
far: a fence is open exactly when an odd number of lines opened or closed one
(`FenceGoesOn`), the heading that is open is the nearest above the line that is next
(`AboveGoesOn`), each unit is a run of lines of one kind which another kind, a blank or
a heading has ended and the open one a run that reaches the line read last (`UnitsAs`),
and all of them one behind another are the content so far in order (`Taken`). That a run
is what the reader calls one unit is `RunIsUnit`.

`AllContentIsStored` carries one equation through the division, `AsMuch`: what is stored
and what is still to be are together the whole. It is stated at three depths, of the
document (`StoredSoFar`), of the rows of a table (`RowsSoFar`) and of the parts being
bounded (`BoundSoFar`), and each step moves something from the right to the left of it
(`GoesOver`) or exchanges what is left for what leaves the same (`LeftForLeft`). Texts
are compared without the table headers and with every token in halves (`Leaves`), for a
header is repeated and a cut may count a token twice. The two facts that carry it are
that a cut leaves what was cut (`CutLeaves`, by an induction along the walk that makes
the slices) and that slices which each begin where the last one stopped are the whole
(`SlicedText`). A wide row is put behind all that was collected because a row too wide to
stand alone is too wide to be appended (`CutRowKept`). At the end nothing is still to be,
and `SectionsAreTheReaders` says what the whole is.

*Chunking.* `FloorIsReached` is about the end of the loop, and the loop goes back. The
invariant adds `Settled`: of the texts the loop is past, those below the floor have
no legal merge, and the refusals are how many those are. That a later merge leaves it so
is `JoinGrows`: what a text grows by, it adds to the join with its left neighbour,
so what was too long remains too long. `ContentIsKept` needs to know which heading
a text's last part is under, or a heading dropped in a merge could be the wrong one:
`Headed` says that each text begins under the heading of the section it came from
and ends under that of a section not behind the next text's, so that the heading a
merge drops is the one right above it, where headings differ. All but `TypeCorrect`
take `PiecesFit`, which is `NodesFitTheCap` for headings that leave room.

*Sequences and sums.* The library's induction theorems take an operator, which no
prover installed here can instantiate. `SequenceFacts` derives an induction over
sets of numbers and of sequences from the well-foundedness of `<` (`Induction`,
`SequenceInduction`), and what the proofs need of folds, concatenations and recursive
functions from that: `FlattenConcat`, `FlattenSorted`, `WalkType`, `CountReaches`, and
for a sequence each of whose elements is replaced by several (`Spread`) `SpreadConcat`,
`SpreadFlatten` and `WalkSpread`.

Checked by TLC only: everything under fairness (`EventuallySettled`, `WaitEnds`,
`ChunkingEnds`, `LayoutEnds`, `SearchEnds`, `SomeoneRuns`, `ItsInstancesRun`, and
the part of `ImplementsLifecycle` that says jobs settle), which the prover does not
reach. Every invariant and every action property of the runs that pass is a theorem,
from the assumptions the table names.

## 5. Not modelled, and the plan

1. *The map's identity*: instances that start over an empty collection each write
   back a map of their own (`pipeline.py:929`), and the first the table lists is
   taken from then on (`store.py:424`).
2. *Composition* of bootstrap, requests and index, in which a source of the corpus
   is also submitted by a caller.

Left out for good: conversion and HTTP (no state of the service; an ingestion
that returns or raises), request validation and response shapes, settings
(constants here; nothing in the code keeps the threshold above the heartbeat's
interval, which is an assumption of the theorems), and the OCR script.
