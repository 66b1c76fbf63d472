---------------------------- MODULE SourceIndex ----------------------------
(***************************************************************************)
(* The shared index and its writers (pipeline.py _replace_source, store.py *)
(* PostgresIndexStore): several instances replace sources in transactions  *)
(* of one database at READ COMMITTED, each instance's threads behind a     *)
(* lock of their own, and each instance answering from a snapshot of the   *)
(* catalog that only its own threads rebuild.                              *)
(*                                                                         *)
(* A lock is held by being at a place in the code, so who holds one is     *)
(* read off the workers' program counters.                                 *)
(***************************************************************************)
EXTENDS Integers, Sequences, SequencesExt

CONSTANTS
    Instances,   \* processes sharing the database
    Workers,     \* threads that ingest, refresh and read
    HomeOf,      \* the instance each worker runs in
    Sources,     \* addresses
    Sizes,       \* the numbers of nodes an ingestion may produce (a bound)
    MaxIngests,  \* ingestions one worker performs (a bound)
    Faults       \* what may go wrong in a behaviour

ASSUME IndexAssumption ==
    /\ HomeOf \in [Workers -> Instances]
    /\ Sizes \subseteq Nat
    /\ MaxIngests \in Nat
    /\ Faults \subseteq {"raise", "unheard", "refresh", "crash"}

VARIABLES
    up,      \* the instances that run
    stored,  \* source -> what the committed tables hold of it
    map,     \* the committed map row: source -> the nodes it mentions
    past,    \* source -> the ingestions committed for it, in order (history)
    snap,    \* instance -> the catalog snapshot it answers from
    owed,    \* instances whose last commit no rebuild of the snapshot followed (history)
    boot,    \* instance -> how far its start-up is
    work     \* worker -> where it is

vars == <<up, stored, map, past, snap, owed, boot, work>>

-----------------------------------------------------------------------------
(* A node's id is its source and its position, and a map is a set of ids.  *)

Ingestions == [by : Workers, nth : 1..MaxIngests, chunks : Sizes]
Nothing == [by |-> "nobody", nth |-> 0, chunks |-> 0]
Mixture == [by |-> "several", nth |-> 0, chunks |-> 0]
Versions == Ingestions \cup {Nothing}

\* The catalog row (with its positions), the document's row, and the ingestions
\* whose nodes the vector table and the docstore hold.
Tables == [rec : Versions, doc : Versions, nodes : SUBSET Ingestions]
Empty == [rec |-> Nothing, doc |-> Nothing, nodes |-> {}]
Maps == [Sources -> SUBSET UNION {1..n : n \in Sizes}]
Catalogs == [Sources -> Versions]

Unmapped == [s \in Sources |-> {}]
Uncatalogued == [s \in Sources |-> Nothing]

PCs == {"idle", "waiting", "locked", "recorded", "read", "mapped", "deleted", "written",
        "refresh", "publish"}
Locked == {"locked", "recorded", "read", "mapped", "deleted", "written", "refresh", "publish"}
Claimed == {"recorded", "read", "mapped", "deleted", "written"}
Mapping == {"mapped", "deleted", "written"}

Threads ==
    [pc    : PCs,
     src   : Sources \cup {"none"},  \* the source it replaces
     ver   : Versions,               \* with which ingestion
     copy  : Maps,                   \* the map as it read it, then as it edits it
     gone  : SUBSET Ingestions,      \* the nodes its delete statements removed
     got   : Catalogs,               \* the rows it read to rebuild the snapshot
     count : 0..MaxIngests]          \* ingestions it has begun

Idle(n) == [pc |-> "idle", src |-> "none", ver |-> Nothing, copy |-> Unmapped,
            gone |-> {}, got |-> Uncatalogued, count |-> n]

\* A start-up that has read the map, or has built its index over it.
Boots == [pc : {"off", "read", "built"}, copy : Maps]
Off == [pc |-> "off", copy |-> Unmapped]

At(w, pc) == HomeOf[w] \in up /\ work[w].pc = pc
Src(w) == work[w].src
Records == [s \in Sources |-> stored[s].rec]

\* _index_lock, the lock of a source's catalog row, the lock of the map's row.
IndexLockFree(i) == ~\E w \in Workers : HomeOf[w] = i /\ work[w].pc \in Locked
RowFree(s) == ~\E w \in Workers : work[w].pc \in Claimed /\ Src(w) = s
\* Mutant: the map is read for share, so whoever has read it holds its row too.
MapHeldByReaders(threads) == \E v \in threads : work[v].pc \in Mapping \cup {"read"}
MapHeld(threads) == \E v \in threads : work[v].pc \in Mapping

TypeOK ==
    /\ up \subseteq Instances
    /\ stored \in [Sources -> Tables]
    /\ map \in Maps
    /\ past \in [Sources -> Seq(Ingestions)]
    /\ snap \in [Instances -> Catalogs]
    /\ owed \subseteq Instances
    /\ boot \in [Instances -> Boots]
    /\ work \in [Workers -> Threads]

Init ==
    /\ up = Instances
    /\ stored = [s \in Sources |-> Empty]
    /\ map = Unmapped
    /\ past = [s \in Sources |-> <<>>]
    /\ snap = [i \in Instances |-> Uncatalogued]
    /\ owed = {}
    /\ boot = [i \in Instances |-> Off]
    /\ work = [w \in Workers |-> Idle(0)]

-----------------------------------------------------------------------------
(* _replace_source.                                                        *)

Becomes(w, t) == work' = [work EXCEPT ![w] = t]

\* The source is parsed, chunked and embedded; nothing is locked yet.
Prepare(w, s, chunks) ==
    /\ At(w, "idle")
    /\ work[w].count < MaxIngests
    /\ LET n == work[w].count + 1 IN
         Becomes(w, [Idle(n) EXCEPT !.pc = "waiting", !.src = s,
                                    !.ver = [by |-> w, nth |-> n, chunks |-> chunks]])
    /\ UNCHANGED <<up, stored, map, past, snap, owed, boot>>

TakeIndexLock(w) ==
    /\ At(w, "waiting")
    /\ IndexLockFree(HomeOf[w])
    /\ Becomes(w, [work[w] EXCEPT !.pc = "locked"])
    /\ UNCHANGED <<up, stored, map, past, snap, owed, boot>>

\* Mutant: the document is stored in a transaction of its own.
RecordPublished(w) ==
    /\ At(w, "locked")
    /\ RowFree(Src(w))
    /\ stored' = [stored EXCEPT ![Src(w)].doc = work[w].ver]
    /\ Becomes(w, [work[w] EXCEPT !.pc = "recorded"])
    /\ UNCHANGED <<up, map, past, snap, owed, boot>>
\* The transaction begins, and its first statement waits for the source's row.
Record(w) ==
    /\ At(w, "locked")
    /\ RowFree(Src(w))
    /\ Becomes(w, [work[w] EXCEPT !.pc = "recorded"])
    /\ UNCHANGED <<up, stored, map, past, snap, owed, boot>>

\* _build_index: the map is read as it is committed now, ...
ReadMap(w) ==
    /\ At(w, "recorded")
    /\ Becomes(w, [work[w] EXCEPT !.pc = "read", !.copy = map])
    /\ UNCHANGED <<up, stored, map, past, snap, owed, boot>>

\* ... and the index built over it writes it back as it was read, over the map's
\* row, whose lock the transaction keeps.
BuildIndex(w) ==
    /\ At(w, "read")
    /\ ~MapHeld(Workers \ {w})
    /\ Becomes(w, [work[w] EXCEPT !.pc = "mapped"])
    /\ UNCHANGED <<up, stored, map, past, snap, owed, boot>>

\* Deleting a node that the map read does not mention is an error.
Ids(versions) == UNION {1..v.chunks : v \in versions}
Deletable(w) == Ids(stored[Src(w)].nodes) \subseteq work[w].copy[Src(w)]

\* Mutant: the library's sessions are not joined to the transaction.
DeleteAtOnce(w) ==
    /\ At(w, "mapped")
    /\ Deletable(w)
    /\ stored' = [stored EXCEPT ![Src(w)].nodes = {}]
    /\ Becomes(w, [work[w] EXCEPT !.pc = "deleted", !.gone = stored[Src(w)].nodes])
    /\ UNCHANGED <<up, map, past, snap, owed, boot>>
\* delete_ref_doc deletes the nodes it finds, in the tables and in its map.
DeleteNodes(w) ==
    /\ At(w, "mapped")
    /\ Deletable(w)
    /\ Becomes(w, [work[w] EXCEPT !.pc = "deleted", !.gone = stored[Src(w)].nodes])
    /\ UNCHANGED <<up, stored, map, past, snap, owed, boot>>

\* The transaction of a delete that raises is rolled back.
DeleteRaises(w) ==
    /\ At(w, "mapped")
    /\ ~Deletable(w)
    /\ Becomes(w, Idle(work[w].count))
    /\ UNCHANGED <<up, stored, map, past, snap, owed, boot>>

\* The map a transaction writes: the ids it deleted out, the new ones in.
Remapped(t, new) ==
    [t.copy EXCEPT ![t.src] = (t.copy[t.src] \ Ids(t.gone)) \cup new]

\* Mutant: the nodes are numbered from zero, one too many.
WriteNodesFromZero(w) ==
    /\ At(w, "deleted")
    /\ LET t == work[w] IN
         Becomes(w, [t EXCEPT !.pc = "written", !.copy = Remapped(t, 0..t.ver.chunks)])
    /\ UNCHANGED <<up, stored, map, past, snap, owed, boot>>
\* insert_nodes adds the new nodes to the tables and to the map, which the
\* transaction writes again over the row it has locked.
WriteNodes(w) ==
    /\ At(w, "deleted")
    /\ LET t == work[w] IN
         Becomes(w, [t EXCEPT !.pc = "written", !.copy = Remapped(t, Ids({t.ver}))])
    /\ UNCHANGED <<up, stored, map, past, snap, owed, boot>>

TakesEffect(t) ==
    /\ stored' = [stored EXCEPT ![t.src] =
                    [rec |-> t.ver, doc |-> t.ver,
                     nodes |-> (stored[t.src].nodes \ t.gone) \cup {t.ver}]]
    /\ map' = t.copy
    /\ past' = [past EXCEPT ![t.src] = Append(@, t.ver)]

Commit(w) ==
    /\ At(w, "written")
    /\ TakesEffect(work[w])
    /\ Becomes(w, [Idle(work[w].count) EXCEPT !.pc = "refresh"])
    /\ UNCHANGED <<up, snap, owed, boot>>

\* The commit takes effect and its acknowledgement is lost: commit() raises, and
\* nothing rebuilds the snapshot.
CommitUnheard(w) ==
    /\ "unheard" \in Faults
    /\ At(w, "written")
    /\ TakesEffect(work[w])
    /\ owed' = owed \cup {HomeOf[w]}
    /\ Becomes(w, Idle(work[w].count))
    /\ UNCHANGED <<up, snap, boot>>

\* Any statement of the transaction raises: it is rolled back.
Rollback(w) ==
    /\ "raise" \in Faults
    /\ At(w, "locked") \/ \E pc \in Claimed : At(w, pc)
    /\ Becomes(w, Idle(work[w].count))
    /\ UNCHANGED <<up, stored, map, past, snap, owed, boot>>

-----------------------------------------------------------------------------
(* The snapshot: rebuilt after a commit, or by refresh().                  *)

\* Mutant: refresh() reads and publishes without the lock.
RefreshUnlocked(w) ==
    /\ At(w, "idle")
    /\ Becomes(w, [work[w] EXCEPT !.pc = "refresh"])
    /\ UNCHANGED <<up, stored, map, past, snap, owed, boot>>
Refresh(w) ==
    /\ At(w, "idle")
    /\ IndexLockFree(HomeOf[w])
    /\ Becomes(w, [work[w] EXCEPT !.pc = "refresh"])
    /\ UNCHANGED <<up, stored, map, past, snap, owed, boot>>

ReadRecords(w) ==
    /\ At(w, "refresh")
    /\ Becomes(w, [work[w] EXCEPT !.pc = "publish", !.got = Records])
    /\ UNCHANGED <<up, stored, map, past, snap, owed, boot>>

RefreshRaises(w) ==
    /\ "refresh" \in Faults
    /\ At(w, "refresh")
    /\ owed' = owed \cup {HomeOf[w]}
    /\ Becomes(w, Idle(work[w].count))
    /\ UNCHANGED <<up, stored, map, past, snap, boot>>

Publish(w) ==
    /\ At(w, "publish")
    /\ snap' = [snap EXCEPT ![HomeOf[w]] = work[w].got]
    /\ owed' = owed \ {HomeOf[w]}
    /\ Becomes(w, Idle(work[w].count))
    /\ UNCHANGED <<up, stored, map, past, boot>>

-----------------------------------------------------------------------------
(* source_content: the record from the snapshot, the document from the     *)
(* store, both under the lock. A read changes nothing, so it is no action. *)

\* Mutant: a content read that does not take the lock.
MayReadUnlocked(w) == At(w, "idle")
MayRead(w) == At(w, "idle") /\ IndexLockFree(HomeOf[w])

\* The pairs of a record and a document a worker may be answered now.
Answers(w) ==
    {[rec |-> snap[HomeOf[w]][s], doc |-> stored[s].doc] :
        s \in {x \in Sources : MayRead(w) /\ snap[HomeOf[w]][x] # Nothing}}

-----------------------------------------------------------------------------
(* Processes.                                                              *)

\* An instance stops, or its start-up raises.  The database rolls back what the
\* lost connections had not committed.
Crash(i) ==
    /\ "crash" \in Faults
    /\ i \in up \/ boot[i].pc # "off"
    /\ up' = up \ {i}
    /\ boot' = [boot EXCEPT ![i] = Off]
    /\ work' = [w \in Workers |-> IF HomeOf[w] = i THEN Idle(work[w].count) ELSE work[w]]
    /\ UNCHANGED <<stored, map, past, snap, owed>>

\* A pipeline is built over the store.  Its index reads the map and writes it back
\* like that of a replacement, but in no transaction, and with nothing claimed.
StartReadsMap(i) ==
    /\ i \notin up
    /\ boot[i].pc = "off"
    /\ boot' = [boot EXCEPT ![i] = [pc |-> "read", copy |-> map]]
    /\ UNCHANGED <<up, stored, map, past, snap, owed, work>>

StartWritesMap(i) ==
    /\ boot[i].pc = "read"
    /\ ~MapHeld(Workers)
    /\ map' = boot[i].copy
    /\ boot' = [boot EXCEPT ![i] = [pc |-> "built", copy |-> Unmapped]]
    /\ UNCHANGED <<up, stored, past, snap, owed, work>>

\* Then the snapshot is built of what the store holds, and the instance serves.
Restart(i) ==
    /\ boot[i].pc = "built"
    /\ up' = up \cup {i}
    /\ boot' = [boot EXCEPT ![i] = Off]
    /\ snap' = [snap EXCEPT ![i] = Records]
    /\ owed' = owed \ {i}
    /\ UNCHANGED <<stored, map, past, work>>

Next ==
    \/ \E w \in Workers :
         \/ \E s \in Sources, chunks \in Sizes : Prepare(w, s, chunks)
         \/ TakeIndexLock(w) \/ Record(w) \/ ReadMap(w) \/ BuildIndex(w)
         \/ DeleteNodes(w) \/ DeleteRaises(w) \/ WriteNodes(w)
         \/ Commit(w) \/ CommitUnheard(w) \/ Rollback(w)
         \/ Refresh(w) \/ ReadRecords(w) \/ RefreshRaises(w) \/ Publish(w)
    \/ \E i \in Instances :
         Crash(i) \/ StartReadsMap(i) \/ StartWritesMap(i) \/ Restart(i)

Spec == Init /\ [][Next]_vars

-----------------------------------------------------------------------------
(* Properties.                                                             *)

\* A source's catalog row, document and nodes are those of one ingestion at
\* every committed instant (tests/test_postgres_store.py, _committed_state),
\* however replacements of it overlap, fail or are cut off.
Whole(s) ==
    LET t == stored[s] IN
    /\ t.doc = t.rec
    /\ t.nodes = IF t.rec = Nothing THEN {} ELSE {t.rec}

SourcesAreWhole == \A s \in Sources : Whole(s)

\* A snapshot that is published is never older than the one it replaces: an
\* instance does not forget what it has reported (pipeline.py, refresh).
Rank(i, s) ==
    IF snap[i][s] = Nothing THEN 0 ELSE CHOOSE k \in DOMAIN past[s] : past[s][k] = snap[i][s]

SnapshotsAdvance == [][\A i \in Instances, s \in Sources : Rank(i, s) <= Rank(i, s)']_vars

\* A reader never takes a document its own instance stored against another
\* ingestion's record, unless that instance did not rebuild its snapshot
\* after a commit (pipeline.py source_content: the reason it holds the lock the writes hold).
OwnContentMatches ==
    \A w \in Workers : \A a \in Answers(w) :
        \/ a.doc = a.rec
        \/ HomeOf[a.doc.by] # HomeOf[w]
        \/ HomeOf[w] \in owed

\* No circle of locks: a replacement or a rebuild that is under way either goes
\* on or waits for one that does, through the index lock, a source's row and the
\* map's row, which no two writers take in opposite orders.
Blocked(w) ==
    \/ At(w, "waiting") /\ ~IndexLockFree(HomeOf[w])
    \/ At(w, "locked") /\ ~RowFree(Src(w))
    \/ At(w, "read") /\ MapHeld(Workers \ {w})

NoCircleOfLocks ==
    LET busy == {w \in Workers : work[w].pc # "idle"} IN
    busy # {} => \E w \in busy : ~Blocked(w)

Promise == INSTANCE AtomicIndex WITH
    content <- [s \in Sources |-> IF Whole(s) THEN stored[s].rec ELSE Mixture],
    applied <- UNION {ToSet(past[s]) : s \in Sources}

ImplementsAtomicIndex == Promise!Spec

-----------------------------------------------------------------------------
(* A statement of the repository that the code does not keep.              *)

\* store.py, index_struct: a store that outlives the process answers with the
\* map "or the first re-ingestion after a restart fails on content that is
\* right there"; a replacement reads the map back so that it does not fail.
ReplacementsFindTheirContent ==
    \A w \in Workers : At(w, "mapped") => Deletable(w)
=============================================================================
