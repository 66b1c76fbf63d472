------------------------- MODULE SourceIndexProofs -------------------------
(***************************************************************************)
(* What SourceIndex keeps for any instances, threads, sources, numbers of  *)
(* nodes and ingestions.                                                   *)
(***************************************************************************)
EXTENDS SourceIndex, TLAPS

-----------------------------------------------------------------------------
(* The invariant, in three parts. First who is where: no thread of an      *)
(* instance that is down is anywhere, an instance that starts is not up, a *)
(* replacement under way knows its source and its ingestion, and locks     *)
(* exclude.                                                                *)

Ingesting == {"waiting", "locked"} \cup Claimed
Rebuilding == {"refresh", "publish"}

IsBegun(w, t) ==
    t.pc \in Ingesting =>
        /\ t.src \in Sources
        /\ t.ver \in Ingestions
        /\ t.ver.by = w
        /\ t.ver.nth = t.count

Excludes(v, w) ==
    /\ ~(work[v].pc \in Locked /\ work[w].pc \in Locked /\ HomeOf[v] = HomeOf[w])
    /\ ~(work[v].pc \in Claimed /\ work[w].pc \in Claimed /\ Src(v) = Src(w))

Down(w) == HomeOf[w] \notin up => work[w].pc = "idle"

Places ==
    /\ TypeOK
    /\ \A i \in Instances : i \in up => boot[i].pc = "off"
    /\ \A w \in Workers : Down(w)
    /\ \A w \in Workers : IsBegun(w, work[w])
    /\ \A v, w \in Workers : v # w => Excludes(v, w)

-----------------------------------------------------------------------------
(* Then what is committed: sources are whole, the record is the last       *)
(* ingestion committed, a transaction past its delete statements removed   *)
(* what is stored, and no ingestion is committed twice.                    *)

Latest(s) == IF past[s] = <<>> THEN Nothing ELSE past[s][Len(past[s])]

Deleting == {"deleted", "written"}
IsRemoved(t) == t.pc \in Deleting => t.gone = stored[t.src].nodes

\* The number of ingestions a thread is past, committed or not.
Done(t) == IF t.pc \in Ingesting THEN t.count - 1 ELSE t.count

Numbered(p) == \A k \in DOMAIN p : p[k].nth <= Done(work[p[k].by])

Distinct(p) == \A j, k \in DOMAIN p : p[j] = p[k] => j = k

Committed ==
    /\ \A s \in Sources :
         Whole(s) /\ stored[s].rec = Latest(s) /\ Numbered(past[s]) /\ Distinct(past[s])
    /\ \A w \in Workers : IsRemoved(work[w])

-----------------------------------------------------------------------------
(* Then what the instances answer from: a snapshot holds what was          *)
(* committed, the one about to be published is no older than the one it    *)
(* replaces, and what they lack was written by another instance - unless a *)
(* rebuild is under way or raised.                                         *)

Known(p, v) == v = Nothing \/ \E k \in DOMAIN p : p[k] = v

Place(p, v) == IF v = Nothing THEN 0 ELSE CHOOSE k \in DOMAIN p : p[k] = v

Foreign(i, s) == stored[s].rec # Nothing /\ HomeOf[stored[s].rec.by] # i

InTime(w, s) ==
    work[w].pc = "publish" =>
        /\ Known(past[s], work[w].got[s])
        /\ Place(past[s], snap[HomeOf[w]][s]) <= Place(past[s], work[w].got[s])
        /\ work[w].got[s] = stored[s].rec \/ Foreign(HomeOf[w], s)

Excused(i) ==
    \/ i \notin up \/ i \in owed
    \/ \E w \in Workers : HomeOf[w] = i /\ work[w].pc \in Rebuilding

Current(i, s) == Excused(i) \/ snap[i][s] = stored[s].rec \/ Foreign(i, s)

Answering ==
    /\ \A i \in Instances, s \in Sources : Known(past[s], snap[i][s]) /\ Current(i, s)
    /\ \A w \in Workers, s \in Sources : InTime(w, s)

Inv == Places /\ Committed /\ Answering

-----------------------------------------------------------------------------
(* Types of what the steps build.                                          *)

LEMMA NothingIsNoIngestion ==
    /\ Nothing \notin Ingestions
    /\ Mixture \notin Versions
    /\ Ingestions \subseteq Versions
    /\ Nothing \in Versions
BY IndexAssumption DEF Nothing, Mixture, Versions, Ingestions

LEMMA IngestionFields ==
    ASSUME NEW v \in Ingestions
    PROVE  v.by \in Workers /\ v.nth \in 1..MaxIngests /\ v.chunks \in Sizes
BY DEF Ingestions

LEMMA EmptyMapsAndCatalogs ==
    /\ Unmapped \in Maps
    /\ Uncatalogued \in Catalogs
BY DEF Unmapped, Uncatalogued, Maps, Catalogs, Versions

LEMMA IdleThread ==
    ASSUME NEW n \in 0..MaxIngests
    PROVE  /\ Idle(n) \in Threads
           /\ Idle(n).pc = "idle"
           /\ Idle(n).count = n
BY EmptyMapsAndCatalogs, NothingIsNoIngestion DEF Idle, Threads, PCs

LEMMA ThreadFields ==
    ASSUME NEW t \in Threads
    PROVE  /\ t.pc \in PCs
           /\ t.src \in Sources \cup {"none"}
           /\ t.ver \in Versions
           /\ t.copy \in Maps
           /\ t.gone \subseteq Ingestions
           /\ t.got \in Catalogs
           /\ t.count \in 0..MaxIngests
BY DEF Threads

\* A thread that has gone on to another place with something it has read.
GoesOn(t, u, pc) ==
    /\ u \in Threads
    /\ u.pc = pc
    /\ u.src = t.src /\ u.ver = t.ver /\ u.count = t.count

LEMMA GoneOn ==
    ASSUME NEW t \in Threads, NEW pc \in PCs
    PROVE  /\ GoesOn(t, [t EXCEPT !.pc = pc], pc)
           /\ \A m \in Maps : GoesOn(t, [t EXCEPT !.pc = pc, !.copy = m], pc)
           /\ \A g \in SUBSET Ingestions : GoesOn(t, [t EXCEPT !.pc = pc, !.gone = g], pc)
           /\ \A r \in Catalogs : GoesOn(t, [t EXCEPT !.pc = pc, !.got = r], pc)
<1>1. GoesOn(t, [t EXCEPT !.pc = pc], pc)
  BY DEF Threads, GoesOn
<1>2. ASSUME NEW m \in Maps PROVE GoesOn(t, [t EXCEPT !.pc = pc, !.copy = m], pc)
  BY DEF Threads, GoesOn
<1>3. ASSUME NEW g \in SUBSET Ingestions PROVE GoesOn(t, [t EXCEPT !.pc = pc, !.gone = g], pc)
  BY DEF Threads, GoesOn
<1>4. ASSUME NEW r \in Catalogs PROVE GoesOn(t, [t EXCEPT !.pc = pc, !.got = r], pc)
  BY DEF Threads, GoesOn
<1> QED BY <1>1, <1>2, <1>3, <1>4

\* The nodes of ingestions are numbered within what a map may mention.
LEMMA IdsAreMappable ==
    ASSUME NEW v \in Ingestions
    PROVE  Ids({v}) \subseteq UNION {1..n : n \in Sizes}
BY IngestionFields DEF Ids

LEMMA RemappedIsAMap ==
    ASSUME NEW t \in Threads, NEW new \in SUBSET UNION {1..n : n \in Sizes}
    PROVE  Remapped(t, new) \in Maps
BY ThreadFields DEF Remapped, Maps

LEMMA BecomingAThread ==
    ASSUME TypeOK, NEW w \in Workers, NEW t \in Threads, Becomes(w, t)
    PROVE  /\ work' \in [Workers -> Threads]
           /\ work'[w] = t
           /\ \A v \in Workers \ {w} : work'[v] = work[v]
BY DEF TypeOK, Becomes

-----------------------------------------------------------------------------
(* Who is where.                                                           *)

\* A step of one thread keeps who is where if the place it takes is free.
LEMMA MovingKeepsPlaces ==
    ASSUME Places, NEW w \in Workers, NEW t \in Threads, Becomes(w, t),
           HomeOf[w] \in up, UNCHANGED <<up, boot>>,
           stored' \in [Sources -> Tables], map' \in Maps,
           past' \in [Sources -> Seq(Ingestions)],
           snap' \in [Instances -> Catalogs], owed' \subseteq Instances,
           IsBegun(w, t),
           t.pc \in Locked => work[w].pc \in Locked \/ IndexLockFree(HomeOf[w]),
           t.pc \in Claimed =>
               (work[w].pc \in Claimed /\ t.src = Src(w)) \/ RowFree(t.src)
    PROVE  Places'
<1>1. /\ work' \in [Workers -> Threads]
      /\ work'[w] = t
      /\ \A v \in Workers \ {w} : work'[v] = work[v]
  BY BecomingAThread DEF Places
<1>2. TypeOK'
  BY <1>1 DEF Places, TypeOK
<1>3. \A v \in Workers : Down(v)'
  BY <1>1 DEF Places, Down
<1>4. \A v \in Workers : IsBegun(v, work[v])'
  BY <1>1 DEF Places, IsBegun
<1>5. ASSUME NEW u \in Workers, NEW v \in Workers, u # v
      PROVE  Excludes(u, v)'
  <2>1. Excludes(u, v) /\ Excludes(v, u)
    BY <1>5 DEF Places
  <2>2. CASE u # w /\ v # w
    BY <1>1, <2>1, <2>2 DEF Excludes, Src
  <2>3. CASE u = w
    BY <1>1, <1>5, <2>1, <2>3 DEF Excludes, Src, IndexLockFree, RowFree
  <2>4. CASE v = w
    BY <1>1, <1>5, <2>1, <2>4 DEF Excludes, Src, IndexLockFree, RowFree
  <2> QED BY <2>2, <2>3, <2>4
<1>6. \A i \in Instances : (i \in up => boot[i].pc = "off")'
  BY DEF Places
<1> QED BY <1>2, <1>3, <1>4, <1>5, <1>6 DEF Places

\* What a thread at one of the places of a replacement is known to hold.
LEMMA ReplacingKnows ==
    ASSUME Places, NEW w \in Workers
    PROVE  /\ work[w] \in Threads
           /\ work[w].pc \in Ingesting =>
                /\ Src(w) \in Sources
                /\ work[w].ver \in Ingestions
                /\ work[w].ver.by = w
                /\ work[w].ver.nth = work[w].count
BY DEF Places, TypeOK, IsBegun, Src

\* A thread that gives up, or has ended, keeps who is where.
LEMMA ReturningKeepsPlaces ==
    ASSUME Places, NEW w \in Workers, HomeOf[w] \in up,
           Becomes(w, Idle(work[w].count)),
           UNCHANGED <<up, stored, map, past, boot>>,
           snap' \in [Instances -> Catalogs], owed' \subseteq Instances
    PROVE  Places'
<1>1. work[w].count \in 0..MaxIngests
  BY ReplacingKnows, ThreadFields
<1>2. /\ Idle(work[w].count) \in Threads
      /\ Idle(work[w].count).pc = "idle"
  BY <1>1, IdleThread
<1>3. /\ Idle(work[w].count).pc \notin Ingesting
      /\ Idle(work[w].count).pc \notin Locked
      /\ Idle(work[w].count).pc \notin Claimed
  BY <1>2 DEF Ingesting, Locked, Claimed
<1> QED BY <1>2, <1>3, MovingKeepsPlaces DEF IsBegun, Places, TypeOK

LEMMA PreparingKeepsPlaces ==
    ASSUME Places, NEW w \in Workers, NEW s \in Sources, NEW chunks \in Sizes,
           Prepare(w, s, chunks)
    PROVE  Places'
<1> DEFINE n == work[w].count + 1
           v == [by |-> w, nth |-> n, chunks |-> chunks]
           t == [Idle(n) EXCEPT !.pc = "waiting", !.src = s, !.ver = v]
<1>1. work[w].count \in 0..MaxIngests /\ work[w].count < MaxIngests
  BY ReplacingKnows, ThreadFields DEF Prepare
<1>2. n \in 0..MaxIngests /\ n \in 1..MaxIngests
  BY <1>1, IndexAssumption
<1>3. v \in Ingestions
  BY <1>2 DEF Ingestions
<1>4. t \in Threads /\ t.pc = "waiting" /\ t.src = s /\ t.ver = v /\ t.count = n
  BY <1>2, <1>3, EmptyMapsAndCatalogs DEF Idle, Threads, PCs, Versions
<1>5. IsBegun(w, t)
  BY <1>3, <1>4 DEF IsBegun
<1>6. t.pc \notin Locked /\ t.pc \notin Claimed
  BY <1>4 DEF Locked, Claimed
<1>7. Becomes(w, t) /\ HomeOf[w] \in up /\ UNCHANGED <<up, stored, map, past, snap, owed, boot>>
  BY DEF Prepare, At
<1> HIDE DEF t
<1> QED BY <1>4, <1>5, <1>6, <1>7, MovingKeepsPlaces DEF Places, TypeOK

\* A thread that only goes on to its next place.
LEMMA ContinuingKeepsPlaces ==
    ASSUME Places, NEW w \in Workers, NEW t \in Threads, Becomes(w, t),
           HomeOf[w] \in up,
           UNCHANGED <<up, stored, map, past, snap, owed, boot>>,
           t.pc \in Ingesting => work[w].pc \in Ingesting,
           t.src = Src(w), t.ver = work[w].ver, t.count = work[w].count,
           t.pc \in Locked => work[w].pc \in Locked \/ IndexLockFree(HomeOf[w]),
           t.pc \in Claimed => work[w].pc \in Claimed \/ RowFree(Src(w))
    PROVE  Places'
<1>1. IsBegun(w, t)
  BY ReplacingKnows DEF IsBegun
<1> QED BY <1>1, MovingKeepsPlaces DEF Places, TypeOK

LEMMA WaitingForLocksKeepsPlaces ==
    ASSUME Places, NEW w \in Workers, TakeIndexLock(w) \/ Record(w)
    PROVE  Places'
<1>1. CASE TakeIndexLock(w)
  <2> DEFINE t == [work[w] EXCEPT !.pc = "locked"]
  <2>1. GoesOn(work[w], t, "locked")
    BY ReplacingKnows, GoneOn, Zenon DEF PCs
  <2>2. work[w].pc \in Ingesting /\ t.pc \notin Claimed
    BY <1>1, <2>1 DEF TakeIndexLock, At, Ingesting, Claimed, GoesOn
  <2> QED BY <1>1, <2>1, <2>2, ContinuingKeepsPlaces, Zenon DEF TakeIndexLock, At, GoesOn, Src
<1>2. CASE Record(w)
  <2> DEFINE t == [work[w] EXCEPT !.pc = "recorded"]
  <2>1. GoesOn(work[w], t, "recorded")
    BY ReplacingKnows, GoneOn, Zenon DEF PCs
  <2>2. work[w].pc \in Ingesting /\ work[w].pc \in Locked
    BY <1>2, <2>1 DEF Record, At, Ingesting, Locked
  <2> QED BY <1>2, <2>1, <2>2, ContinuingKeepsPlaces, Zenon DEF Record, At, GoesOn, Src
<1> QED BY <1>1, <1>2

\* The steps between the claim on the source and the commit.
EditsMap(w) == ReadMap(w) \/ BuildIndex(w) \/ DeleteNodes(w) \/ WriteNodes(w)

\* What a step makes of its thread, at the places where it is known by its kind.
LEMMA EditingGoesOn ==
    ASSUME Places, NEW w \in Workers, EditsMap(w)
    PROVE  \E t, pc : Becomes(w, t) /\ GoesOn(work[w], t, pc) /\ pc \in Claimed
<1>1. CASE ReadMap(w)
  <2>1. map \in Maps
    BY Zenon DEF Places, TypeOK
  <2>2. GoesOn(work[w], [work[w] EXCEPT !.pc = "read", !.copy = map], "read")
    BY <2>1, ReplacingKnows, GoneOn, Zenon DEF PCs
  <2> QED BY <1>1, <2>2 DEF ReadMap, Claimed
<1>2. CASE DeleteNodes(w)
  <2> DEFINE g == stored[Src(w)].nodes
  <2>1. Src(w) \in Sources
    BY <1>2, ReplacingKnows DEF DeleteNodes, At, Ingesting, Claimed
  <2>2. g \in SUBSET Ingestions
    BY <2>1 DEF Places, TypeOK, Tables
  <2>3. Becomes(w, [work[w] EXCEPT !.pc = "deleted", !.gone = g])
    BY <1>2, Zenon DEF DeleteNodes
  <2> HIDE DEF g
  <2>4. GoesOn(work[w], [work[w] EXCEPT !.pc = "deleted", !.gone = g], "deleted")
    BY <2>2, ReplacingKnows, GoneOn, Zenon DEF PCs
  <2> QED BY <2>3, <2>4 DEF Claimed
<1>3. CASE WriteNodes(w)
  <2> DEFINE m == Remapped(work[w], Ids({work[w].ver}))
  <2>1. work[w].ver \in Ingestions
    BY <1>3, ReplacingKnows DEF WriteNodes, At, Ingesting, Claimed
  <2>2. m \in Maps
    BY <2>1, ReplacingKnows, IdsAreMappable, RemappedIsAMap
  <2>3. Becomes(w, [work[w] EXCEPT !.pc = "written", !.copy = m])
    BY <1>3, Zenon DEF WriteNodes
  <2> HIDE DEF m
  <2>4. GoesOn(work[w], [work[w] EXCEPT !.pc = "written", !.copy = m], "written")
    BY <2>2, ReplacingKnows, GoneOn, Zenon DEF PCs
  <2> QED BY <2>3, <2>4 DEF Claimed
<1>4. CASE BuildIndex(w)
  <2>1. GoesOn(work[w], [work[w] EXCEPT !.pc = "mapped"], "mapped")
    BY ReplacingKnows, GoneOn, Zenon DEF PCs
  <2> QED BY <1>4, <2>1 DEF BuildIndex, Claimed
<1> QED BY <1>1, <1>2, <1>3, <1>4 DEF EditsMap

LEMMA EditingKeepsPlaces ==
    ASSUME Places, NEW w \in Workers, EditsMap(w)
    PROVE  Places'
<1>1. PICK t, pc : Becomes(w, t) /\ GoesOn(work[w], t, pc) /\ pc \in Claimed
  BY EditingGoesOn
<1>2. /\ HomeOf[w] \in up
      /\ work[w].pc \in Ingesting /\ work[w].pc \in Locked /\ work[w].pc \in Claimed
      /\ UNCHANGED <<up, stored, map, past, snap, owed, boot>>
  BY DEF EditsMap, ReadMap, BuildIndex, DeleteNodes, WriteNodes, At, Ingesting, Locked, Claimed
<1> QED BY <1>1, <1>2, ContinuingKeepsPlaces DEF GoesOn, Src

\* A commit that takes effect, acknowledged or not: the thread goes on to rebuild
\* the snapshot, or gives up and leaves its instance owing that.
Commits(w) == Commit(w) \/ CommitUnheard(w)

LEMMA CommitEnds ==
    ASSUME Places, NEW w \in Workers, Commits(w)
    PROVE  /\ HomeOf[w] \in up /\ work[w].pc = "written"
           /\ TakesEffect(work[w])
           /\ UNCHANGED <<up, snap, boot>>
           /\ \E u \in Threads :
                /\ Becomes(w, u)
                /\ u.count = work[w].count
                /\ \/ u.pc = "refresh" /\ owed' = owed
                   \/ u.pc = "idle" /\ owed' = owed \cup {HomeOf[w]}
<1> DEFINE n == work[w].count
           u == [Idle(n) EXCEPT !.pc = "refresh"]
<1>1. n \in 0..MaxIngests
  BY ReplacingKnows, ThreadFields
<1>2. /\ u \in Threads /\ u.pc = "refresh" /\ u.count = n
      /\ Idle(n) \in Threads /\ Idle(n).pc = "idle" /\ Idle(n).count = n
  BY <1>1, EmptyMapsAndCatalogs, NothingIsNoIngestion DEF Idle, Threads, PCs
<1>3. CASE Commit(w)
  BY <1>2, <1>3, Zenon DEF Commit, At
<1>4. CASE CommitUnheard(w)
  BY <1>2, <1>4, Zenon DEF CommitUnheard, At
<1> QED BY <1>3, <1>4 DEF Commits

LEMMA CommittingKeepsPlaces ==
    ASSUME Places, NEW w \in Workers, Commits(w)
    PROVE  Places'
<1> DEFINE t == work[w]
<1>1. /\ HomeOf[w] \in up /\ HomeOf[w] \in Instances /\ t.pc = "written"
      /\ UNCHANGED <<up, snap, boot>>
      /\ TakesEffect(t)
  BY CommitEnds, IndexAssumption
<1>2. PICK u \in Threads : /\ Becomes(w, u)
                           /\ u.pc \in {"refresh", "idle"}
                           /\ owed' \in {owed, owed \cup {HomeOf[w]}}
  BY CommitEnds
<1>3. t \in Threads /\ t.src \in Sources /\ t.ver \in Ingestions
  BY <1>1, ReplacingKnows DEF Ingesting, Claimed, Src
<1>4. map' \in Maps
  BY <1>1, <1>3, ThreadFields DEF TakesEffect
<1>5. past' \in [Sources -> Seq(Ingestions)]
  BY <1>1, <1>3 DEF TakesEffect, Places, TypeOK
<1>6. stored' \in [Sources -> Tables]
  <2>1. [rec |-> t.ver, doc |-> t.ver,
         nodes |-> (stored[t.src].nodes \ t.gone) \cup {t.ver}] \in Tables
    BY <1>3 DEF Places, TypeOK, Tables, Versions
  <2> QED BY <1>1, <2>1 DEF TakesEffect, Places, TypeOK
<1>7. /\ u.pc \notin Ingesting /\ u.pc \notin Claimed
      /\ t.pc \in Locked
      /\ owed' \subseteq Instances
  BY <1>1, <1>2 DEF Ingesting, Claimed, Locked, Places, TypeOK
<1> QED BY <1>1, <1>2, <1>4, <1>5, <1>6, <1>7, MovingKeepsPlaces DEF IsBegun, Places, TypeOK

LEMMA RebuildingGoesOn ==
    ASSUME Places, NEW w \in Workers, Refresh(w) \/ ReadRecords(w)
    PROVE  \E t, pc : Becomes(w, t) /\ GoesOn(work[w], t, pc) /\ pc \in Rebuilding
<1>1. CASE Refresh(w)
  <2>1. GoesOn(work[w], [work[w] EXCEPT !.pc = "refresh"], "refresh")
    BY ReplacingKnows, GoneOn, Zenon DEF PCs
  <2> QED BY <1>1, <2>1, Zenon DEF Refresh, Rebuilding
<1>2. CASE ReadRecords(w)
  <2> DEFINE r == Records
  <2>1. r \in Catalogs
    BY Zenon DEF Places, TypeOK, Records, Catalogs, Tables
  <2>2. GoesOn(work[w], [work[w] EXCEPT !.pc = "publish", !.got = r], "publish")
    BY <2>1, ReplacingKnows, GoneOn, Zenon DEF PCs
  <2> QED BY <1>2, <2>2 DEF ReadRecords, Rebuilding
<1> QED BY <1>1, <1>2

LEMMA RebuildingKeepsPlaces ==
    ASSUME Places, NEW w \in Workers, Refresh(w) \/ ReadRecords(w)
    PROVE  Places'
<1>1. PICK t, pc : Becomes(w, t) /\ GoesOn(work[w], t, pc) /\ pc \in Rebuilding
  BY RebuildingGoesOn
<1>2. t.pc \notin Ingesting /\ t.pc \notin Claimed
  BY <1>1 DEF GoesOn, Rebuilding, Ingesting, Claimed
<1>3. /\ HomeOf[w] \in up
      /\ UNCHANGED <<up, stored, map, past, snap, owed, boot>>
      /\ work[w].pc \in Locked \/ IndexLockFree(HomeOf[w])
  BY DEF Refresh, ReadRecords, At, Locked
<1> QED BY <1>1, <1>2, <1>3, ContinuingKeepsPlaces DEF GoesOn, Src

LEMMA EndingKeepsPlaces ==
    ASSUME Places, NEW w \in Workers,
           DeleteRaises(w) \/ Rollback(w) \/ RefreshRaises(w) \/ Publish(w)
    PROVE  Places'
<1>1. HomeOf[w] \in up /\ HomeOf[w] \in Instances
  BY IndexAssumption DEF DeleteRaises, Rollback, RefreshRaises, Publish, At
<1>2. snap' \in [Instances -> Catalogs]
  BY <1>1, ReplacingKnows, ThreadFields
     DEF DeleteRaises, Rollback, RefreshRaises, Publish, Places, TypeOK
<1>3. owed' \subseteq Instances
  BY <1>1 DEF DeleteRaises, Rollback, RefreshRaises, Publish, Places, TypeOK
<1>4. /\ Becomes(w, Idle(work[w].count))
      /\ UNCHANGED <<up, stored, map, past, boot>>
  BY DEF DeleteRaises, Rollback, RefreshRaises, Publish
<1> QED BY <1>1, <1>2, <1>3, <1>4, ReturningKeepsPlaces

LEMMA CrashingKeepsPlaces ==
    ASSUME Places, NEW i \in Instances, Crash(i)
    PROVE  Places'
<1>1. ASSUME NEW w \in Workers
      PROVE  /\ work'[w] \in Threads
             /\ IF HomeOf[w] = i THEN work'[w].pc = "idle" ELSE work'[w] = work[w]
  BY ReplacingKnows, ThreadFields, IdleThread DEF Crash
<1>2. work' \in [Workers -> Threads]
  BY <1>1 DEF Crash
<1>3. TypeOK'
  BY <1>2, EmptyMapsAndCatalogs DEF Places, TypeOK, Crash, Off, Boots
<1>4. \A w \in Workers : Down(w)' /\ IsBegun(w, work[w])'
  BY <1>1 DEF Places, Down, IsBegun, Crash, Ingesting, Claimed
<1>5. \A v, w \in Workers : v # w => Excludes(v, w)'
  BY <1>1 DEF Places, Excludes, Src, Locked, Claimed
<1>6. \A j \in Instances : (j \in up => boot[j].pc = "off")'
  BY DEF Places, TypeOK, Crash
<1> QED BY <1>3, <1>4, <1>5, <1>6 DEF Places

\* The steps of a start-up, which no thread of the instance sees.
Starts(i) == StartReadsMap(i) \/ StartWritesMap(i) \/ Restart(i)

LEMMA StartingKeepsPlaces ==
    ASSUME Places, NEW i \in Instances, Starts(i)
    PROVE  Places'
<1>1. Records \in Catalogs /\ Off \in Boots
  BY EmptyMapsAndCatalogs DEF Places, TypeOK, Records, Catalogs, Tables, Off, Boots
<1>2. CASE StartReadsMap(i)
  <2>1. [pc |-> "read", copy |-> map] \in Boots
    BY DEF Places, TypeOK, Boots
  <2>2. TypeOK'
    BY <1>2, <2>1 DEF Places, TypeOK, StartReadsMap
  <2>3. \A j \in Instances : (j \in up => boot[j].pc = "off")'
    BY <1>2 DEF Places, TypeOK, StartReadsMap
  <2> QED BY <1>2, <2>2, <2>3 DEF Places, StartReadsMap, Down, IsBegun, Excludes, Src
<1>3. CASE StartWritesMap(i)
  <2>1. [pc |-> "built", copy |-> Unmapped] \in Boots /\ boot[i].copy \in Maps
    BY EmptyMapsAndCatalogs DEF Places, TypeOK, Boots
  <2>2. TypeOK'
    BY <1>3, <2>1 DEF Places, TypeOK, StartWritesMap
  <2>3. \A j \in Instances : (j \in up => boot[j].pc = "off")'
    BY <1>3 DEF Places, TypeOK, StartWritesMap
  <2> QED BY <1>3, <2>2, <2>3 DEF Places, StartWritesMap, Down, IsBegun, Excludes, Src
<1>4. CASE Restart(i)
  <2>1. TypeOK'
    BY <1>1, <1>4 DEF Places, TypeOK, Restart
  <2>2. \A j \in Instances : (j \in up => boot[j].pc = "off")'
    BY <1>4 DEF Places, TypeOK, Restart, Off
  <2> QED BY <1>4, <2>1, <2>2 DEF Places, Restart, Down, IsBegun, Excludes, Src
<1> QED BY <1>2, <1>3, <1>4 DEF Starts

LEMMA InitHasPlaces == Init => Places
<1> SUFFICES ASSUME Init PROVE Places
  OBVIOUS
<1>1. 0 \in 0..MaxIngests
  BY IndexAssumption
<1>2. \A w \in Workers : work[w] \in Threads /\ work[w].pc = "idle"
  BY <1>1, IdleThread DEF Init
<1>3. TypeOK
  <2>1. stored \in [Sources -> Tables]
    BY NothingIsNoIngestion DEF Init, Tables, Empty
  <2>2. past \in [Sources -> Seq(Ingestions)]
    BY DEF Init
  <2>3. Off \in Boots
    BY EmptyMapsAndCatalogs DEF Off, Boots
  <2> QED BY <1>2, <2>1, <2>2, <2>3, EmptyMapsAndCatalogs DEF Init, TypeOK
<1>4. \A i \in Instances : boot[i].pc = "off"
  BY DEF Init, Off
<1> QED BY <1>2, <1>3, <1>4
        DEF Places, Down, IsBegun, Excludes, Ingesting, Locked, Claimed

LEMMA NextKeepsPlaces == Places /\ [Next]_vars => Places'
<1> SUFFICES ASSUME Places, [Next]_vars PROVE Places'
  OBVIOUS
<1>1. CASE Next
  BY <1>1, PreparingKeepsPlaces, WaitingForLocksKeepsPlaces, EditingKeepsPlaces,
     CommittingKeepsPlaces, RebuildingKeepsPlaces, EndingKeepsPlaces,
     CrashingKeepsPlaces, StartingKeepsPlaces DEF Next, EditsMap, Commits, Starts
<1>2. CASE UNCHANGED vars
  BY <1>2 DEF vars, Places, TypeOK, Down, IsBegun, Excludes, Src
<1> QED BY <1>1, <1>2

\* Every variable holds what its declaration says.
THEOREM TypeCorrect == Spec => []TypeOK
<1>1. Places => TypeOK
  BY DEF Places
<1> QED BY <1>1, InitHasPlaces, NextKeepsPlaces, PTL DEF Spec

\* Some thread that replaces or rebuilds can go on: the locks are taken in one
\* order, the instance's, the source's row, the map's row.
LEMMA PlacesHaveNoCircle == Places => NoCircleOfLocks
<1> SUFFICES ASSUME Places, {w \in Workers : work[w].pc # "idle"} # {}
             PROVE  \E w \in Workers : work[w].pc # "idle" /\ ~Blocked(w)
  BY DEF NoCircleOfLocks
<1> DEFINE Free == {"recorded", "mapped", "deleted", "written", "refresh", "publish"}
<1>1. CASE \E w \in Workers : work[w].pc \in Free
  BY <1>1 DEF Blocked, At
<1>2. CASE /\ ~\E w \in Workers : work[w].pc \in Free
           /\ \E w \in Workers : work[w].pc = "read"
  BY <1>2 DEF Blocked, At, MapHeld, Mapping
<1>3. CASE /\ ~\E w \in Workers : work[w].pc \in Free \cup {"read"}
           /\ \E w \in Workers : work[w].pc = "locked"
  BY <1>3 DEF Blocked, At, RowFree, Claimed
<1>4. CASE ~\E w \in Workers : work[w].pc \in Free \cup {"read", "locked"}
  <2>1. PICK w \in Workers : work[w].pc # "idle"
    OBVIOUS
  <2>2. work[w].pc \in PCs
    BY ReplacingKnows, ThreadFields
  <2>3. work[w].pc = "waiting"
    BY <1>4, <2>1, <2>2 DEF PCs
  <2>4. IndexLockFree(HomeOf[w])
    BY <1>4 DEF IndexLockFree, Locked
  <2> QED BY <2>1, <2>3, <2>4 DEF Blocked, At
<1> QED BY <1>1, <1>2, <1>3, <1>4

\* No circle of locks, for any instances, threads and sources.
THEOREM LocksHaveNoCircle == Spec => []NoCircleOfLocks
BY InitHasPlaces, NextKeepsPlaces, PlacesHaveNoCircle, PTL DEF Spec

-----------------------------------------------------------------------------
(* What is committed.                                                      *)

LEMMA PastIsOfIngestions ==
    ASSUME Places, NEW s \in Sources
    PROVE  /\ past[s] \in Seq(Ingestions)
           /\ DOMAIN past[s] = 1..Len(past[s])
           /\ Len(past[s]) \in Nat
           /\ \A k \in DOMAIN past[s] :
                past[s][k] \in Ingestions /\ past[s][k].by \in Workers /\ past[s][k].nth \in Nat
<1>1. past[s] \in Seq(Ingestions)
  BY DEF Places, TypeOK
<1>2. \A k \in DOMAIN past[s] : past[s][k] \in Ingestions
  BY <1>1
<1> QED BY <1>1, <1>2, IngestionFields

LEMMA DoneIsANumber ==
    ASSUME NEW t \in Threads
    PROVE  Done(t) \in Int
BY ThreadFields DEF Done

\* A step that commits nothing keeps what is committed.
LEMMA QuietKeepsCommitted ==
    ASSUME Places, Places', Committed, UNCHANGED <<stored, past>>,
           \A v \in Workers : Done(work[v]) <= Done(work'[v]) /\ IsRemoved(work[v])'
    PROVE  Committed'
<1>1. ASSUME NEW s \in Sources PROVE Numbered(past[s])'
  <2>1. ASSUME NEW k \in DOMAIN past[s]
        PROVE  past[s][k].nth <= Done(work'[past[s][k].by])
    <3> DEFINE v == past[s][k].by
    <3>1. v \in Workers /\ past[s][k].nth \in Nat
      BY PastIsOfIngestions
    <3>2. Done(work[v]) \in Int /\ Done(work'[v]) \in Int
      BY <3>1, DoneIsANumber DEF Places, TypeOK
    <3>3. past[s][k].nth <= Done(work[v])
      BY DEF Committed, Numbered
    <3> QED BY <3>1, <3>2, <3>3
  <2> QED BY <2>1 DEF Numbered, Done
<1>2. \A s \in Sources : (Whole(s) /\ stored[s].rec = Latest(s) /\ Distinct(past[s]))'
  BY DEF Committed, Whole, Latest, Distinct
<1> QED BY <1>1, <1>2 DEF Committed

LEMMA MovingKeepsCommitted ==
    ASSUME Places, Places', Committed, UNCHANGED <<stored, past>>,
           NEW w \in Workers, NEW t, Becomes(w, t),
           Done(work[w]) <= Done(t), IsRemoved(t)
    PROVE  Committed'
<1>1. work'[w] = t /\ \A v \in Workers \ {w} : work'[v] = work[v]
  BY DEF Becomes, Places, TypeOK
<1>2. \A v \in Workers : Done(work[v]) \in Int
  BY DoneIsANumber DEF Places, TypeOK
<1>3. \A v \in Workers : Done(work[v]) <= Done(work'[v])
  BY <1>1, <1>2
<1>4. \A v \in Workers : IsRemoved(work[v])'
  BY <1>1 DEF Committed, IsRemoved
<1> QED BY <1>3, <1>4, QuietKeepsCommitted

LEMMA ReturningKeepsCommitted ==
    ASSUME Places, Places', Committed, NEW w \in Workers,
           Becomes(w, Idle(work[w].count)), UNCHANGED <<stored, past>>
    PROVE  Committed'
<1> DEFINE t == Idle(work[w].count)
<1>1. work[w].count \in 0..MaxIngests
  BY ReplacingKnows, ThreadFields
<1>2. t.pc = "idle" /\ t.count = work[w].count
  BY <1>1, IdleThread
<1>3. Done(work[w]) <= Done(t) /\ IsRemoved(t)
  BY <1>1, <1>2 DEF Done, IsRemoved, Deleting, Ingesting, Claimed
<1> QED BY <1>3, MovingKeepsCommitted

LEMMA PreparingKeepsCommitted ==
    ASSUME Places, Places', Committed, NEW w \in Workers, NEW s \in Sources,
           NEW chunks \in Sizes, Prepare(w, s, chunks)
    PROVE  Committed'
<1> DEFINE n == work[w].count + 1
           t == [Idle(n) EXCEPT !.pc = "waiting", !.src = s,
                                !.ver = [by |-> w, nth |-> n, chunks |-> chunks]]
<1>1. work[w].count \in Nat /\ work[w].pc = "idle"
  BY ReplacingKnows, ThreadFields DEF Prepare, At
<1>2. t.pc = "waiting" /\ t.count = n
  BY DEF Idle
<1>3. Becomes(w, t)
  BY DEF Prepare
<1> HIDE DEF t
<1>4. Done(work[w]) <= Done(t) /\ IsRemoved(t)
  BY <1>1, <1>2 DEF Done, IsRemoved, Deleting, Ingesting, Claimed
<1> QED BY <1>3, <1>4, MovingKeepsCommitted DEF Prepare

LEMMA AdvancingKeepsCommitted ==
    ASSUME Places, Places', Committed, NEW w \in Workers,
           \/ TakeIndexLock(w) \/ Record(w) \/ EditsMap(w) \/ Refresh(w) \/ ReadRecords(w)
    PROVE  Committed'
<1>1. PICK t : /\ Becomes(w, t)
               /\ t.count = work[w].count
               /\ t.pc \in Ingesting <=> work[w].pc \in Ingesting
               /\ IsRemoved(t)
  <2>1. work[w] \in Threads
    BY ReplacingKnows
  <2>2. CASE TakeIndexLock(w)
    <3> DEFINE t == [work[w] EXCEPT !.pc = "locked"]
    <3>1. GoesOn(work[w], t, "locked")
      BY <2>1, GoneOn, Zenon DEF PCs
    <3> QED BY <2>2, <3>1, Zenon DEF TakeIndexLock, At, GoesOn, Ingesting, Claimed, IsRemoved, Deleting
  <2>3. CASE Record(w)
    <3> DEFINE t == [work[w] EXCEPT !.pc = "recorded"]
    <3>1. GoesOn(work[w], t, "recorded")
      BY <2>1, GoneOn, Zenon DEF PCs
    <3> QED BY <2>3, <3>1, Zenon DEF Record, At, GoesOn, Ingesting, Claimed, IsRemoved, Deleting
  <2>4. CASE ReadMap(w)
    <3> DEFINE t == [work[w] EXCEPT !.pc = "read", !.copy = map]
    <3>1. t.pc = "read" /\ t.count = work[w].count
      BY <2>1 DEF Threads
    <3> QED BY <2>4, <3>1 DEF ReadMap, At, Ingesting, Claimed, IsRemoved, Deleting
  <2>5. CASE DeleteNodes(w)
    <3> DEFINE t == [work[w] EXCEPT !.pc = "deleted", !.gone = stored[Src(w)].nodes]
    <3>1. /\ t.pc = "deleted" /\ t.count = work[w].count
          /\ t.src = Src(w) /\ t.gone = stored[Src(w)].nodes
      BY <2>1 DEF Threads, Src
    <3> QED BY <2>5, <3>1 DEF DeleteNodes, At, Ingesting, Claimed, IsRemoved
  <2>6. CASE WriteNodes(w)
    <3> DEFINE m == Remapped(work[w], Ids({work[w].ver}))
               t == [work[w] EXCEPT !.pc = "written", !.copy = m]
    <3>1. Becomes(w, t) /\ work[w].pc = "deleted"
      BY <2>6 DEF WriteNodes, At
    <3> HIDE DEF m
    <3>2. /\ t.pc = "written" /\ t.count = work[w].count
          /\ t.src = work[w].src /\ t.gone = work[w].gone
      BY <2>1 DEF Threads
    <3>3. IsRemoved(work[w])
      BY DEF Committed
    <3> QED BY <3>1, <3>2, <3>3 DEF Ingesting, Claimed, IsRemoved, Deleting
  <2>7. CASE Refresh(w)
    <3> DEFINE t == [work[w] EXCEPT !.pc = "refresh"]
    <3>1. GoesOn(work[w], t, "refresh")
      BY <2>1, GoneOn, Zenon DEF PCs
    <3> QED BY <2>7, <3>1, Zenon DEF Refresh, At, GoesOn, Ingesting, Claimed, IsRemoved, Deleting
  <2>8. CASE ReadRecords(w)
    <3> DEFINE r == Records
               t == [work[w] EXCEPT !.pc = "publish", !.got = r]
    <3>1. Becomes(w, t) /\ work[w].pc = "refresh"
      BY <2>8 DEF ReadRecords, At
    <3> HIDE DEF r
    <3>2. t.pc = "publish" /\ t.count = work[w].count
      BY <2>1 DEF Threads
    <3> QED BY <3>1, <3>2 DEF Ingesting, Claimed, IsRemoved, Deleting
  <2>9. CASE BuildIndex(w)
    <3> DEFINE t == [work[w] EXCEPT !.pc = "mapped"]
    <3>1. GoesOn(work[w], t, "mapped")
      BY <2>1, GoneOn, Zenon DEF PCs
    <3> QED BY <2>9, <3>1, Zenon DEF BuildIndex, At, GoesOn, Ingesting, Claimed, IsRemoved, Deleting
  <2> QED BY <2>2, <2>3, <2>4, <2>5, <2>6, <2>7, <2>8, <2>9 DEF EditsMap
<1>2. work[w].count \in Nat
  BY ReplacingKnows, ThreadFields
<1>3. Done(work[w]) <= Done(t)
  BY <1>1, <1>2 DEF Done
<1>4. UNCHANGED <<stored, past>>
  BY DEF TakeIndexLock, Record, EditsMap, ReadMap, BuildIndex, DeleteNodes, WriteNodes,
     Refresh, ReadRecords
<1> QED BY <1>1, <1>3, <1>4, MovingKeepsCommitted

\* What a commit does to its source: the row, the document and the nodes are of
\* the transaction's ingestion, which was not committed before.
LEMMA CommitReplaces ==
    ASSUME Places, Committed, NEW w \in Workers, Commits(w)
    PROVE  /\ Src(w) \in Sources /\ work[w].ver \in Ingestions
           /\ stored' = [stored EXCEPT ![Src(w)] =
                           [rec |-> work[w].ver, doc |-> work[w].ver, nodes |-> {work[w].ver}]]
           /\ past' = [past EXCEPT ![Src(w)] = Append(past[Src(w)], work[w].ver)]
           /\ \A s \in Sources : \A k \in DOMAIN past[s] : past[s][k] # work[w].ver
<1>1. work[w].pc \in Ingesting /\ work[w].pc = "written" /\ TakesEffect(work[w])
  BY CommitEnds DEF Ingesting, Claimed
<1>2. /\ Src(w) \in Sources /\ work[w].ver \in Ingestions
      /\ work[w].ver.by = w /\ work[w].ver.nth = work[w].count
      /\ work[w].count \in Nat
  BY <1>1, ReplacingKnows, ThreadFields
<1>3. work[w].gone = stored[Src(w)].nodes
  BY <1>1 DEF Committed, IsRemoved, Deleting, Src
<1>4. (stored[Src(w)].nodes \ work[w].gone) \cup {work[w].ver} = {work[w].ver}
  BY <1>3
<1>5. ASSUME NEW s \in Sources, NEW k \in DOMAIN past[s], past[s][k] = work[w].ver
      PROVE  FALSE
  <2>1. past[s][k].nth <= Done(work[w])
    BY <1>2, <1>5 DEF Committed, Numbered
  <2> QED BY <1>1, <1>2, <1>5, <2>1 DEF Done
<1>6. past' = [past EXCEPT ![Src(w)] = Append(past[Src(w)], work[w].ver)]
  BY <1>1, <1>2 DEF TakesEffect, Src
<1>7. stored' = [stored EXCEPT ![Src(w)] =
                   [rec |-> work[w].ver, doc |-> work[w].ver, nodes |-> {work[w].ver}]]
  BY <1>1, <1>4 DEF TakesEffect, Src
<1> QED BY <1>2, <1>5, <1>6, <1>7

LEMMA AppendedSequence ==
    ASSUME NEW p \in Seq(Ingestions), NEW v \in Ingestions
    PROVE  /\ Append(p, v) \in Seq(Ingestions)
           /\ Append(p, v) # <<>>
           /\ Len(Append(p, v)) = Len(p) + 1
           /\ DOMAIN p = 1..Len(p)
           /\ DOMAIN Append(p, v) = 1..(Len(p) + 1)
           /\ \A k \in 1..Len(p) : Append(p, v)[k] = p[k]
           /\ Append(p, v)[Len(p) + 1] = v
           /\ Len(p) \in Nat
OBVIOUS

LEMMA CommittingKeepsCommitted ==
    ASSUME Places, Places', Committed, NEW w \in Workers, Commits(w)
    PROVE  Committed'
<1> DEFINE x == Src(w)
           v == work[w].ver
<1>1. /\ x \in Sources /\ v \in Ingestions
      /\ stored' = [stored EXCEPT ![x] = [rec |-> v, doc |-> v, nodes |-> {v}]]
      /\ past' = [past EXCEPT ![x] = Append(past[x], v)]
      /\ \A s \in Sources : \A k \in DOMAIN past[s] : past[s][k] # v
  BY CommitReplaces
<1>2. /\ work[w].pc = "written" /\ work[w].pc \in Ingesting /\ work[w].pc \in Claimed
      /\ v.by = w /\ v.nth = work[w].count /\ work[w].count \in 0..MaxIngests
      /\ work[w].count \in Nat
  BY CommitEnds, ReplacingKnows, ThreadFields DEF Ingesting, Claimed
<1>3. PICK t \in Threads : /\ Becomes(w, t)
                           /\ t.count = work[w].count
                           /\ t.pc \in {"refresh", "idle"}
  BY CommitEnds
<1>4. /\ work'[w] = t /\ work'[w].pc \in {"refresh", "idle"} /\ work'[w].count = work[w].count
      /\ \A u \in Workers \ {w} : work'[u] = work[u]
  BY <1>3 DEF Becomes, Places, TypeOK
<1>5. Done(work[w]) = work[w].count - 1 /\ Done(work'[w]) = work[w].count
  BY <1>2, <1>4 DEF Done, Ingesting, Claimed
<1>6. \A s \in Sources \ {x} : stored'[s] = stored[s] /\ past'[s] = past[s]
  BY <1>1 DEF Places, TypeOK
<1>7. stored'[x] = [rec |-> v, doc |-> v, nodes |-> {v}] /\ past'[x] = Append(past[x], v)
  BY <1>1 DEF Places, TypeOK
<1>8. past[x] \in Seq(Ingestions)
  BY <1>1 DEF Places, TypeOK
<1>9. ASSUME NEW s \in Sources PROVE Whole(s)' /\ (stored[s].rec = Latest(s))'
  <2>1. CASE s = x
    <3>1. v # Nothing
      BY <1>1, NothingIsNoIngestion
    <3>2. /\ stored'[s].rec = v /\ stored'[s].doc = v /\ stored'[s].nodes = {v}
      BY <1>7, <2>1
    <3>3. past'[s] # <<>> /\ past'[s][Len(past'[s])] = v
      <4>1. past'[s] = Append(past[x], v)
        BY <1>7, <2>1
      <4> DEFINE q == Append(past[x], v)
      <4>2. q # <<>> /\ Len(q) = Len(past[x]) + 1 /\ q[Len(past[x]) + 1] = v
        BY <1>1, <1>8, AppendedSequence, Zenon
      <4> QED BY <4>1, <4>2, Zenon
    <3> QED BY <3>1, <3>2, <3>3 DEF Whole, Latest
  <2>2. CASE s # x
    BY <1>6, <2>2 DEF Committed, Whole, Latest
  <2> QED BY <2>1, <2>2
<1>10. ASSUME NEW s \in Sources, NEW k \in DOMAIN past[s]
       PROVE  past[s][k].nth <= Done(work'[past[s][k].by])
  <2>1. past[s][k].by \in Workers /\ past[s][k].nth \in Nat
    BY PastIsOfIngestions
  <2>2. past[s][k].nth <= Done(work[past[s][k].by])
    BY DEF Committed, Numbered
  <2>3. CASE past[s][k].by = w
    BY <1>2, <1>5, <2>1, <2>2, <2>3
  <2>4. CASE past[s][k].by # w
    BY <1>4, <2>1, <2>2, <2>4
  <2> QED BY <2>3, <2>4
<1>11. ASSUME NEW s \in Sources PROVE Numbered(past[s])'
  <2>1. ASSUME NEW k \in DOMAIN past'[s]
        PROVE  past'[s][k].nth <= Done(work'[past'[s][k].by])
    <3>1. CASE s # x
      BY <1>6, <1>10, <3>1
    <3>2. CASE s = x /\ k \in 1..Len(past[x])
      BY <1>1, <1>7, <1>8, <1>10, <3>2, AppendedSequence
    <3>3. CASE s = x /\ k = Len(past[x]) + 1
      <4>1. past'[s][k] = v
        BY <1>1, <1>7, <1>8, <3>3, AppendedSequence
      <4> QED BY <1>2, <1>5, <4>1
    <3> QED BY <1>1, <1>7, <1>8, <3>1, <3>2, <3>3, AppendedSequence
  <2> QED BY <2>1 DEF Numbered, Done
<1>12. ASSUME NEW s \in Sources PROVE Distinct(past[s])'
  <2>1. CASE s # x
    BY <1>6, <2>1 DEF Committed, Distinct
  <2>2. CASE s = x
    BY <1>1, <1>7, <1>8, <2>2, AppendedSequence DEF Committed, Distinct
  <2> QED BY <2>1, <2>2
<1>13. ASSUME NEW u \in Workers PROVE IsRemoved(work[u])'
  <2>1. CASE u = w
    BY <1>4, <2>1 DEF IsRemoved, Deleting
  <2>2. CASE u # w /\ work[u].pc \in Deleting
    <3>1. work[u].pc \in Claimed /\ work[u].pc \in Ingesting
      BY <2>2 DEF Deleting, Claimed, Ingesting
    <3>2. Src(u) # x /\ Src(u) \in Sources
      BY <1>2, <2>2, <3>1, ReplacingKnows DEF Places, Excludes
    <3>3. stored'[work[u].src] = stored[work[u].src]
      BY <1>6, <3>2 DEF Src
    <3> QED BY <1>4, <2>2, <3>3 DEF Committed, IsRemoved
  <2>3. CASE u # w /\ work[u].pc \notin Deleting
    BY <1>4, <2>3 DEF IsRemoved
  <2> QED BY <2>1, <2>2, <2>3
<1> QED BY <1>9, <1>11, <1>12, <1>13 DEF Committed

LEMMA CrashingKeepsCommitted ==
    ASSUME Places, Places', Committed, NEW i \in Instances, Crash(i)
    PROVE  Committed'
<1>1. ASSUME NEW w \in Workers
      PROVE  /\ Done(work[w]) <= Done(work'[w])
             /\ IsRemoved(work[w])'
  <2>1. work[w].count \in 0..MaxIngests /\ Done(work[w]) \in Int
    BY ReplacingKnows, ThreadFields, DoneIsANumber
  <2>2. CASE HomeOf[w] = i
    <3>1. work'[w].pc = "idle" /\ work'[w].count = work[w].count
      BY <2>1, <2>2, IdleThread DEF Crash
    <3> QED BY <2>1, <3>1 DEF Done, IsRemoved, Deleting, Ingesting, Claimed
  <2>3. CASE HomeOf[w] # i
    <3>1. work'[w] = work[w] /\ stored' = stored
      BY <2>3 DEF Crash
    <3> QED BY <2>1, <3>1 DEF Committed, IsRemoved
  <2> QED BY <2>2, <2>3
<1> QED BY <1>1, QuietKeepsCommitted DEF Crash

LEMMA UnmovedKeepsCommitted ==
    ASSUME Places, Places', Committed, UNCHANGED <<stored, past, work>>
    PROVE  Committed'
<1>1. \A w \in Workers : Done(work[w]) \in Int
  BY ReplacingKnows, DoneIsANumber
<1>2. \A w \in Workers : Done(work[w]) <= Done(work'[w]) /\ IsRemoved(work[w])'
  BY <1>1 DEF Committed, IsRemoved
<1> QED BY <1>2, QuietKeepsCommitted

LEMMA InitHasCommitted == Init => Committed
<1> SUFFICES ASSUME Init PROVE Committed
  OBVIOUS
<1>1. 0 \in 0..MaxIngests
  BY IndexAssumption
<1>2. \A w \in Workers : work[w].pc = "idle"
  BY <1>1, IdleThread DEF Init
<1>3. \A s \in Sources : stored[s] = Empty /\ past[s] = <<>>
  BY DEF Init
<1>4. \A w \in Workers : IsRemoved(work[w])
  BY <1>2 DEF IsRemoved, Deleting
<1>5. \A s \in Sources : Whole(s) /\ stored[s].rec = Latest(s)
  BY <1>3 DEF Whole, Latest, Empty
<1>6. DOMAIN <<>> = {}
  OBVIOUS
<1>7. \A s \in Sources : Numbered(past[s]) /\ Distinct(past[s])
  BY <1>3, <1>6 DEF Numbered, Distinct
<1> QED BY <1>4, <1>5, <1>7 DEF Committed

LEMMA NextKeepsCommitted == Places /\ Committed /\ [Next]_vars => Committed'
<1> SUFFICES ASSUME Places, Committed, [Next]_vars PROVE Committed'
  OBVIOUS
<1>1. Places'
  BY NextKeepsPlaces
<1>2. ASSUME NEW w \in Workers,
             DeleteRaises(w) \/ Rollback(w) \/ RefreshRaises(w) \/ Publish(w)
      PROVE  Committed'
  <2>1. /\ Becomes(w, Idle(work[w].count))
        /\ UNCHANGED <<stored, past>>
    BY <1>2 DEF DeleteRaises, Rollback, RefreshRaises, Publish
  <2> QED BY <1>1, <2>1, ReturningKeepsCommitted
<1>3. ASSUME NEW i \in Instances, Starts(i)
      PROVE  Committed'
  BY <1>1, <1>3, UnmovedKeepsCommitted DEF Starts, StartReadsMap, StartWritesMap, Restart
<1>4. CASE UNCHANGED vars
  BY <1>1, <1>4, UnmovedKeepsCommitted DEF vars
<1>5. CASE Next
  BY <1>1, <1>2, <1>3, <1>5, PreparingKeepsCommitted, AdvancingKeepsCommitted,
     CommittingKeepsCommitted, CrashingKeepsCommitted DEF Next, EditsMap, Commits, Starts
<1> QED BY <1>4, <1>5

\* Whatever replacements overlap, fail or are cut off, each source's row,
\* document and nodes are those of one ingestion at every committed instant.
THEOREM SourcesStayWhole == Spec => []SourcesAreWhole
<1>1. Committed => SourcesAreWhole
  BY DEF Committed, SourcesAreWhole
<1> QED BY <1>1, InitHasPlaces, NextKeepsPlaces, InitHasCommitted, NextKeepsCommitted,
        PTL DEF Spec

-----------------------------------------------------------------------------
(* The refinement: a commit is a replacement, every other step a stutter.  *)

Content == [s \in Sources |-> IF Whole(s) THEN stored[s].rec ELSE Mixture]
Applied == UNION {ToSet(past[s]) : s \in Sources}

LEMMA WholeContent ==
    ASSUME Committed
    PROVE  Content = [s \in Sources |-> stored[s].rec]
BY DEF Committed, Content

LEMMA AppendedToSet ==
    ASSUME NEW p \in Seq(Ingestions), NEW v \in Ingestions
    PROVE  ToSet(Append(p, v)) = ToSet(p) \cup {v}
<1> DEFINE q == Append(p, v)
<1>1. /\ DOMAIN p = 1..Len(p) /\ DOMAIN q = 1..(Len(p) + 1) /\ Len(p) \in Nat
      /\ \A k \in 1..Len(p) : q[k] = p[k]
      /\ q[Len(p) + 1] = v
  BY AppendedSequence
<1>2. \A k \in DOMAIN q : k \in DOMAIN p \/ k = Len(p) + 1
  BY <1>1
<1>3. Len(p) + 1 \in DOMAIN q /\ DOMAIN p \subseteq DOMAIN q
  BY <1>1
<1> HIDE DEF q
<1>4. ToSet(q) \subseteq ToSet(p) \cup {v}
  BY <1>1, <1>2 DEF ToSet
<1>5. ToSet(p) \cup {v} \subseteq ToSet(q)
  BY <1>1, <1>3 DEF ToSet
<1> QED BY <1>4, <1>5 DEF q

LEMMA CommitIsAReplacement ==
    ASSUME Places, Committed, Committed', NEW w \in Workers, Commits(w),
           NEW x \in Sources, NEW v \in Ingestions, x = Src(w), v = work[w].ver
    PROVE  Promise!Replace(x, v)
<1>1. /\ x \in Sources /\ v \in Ingestions
      /\ stored' = [stored EXCEPT ![x] = [rec |-> v, doc |-> v, nodes |-> {v}]]
      /\ past' = [past EXCEPT ![x] = Append(past[x], v)]
      /\ \A s \in Sources : \A k \in DOMAIN past[s] : past[s][k] # v
  BY CommitReplaces
<1>2. /\ \A s \in Sources \ {x} : stored'[s] = stored[s] /\ past'[s] = past[s]
      /\ stored'[x].rec = v /\ past'[x] = Append(past[x], v)
      /\ past[x] \in Seq(Ingestions)
  BY <1>1 DEF Places, TypeOK
<1>3. v \notin Applied
  BY <1>1 DEF Applied, ToSet
<1>4. Content' = [Content EXCEPT ![x] = v]
  <2>1. Content = [s \in Sources |-> stored[s].rec]
    BY WholeContent
  <2>2. Content' = [s \in Sources |-> stored'[s].rec]
    BY DEF Committed, Content
  <2> QED BY <1>1, <1>2, <2>1, <2>2
<1>5. ToSet(past'[x]) = ToSet(past[x]) \cup {v}
  BY <1>1, <1>2, AppendedToSet
<1>6. Applied' = Applied \cup {v}
  <2>1. \A s \in Sources \ {x} : ToSet(past'[s]) = ToSet(past[s])
    BY <1>2
  <2> QED BY <1>1, <1>5, <2>1 DEF Applied
<1> QED BY <1>1, <1>3, <1>4, <1>6 DEF Promise!Replace, Content, Applied

LEMMA OnlyCommitChangesTables ==
    ASSUME Next
    PROVE  (\E w \in Workers : Commits(w)) \/ UNCHANGED <<stored, past>>
<1>1. ASSUME NEW i \in Instances, Crash(i) \/ Starts(i)
      PROVE  UNCHANGED <<stored, past>>
  BY <1>1 DEF Crash, Starts, StartReadsMap, StartWritesMap, Restart
<1>2. ASSUME NEW w \in Workers, NEW s \in Sources, NEW chunks \in Sizes, Prepare(w, s, chunks)
      PROVE  UNCHANGED <<stored, past>>
  BY <1>2 DEF Prepare
<1>3. ASSUME NEW w \in Workers,
             \/ TakeIndexLock(w) \/ Record(w) \/ EditsMap(w) \/ DeleteRaises(w) \/ Rollback(w)
             \/ Refresh(w) \/ ReadRecords(w) \/ RefreshRaises(w) \/ Publish(w)
      PROVE  UNCHANGED <<stored, past>>
  BY <1>3 DEF TakeIndexLock, Record, EditsMap, ReadMap, BuildIndex, DeleteNodes, DeleteRaises,
     WriteNodes, Rollback, Refresh, ReadRecords, RefreshRaises, Publish
<1> QED BY <1>1, <1>2, <1>3 DEF Next, EditsMap, Commits, Starts

LEMMA InitIsPromised == Init => Promise!Init
<1> SUFFICES ASSUME Init PROVE Promise!Init
  OBVIOUS
<1>1. \A s \in Sources : stored[s] = Empty /\ past[s] = <<>>
  BY DEF Init
<1>2. \A s \in Sources : Whole(s) /\ stored[s].rec = Nothing
  <2>1. Empty.rec = Nothing /\ Empty.doc = Nothing /\ Empty.nodes = {}
    BY DEF Empty
  <2> QED BY <1>1, <2>1 DEF Whole
<1>3. \A s \in Sources : ToSet(past[s]) = {}
  BY <1>1 DEF ToSet
<1> QED BY <1>2, <1>3 DEF Promise!Init

LEMMA NextIsPromised ==
    Places /\ Committed /\ Committed' /\ [Next]_vars => [Promise!Next]_<<Content, Applied>>
<1> SUFFICES ASSUME Places, Committed, Committed', [Next]_vars
             PROVE  [Promise!Next]_<<Content, Applied>>
  OBVIOUS
<1>1. ASSUME NEW w \in Workers, Commits(w)
      PROVE  Promise!Next
  <2>1. Src(w) \in Sources /\ work[w].ver \in Ingestions
    BY <1>1, CommitReplaces
  <2>2. PICK x \in Sources, v \in Ingestions : x = Src(w) /\ v = work[w].ver
    BY <2>1
  <2>3. Promise!Replace(x, v)
    BY <1>1, <2>2, CommitIsAReplacement
  <2> QED BY <2>3 DEF Promise!Next
<1>2. ASSUME UNCHANGED <<stored, past>>
      PROVE  UNCHANGED <<Content, Applied>>
  BY <1>2 DEF Content, Applied, Whole
<1> QED BY <1>1, <1>2, OnlyCommitChangesTables DEF vars

\* The transactions, locks and failures of the detailed model keep what readers
\* are promised: a source holds one whole ingestion, and one takes its place at once.
THEOREM IndexIsAtomic == Spec => ImplementsAtomicIndex
<1>1. [Promise!Next]_<<Content, Applied>> =>
        [Promise!Next]_<<[s \in Sources |-> IF Whole(s) THEN stored[s].rec ELSE Mixture],
                         UNION {ToSet(past[s]) : s \in Sources}>>
  BY DEF Content, Applied
<1> QED BY <1>1, InitIsPromised, NextIsPromised, InitHasPlaces, NextKeepsPlaces,
        InitHasCommitted, NextKeepsCommitted, PTL
        DEF Spec, ImplementsAtomicIndex, Promise!Spec

-----------------------------------------------------------------------------
(* Places in the ingestions committed for a source.                        *)

LEMMA PlaceOfAnEntry ==
    ASSUME NEW p \in Seq(Ingestions), Distinct(p), NEW k \in DOMAIN p
    PROVE  Place(p, p[k]) = k
<1>1. p[k] # Nothing
  BY NothingIsNoIngestion
<1>2. \A j \in DOMAIN p : p[j] = p[k] => j = k
  BY DEF Distinct
<1> QED BY <1>1, <1>2 DEF Place

LEMMA PlaceIsBounded ==
    ASSUME NEW p \in Seq(Ingestions), Distinct(p), NEW v, Known(p, v)
    PROVE  Place(p, v) \in 0..Len(p)
<1>1. CASE v = Nothing
  BY <1>1 DEF Place
<1>2. CASE v # Nothing
  <2>1. PICK k \in DOMAIN p : p[k] = v
    BY <1>2 DEF Known
  <2>2. Place(p, v) = k
    BY <2>1, PlaceOfAnEntry
  <2> QED BY <2>2
<1> QED BY <1>1, <1>2

LEMMA LastIsKnown ==
    ASSUME NEW p \in Seq(Ingestions), Distinct(p),
           NEW v, v = IF p = <<>> THEN Nothing ELSE p[Len(p)]
    PROVE  Known(p, v) /\ Place(p, v) = Len(p)
<1>1. CASE p = <<>>
  BY <1>1 DEF Known, Place
<1>2. CASE p # <<>>
  <2>1. Len(p) \in DOMAIN p
    BY <1>2
  <2> QED BY <1>2, <2>1, PlaceOfAnEntry DEF Known
<1> QED BY <1>1, <1>2

\* An ingestion keeps its place when another is appended.
LEMMA AppendingKeepsPlaces ==
    ASSUME NEW p \in Seq(Ingestions), NEW e \in Ingestions,
           Distinct(p), Distinct(Append(p, e)), NEW v, Known(p, v)
    PROVE  Known(Append(p, e), v) /\ Place(Append(p, e), v) = Place(p, v)
<1>1. CASE v = Nothing
  BY <1>1 DEF Known, Place
<1>2. CASE v # Nothing
  <2>1. PICK k \in DOMAIN p : p[k] = v
    BY <1>2 DEF Known
  <2>2. /\ k \in DOMAIN Append(p, e) /\ Append(p, e)[k] = v
        /\ Append(p, e) \in Seq(Ingestions)
    BY <2>1, AppendedSequence
  <2>3. Place(p, v) = k
    BY <2>1, PlaceOfAnEntry
  <2>4. Place(Append(p, e), v) = k
    BY <2>2, PlaceOfAnEntry
  <2> QED BY <2>2, <2>3, <2>4 DEF Known
<1> QED BY <1>1, <1>2

LEMMA PastOfASource ==
    ASSUME Places, Committed, NEW s \in Sources
    PROVE  past[s] \in Seq(Ingestions) /\ Distinct(past[s])
BY PastIsOfIngestions DEF Committed

\* The record of a source is the last ingestion committed for it.
LEMMA RecordIsLast ==
    ASSUME Places, Committed, NEW s \in Sources
    PROVE  /\ Known(past[s], stored[s].rec)
           /\ Place(past[s], stored[s].rec) = Len(past[s])
<1>1. stored[s].rec = Latest(s)
  BY DEF Committed
<1> QED BY <1>1, PastOfASource, LastIsKnown DEF Latest

-----------------------------------------------------------------------------
(* What the instances answer from.                                         *)

\* Steps that neither commit nor publish, and end no rebuild.
LEMMA QuietKeepsAnswering ==
    ASSUME Places, Places', Answering, NEW w \in Workers, NEW t, Becomes(w, t),
           UNCHANGED <<up, stored, past, snap, owed>>,
           t.pc # "publish", work[w].pc \in Rebuilding => t.pc \in Rebuilding
    PROVE  Answering'
<1>1. work'[w] = t /\ \A v \in Workers \ {w} : work'[v] = work[v]
  BY DEF Becomes, Places, TypeOK
<1>2. \A i \in Instances : Excused(i) => Excused(i)'
  BY <1>1 DEF Excused
<1>3. \A i \in Instances, s \in Sources : (Known(past[s], snap[i][s]) /\ Current(i, s))'
  BY <1>2 DEF Answering, Current, Foreign
<1>4. \A v \in Workers, s \in Sources : InTime(v, s)'
  BY <1>1 DEF Answering, InTime, Foreign
<1> QED BY <1>3, <1>4 DEF Answering

LEMMA ReplacingKeepsAnswering ==
    ASSUME Places, Places', Answering, NEW w \in Workers,
           \/ \E s \in Sources, chunks \in Sizes : Prepare(w, s, chunks)
           \/ TakeIndexLock(w) \/ Record(w) \/ EditsMap(w)
           \/ DeleteRaises(w) \/ Rollback(w) \/ Refresh(w)
    PROVE  Answering'
<1>1. work[w].pc \notin Rebuilding /\ UNCHANGED <<up, stored, past, snap, owed>>
  <2>1. CASE \E s \in Sources, chunks \in Sizes : Prepare(w, s, chunks)
    BY <2>1 DEF Prepare, At, Rebuilding
  <2>2. CASE ~\E s \in Sources, chunks \in Sizes : Prepare(w, s, chunks)
    BY <2>2 DEF TakeIndexLock, Record, EditsMap, ReadMap, BuildIndex, DeleteNodes, DeleteRaises,
       WriteNodes, Rollback, Refresh, At, Rebuilding, Claimed
  <2> QED BY <2>1, <2>2
<1>2. work[w] \in Threads /\ work[w].count \in 0..MaxIngests
  BY ReplacingKnows, ThreadFields
<1>3. PICK t : Becomes(w, t) /\ t.pc # "publish"
  <2>1. CASE \E s \in Sources, chunks \in Sizes : Prepare(w, s, chunks)
    <3>1. PICK s \in Sources, chunks \in Sizes : Prepare(w, s, chunks)
      BY <2>1
    <3> DEFINE n == work[w].count + 1
               t == [Idle(n) EXCEPT !.pc = "waiting", !.src = s,
                                    !.ver = [by |-> w, nth |-> n, chunks |-> chunks]]
    <3>2. t.pc = "waiting"
      BY DEF Idle
    <3> QED BY <3>1, <3>2 DEF Prepare
  <2>2. CASE TakeIndexLock(w) \/ Record(w)
    <3>1. /\ [work[w] EXCEPT !.pc = "locked"].pc = "locked"
          /\ [work[w] EXCEPT !.pc = "recorded"].pc = "recorded"
      BY <1>2 DEF Threads
    <3> QED BY <2>2, <3>1 DEF TakeIndexLock, Record
  <2>3. CASE EditsMap(w)
    <3>1. PICK t, pc : Becomes(w, t) /\ GoesOn(work[w], t, pc) /\ pc \in Claimed
      BY <2>3, EditingGoesOn
    <3> QED BY <3>1 DEF GoesOn, Claimed
  <2>4. CASE DeleteRaises(w) \/ Rollback(w)
    BY <1>2, <2>4, IdleThread DEF DeleteRaises, Rollback
  <2>5. CASE Refresh(w)
    <3>1. [work[w] EXCEPT !.pc = "refresh"].pc = "refresh"
      BY <1>2 DEF Threads
    <3> QED BY <2>5, <3>1 DEF Refresh
  <2> QED BY <2>1, <2>2, <2>3, <2>4, <2>5
<1> QED BY <1>1, <1>3, QuietKeepsAnswering

\* The snapshot about to be published is read while the lock is held.
LEMMA ReadingKeepsAnswering ==
    ASSUME Places, Places', Committed, Answering, NEW w \in Workers, ReadRecords(w)
    PROVE  Answering'
<1> DEFINE r == Records
<1>1. /\ work[w].pc = "refresh"
      /\ UNCHANGED <<up, stored, past, snap, owed>>
      /\ Becomes(w, [work[w] EXCEPT !.pc = "publish", !.got = r])
  BY DEF ReadRecords, At
<1>2. \A s \in Sources : r[s] = stored[s].rec
  BY DEF Records
<1> HIDE DEF r
<1>3. work[w] \in Threads /\ HomeOf[w] \in Instances
  BY ReplacingKnows, IndexAssumption
<1>4. work'[w].pc = "publish" /\ work'[w].got = r /\ \A v \in Workers \ {w} : work'[v] = work[v]
  BY <1>1, <1>3 DEF Becomes, Places, TypeOK, Threads
<1>5. \A i \in Instances : Excused(i) => Excused(i)'
  BY <1>1, <1>4 DEF Excused, Rebuilding
<1>6. \A i \in Instances, s \in Sources : (Known(past[s], snap[i][s]) /\ Current(i, s))'
  BY <1>1, <1>5 DEF Answering, Current, Foreign
<1>7. ASSUME NEW v \in Workers, NEW s \in Sources PROVE InTime(v, s)'
  <2>1. CASE v # w
    BY <1>1, <1>4, <2>1 DEF Answering, InTime, Foreign
  <2>2. CASE v = w
    <3>1. /\ Known(past[s], stored[s].rec)
          /\ Place(past[s], stored[s].rec) = Len(past[s])
      BY RecordIsLast
    <3>2. Known(past[s], snap[HomeOf[w]][s])
      BY <1>3 DEF Answering
    <3>3. Place(past[s], snap[HomeOf[w]][s]) \in 0..Len(past[s])
      BY <3>2, PastOfASource, PlaceIsBounded
    <3>4. Place(past[s], snap[HomeOf[w]][s]) <= Place(past[s], stored[s].rec)
      BY <3>1, <3>3, PastIsOfIngestions
    <3> QED BY <1>1, <1>2, <1>4, <2>2, <3>1, <3>4 DEF InTime
  <2> QED BY <2>1, <2>2
<1> QED BY <1>6, <1>7 DEF Answering

LEMMA RaisingKeepsAnswering ==
    ASSUME Places, Places', Answering, NEW w \in Workers, RefreshRaises(w)
    PROVE  Answering'
<1>1. /\ owed' = owed \cup {HomeOf[w]}
      /\ Becomes(w, Idle(work[w].count))
      /\ UNCHANGED <<up, stored, past, snap>>
  BY DEF RefreshRaises
<1>2. work[w].count \in 0..MaxIngests
  BY ReplacingKnows, ThreadFields
<1>3. work'[w].pc = "idle" /\ \A v \in Workers \ {w} : work'[v] = work[v]
  BY <1>1, <1>2, IdleThread DEF Becomes, Places, TypeOK
<1>4. \A i \in Instances : Excused(i) => Excused(i)'
  BY <1>1, <1>3 DEF Excused, Rebuilding
<1>5. \A i \in Instances, s \in Sources : (Known(past[s], snap[i][s]) /\ Current(i, s))'
  BY <1>1, <1>4 DEF Answering, Current, Foreign
<1>6. \A v \in Workers, s \in Sources : InTime(v, s)'
  BY <1>1, <1>3 DEF Answering, InTime, Foreign
<1> QED BY <1>5, <1>6 DEF Answering

LEMMA PublishingKeepsAnswering ==
    ASSUME Places, Places', Answering, NEW w \in Workers, Publish(w)
    PROVE  Answering'
<1> DEFINE h == HomeOf[w]
<1>1. /\ work[w].pc = "publish" /\ h \in Instances
      /\ snap' = [snap EXCEPT ![h] = work[w].got]
      /\ owed' = owed \ {h}
      /\ Becomes(w, Idle(work[w].count))
      /\ UNCHANGED <<up, stored, past>>
  BY IndexAssumption DEF Publish, At
<1>2. work[w].count \in 0..MaxIngests
  BY ReplacingKnows, ThreadFields
<1>3. work'[w].pc = "idle" /\ \A v \in Workers \ {w} : work'[v] = work[v]
  BY <1>1, <1>2, IdleThread DEF Becomes, Places, TypeOK
<1>4. snap'[h] = work[w].got /\ \A i \in Instances \ {h} : snap'[i] = snap[i]
  BY <1>1 DEF Places, TypeOK
<1>5. \A i \in Instances \ {h} : Excused(i) => Excused(i)'
  BY <1>1, <1>3 DEF Excused
<1>6. ASSUME NEW i \in Instances, NEW s \in Sources
      PROVE  (Known(past[s], snap[i][s]) /\ Current(i, s))'
  <2>1. CASE i = h
    <3>1. InTime(w, s)
      BY DEF Answering
    <3> QED BY <1>1, <1>4, <2>1, <3>1 DEF InTime, Current, Foreign
  <2>2. CASE i # h
    BY <1>1, <1>4, <1>5, <2>2 DEF Answering, Current, Foreign
  <2> QED BY <2>1, <2>2
<1>7. ASSUME NEW v \in Workers, NEW s \in Sources PROVE InTime(v, s)'
  <2>1. CASE v = w
    BY <1>3, <2>1 DEF InTime
  <2>2. CASE v # w /\ work[v].pc = "publish"
    <3>1. HomeOf[v] # h /\ HomeOf[v] \in Instances
      BY <1>1, <2>2, IndexAssumption DEF Places, Excludes, Locked
    <3> QED BY <1>1, <1>3, <1>4, <2>2, <3>1 DEF Answering, InTime, Foreign
  <2>3. CASE v # w /\ work[v].pc # "publish"
    BY <1>3, <2>3 DEF InTime
  <2> QED BY <2>1, <2>2, <2>3
<1> QED BY <1>6, <1>7 DEF Answering

\* A commit leaves its own instance with a rebuild to do, and every other
\* instance lacking what a foreign instance wrote.
LEMMA CommittingKeepsAnswering ==
    ASSUME Places, Places', Committed, Committed', Answering, NEW w \in Workers, Commits(w)
    PROVE  Answering'
<1> DEFINE x == Src(w)
           v == work[w].ver
           h == HomeOf[w]
<1>1. /\ x \in Sources /\ v \in Ingestions
      /\ stored' = [stored EXCEPT ![x] = [rec |-> v, doc |-> v, nodes |-> {v}]]
      /\ past' = [past EXCEPT ![x] = Append(past[x], v)]
  BY CommitReplaces
<1>2. /\ \A s \in Sources \ {x} : stored'[s] = stored[s] /\ past'[s] = past[s]
      /\ stored'[x].rec = v /\ past'[x] = Append(past[x], v)
  BY <1>1 DEF Places, TypeOK
<1>3. /\ UNCHANGED <<up, snap>>
      /\ work[w].pc = "written" /\ work[w].pc \in Locked /\ work[w].pc \in Ingesting
  BY CommitEnds DEF Locked, Ingesting, Claimed
<1>4. v.by = w /\ v # Nothing
  BY <1>1, <1>3, ReplacingKnows, NothingIsNoIngestion
<1>5. PICK t \in Threads : /\ Becomes(w, t)
                           /\ \/ t.pc = "refresh" /\ owed' = owed
                              \/ t.pc = "idle" /\ owed' = owed \cup {h}
  BY CommitEnds
<1>6. /\ \/ work'[w].pc = "refresh" /\ owed' = owed
         \/ work'[w].pc = "idle" /\ owed' = owed \cup {h}
      /\ \A u \in Workers \ {w} : work'[u] = work[u]
  BY <1>5 DEF Becomes, Places, TypeOK
<1>7. ASSUME NEW s \in Sources, NEW y, Known(past[s], y)
      PROVE  Known(past'[s], y) /\ Place(past'[s], y) = Place(past[s], y)
  <2>1. CASE s # x
    BY <1>2, <1>7, <2>1
  <2>2. CASE s = x
    <3>1. past[s] \in Seq(Ingestions) /\ Distinct(past[s])
      BY PastOfASource
    <3>2. Distinct(Append(past[s], v))
      BY <1>1, <1>2, <2>2 DEF Committed, Distinct
    <3> QED BY <1>1, <1>2, <1>7, <2>2, <3>1, <3>2, AppendingKeepsPlaces
  <2> QED BY <2>1, <2>2
<1>8. \A i \in Instances : Excused(i) => Excused(i)'
  BY <1>3, <1>6 DEF Excused, Rebuilding
<1>9. \A i \in Instances : i = h => Excused(i)'
  BY <1>6 DEF Excused, Rebuilding
<1>10. \A i \in Instances \ {h}, s \in Sources : s = x => Foreign(i, s)'
  BY <1>1, <1>2, <1>4 DEF Foreign
<1>11. ASSUME NEW i \in Instances, NEW s \in Sources
       PROVE  (Known(past[s], snap[i][s]) /\ Current(i, s))'
  <2>1. Known(past[s], snap[i][s]) /\ Current(i, s)
    BY DEF Answering
  <2>2. Known(past'[s], snap'[i][s])
    BY <1>3, <1>7, <2>1
  <2>3. CASE s = x
    BY <1>9, <1>10, <2>2, <2>3 DEF Current
  <2>4. CASE s # x
    BY <1>2, <1>3, <1>8, <2>1, <2>2, <2>4 DEF Current, Foreign
  <2> QED BY <2>3, <2>4
<1>12. ASSUME NEW u \in Workers, NEW s \in Sources, work'[u].pc = "publish"
       PROVE  InTime(u, s)'
  <2>1. u # w /\ work'[u] = work[u] /\ work[u].pc = "publish"
    BY <1>6, <1>12
  <2>2. HomeOf[u] # h /\ HomeOf[u] \in Instances
    BY <1>3, <2>1, IndexAssumption DEF Places, Excludes, Locked
  <2>3. InTime(u, s) /\ Known(past[s], snap[HomeOf[u]][s])
    BY <2>2 DEF Answering
  <2>4. /\ Known(past'[s], work[u].got[s])
        /\ Place(past'[s], work[u].got[s]) = Place(past[s], work[u].got[s])
        /\ Place(past'[s], snap[HomeOf[u]][s]) = Place(past[s], snap[HomeOf[u]][s])
    BY <1>7, <2>1, <2>3 DEF InTime
  <2>5. work[u].got[s] = stored'[s].rec \/ Foreign(HomeOf[u], s)'
    <3>1. CASE s = x
      BY <1>10, <2>2, <3>1
    <3>2. CASE s # x
      BY <1>2, <2>1, <2>3, <3>2 DEF InTime, Foreign
    <3> QED BY <3>1, <3>2
  <2> QED BY <1>3, <2>1, <2>3, <2>4, <2>5 DEF InTime
<1>13. \A u \in Workers, s \in Sources : InTime(u, s)'
  BY <1>12 DEF InTime
<1> QED BY <1>11, <1>13 DEF Answering

LEMMA CrashingKeepsAnswering ==
    ASSUME Places, Answering, NEW i \in Instances, Crash(i)
    PROVE  Answering'
<1>1. UNCHANGED <<stored, past, snap, owed>> /\ up' = up \ {i}
  BY DEF Crash
<1>2. ASSUME NEW w \in Workers
      PROVE  IF HomeOf[w] = i THEN work'[w].pc = "idle" ELSE work'[w] = work[w]
  BY ReplacingKnows, ThreadFields, IdleThread DEF Crash
<1>3. \A j \in Instances : Excused(j) => Excused(j)'
  BY <1>1, <1>2 DEF Excused
<1>4. \A j \in Instances, s \in Sources : (Known(past[s], snap[j][s]) /\ Current(j, s))'
  BY <1>1, <1>3 DEF Answering, Current, Foreign
<1>5. \A w \in Workers, s \in Sources : InTime(w, s)'
  BY <1>1, <1>2 DEF Answering, InTime, Foreign
<1> QED BY <1>4, <1>5 DEF Answering

LEMMA RestartingKeepsAnswering ==
    ASSUME Places, Committed, Answering, NEW i \in Instances, Restart(i)
    PROVE  Answering'
<1>1. /\ i \notin up /\ up' = up \cup {i}
      /\ snap' = [snap EXCEPT ![i] = Records]
      /\ owed' = owed \ {i}
      /\ UNCHANGED <<stored, past, work>>
  BY DEF Restart, Places
<1>2. snap'[i] = Records /\ \A j \in Instances \ {i} : snap'[j] = snap[j]
  BY <1>1 DEF Places, TypeOK
<1>3. \A s \in Sources : snap'[i][s] = stored[s].rec
  BY <1>2 DEF Records
<1>4. \A j \in Instances \ {i} : Excused(j) => Excused(j)'
  BY <1>1 DEF Excused
<1>5. ASSUME NEW j \in Instances, NEW s \in Sources
      PROVE  (Known(past[s], snap[j][s]) /\ Current(j, s))'
  <2>1. CASE j = i
    BY <1>1, <1>3, <2>1, RecordIsLast DEF Current
  <2>2. CASE j # i
    BY <1>1, <1>2, <1>4, <2>2 DEF Answering, Current, Foreign
  <2> QED BY <2>1, <2>2
<1>6. ASSUME NEW w \in Workers, NEW s \in Sources, work[w].pc = "publish"
      PROVE  InTime(w, s)'
  <2>1. HomeOf[w] # i /\ HomeOf[w] \in Instances
    BY <1>1, <1>6, IndexAssumption DEF Places, Down
  <2> QED BY <1>1, <1>2, <1>6, <2>1 DEF Answering, InTime, Foreign
<1>7. \A w \in Workers, s \in Sources : InTime(w, s)'
  BY <1>1, <1>6 DEF InTime
<1> QED BY <1>5, <1>7 DEF Answering

\* A start-up that has not come to its snapshot changes nothing that is answered.
LEMMA StartingKeepsAnswering ==
    ASSUME Answering, NEW i \in Instances, StartReadsMap(i) \/ StartWritesMap(i)
    PROVE  Answering'
<1>1. UNCHANGED <<up, stored, past, snap, owed, work>>
  BY DEF StartReadsMap, StartWritesMap
<1> QED BY <1>1 DEF Answering, Current, Excused, Foreign, InTime

LEMMA InitHasAnswering == Init => Answering
<1> SUFFICES ASSUME Init PROVE Answering
  OBVIOUS
<1>1. 0 \in 0..MaxIngests
  BY IndexAssumption
<1>2. \A w \in Workers : work[w].pc = "idle"
  BY <1>1, IdleThread DEF Init
<1>3. Empty.rec = Nothing
  BY DEF Empty
<1>4. \A i \in Instances, s \in Sources : snap[i][s] = Nothing /\ stored[s].rec = Nothing
  BY <1>3 DEF Init, Uncatalogued
<1> QED BY <1>2, <1>4 DEF Answering, Known, Current, InTime

LEMMA NextKeepsAnswering ==
    Places /\ Places' /\ Committed /\ Committed' /\ Answering /\ [Next]_vars => Answering'
<1> SUFFICES ASSUME Places, Places', Committed, Committed', Answering, [Next]_vars
             PROVE  Answering'
  OBVIOUS
<1>1. CASE UNCHANGED vars
  BY <1>1 DEF vars, Answering, Current, Excused, Foreign, InTime
<1>2. CASE Next
  BY <1>2, ReplacingKeepsAnswering, ReadingKeepsAnswering, RaisingKeepsAnswering,
     PublishingKeepsAnswering, CommittingKeepsAnswering, CrashingKeepsAnswering,
     StartingKeepsAnswering, RestartingKeepsAnswering DEF Next, EditsMap, Commits
<1> QED BY <1>1, <1>2

LEMMA SpecKeepsInv == Spec => []Inv
<1>1. Init => Inv
  BY InitHasPlaces, InitHasCommitted, InitHasAnswering DEF Inv
<1>2. Inv /\ [Next]_vars => Inv'
  BY NextKeepsPlaces, NextKeepsCommitted, NextKeepsAnswering DEF Inv
<1> QED BY <1>1, <1>2, PTL DEF Spec

\* A content read under the lock is answered with a document of the record's own
\* ingestion, unless another instance wrote it or the last rebuild raised.
THEOREM OwnContentIsRead == Spec => []OwnContentMatches
<1>1. Inv => OwnContentMatches
  <2> SUFFICES ASSUME Inv, NEW w \in Workers, NEW a \in Answers(w)
               PROVE  a.doc = a.rec \/ HomeOf[a.doc.by] # HomeOf[w] \/ HomeOf[w] \in owed
    BY DEF OwnContentMatches
  <2> DEFINE h == HomeOf[w]
  <2>1. PICK s \in Sources : /\ MayRead(w) /\ snap[h][s] # Nothing
                             /\ a = [rec |-> snap[h][s], doc |-> stored[s].doc]
    BY DEF Answers
  <2>2. h \in up /\ h \in Instances /\ IndexLockFree(h)
    BY <2>1, IndexAssumption DEF MayRead, At
  <2>3. Excused(h) => h \in owed
    BY <2>2 DEF Excused, IndexLockFree, Rebuilding, Locked
  <2>4. Current(h, s)
    BY <2>2 DEF Inv, Answering
  <2>5. stored[s].doc = stored[s].rec
    BY DEF Inv, Committed, Whole
  <2> QED BY <2>1, <2>3, <2>4, <2>5 DEF Current, Foreign
<1> QED BY <1>1, SpecKeepsInv, PTL

\* An instance does not forget what it has reported: what it publishes of a source
\* is never an ingestion older than the one it answered with before.
THEOREM SnapshotsOnlyAdvance == Spec => SnapshotsAdvance
<1>1. ASSUME Inv, Inv', [Next]_vars
      PROVE  [\A i \in Instances, s \in Sources : Rank(i, s) <= Rank(i, s)']_vars
  <2> SUFFICES ASSUME NEW i \in Instances, NEW s \in Sources
               PROVE  Rank(i, s) <= Rank(i, s)'
    OBVIOUS
  <2>1. Rank(i, s) = Place(past[s], snap[i][s]) /\ Rank(i, s)' = Place(past'[s], snap'[i][s])
    BY DEF Rank, Place
  <2>2. /\ Known(past[s], snap[i][s])
        /\ past[s] \in Seq(Ingestions) /\ Distinct(past[s])
        /\ Len(past[s]) \in Nat
    BY <1>1, PastOfASource DEF Inv, Answering
  <2>3. Place(past[s], snap[i][s]) \in 0..Len(past[s])
    BY <2>2, PlaceIsBounded
  <2>4. CASE UNCHANGED <<past, snap>>
    BY <2>1, <2>3, <2>4
  <2>5. ASSUME NEW w \in Workers, Commits(w)
        PROVE  Rank(i, s) <= Rank(i, s)'
    <3>1. /\ Src(w) \in Sources /\ work[w].ver \in Ingestions
          /\ past' = [past EXCEPT ![Src(w)] = Append(past[Src(w)], work[w].ver)]
          /\ snap' = snap
      BY <1>1, <2>5, CommitReplaces, CommitEnds DEF Inv
    <3>2. CASE s # Src(w)
      BY <1>1, <2>1, <2>3, <3>1, <3>2 DEF Inv, Places, TypeOK
    <3>3. CASE s = Src(w)
      <4>1. past'[s] = Append(past[s], work[w].ver)
        BY <1>1, <3>1, <3>3 DEF Inv, Places, TypeOK
      <4>2. Distinct(Append(past[s], work[w].ver))
        BY <1>1, <4>1 DEF Inv, Committed, Distinct
      <4>3. Place(past'[s], snap[i][s]) = Place(past[s], snap[i][s])
        BY <2>2, <3>1, <4>1, <4>2, AppendingKeepsPlaces
      <4> QED BY <2>1, <2>3, <3>1, <4>3
    <3> QED BY <3>2, <3>3
  <2>6. ASSUME NEW w \in Workers, Publish(w)
        PROVE  Rank(i, s) <= Rank(i, s)'
    <3>1. /\ work[w].pc = "publish" /\ past' = past
          /\ snap' = [snap EXCEPT ![HomeOf[w]] = work[w].got]
      BY <2>6 DEF Publish, At
    <3>2. CASE i = HomeOf[w]
      <4>1. snap'[i] = work[w].got
        BY <1>1, <3>1, <3>2 DEF Inv, Places, TypeOK
      <4>2. InTime(w, s)
        BY <1>1 DEF Inv, Answering
      <4> QED BY <2>1, <3>1, <3>2, <4>1, <4>2 DEF InTime
    <3>3. CASE i # HomeOf[w]
      <4>1. snap'[i] = snap[i]
        BY <1>1, <3>1, <3>3 DEF Inv, Places, TypeOK
      <4> QED BY <2>1, <2>3, <3>1, <4>1
    <3> QED BY <3>2, <3>3
  <2>7. ASSUME NEW j \in Instances, Restart(j)
        PROVE  Rank(i, s) <= Rank(i, s)'
    <3>1. past' = past /\ snap' = [snap EXCEPT ![j] = Records]
      BY <2>7 DEF Restart
    <3>2. CASE i = j
      <4>1. snap'[i][s] = stored[s].rec
        BY <1>1, <3>1, <3>2 DEF Inv, Places, TypeOK, Records
      <4>2. Place(past[s], stored[s].rec) = Len(past[s])
        BY <1>1, RecordIsLast DEF Inv
      <4> QED BY <2>1, <2>2, <2>3, <3>1, <4>1, <4>2
    <3>3. CASE i # j
      <4>1. snap'[i] = snap[i]
        BY <1>1, <3>1, <3>3 DEF Inv, Places, TypeOK
      <4> QED BY <2>1, <2>3, <3>1, <4>1
    <3> QED BY <3>2, <3>3
  <2>8. \/ UNCHANGED <<past, snap>>
        \/ \E w \in Workers : Commits(w) \/ Publish(w)
        \/ \E j \in Instances : Restart(j)
    <3>1. CASE UNCHANGED vars
      BY <3>1, Zenon DEF vars
    <3>2. CASE Next
      BY <3>2, Zenon DEF Next, Commits, Prepare, TakeIndexLock, Record, ReadMap, BuildIndex,
         DeleteNodes, DeleteRaises, WriteNodes, Rollback, Refresh, ReadRecords, RefreshRaises,
         Crash, StartReadsMap, StartWritesMap
    <3> QED BY <1>1, <3>1, <3>2
  <2> QED BY <2>4, <2>5, <2>6, <2>7, <2>8
<1> QED BY <1>1, SpecKeepsInv, PTL DEF Spec, SnapshotsAdvance
=============================================================================
