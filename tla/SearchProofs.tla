---------------------------- MODULE SearchProofs ----------------------------
(***************************************************************************)
(* What Search keeps for any ceiling, number of neighbours, chunks and     *)
(* ingestions.                                                             *)
(***************************************************************************)
EXTENDS Search, FiniteSetTheorems, TLAPS

-----------------------------------------------------------------------------
(* The invariant: what is stored has a number, a reader at rest remembers  *)
(* nothing, a walk is a run of consecutive places around the hit, and what *)
(* an undisturbed reader has read is what is stored.                       *)

Walking == {"beside", "back", "on", "window"}

Proper(ingestion) == ingestion.leads # <<>> => ingestion.nth \in 1..MaxIngests

IsRun(run, hit) ==
    /\ run # <<>>
    /\ hit \in ToSet(run)
    /\ \A k \in DOMAIN run :
         run[k].place = run[1].place + k - 1 /\ run[k].lead = hit.lead

Reading ==
    /\ reader.pc = "idle" => reader = AtRest
    /\ reader.pc # "idle" => reader.hit \in Chunks
    /\ reader.pc = "hit" =>
         /\ reader.run = <<>> /\ reader.beside = {}
         /\ reader.tried = 0 /\ ~reader.placed
    /\ reader.pc \in Walking => IsRun(reader.run, reader.hit)
    /\ reader.pc \in Walking \cup {"hit"} => reader.passage = <<>>
    /\ reader.pc \in Walking => reader.count = Count(listed)
    /\ reader.pc \in Walking \ {"beside"} => reader.tried = 2 * Neighbours

AsStored(chunk) == Held(chunk.place) /\ chunk = Node(chunk.place)

Undisturbed == reader.pc # "idle" /\ ~reader.disturbed

ReadAsStored ==
    Undisturbed =>
        /\ AsStored(reader.hit)
        /\ \A chunk \in reader.beside : AsStored(chunk)
        /\ \A chunk \in ToSet(reader.run) : AsStored(chunk)
        /\ \A chunk \in ToSet(reader.passage) : AsStored(chunk)

\* Where nothing is missing, nothing is missed: every place tried so far is
\* read, and a walk stops only where the section does.
NothingMissed ==
    Undisturbed /\ store.nodes = listed =>
        /\ reader.pc \in Walking =>
             {chunk.place : chunk \in reader.beside} =
               {p \in 0..Count(listed) - 1 : \E n \in 1..reader.tried : p = Tried(n)}
        /\ reader.pc \in {"on", "window"} => ~JoinsBack
        /\ reader.pc = "window" => ~JoinsOn

Inv ==
    /\ TypeOK
    /\ Proper(store.nodes)
    /\ Reading
    /\ ReadAsStored
    /\ NothingMissed
    /\ PassageHoldsTogether
    /\ AnswerIsThePassage

-----------------------------------------------------------------------------
(* Facts about the operators.                                              *)

LEMMA MaxOfTwo ==
    ASSUME NEW a \in Int, NEW b \in Int
    PROVE  Max({a, b}) \in {a, b} /\ Max({a, b}) >= a /\ Max({a, b}) >= b
<1>1. \E x \in {a, b} : \A y \in {a, b} : x >= y
  OBVIOUS
<1> QED BY <1>1 DEF Max

LEMMA MinOfTwo ==
    ASSUME NEW a \in Int, NEW b \in Int
    PROVE  Min({a, b}) \in {a, b} /\ Min({a, b}) <= a /\ Min({a, b}) <= b
<1>1. \E x \in {a, b} : \A y \in {a, b} : x =< y
  OBVIOUS
<1> QED BY <1>1 DEF Min

LEMMA BoundedSequences ==
    ASSUME NEW leads
    PROVE  leads \in BoundedSeq(Leads, MaxChunks) <=>
             leads \in Seq(Leads) /\ Len(leads) <= MaxChunks
BY SearchAssumption DEF BoundedSeq, SeqOf

LEMMA IngestionFacts ==
    ASSUME NEW v \in Ingestions
    PROVE  /\ v.nth \in 0..MaxIngests
           /\ v.leads \in Seq(Leads)
           /\ Count(v) \in 0..MaxChunks
BY BoundedSequences DEF Ingestions, Count

LEMMA NothingIsTyped == Nothing \in Ingestions /\ Count(Nothing) = 0 /\ Proper(Nothing)
<1>1. <<>> \in Seq(Leads) /\ Len(<<>>) = 0 /\ 0 <= MaxChunks
  BY SearchAssumption
<1>2. <<>> \in BoundedSeq(Leads, MaxChunks)
  BY <1>1, BoundedSequences
<1> QED BY <1>1, <1>2, SearchAssumption DEF Nothing, Ingestions, Count, Proper

LEMMA NewIsTyped ==
    ASSUME ingests \in 0..MaxIngests, ingests < MaxIngests,
           NEW leads \in BoundedSeq(Leads, MaxChunks)
    PROVE  /\ New(leads) \in Ingestions
           /\ New(leads).nth = ingests + 1
           /\ New(leads).leads = leads
           /\ Proper(New(leads))
           /\ Len(leads) \in 0..MaxChunks
           /\ ingests + 1 \in 0..MaxIngests
BY BoundedSequences, SearchAssumption DEF New, Ingestions, Proper

LEMMA NodeIsAChunk ==
    ASSUME store.nodes \in Ingestions, Proper(store.nodes), NEW place \in Int, Held(place)
    PROVE  /\ Node(place) \in Chunks
           /\ Node(place).place = place
           /\ Node(place).nth = store.nodes.nth
           /\ Node(place).lead = store.nodes.leads[place + 1]
<1>1. /\ store.nodes.leads \in Seq(Leads) /\ Len(store.nodes.leads) \in 0..MaxChunks
      /\ place \in 0..Len(store.nodes.leads) - 1
  BY IngestionFacts DEF Held, Count
<1>2. store.nodes.leads # <<>> /\ store.nodes.leads[place + 1] \in Leads
  BY <1>1
<1>3. place \in Places /\ store.nodes.nth \in 1..MaxIngests
  BY <1>1, <1>2, SearchAssumption DEF Places, Proper
<1> QED BY <1>2, <1>3 DEF Node, Chunk, Chunks

LEMMA AtRestIsTyped == AtRest \in Readers
BY SearchAssumption DEF AtRest, Readers, PCs

LEMMA ReaderFacts ==
    ASSUME NEW r \in Readers
    PROVE  /\ r.pc \in PCs
           /\ r.hit \in Chunks \cup {NoChunk}
           /\ r.count \in 0..MaxChunks
           /\ r.tried \in 0..2 * Neighbours
           /\ r.beside \subseteq Chunks
           /\ r.run \in Seq(Chunks)
           /\ r.size \in 0..MaxChunks
           /\ r.passage \in Seq(Chunks)
           /\ r.placed \in BOOLEAN
           /\ r.disturbed \in BOOLEAN
BY DEF Readers

LEMMA ChunkFacts ==
    ASSUME NEW c \in Chunks
    PROVE  c.nth \in 1..MaxIngests /\ c.place \in 0..MaxChunks - 1 /\ c.lead \in Leads
BY DEF Chunks, Places

\* A run fits a source, and its ends are those of its places.
LEMMA RunFacts ==
    ASSUME NEW run \in Seq(Chunks), NEW hit, IsRun(run, hit)
    PROVE  /\ Len(run) \in 1..MaxChunks
           /\ DOMAIN run = 1..Len(run)
           /\ Head(run) = run[1]
           /\ Last(run) = run[Len(run)]
           /\ Head(run).place \in 0..MaxChunks - 1
           /\ Last(run).place = Head(run).place + Len(run) - 1
           /\ Last(run).place \in 0..MaxChunks - 1
           /\ Head(run).place <= hit.place /\ hit.place <= Last(run).place
           /\ hit \in Chunks
<1>1. Len(run) \in Nat /\ Len(run) >= 1 /\ DOMAIN run = 1..Len(run)
  BY DEF IsRun
<1>2. \A k \in DOMAIN run : run[k] \in Chunks /\ run[k].place \in 0..MaxChunks - 1
  BY <1>1, ChunkFacts
<1>3. run[Len(run)].place = run[1].place + Len(run) - 1
  BY <1>1 DEF IsRun
<1>4. PICK k \in DOMAIN run : run[k] = hit
  BY DEF IsRun, ToSet
<1>5. hit.place = run[1].place + k - 1
  BY <1>4 DEF IsRun
<1>6. Head(run) = run[1] /\ Last(run) = run[Len(run)]
  BY <1>1 DEF Last
<1>7. run[1].place \in 0..MaxChunks - 1 /\ run[Len(run)].place \in 0..MaxChunks - 1
  BY <1>1, <1>2
<1> QED BY <1>1, <1>2, <1>3, <1>4, <1>5, <1>6, <1>7, SearchAssumption

-----------------------------------------------------------------------------
(* What each step of a search leaves of the reader.                        *)

LEMMA RetrieveDoes ==
    ASSUME TypeOK, Proper(store.nodes), Reading, NEW place \in Places, Retrieve(place)
    PROVE  /\ reader' \in Readers
           /\ reader'.pc = "hit" /\ reader'.hit = Node(place) /\ Held(place)
           /\ reader'.run = <<>> /\ reader'.passage = <<>> /\ reader'.beside = {}
           /\ reader'.tried = 0 /\ reader'.placed = FALSE
<1>1. reader = AtRest /\ reader \in Readers
  BY DEF Retrieve, LockFree, Reading, TypeOK
<1>2. place \in Int /\ Held(place)
  BY SearchAssumption DEF Retrieve, Places
<1>3. Node(place) \in Chunks
  BY <1>2, NodeIsAChunk DEF TypeOK
<1>4. reader' = [reader EXCEPT !.pc = "hit", !.hit = Node(place)]
  BY DEF Retrieve, Reads
<1>5. reader' \in Readers /\ reader'.pc = "hit" /\ reader'.hit = Node(place)
  BY <1>1, <1>3, <1>4 DEF Readers, PCs
<1>6. /\ reader'.run = <<>> /\ reader'.passage = <<>> /\ reader'.beside = {}
      /\ reader'.tried = 0 /\ reader'.placed = FALSE
  BY <1>1, <1>4 DEF AtRest
<1> QED BY <1>2, <1>5, <1>6

LEMMA PlaceDoes ==
    ASSUME TypeOK, Reading, Place
    PROVE  /\ reader' \in Readers
           /\ reader'.pc = "beside" /\ reader'.placed = TRUE
           /\ reader'.count = Count(listed) /\ reader'.run = <<reader.hit>>
           /\ reader'.hit = reader.hit /\ reader'.beside = reader.beside
           /\ reader'.tried = reader.tried /\ reader'.passage = reader.passage
           /\ reader'.disturbed = reader.disturbed
<1>1. reader \in Readers /\ reader.hit \in Chunks
  BY DEF Place, Reading, TypeOK
<1>2. Count(listed) \in 0..MaxChunks
  BY IngestionFacts DEF TypeOK
<1>3. <<reader.hit>> \in Seq(Chunks)
  BY <1>1
<1>4. reader' = [reader EXCEPT !.pc = "beside", !.placed = TRUE, !.count = Count(listed),
                               !.run = <<reader.hit>>]
  BY DEF Place, Reads
<1> QED BY <1>1, <1>2, <1>3, <1>4 DEF Readers, PCs

\* A step that only goes on to another point of the search.
LEMMA GoesOn ==
    ASSUME TypeOK, NEW pc \in PCs, reader' = [reader EXCEPT !.pc = pc]
    PROVE  /\ reader' \in Readers
           /\ reader'.pc = pc
           /\ reader'.hit = reader.hit /\ reader'.count = reader.count
           /\ reader'.tried = reader.tried /\ reader'.beside = reader.beside
           /\ reader'.run = reader.run /\ reader'.size = reader.size
           /\ reader'.passage = reader.passage /\ reader'.placed = reader.placed
           /\ reader'.disturbed = reader.disturbed
BY DEF TypeOK, Readers

LEMMA BesideDoes ==
    ASSUME TypeOK, Proper(store.nodes), Reading, Beside,
           NEW place, place = Tried(reader.tried + 1)
    PROVE  /\ reader' \in Readers
           /\ reader'.tried = reader.tried + 1
           /\ reader'.beside = IF Lists(place) /\ Held(place)
                               THEN reader.beside \cup {Node(place)} ELSE reader.beside
           /\ reader'.pc = reader.pc
           /\ reader'.hit = reader.hit /\ reader'.count = reader.count
           /\ reader'.run = reader.run /\ reader'.passage = reader.passage
           /\ reader'.disturbed = reader.disturbed /\ reader'.placed = reader.placed
<1> DEFINE beside == IF Lists(place) /\ Held(place)
                     THEN reader.beside \cup {Node(place)} ELSE reader.beside
<1>1. reader \in Readers /\ reader.hit \in Chunks /\ reader.tried \in Nat
  BY SearchAssumption, ReaderFacts DEF Beside, Reading, TypeOK
<1>2. reader.hit.place \in Int /\ place \in Int
  BY <1>1, ChunkFacts, SearchAssumption DEF Tried
<1>3. beside \subseteq Chunks
  BY <1>1, <1>2, ReaderFacts, NodeIsAChunk DEF TypeOK
<1>4. reader.tried + 1 \in 0..2 * Neighbours
  BY <1>1, SearchAssumption DEF Beside
<1>5. reader' = [reader EXCEPT !.tried = reader.tried + 1, !.beside = beside]
  BY DEF Beside, Reads
<1> HIDE DEF beside
<1>6. /\ reader' \in Readers /\ reader'.tried = reader.tried + 1 /\ reader'.beside = beside
      /\ reader'.pc = reader.pc
      /\ reader'.hit = reader.hit /\ reader'.count = reader.count
      /\ reader'.run = reader.run /\ reader'.passage = reader.passage
      /\ reader'.disturbed = reader.disturbed /\ reader'.placed = reader.placed
  BY <1>1, <1>3, <1>4, <1>5 DEF Readers
<1> QED BY <1>6 DEF beside

\* A step that lengthens the walk.
LEMMA Walks ==
    ASSUME TypeOK, NEW run \in Seq(Chunks), reader' = [reader EXCEPT !.run = run]
    PROVE  /\ reader' \in Readers
           /\ reader'.run = run
           /\ reader'.pc = reader.pc
           /\ reader'.hit = reader.hit /\ reader'.count = reader.count
           /\ reader'.tried = reader.tried /\ reader'.beside = reader.beside
           /\ reader'.passage = reader.passage /\ reader'.placed = reader.placed
           /\ reader'.disturbed = reader.disturbed
BY DEF TypeOK, Readers

LEMMA Answers ==
    ASSUME TypeOK, NEW size \in 0..MaxChunks, NEW passage \in Seq(Chunks),
           reader' = [reader EXCEPT !.pc = "answered", !.size = size, !.passage = passage]
    PROVE  /\ reader' \in Readers
           /\ reader'.pc = "answered"
           /\ reader'.size = size /\ reader'.passage = passage
           /\ reader'.hit = reader.hit /\ reader'.count = reader.count
           /\ reader'.tried = reader.tried /\ reader'.beside = reader.beside
           /\ reader'.run = reader.run /\ reader'.placed = reader.placed
           /\ reader'.disturbed = reader.disturbed
BY DEF TypeOK, Readers, PCs

LEMMA Disturbs ==
    ASSUME TypeOK, NEW disturbed \in BOOLEAN, reader' = [reader EXCEPT !.disturbed = disturbed]
    PROVE  /\ reader' \in Readers
           /\ reader'.disturbed = disturbed
           /\ reader'.pc = reader.pc
           /\ reader'.hit = reader.hit /\ reader'.count = reader.count
           /\ reader'.tried = reader.tried /\ reader'.beside = reader.beside
           /\ reader'.run = reader.run /\ reader'.size = reader.size
           /\ reader'.passage = reader.passage /\ reader'.placed = reader.placed
BY DEF TypeOK, Readers

-----------------------------------------------------------------------------
(* Runs and windows.                                                       *)

LEMMA RunOfTheHit ==
    ASSUME NEW hit \in Chunks
    PROVE  IsRun(<<hit>>, hit) /\ Head(<<hit>>) = hit /\ Last(<<hit>>) = hit
BY ChunkFacts DEF IsRun, ToSet, Last

LEMMA RunsGrowBack ==
    ASSUME NEW run \in Seq(Chunks), NEW hit, IsRun(run, hit),
           NEW c \in Chunks, c.place = Head(run).place - 1, c.lead = hit.lead
    PROVE  /\ <<c>> \o run \in Seq(Chunks)
           /\ IsRun(<<c>> \o run, hit)
           /\ Head(<<c>> \o run) = c
           /\ ToSet(<<c>> \o run) = {c} \cup ToSet(run)
<1> DEFINE longer == <<c>> \o run
<1>1. /\ longer \in Seq(Chunks) /\ longer # <<>> /\ Len(longer) = Len(run) + 1
      /\ DOMAIN run = 1..Len(run) /\ Len(run) \in Nat /\ Len(run) >= 1
      /\ DOMAIN longer = 1..Len(run) + 1
      /\ longer[1] = c
      /\ \A k \in 1..Len(run) : longer[k + 1] = run[k]
  BY RunFacts
<1> HIDE DEF longer
<1>2. \A k \in 2..Len(run) + 1 : k - 1 \in 1..Len(run) /\ longer[k] = run[k - 1]
  BY <1>1
<1>3. ToSet(longer) = {c} \cup ToSet(run)
  <2>1. ToSet(longer) \subseteq {c} \cup ToSet(run)
    <3> SUFFICES ASSUME NEW k \in 1..Len(run) + 1, k # 1
                 PROVE  longer[k] \in ToSet(run)
      BY <1>1 DEF ToSet
    <3>1. k \in 2..Len(run) + 1
      BY <1>1
    <3> QED BY <3>1, <1>2, <1>1 DEF ToSet
  <2>2. ToSet(run) \subseteq ToSet(longer)
    <3> SUFFICES ASSUME NEW k \in 1..Len(run)
                 PROVE  run[k] \in ToSet(longer)
      BY <1>1 DEF ToSet
    <3>1. k + 1 \in 1..Len(run) + 1
      BY <1>1
    <3> QED BY <3>1, <1>1 DEF ToSet
  <2>3. c \in ToSet(longer)
    BY <1>1 DEF ToSet
  <2> QED BY <2>1, <2>2, <2>3
<1>4. Head(run) = run[1] /\ run[1].place \in Int /\ c.place = run[1].place - 1
  BY RunFacts
<1>5. ASSUME NEW k \in DOMAIN longer
      PROVE  longer[k].place = longer[1].place + k - 1 /\ longer[k].lead = hit.lead
  <2>1. CASE k = 1
    BY <2>1, <1>1, <1>4
  <2>2. CASE k # 1
    <3>1. k - 1 \in DOMAIN run /\ longer[k] = run[k - 1] /\ k \in Nat
      BY <1>1, <1>2, <2>2
    <3>2. run[k - 1].place = run[1].place + (k - 1) - 1 /\ run[k - 1].lead = hit.lead
      BY <3>1 DEF IsRun
    <3> QED BY <3>1, <3>2, <1>1, <1>4
  <2> QED BY <2>1, <2>2
<1>6. IsRun(longer, hit) /\ Head(longer) = c
  BY <1>1, <1>3, <1>5 DEF IsRun
<1> QED BY <1>1, <1>3, <1>6 DEF longer

LEMMA RunsGrowOn ==
    ASSUME NEW run \in Seq(Chunks), NEW hit, IsRun(run, hit),
           NEW c \in Chunks, c.place = Last(run).place + 1, c.lead = hit.lead
    PROVE  /\ Append(run, c) \in Seq(Chunks)
           /\ IsRun(Append(run, c), hit)
           /\ Head(Append(run, c)) = Head(run)
           /\ Last(Append(run, c)) = c
           /\ ToSet(Append(run, c)) = {c} \cup ToSet(run)
<1> DEFINE longer == Append(run, c)
<1>1. /\ longer \in Seq(Chunks) /\ longer # <<>> /\ Len(longer) = Len(run) + 1
      /\ DOMAIN run = 1..Len(run) /\ Len(run) \in Nat /\ Len(run) >= 1
      /\ DOMAIN longer = 1..Len(run) + 1
      /\ longer[Len(run) + 1] = c
      /\ \A k \in 1..Len(run) : longer[k] = run[k]
  BY RunFacts
<1> HIDE DEF longer
<1>2. ToSet(longer) = {c} \cup ToSet(run)
  <2>1. ToSet(longer) \subseteq {c} \cup ToSet(run)
    <3> SUFFICES ASSUME NEW k \in 1..Len(run) + 1, k # Len(run) + 1
                 PROVE  longer[k] \in ToSet(run)
      BY <1>1 DEF ToSet
    <3>1. k \in 1..Len(run)
      BY <1>1
    <3> QED BY <3>1, <1>1 DEF ToSet
  <2>2. ToSet(run) \subseteq ToSet(longer)
    <3> SUFFICES ASSUME NEW k \in 1..Len(run)
                 PROVE  run[k] \in ToSet(longer)
      BY <1>1 DEF ToSet
    <3>1. k \in 1..Len(run) + 1
      BY <1>1
    <3> QED BY <3>1, <1>1 DEF ToSet
  <2>3. c \in ToSet(longer)
    <3>1. Len(run) + 1 \in DOMAIN longer
      BY <1>1
    <3> QED BY <3>1, <1>1 DEF ToSet
  <2> QED BY <2>1, <2>2, <2>3
<1>3. /\ Head(run) = run[1] /\ run[1].place \in Int
      /\ c.place = run[1].place + Len(run)
  BY RunFacts
<1>4. longer[1] = run[1]
  BY <1>1
<1>5. ASSUME NEW k \in DOMAIN longer
      PROVE  longer[k].place = longer[1].place + k - 1 /\ longer[k].lead = hit.lead
  <2>1. CASE k = Len(run) + 1
    BY <2>1, <1>1, <1>3, <1>4
  <2>2. CASE k # Len(run) + 1
    <3>1. k \in DOMAIN run /\ longer[k] = run[k]
      BY <1>1, <2>2
    <3> QED BY <3>1, <1>4 DEF IsRun
  <2> QED BY <2>1, <2>2
<1>6. IsRun(longer, hit) /\ Head(longer) = Head(run) /\ Last(longer) = c
  BY <1>1, <1>2, <1>3, <1>4, <1>5 DEF IsRun, Last
<1> QED BY <1>1, <1>2, <1>6 DEF longer

LEMMA IntervalEnds ==
    ASSUME NEW a \in Int, NEW b \in Int, a <= b
    PROVE  Min(a..b) = a /\ Max(a..b) = b /\ Cardinality(a..b) = b - a + 1
<1>1. a \in a..b /\ (\A y \in a..b : a =< y)
  OBVIOUS
<1>2. \A x \in a..b : (\A y \in a..b : x =< y) => x = a
  OBVIOUS
<1>3. Min(a..b) = a
  BY <1>1, <1>2 DEF Min
<1>4. b \in a..b /\ (\A y \in a..b : b >= y)
  OBVIOUS
<1>5. \A x \in a..b : (\A y \in a..b : x >= y) => x = b
  OBVIOUS
<1>6. Max(a..b) = b
  BY <1>4, <1>5 DEF Max
<1>7. Cardinality(a..b) = b - a + 1
  BY FS_Interval
<1> QED BY <1>3, <1>6, <1>7

\* How far off centre a place is between two ends.
Off(a, b, place) == Max({(place - a) - (b - place), (b - place) - (place - a)})

LEMMA OffFacts ==
    ASSUME NEW a \in Int, NEW b \in Int, NEW place \in Int
    PROVE  /\ Off(a, b, place) \in Int
           /\ 2 * place - a - b >= 0 => Off(a, b, place) = 2 * place - a - b
           /\ 2 * place - a - b <= 0 => Off(a, b, place) = a + b - 2 * place
<1> DEFINE x == (place - a) - (b - place)
           y == (b - place) - (place - a)
<1>1. x \in Int /\ y \in Int /\ x = 2 * place - a - b /\ y = a + b - 2 * place
  OBVIOUS
<1>2. Max({x, y}) \in {x, y} /\ Max({x, y}) >= x /\ Max({x, y}) >= y
  <2> HIDE DEF x, y
  <2> QED BY <1>1, MaxOfTwo
<1>3. Off(a, b, place) = Max({x, y})
  BY DEF Off
<1> QED BY <1>1, <1>2, <1>3

\* The window of a section: around the place, as long as the ceiling and the
\* section allow, and no other of that length is more centred.
LEMMA WindowIsCentred ==
    ASSUME NEW first \in Int, NEW last \in Int, NEW place \in Int,
           first <= place, place <= last,
           NEW w, w = Window(first, last, place)
    PROVE  /\ w.start \in first..place
           /\ w.end \in place..last
           /\ w.end - w.start + 1 = Min({Ceiling, last - first + 1})
           /\ \A a \in first..place, b \in place..last :
                 b - a = w.end - w.start =>
                   Off(w.start, w.end, place) <= Off(a, b, place)
<1> DEFINE half  == (Ceiling - 1) \div 2
           start == Max({first, place - half})
           end   == Min({last, start + Ceiling - 1})
           size  == last - first + 1
           moved == Min({start, end - Ceiling + 1})
<1>1. /\ Ceiling \in Int /\ Ceiling >= 1 /\ size \in Int /\ size >= 1
      /\ half \in Int /\ half >= 0 /\ 2 * half <= Ceiling - 1 /\ Ceiling - 1 <= 2 * half + 1
  BY SearchAssumption
<1>2. Min({Ceiling, size}) \in {Ceiling, size} /\ Min({Ceiling, size}) <= Ceiling
      /\ Min({Ceiling, size}) <= size
  BY <1>1, MinOfTwo
<1>3. CASE size <= Ceiling
  <2>1. w.start = first /\ w.end = last
    BY <1>3 DEF Window
  <2>2. Min({Ceiling, size}) = size
    BY <1>1, <1>2, <1>3
  <2>3. ASSUME NEW a \in first..place, NEW b \in place..last, b - a = last - first
        PROVE  a = first /\ b = last
    BY <2>3
  <2>4. Off(first, last, place) \in Int
    BY OffFacts
  <2> HIDE DEF size
  <2>5. last - first + 1 = size
    BY DEF size
  <2> QED BY <2>1, <2>2, <2>3, <2>4, <2>5
<1>4. CASE ~(size <= Ceiling)
  <2> HIDE DEF half
  <2>1. start \in {first, place - half} /\ start >= first /\ start >= place - half
        /\ start \in Int
    <3> DEFINE centred == place - half
    <3>1. centred \in Int
      BY <1>1
    <3>2. start = Max({first, centred})
      OBVIOUS
    <3> HIDE DEF centred, start
    <3>3. start \in {first, centred} /\ start >= first /\ start >= centred
      BY <3>1, <3>2, MaxOfTwo
    <3> QED BY <3>1, <3>3 DEF centred
  <2>2. w.start = moved /\ w.end = end
    BY <1>4 DEF Window, half
  <2> HIDE DEF start
  <2>3. end \in {last, start + Ceiling - 1} /\ end <= last /\ end <= start + Ceiling - 1
        /\ end \in Int
    <3> DEFINE reach == start + Ceiling - 1
    <3>1. reach \in Int
      BY <1>1, <2>1
    <3>2. end = Min({last, reach})
      OBVIOUS
    <3> HIDE DEF reach, end
    <3>3. end \in {last, reach} /\ end <= last /\ end <= reach
      BY <3>1, <3>2, MinOfTwo
    <3> QED BY <3>1, <3>3 DEF reach
  <2> HIDE DEF end
  <2>4. moved \in {start, end - Ceiling + 1} /\ moved <= start
        /\ moved <= end - Ceiling + 1 /\ moved \in Int
    <3> DEFINE back == end - Ceiling + 1
    <3>1. back \in Int
      BY <1>1, <2>3
    <3>2. moved = Min({start, back})
      OBVIOUS
    <3> HIDE DEF back, moved
    <3>3. moved \in {start, back} /\ moved <= start /\ moved <= back
      BY <2>1, <3>1, <3>2, MinOfTwo
    <3> QED BY <2>1, <3>1, <3>3 DEF back
  <2> HIDE DEF moved
  <2>5. Min({Ceiling, size}) = Ceiling
    BY <1>1, <1>2, <1>4
  <2>6. size = last - first + 1
    OBVIOUS
  <2> HIDE DEF size
  <2>7. moved = end - Ceiling + 1
    BY <1>1, <1>4, <2>1, <2>3, <2>4, <2>6
  <2>8. end >= place /\ moved <= place /\ moved >= first
    BY <1>1, <1>4, <2>1, <2>3, <2>6, <2>7
  <2>9. ASSUME NEW a \in first..place, NEW b \in place..last, b - a = end - moved
        PROVE  Off(moved, end, place) <= Off(a, b, place)
    <3>1. /\ Off(moved, end, place) \in Int /\ Off(a, b, place) \in Int
          /\ 2 * place - moved - end >= 0 => Off(moved, end, place) = 2 * place - moved - end
          /\ 2 * place - moved - end <= 0 => Off(moved, end, place) = moved + end - 2 * place
          /\ 2 * place - a - b >= 0 => Off(a, b, place) = 2 * place - a - b
          /\ 2 * place - a - b <= 0 => Off(a, b, place) = a + b - 2 * place
      <4>1. a \in Int /\ b \in Int /\ moved \in Int /\ end \in Int
        BY <2>9, <2>3, <2>4
      <4>2. /\ Off(moved, end, place) \in Int
            /\ 2 * place - moved - end >= 0 => Off(moved, end, place) = 2 * place - moved - end
            /\ 2 * place - moved - end <= 0 => Off(moved, end, place) = moved + end - 2 * place
        BY ONLY OffFacts, <4>1, place \in Int
      <4>3. /\ Off(a, b, place) \in Int
            /\ 2 * place - a - b >= 0 => Off(a, b, place) = 2 * place - a - b
            /\ 2 * place - a - b <= 0 => Off(a, b, place) = a + b - 2 * place
        BY ONLY OffFacts, <4>1, place \in Int
      <4> QED BY ONLY <4>2, <4>3
    <3>2. b = a + Ceiling - 1 /\ end = moved + Ceiling - 1
      BY <1>1, <2>3, <2>4, <2>7, <2>9
    <3>3. CASE start = first /\ first > place - half
      <4>1. end = first + Ceiling - 1 /\ moved = first
        BY <3>3, <1>1, <1>4, <2>1, <2>3, <2>6, <2>7
      <4> QED BY <4>1, <3>1, <3>2, <3>3, <1>1, <2>3
    <3>4. CASE start = place - half /\ start + Ceiling - 1 <= last
      <4>1. end = start + Ceiling - 1 /\ moved = start
        BY <3>4, <1>1, <2>1, <2>3, <2>7
      <4>2. 2 * place - moved - end = 2 * half - (Ceiling - 1)
        BY <3>4, <4>1, <1>1, <2>1
      <4>3. 2 * place - a - b = 2 * (place - a) - (Ceiling - 1)
        BY <3>2, <1>1
      <4>4. CASE Ceiling - 1 = 2 * half
        BY <4>2, <4>3, <4>4, <3>1, <1>1
      <4>5. CASE Ceiling - 1 = 2 * half + 1
        <5>1. Off(moved, end, place) = 1
          <6>1. moved \in Int /\ end \in Int
            BY <2>3, <2>4
          <6>2. 2 * place - moved - end = -1
            BY <4>2, <4>5, <1>1
          <6> QED BY <6>1, <6>2, <3>1
        <5>2. 2 * place - a - b >= 1 \/ 2 * place - a - b <= -1
          <6> DEFINE d == place - a
          <6>1. d \in Int
            BY <2>9
          <6>2. 2 * place - a - b = 2 * d - (2 * half + 1)
            BY <4>3, <4>5
          <6> HIDE DEF d
          <6>3. 2 * d - (2 * half + 1) >= 1 \/ 2 * d - (2 * half + 1) <= -1
            BY <6>1, <1>1
          <6> QED BY <6>2, <6>3
        <5>3. a \in Int /\ b \in Int
          BY <2>9
        <5> QED BY <5>1, <5>2, <5>3, <3>1
      <4> QED BY <4>4, <4>5, <1>1
    <3>5. CASE start = place - half /\ start + Ceiling - 1 > last
      <4>1. end = last
        BY <3>5, <1>1, <2>1, <2>3
      <4>2. a <= moved
        BY <4>1, <3>2, <1>1, <2>3, <2>4
      <4>3. 2 * place - moved - end >= 0
        BY <4>1, <3>2, <3>5, <1>1, <2>1, <2>3, <2>4
      <4>4. a \in Int /\ b \in Int /\ b <= end
        BY <4>1
      <4> QED BY <4>2, <4>3, <4>4, <3>1, <2>3, <2>4
    <3> QED BY <3>3, <3>4, <3>5, <1>1, <2>1
  <2> QED BY <2>2, <2>3, <2>4, <2>5, <2>6, <2>7, <2>8, <2>9, <1>1
<1> QED BY <1>3, <1>4, <1>1

\* The section is the interval a walk has gone over, once it can go no further.
LEMMA SectionIsTheRun ==
    ASSUME NEW ingestion, Count(ingestion) \in Nat,
           NEW first \in Nat, NEW last \in Nat, NEW place \in Nat,
           first <= place, place <= last, last < Count(ingestion),
           \A p \in first..last : ingestion.leads[p + 1] = ingestion.leads[place + 1],
           first > 0 => ingestion.leads[first] # ingestion.leads[place + 1],
           last + 1 < Count(ingestion) =>
             ingestion.leads[last + 2] # ingestion.leads[place + 1]
    PROVE  SectionOf(ingestion, place) = first..last
<1>1. ASSUME NEW p \in 0..Count(ingestion) - 1
      PROVE  LET low == Min({p, place}) high == Max({p, place}) IN
             /\ low \in Nat /\ high \in Nat
             /\ low <= p /\ p <= high /\ low <= place /\ place <= high
             /\ low = p \/ low = place
             /\ high = p \/ high = place
  <2>1. p \in Int /\ place \in Int
    OBVIOUS
  <2>2. Min({p, place}) \in {p, place} /\ Min({p, place}) <= p /\ Min({p, place}) <= place
    BY <2>1, MinOfTwo
  <2>3. Max({p, place}) \in {p, place} /\ Max({p, place}) >= p /\ Max({p, place}) >= place
    BY <2>1, MaxOfTwo
  <2> QED BY <2>1, <2>2, <2>3
<1>2. ASSUME NEW p \in first..last
      PROVE  p \in SectionOf(ingestion, place)
  <2>1. p \in 0..Count(ingestion) - 1
    OBVIOUS
  <2>2. Min({p, place})..Max({p, place}) \subseteq first..last
    BY <1>1, <2>1
  <2> QED BY <2>1, <2>2 DEF SectionOf
<1>3. ASSUME NEW p \in SectionOf(ingestion, place)
      PROVE  p \in first..last
  <2>1. /\ p \in 0..Count(ingestion) - 1
        /\ \A q \in Min({p, place})..Max({p, place}) :
             ingestion.leads[q + 1] = ingestion.leads[place + 1]
    BY DEF SectionOf
  <2>2. p >= first
    <3> SUFFICES ASSUME p < first PROVE FALSE
      BY <2>1
    <3>1. first - 1 \in Min({p, place})..Max({p, place}) /\ first > 0
      BY <1>1, <2>1
    <3>2. ingestion.leads[(first - 1) + 1] = ingestion.leads[place + 1]
      BY <2>1, <3>1
    <3>3. (first - 1) + 1 = first
      OBVIOUS
    <3> QED BY <3>1, <3>2, <3>3
  <2>3. p <= last
    <3> SUFFICES ASSUME p > last PROVE FALSE
      BY <2>1
    <3>1. last + 1 \in Min({p, place})..Max({p, place}) /\ last + 1 < Count(ingestion)
      BY <1>1, <2>1
    <3>2. ingestion.leads[(last + 1) + 1] = ingestion.leads[place + 1]
      BY <2>1, <3>1
    <3>3. (last + 1) + 1 = last + 2
      OBVIOUS
    <3> QED BY <3>1, <3>2, <3>3
  <2> QED BY <2>1, <2>2, <2>3
<1> QED BY <1>2, <1>3

\* A window of an interval is one of its cuts, and the most centred of them.
LEMMA WindowIsTheCut ==
    ASSUME NEW first \in Nat, NEW last \in Nat, NEW place \in Nat,
           first <= place, place <= last,
           NEW w, w = Window(first, last, place),
           NEW cut, cut = w.start..w.end
    PROVE  /\ cut \in Cuts(first..last, place)
           /\ \A other \in Cuts(first..last, place) :
                 OffCentre(cut, place) <= OffCentre(other, place)
<1>1. /\ w.start \in first..place /\ w.end \in place..last
      /\ w.end - w.start + 1 = Min({Ceiling, last - first + 1})
      /\ \A a \in first..place, b \in place..last :
            b - a = w.end - w.start => Off(w.start, w.end, place) <= Off(a, b, place)
  <2>1. first \in Int /\ last \in Int /\ place \in Int
    OBVIOUS
  <2> QED BY <2>1, WindowIsCentred
<1>2. Cardinality(first..last) = last - first + 1
  BY IntervalEnds
<1>3. ASSUME NEW a \in first..last, NEW b \in first..last, place \in a..b
      PROVE  /\ a \in first..place /\ b \in place..last
             /\ Cardinality(a..b) = b - a + 1
             /\ OffCentre(a..b, place) = Off(a, b, place)
  <2>1. a \in Int /\ b \in Int /\ a <= b /\ a \in first..place /\ b \in place..last
    BY <1>3
  <2>2. Min(a..b) = a /\ Max(a..b) = b /\ Cardinality(a..b) = b - a + 1
    BY <2>1, IntervalEnds
  <2> QED BY <2>1, <2>2 DEF OffCentre, Off
<1>4. w.start \in first..last /\ w.end \in first..last /\ place \in w.start..w.end
  BY <1>1
<1>5. /\ Cardinality(cut) = w.end - w.start + 1
      /\ OffCentre(cut, place) = Off(w.start, w.end, place)
  BY <1>3, <1>4
<1>6. cut \in Cuts(first..last, place)
  <2>1. cut \in {a..b : a, b \in first..last}
    BY <1>4
  <2>2. place \in cut /\ Cardinality(cut) = Min({Ceiling, Cardinality(first..last)})
    BY <1>1, <1>2, <1>4, <1>5
  <2> QED BY <2>1, <2>2 DEF Cuts
<1>7. ASSUME NEW other \in Cuts(first..last, place)
      PROVE  OffCentre(cut, place) <= OffCentre(other, place)
  <2>0. place \in other /\ Cardinality(other) = Min({Ceiling, Cardinality(first..last)})
    BY DEF Cuts
  <2>1. PICK a \in first..last, b \in first..last : other = a..b
    BY DEF Cuts
  <2>2. place \in a..b /\ Cardinality(a..b) = Min({Ceiling, last - first + 1})
    <3> HIDE DEF Cuts
    <3> QED BY <2>0, <2>1, <1>2, Zenon
  <2>3. /\ a \in first..place /\ b \in place..last
        /\ Cardinality(a..b) = b - a + 1
        /\ OffCentre(a..b, place) = Off(a, b, place)
    BY <2>2, <1>3
  <2>4. b - a = w.end - w.start
    <3> DEFINE length == Min({Ceiling, last - first + 1})
    <3>a. w.end - w.start + 1 = length
      BY <1>1
    <3>b. Cardinality(a..b) = length
      BY <2>2
    <3> HIDE DEF length
    <3>1. b - a + 1 = w.end - w.start + 1
      <4> DEFINE long == Cardinality(a..b)
      <4>1. long = b - a + 1 /\ long = length
        BY <3>b, <2>3
      <4> HIDE DEF long
      <4> QED BY <4>1, <3>a, Zenon
    <3>2. w.start \in Int /\ w.end \in Int /\ a \in Int /\ b \in Int
      BY <1>1
    <3> QED BY ONLY <3>1, <3>2
  <2>5. Off(w.start, w.end, place) <= Off(a, b, place)
    BY <1>1, <2>3, <2>4
  <2> QED BY <1>5, <2>1, <2>3, <2>5
<1> QED BY <1>6, <1>7

\* A part of a run, from one of its places to another.
PartOfRun(part, run, hit, a, b) ==
    /\ part \in Seq(Chunks)
    /\ Len(part) = b - a + 1
    /\ ToSet(part) \subseteq ToSet(run)
    /\ \A k \in DOMAIN part :
          part[k].place = part[1].place + k - 1 /\ part[k].lead = hit.lead
    /\ {chunk.place : chunk \in ToSet(part)} =
          Head(run).place + a - 1..Head(run).place + b - 1
    /\ hit.place \in Head(run).place + a - 1..Head(run).place + b - 1 => hit \in ToSet(part)

LEMMA PartOfARun ==
    ASSUME NEW run \in Seq(Chunks), NEW hit, IsRun(run, hit),
           NEW a \in 1..Len(run), NEW b \in 1..Len(run), a <= b,
           NEW part, part = SubSeq(run, a, b)
    PROVE  PartOfRun(part, run, hit, a, b)
<1>1. /\ Len(run) \in Nat /\ DOMAIN run = 1..Len(run) /\ Head(run) = run[1]
      /\ run[1].place \in Int
      /\ \A k \in 1..Len(run) : run[k].place = run[1].place + k - 1 /\ run[k].lead = hit.lead
  BY RunFacts DEF IsRun
<1>2. part \in Seq(Chunks)
  BY <1>1
<1>3. /\ Len(part) = b - a + 1 /\ DOMAIN part = 1..b - a + 1
      /\ \A k \in 1..b - a + 1 : part[k] = run[k + a - 1]
  BY <1>1
<1>4. \A k \in 1..b - a + 1 : k + a - 1 \in 1..Len(run)
  BY <1>1
<1>5. ToSet(part) \subseteq ToSet(run)
  BY <1>1, <1>3, <1>4 DEF ToSet
<1>6. \A k \in 1..b - a + 1 :
        part[k].place = run[1].place + (k + a - 1) - 1 /\ part[k].lead = hit.lead
  BY <1>1, <1>3, <1>4
<1>7. part[1].place = run[1].place + a - 1
  <2>1. 1 \in 1..b - a + 1
    BY <1>1
  <2> QED BY <2>1, <1>6, <1>1
<1>8. \A k \in DOMAIN part :
        part[k].place = part[1].place + k - 1 /\ part[k].lead = hit.lead
  <2> SUFFICES ASSUME NEW k \in 1..b - a + 1
               PROVE  part[k].place = part[1].place + k - 1 /\ part[k].lead = hit.lead
    BY <1>3
  <2>1. part[k].place = run[1].place + (k + a - 1) - 1 /\ part[k].lead = hit.lead
    BY <1>6
  <2>2. run[1].place + (k + a - 1) - 1 = (run[1].place + a - 1) + k - 1
    <3> DEFINE origin == run[1].place
    <3>1. origin \in Int /\ k \in Int /\ a \in Int
      BY <1>1
    <3> HIDE DEF origin
    <3>2. origin + (k + a - 1) - 1 = (origin + a - 1) + k - 1
      BY <3>1
    <3> QED BY <3>2 DEF origin
  <2> QED BY <2>1, <2>2, <1>7
<1>9. ASSUME NEW c \in ToSet(part)
      PROVE  c.place \in run[1].place + a - 1..run[1].place + b - 1
  <2>1. PICK k \in 1..b - a + 1 : c = part[k]
    BY <1>3 DEF ToSet
  <2>2. c.place = run[1].place + (k + a - 1) - 1
    BY <2>1, <1>6
  <2> QED BY <2>2, <1>1
<1>10. ASSUME NEW p \in run[1].place + a - 1..run[1].place + b - 1
       PROVE  \E c \in ToSet(part) : c.place = p
  <2> DEFINE k == p - run[1].place - a + 2
  <2> DEFINE origin == run[1].place
  <2>0. origin \in Int /\ p \in origin + a - 1..origin + b - 1 /\ k = p - origin - a + 2
    BY <1>1
  <2> HIDE DEF origin
  <2>1. k \in 1..b - a + 1 /\ origin + (k + a - 1) - 1 = p
    <3> HIDE DEF k
    <3> QED BY <2>0
  <2> USE DEF origin
  <2> HIDE DEF k
  <2>2. part[k] \in ToSet(part) /\ part[k].place = p
    BY <2>1, <1>3, <1>6 DEF ToSet
  <2> QED BY <2>2
<1>11. {chunk.place : chunk \in ToSet(part)} = run[1].place + a - 1..run[1].place + b - 1
  BY <1>9, <1>10
<1>12. ASSUME hit.place \in run[1].place + a - 1..run[1].place + b - 1
       PROVE  hit \in ToSet(part)
  <2>1. PICK j \in 1..Len(run) : run[j] = hit
    BY <1>1 DEF IsRun, ToSet
  <2>2. hit.place = run[1].place + j - 1
    BY <2>1, <1>1
  <2> DEFINE k == j - a + 1
  <2>3. k \in 1..b - a + 1 /\ k + a - 1 = j
    BY <2>2, <1>1, <1>12
  <2> HIDE DEF k
  <2>4. part[k] = hit
    BY <2>1, <2>3, <1>3
  <2> QED BY <2>3, <2>4, <1>3 DEF ToSet
<1> QED BY <1>1, <1>2, <1>3, <1>5, <1>8, <1>11, <1>12 DEF PartOfRun

-----------------------------------------------------------------------------
(* Every step keeps the invariant: first the steps that leave the reader   *)
(* at rest, then those of a search.                                        *)

LEMMA AtRestIsFine ==
    ASSUME TypeOK', Proper(store.nodes)', reader' = AtRest
    PROVE  Inv'
<1>1. reader'.pc = "idle"
  BY DEF AtRest
<1>2. Reading'
  BY <1>1 DEF Reading, Walking
<1>3. ReadAsStored' /\ NothingMissed'
  BY <1>1 DEF ReadAsStored, NothingMissed, Undisturbed
<1>4. ~Answered'
  BY <1>1 DEF Answered
<1>5. PassageHoldsTogether' /\ AnswerIsThePassage'
  BY <1>4 DEF PassageHoldsTogether, AnswerIsThePassage
<1> QED BY <1>2, <1>3, <1>5 DEF Inv

LEMMA Starts == Init => Inv
<1> SUFFICES ASSUME Init PROVE Inv
  OBVIOUS
<1>1. reader.pc = "idle" /\ reader = AtRest /\ reader \in Readers
  BY AtRestIsTyped DEF Init, AtRest
<1>2. TypeOK /\ Proper(store.nodes)
  BY <1>1, NothingIsTyped, SearchAssumption DEF Init, TypeOK
<1>3. Reading
  BY <1>1 DEF Reading, Walking
<1>4. ReadAsStored /\ NothingMissed
  BY <1>1 DEF ReadAsStored, NothingMissed, Undisturbed
<1>5. ~Answered
  BY <1>1 DEF Answered
<1>6. PassageHoldsTogether /\ AnswerIsThePassage
  BY <1>5 DEF PassageHoldsTogether, AnswerIsThePassage
<1> QED BY <1>2, <1>3, <1>4, <1>6 DEF Inv

LEMMA WritersKeep ==
    ASSUME Inv, NEW leads \in BoundedSeq(Leads, MaxChunks),
           IngestHere(leads) \/ FailDurably(leads) \/ FailInMemory(leads)
    PROVE  Inv'
<1>1. TypeOK /\ Proper(store.nodes) /\ Ingesting(leads) /\ reader' = reader /\ LockFree
  BY DEF Inv, IngestHere, FailDurably, FailInMemory
<1>2. reader = AtRest /\ reader \in Readers /\ durable' \in BOOLEAN
  BY <1>1 DEF Inv, Reading, LockFree, TypeOK, Ingesting
<1>3. /\ New(leads) \in Ingestions /\ Proper(New(leads))
      /\ Len(leads) \in 0..MaxChunks /\ ingests' \in 0..MaxIngests
  BY <1>1, NewIsTyped DEF Ingesting, TypeOK
<1>4. /\ store.record \in Ingestions /\ store.nodes \in Ingestions
      /\ store = [record |-> store.record, nodes |-> store.nodes]
      /\ Count(store.nodes) \in 0..MaxChunks
  BY <1>1, IngestionFacts DEF TypeOK
<1>5. CASE IngestHere(leads)
  <2>1. store' = [record |-> New(leads), nodes |-> New(leads)]
        /\ mapped' \in 0..MaxChunks /\ listed' \in Ingestions
    BY <1>5, <1>1, <1>3 DEF IngestHere, Whole, TypeOK
  <2>2. TypeOK' /\ Proper(store.nodes)'
    BY <2>1, <1>1, <1>2, <1>3 DEF TypeOK, Proper
  <2> QED BY <2>2, <1>1, <1>2, AtRestIsFine
<1>6. CASE FailDurably(leads)
  <2>1. store' = store /\ listed' = listed /\ mapped' \in 0..MaxChunks
    BY <1>6, <1>1, <1>3, <1>4, SearchAssumption DEF FailDurably, TypeOK
  <2>2. TypeOK' /\ Proper(store.nodes)'
    BY <2>1, <1>1, <1>2, <1>3 DEF TypeOK, Proper
  <2> QED BY <2>2, <1>1, <1>2, AtRestIsFine
<1>7. CASE FailInMemory(leads)
  <2>1. /\ \/ store' = [record |-> New(leads), nodes |-> store.nodes]
           \/ store' = [record |-> New(leads), nodes |-> Nothing]
        /\ mapped' \in 0..MaxChunks /\ listed' = listed
    BY <1>7, <1>1, <1>4, SearchAssumption DEF FailInMemory, TypeOK
  <2>2. TypeOK' /\ Proper(store.nodes)'
    BY <2>1, <1>1, <1>2, <1>3, <1>4, NothingIsTyped DEF TypeOK, Proper
  <2> QED BY <2>2, <1>1, <1>2, AtRestIsFine
<1> QED BY <1>5, <1>6, <1>7

LEMMA RefreshingKeeps ==
    ASSUME Inv, Refresh \/ Restart
    PROVE  Inv'
<1>1. TypeOK /\ Proper(store.nodes) /\ reader' = reader /\ reader = AtRest
  BY DEF Inv, Reading, LockFree, Refresh, Restart
<1>2. Count(store.nodes) \in 0..MaxChunks /\ store.record \in Ingestions
  BY <1>1, IngestionFacts DEF TypeOK
<1>3. TypeOK'
  BY <1>1, <1>2 DEF TypeOK, Refresh, Restart
<1>4. Proper(store.nodes)'
  BY <1>1 DEF Proper, Refresh, Restart
<1> QED BY <1>1, <1>3, <1>4, AtRestIsFine

LEMMA IngestElsewhereKeeps ==
    ASSUME Inv, NEW leads \in BoundedSeq(Leads, MaxChunks), IngestElsewhere(leads)
    PROVE  Inv'
<1>1. TypeOK /\ Proper(store.nodes) /\ Ingesting(leads)
  BY DEF Inv, IngestElsewhere
<1>2. /\ New(leads) \in Ingestions /\ Proper(New(leads)) /\ ingests' \in 0..MaxIngests
      /\ durable' = durable
  BY <1>1, NewIsTyped DEF Ingesting, TypeOK
<1> DEFINE disturbed == reader.pc # "idle"
<1>3. /\ store' = [record |-> New(leads), nodes |-> New(leads)]
      /\ listed' = listed /\ mapped' = mapped
      /\ reader' = [reader EXCEPT !.disturbed = disturbed]
  BY DEF IngestElsewhere, Whole
<1>4. disturbed \in BOOLEAN
  OBVIOUS
<1> HIDE DEF disturbed
<1>5. /\ reader' \in Readers
      /\ reader'.disturbed = disturbed
      /\ reader'.pc = reader.pc
      /\ reader'.hit = reader.hit /\ reader'.count = reader.count
      /\ reader'.tried = reader.tried /\ reader'.beside = reader.beside
      /\ reader'.run = reader.run /\ reader'.size = reader.size
      /\ reader'.passage = reader.passage /\ reader'.placed = reader.placed
  BY <1>1, <1>3, <1>4, Disturbs
<1>6. TypeOK'
  BY <1>1, <1>2, <1>3, <1>5 DEF TypeOK
<1>7. Proper(store.nodes)'
  BY <1>2, <1>3 DEF Proper
<1>8. CASE reader.pc = "idle"
  <2>1. reader = AtRest /\ disturbed = FALSE
    BY <1>8 DEF Inv, Reading, disturbed
  <2>2. reader' = AtRest
    BY <2>1, <1>3 DEF AtRest
  <2> QED BY <2>2, <1>6, <1>7, AtRestIsFine
<1>9. CASE reader.pc # "idle"
  <2>1. reader'.disturbed = TRUE
    BY <1>5, <1>9 DEF disturbed
  <2>2. Reading'
    BY <1>3, <1>5, <1>9 DEF Inv, Reading
  <2>3. ReadAsStored' /\ NothingMissed'
    BY <2>1 DEF ReadAsStored, NothingMissed, Undisturbed
  <2>4. PassageHoldsTogether'
    BY <1>5 DEF Inv, PassageHoldsTogether, Answered
  <2>5. AnswerIsThePassage'
    BY <2>1 DEF AnswerIsThePassage, Current
  <2> QED BY <2>2, <2>3, <2>4, <2>5, <1>6, <1>7 DEF Inv
<1> QED BY <1>8, <1>9

LEMMA RetrieveKeeps ==
    ASSUME Inv, NEW place \in Places, Retrieve(place)
    PROVE  Inv'
<1>1. TypeOK /\ Proper(store.nodes) /\ Reading
  BY DEF Inv
<1>2. /\ reader' \in Readers
      /\ reader'.pc = "hit" /\ reader'.hit = Node(place) /\ Held(place)
      /\ reader'.run = <<>> /\ reader'.passage = <<>> /\ reader'.beside = {}
      /\ reader'.tried = 0 /\ reader'.placed = FALSE
  BY <1>1, RetrieveDoes
<1>3. UNCHANGED <<durable, store, listed, mapped, ingests>>
  BY DEF Retrieve, Reads
<1>4. place \in Int /\ Node(place) \in Chunks /\ Node(place).place = place
  BY <1>1, <1>2, NodeIsAChunk, SearchAssumption DEF TypeOK, Places
<1>5. TypeOK' /\ Proper(store.nodes)'
  BY <1>1, <1>2, <1>3 DEF TypeOK, Proper
<1>6. Reading'
  BY <1>2, <1>4 DEF Reading, Walking
<1>7. ToSet(<<>>) = {}
  BY DEF ToSet
<1>8. ReadAsStored'
  <2>1. AsStored(reader.hit)'
    BY <1>2, <1>3, <1>4 DEF AsStored, Held, Node
  <2> QED BY <1>2, <1>7, <2>1 DEF ReadAsStored
<1>9. NothingMissed' /\ ~Answered'
  BY <1>2 DEF NothingMissed, Walking, Answered
<1> QED BY <1>5, <1>6, <1>8, <1>9 DEF Inv, PassageHoldsTogether, AnswerIsThePassage

LEMMA PlaceKeeps ==
    ASSUME Inv, Place
    PROVE  Inv'
<1>1. TypeOK /\ Proper(store.nodes) /\ Reading /\ reader.pc = "hit"
  BY DEF Inv, Place
<1>2. /\ reader' \in Readers
      /\ reader'.pc = "beside" /\ reader'.placed = TRUE
      /\ reader'.count = Count(listed) /\ reader'.run = <<reader.hit>>
      /\ reader'.hit = reader.hit /\ reader'.beside = reader.beside
      /\ reader'.tried = reader.tried /\ reader'.passage = reader.passage
      /\ reader'.disturbed = reader.disturbed
  BY <1>1, PlaceDoes
<1>3. UNCHANGED <<durable, store, listed, mapped, ingests>>
  BY DEF Place, Reads
<1>4. reader.hit \in Chunks /\ reader.beside = {} /\ reader.tried = 0 /\ reader.passage = <<>>
  BY <1>1 DEF Reading
<1>5. TypeOK' /\ Proper(store.nodes)'
  BY <1>1, <1>2, <1>3 DEF TypeOK, Proper
<1>6. IsRun(<<reader.hit>>, reader.hit)
  BY <1>4, RunOfTheHit
<1>7. IsRun(reader.run, reader.hit)'
  BY <1>2, <1>6
<1>8. Reading'
  BY <1>2, <1>3, <1>4, <1>7 DEF Reading, Walking
<1>9. ToSet(<<>>) = {} /\ ToSet(<<reader.hit>>) = {reader.hit}
  BY DEF ToSet
<1>10. ReadAsStored'
  <2> SUFFICES ASSUME ~reader.disturbed PROVE AsStored(reader.hit)'
    BY <1>2, <1>4, <1>9 DEF ReadAsStored, Undisturbed
  <2>1. AsStored(reader.hit)
    BY <1>1 DEF Inv, ReadAsStored, Undisturbed
  <2> QED BY <2>1, <1>2, <1>3 DEF AsStored, Held, Node
<1>11. {chunk.place : chunk \in {}} = {}
  OBVIOUS
<1>12. {p \in 0..Count(listed') - 1 : \E n \in 1..0 : p = Tried(n)'} = {}
  OBVIOUS
<1>13. NothingMissed'
  BY <1>2, <1>4, <1>11, <1>12 DEF NothingMissed
<1>14. ~Answered'
  BY <1>2 DEF Answered
<1> QED BY <1>5, <1>8, <1>10, <1>13, <1>14 DEF Inv, PassageHoldsTogether, AnswerIsThePassage

\* What a step that leaves the store, the hit and the count alone leaves as it was.
LEMMA SameReads ==
    ASSUME store' = store, listed' = listed, reader'.hit = reader.hit,
           reader'.count = reader.count
    PROVE  /\ \A c \in Chunks : AsStored(c)' = AsStored(c)
           /\ \A n \in Nat : Tried(n)' = Tried(n)
           /\ Proper(store.nodes)' = Proper(store.nodes)
           /\ \A p \in Int : Belongs(p)' = Belongs(p)
           /\ reader'.run = reader.run => JoinsBack' = JoinsBack /\ JoinsOn' = JoinsOn
BY DEF AsStored, Held, Node, Tried, Proper, Belongs, JoinsBack, JoinsOn, First, End

LEMMA UnplacedKeeps ==
    ASSUME Inv, Unplaced
    PROVE  Inv'
<1>1. TypeOK /\ Proper(store.nodes) /\ Reading /\ reader.pc = "hit"
  BY DEF Inv, Unplaced
<1>2. /\ reader' = [reader EXCEPT !.pc = "answered"]
      /\ UNCHANGED <<durable, store, listed, mapped, ingests>>
  BY DEF Unplaced, Reads
<1>3. "answered" \in PCs
  BY DEF PCs
<1>4. /\ reader' \in Readers
      /\ reader'.pc = "answered"
      /\ reader'.hit = reader.hit
      /\ reader'.beside = reader.beside
      /\ reader'.run = reader.run
      /\ reader'.passage = reader.passage /\ reader'.placed = reader.placed
      /\ reader'.disturbed = reader.disturbed
  BY <1>1, <1>2, <1>3, GoesOn
<1>5. TypeOK' /\ Proper(store.nodes)'
  BY <1>1, <1>2, <1>4 DEF TypeOK, Proper
<1>6. Reading'
  BY <1>1, <1>4 DEF Reading, Walking
<1>7. reader.hit \in Chunks /\ reader.run = <<>> /\ reader.passage = <<>> /\ reader.beside = {}
      /\ ~reader.placed
  BY <1>1 DEF Reading, Walking
<1>8. ToSet(<<>>) = {}
  BY DEF ToSet
<1>9. ReadAsStored'
  <2> SUFFICES ASSUME ~reader.disturbed PROVE AsStored(reader.hit)'
    BY <1>4, <1>7, <1>8 DEF ReadAsStored, Undisturbed
  <2>1. AsStored(reader.hit)
    BY <1>1 DEF Inv, ReadAsStored, Undisturbed
  <2> QED BY <2>1, <1>2, <1>4 DEF AsStored, Held, Node
<1>10. NothingMissed' /\ ~Answered'
  BY <1>4, <1>7 DEF NothingMissed, Walking, Answered
<1> QED BY <1>5, <1>6, <1>9, <1>10 DEF Inv, PassageHoldsTogether, AnswerIsThePassage

\* A walk goes on to its next part, which no further step of this one follows.
LEMMA GoingOnKeeps ==
    ASSUME Inv, BesideDone \/ StopBack \/ StopOn
    PROVE  Inv'
<1>1. TypeOK /\ Proper(store.nodes) /\ Reading /\ reader.pc \in Walking
  BY DEF Inv, BesideDone, StopBack, StopOn, Walking
<1>2. PICK pc \in {"back", "on", "window"} :
        /\ reader' = [reader EXCEPT !.pc = pc]
        /\ UNCHANGED <<durable, store, listed, mapped, ingests>>
        /\ pc = "on" => JoinsBack = FALSE
        /\ pc = "window" => reader.pc = "on" /\ JoinsOn = FALSE
  BY DEF BesideDone, StopBack, StopOn, Reads
<1>3. pc \in PCs
  BY DEF PCs
<1>4. /\ reader' \in Readers
      /\ reader'.pc = pc
      /\ reader'.hit = reader.hit /\ reader'.count = reader.count
      /\ reader'.tried = reader.tried /\ reader'.beside = reader.beside
      /\ reader'.run = reader.run
      /\ reader'.passage = reader.passage /\ reader'.placed = reader.placed
      /\ reader'.disturbed = reader.disturbed
  BY <1>1, <1>2, <1>3, GoesOn
<1>5. TypeOK' /\ Proper(store.nodes)'
  BY <1>1, <1>2, <1>4 DEF TypeOK, Proper
<1>6. /\ reader.hit \in Chunks /\ IsRun(reader.run, reader.hit) /\ reader.passage = <<>>
      /\ reader.count = Count(listed) /\ reader.run \in Seq(Chunks)
      /\ reader.beside \subseteq Chunks
      /\ reader.tried \in Nat
  BY <1>1, ReaderFacts, SearchAssumption DEF Reading, Walking, TypeOK
<1>7. reader.tried = 2 * Neighbours
  BY <1>1 DEF BesideDone, StopBack, StopOn, Reading, Walking
<1>8. Reading'
  <2>1. IsRun(reader.run, reader.hit)'
    BY <1>4, <1>6
  <2> QED BY <1>2, <1>4, <1>6, <1>7, <2>1 DEF Reading, Walking
<1>9. /\ \A c \in Chunks : AsStored(c)' = AsStored(c)
      /\ \A n \in Nat : Tried(n)' = Tried(n)
      /\ JoinsBack' = JoinsBack /\ JoinsOn' = JoinsOn
  BY <1>2, <1>4, SameReads
<1>10. ToSet(reader.run) \subseteq Chunks /\ ToSet(<<>>) = {}
  BY <1>6 DEF ToSet
<1>11. ReadAsStored'
  <2> SUFFICES ASSUME ~reader.disturbed PROVE ReadAsStored'
    BY <1>4 DEF ReadAsStored, Undisturbed
  <2>1. /\ AsStored(reader.hit)
        /\ \A chunk \in reader.beside : AsStored(chunk)
        /\ \A chunk \in ToSet(reader.run) : AsStored(chunk)
    BY <1>1 DEF Inv, ReadAsStored, Undisturbed, Walking
  <2>2. /\ AsStored(reader.hit)'
        /\ \A chunk \in reader.beside : AsStored(chunk)'
        /\ \A chunk \in ToSet(reader.run) : AsStored(chunk)'
    BY <2>1, <1>4, <1>6, <1>9, <1>10 DEF AsStored, Held, Node
  <2> QED BY <2>2, <1>4, <1>6, <1>10 DEF ReadAsStored
<1>12. NothingMissed'
  <2> SUFFICES ASSUME ~reader.disturbed, store.nodes = listed PROVE NothingMissed'
    BY <1>2, <1>4 DEF NothingMissed, Undisturbed
  <2>1. /\ {chunk.place : chunk \in reader.beside} =
             {p \in 0..Count(listed) - 1 : \E n \in 1..reader.tried : p = Tried(n)}
        /\ reader.pc \in {"on", "window"} => ~JoinsBack
    BY <1>1 DEF Inv, NothingMissed, Undisturbed, Walking
  <2>2. {p \in 0..Count(listed) - 1 : \E n \in 1..reader.tried : p = Tried(n)'}
          = {p \in 0..Count(listed) - 1 : \E n \in 1..reader.tried : p = Tried(n)}
    BY <1>6, <1>9
  <2>3. reader'.pc \in {"on", "window"} => ~JoinsBack
    BY <2>1, <1>2, <1>4
  <2>4. reader'.pc = "window" => ~JoinsOn
    BY <1>2, <1>4
  <2>5. {chunk.place : chunk \in reader'.beside} =
          {p \in 0..Count(listed') - 1 : \E n \in 1..reader'.tried : p = Tried(n)'}
    BY <2>1, <2>2, <1>2, <1>4
  <2>6. reader'.pc \in {"on", "window"} => ~JoinsBack'
    BY <2>3, <1>9
  <2>7. reader'.pc = "window" => ~JoinsOn'
    BY <2>4, <1>9
  <2> QED BY <2>5, <2>6, <2>7 DEF NothingMissed
<1>13. ~Answered'
  BY <1>2, <1>4 DEF Answered
<1> QED BY <1>5, <1>8, <1>11, <1>12, <1>13 DEF Inv, PassageHoldsTogether, AnswerIsThePassage

LEMMA BesideKeeps ==
    ASSUME Inv, Beside
    PROVE  Inv'
<1>1. TypeOK /\ Proper(store.nodes) /\ Reading /\ reader.pc = "beside"
  BY DEF Inv, Beside
<1>2. PICK place : place = Tried(reader.tried + 1)
  OBVIOUS
<1>3. /\ reader' \in Readers
      /\ reader'.tried = reader.tried + 1
      /\ reader'.beside = IF Lists(place) /\ Held(place)
                          THEN reader.beside \cup {Node(place)} ELSE reader.beside
      /\ reader'.pc = reader.pc
      /\ reader'.hit = reader.hit /\ reader'.count = reader.count
      /\ reader'.run = reader.run /\ reader'.passage = reader.passage
      /\ reader'.disturbed = reader.disturbed /\ reader'.placed = reader.placed
  BY <1>1, <1>2, BesideDoes
<1>4. UNCHANGED <<durable, store, listed, mapped, ingests>>
  BY DEF Beside, Reads
<1>5. TypeOK'
  BY <1>1, <1>3, <1>4 DEF TypeOK
<1>6. /\ reader.hit \in Chunks /\ IsRun(reader.run, reader.hit) /\ reader.passage = <<>>
      /\ reader.count = Count(listed) /\ reader.run \in Seq(Chunks)
      /\ reader.beside \subseteq Chunks /\ reader.tried \in Nat
      /\ reader.hit.place \in Int
  BY <1>1, ReaderFacts, ChunkFacts, SearchAssumption DEF Reading, Walking, TypeOK
<1>7. place \in Int /\ Count(listed) \in Nat
  <2>1. (reader.tried + 2) \div 2 \in Int /\ (reader.tried + 1) \div 2 \in Int
    BY <1>6
  <2> QED BY <2>1, <1>1, <1>2, <1>6, IngestionFacts DEF Tried, TypeOK
<1>8. Held(place) => /\ Node(place) \in Chunks /\ Node(place).place = place
  BY <1>1, <1>7, NodeIsAChunk DEF TypeOK
<1>9. Reading'
  <2>1. IsRun(reader.run, reader.hit)'
    BY <1>3, <1>6
  <2> QED BY <2>1, <1>1, <1>3, <1>4, <1>6 DEF Reading, Walking
<1>10. /\ \A c \in Chunks : AsStored(c)' = AsStored(c)
       /\ \A n \in Nat : Tried(n)' = Tried(n)
       /\ Proper(store.nodes)'
  BY <1>1, <1>3, <1>4, SameReads
<1>11. ToSet(reader.run) \subseteq Chunks /\ ToSet(<<>>) = {}
  BY <1>6 DEF ToSet
<1>12. ReadAsStored'
  <2> SUFFICES ASSUME ~reader.disturbed PROVE ReadAsStored'
    BY <1>3 DEF ReadAsStored, Undisturbed
  <2>1. /\ AsStored(reader.hit)
        /\ \A chunk \in reader.beside : AsStored(chunk)
        /\ \A chunk \in ToSet(reader.run) : AsStored(chunk)
    BY <1>1 DEF Inv, ReadAsStored, Undisturbed, Walking
  <2>2. Held(place) => AsStored(Node(place))
    BY <1>8 DEF AsStored
  <2>3. reader'.beside \subseteq Chunks /\ \A chunk \in reader'.beside : AsStored(chunk)
    BY <2>1, <2>2, <1>3, <1>6, <1>8
  <2>4. \A chunk \in reader'.beside : AsStored(chunk)'
    BY <2>3, <1>10
  <2>5. AsStored(reader.hit)' /\ \A chunk \in ToSet(reader'.run) : AsStored(chunk)'
    BY <2>1, <1>3, <1>4, <1>6, <1>10, <1>11 DEF AsStored, Held, Node
  <2> QED BY <2>4, <2>5, <1>3, <1>6, <1>11 DEF ReadAsStored
<1>13. NothingMissed'
  <2> SUFFICES ASSUME ~reader.disturbed, store.nodes = listed
               PROVE  {chunk.place : chunk \in reader'.beside} =
                        {p \in 0..Count(listed') - 1 : \E n \in 1..reader'.tried : p = Tried(n)'}
    BY <1>1, <1>3, <1>4 DEF NothingMissed, Undisturbed
  <2>1. {chunk.place : chunk \in reader.beside} =
          {p \in 0..Count(listed) - 1 : \E n \in 1..reader.tried : p = Tried(n)}
    BY <1>1 DEF Inv, NothingMissed, Undisturbed, Walking
  <2>2. Lists(place) /\ Held(place) <=> place \in 0..Count(listed) - 1
    BY <1>6, <1>7 DEF Lists, Held
  <2>3. \A n \in 1..reader.tried + 1 : Tried(n)' = Tried(n)
    BY <1>6, <1>10
  <2>4. {p \in 0..Count(listed) - 1 : \E n \in 1..reader.tried + 1 : p = Tried(n)'}
          = {p \in 0..Count(listed) - 1 : \E n \in 1..reader.tried : p = Tried(n)}
            \cup {p \in 0..Count(listed) - 1 : p = place}
    BY <2>3, <1>2, <1>6
  <2>5. {chunk.place : chunk \in reader'.beside} =
          {chunk.place : chunk \in reader.beside}
          \cup {p \in 0..Count(listed) - 1 : p = place}
    <3>1. CASE Lists(place) /\ Held(place)
      <4>1. reader'.beside = reader.beside \cup {Node(place)} /\ Node(place).place = place
        BY <3>1, <1>3, <1>8
      <4> QED BY <4>1, <3>1, <2>2
    <3>2. CASE ~(Lists(place) /\ Held(place))
      <4>1. reader'.beside = reader.beside
        BY <3>2, <1>3
      <4> QED BY <4>1, <3>2, <2>2
    <3> QED BY <3>1, <3>2
  <2> QED BY <2>1, <2>4, <2>5, <1>3, <1>4
<1>14. ~Answered'
  BY <1>1, <1>3 DEF Answered
<1> QED BY <1>5, <1>9, <1>10, <1>12, <1>13, <1>14
     DEF Inv, PassageHoldsTogether, AnswerIsThePassage

\* What keeps the invariant when a walk grows by a chunk of the store.
LEMMA LongerWalksKeep ==
    ASSUME Inv, reader.pc \in {"back", "on"},
           UNCHANGED <<durable, store, listed, mapped, ingests>>,
           NEW run \in Seq(Chunks), reader' = [reader EXCEPT !.run = run],
           NEW c \in Chunks, AsStored(c), ToSet(run) = {c} \cup ToSet(reader.run),
           IsRun(run, reader.hit),
           reader.pc = "on" => Head(run) = Head(reader.run)
    PROVE  Inv'
<1>1. TypeOK /\ Proper(store.nodes) /\ Reading
  BY DEF Inv
<1>2. /\ reader' \in Readers
      /\ reader'.run = run
      /\ reader'.pc = reader.pc
      /\ reader'.hit = reader.hit /\ reader'.count = reader.count
      /\ reader'.tried = reader.tried /\ reader'.beside = reader.beside
      /\ reader'.passage = reader.passage /\ reader'.placed = reader.placed
      /\ reader'.disturbed = reader.disturbed
  BY <1>1, Walks
<1>3. TypeOK'
  BY <1>1, <1>2 DEF TypeOK
<1>4. /\ reader.hit \in Chunks /\ reader.passage = <<>> /\ reader.run \in Seq(Chunks)
      /\ reader.count = Count(listed) /\ reader.beside \subseteq Chunks
      /\ reader.tried = 2 * Neighbours /\ reader.tried \in Nat
  BY <1>1, ReaderFacts, SearchAssumption DEF Reading, Walking, TypeOK
<1>5. Reading'
  <2>1. IsRun(reader.run, reader.hit)'
    BY <1>2
  <2> QED BY <2>1, <1>2, <1>4 DEF Reading, Walking
<1>6. /\ \A d \in Chunks : AsStored(d)' = AsStored(d)
      /\ \A n \in Nat : Tried(n)' = Tried(n)
      /\ Proper(store.nodes)'
      /\ \A p \in Int : Belongs(p)' = Belongs(p)
  BY <1>1, <1>2, SameReads
<1>7. ToSet(reader.run) \subseteq Chunks /\ ToSet(<<>>) = {}
  BY <1>4 DEF ToSet
<1>8. ReadAsStored'
  <2> SUFFICES ASSUME ~reader.disturbed PROVE ReadAsStored'
    BY <1>2 DEF ReadAsStored, Undisturbed
  <2>1. /\ AsStored(reader.hit)
        /\ \A chunk \in reader.beside : AsStored(chunk)
        /\ \A chunk \in ToSet(reader.run) : AsStored(chunk)
    BY <1>1 DEF Inv, ReadAsStored, Undisturbed, Walking
  <2>2. \A chunk \in ToSet(run) : chunk \in Chunks /\ AsStored(chunk)
    BY <2>1, <1>7
  <2>3. \A chunk \in ToSet(run) : AsStored(chunk)'
    BY <2>2, <1>6
  <2>4. AsStored(reader.hit)' /\ \A chunk \in reader'.beside : AsStored(chunk)'
    BY <2>1, <1>2, <1>4, <1>6 DEF AsStored, Held, Node
  <2> QED BY <2>3, <2>4, <1>2, <1>4, <1>7 DEF ReadAsStored
<1>9. NothingMissed'
  <2> SUFFICES ASSUME ~reader.disturbed, store.nodes = listed PROVE NothingMissed'
    BY <1>2 DEF NothingMissed, Undisturbed
  <2>1. /\ {chunk.place : chunk \in reader.beside} =
             {p \in 0..Count(listed) - 1 : \E n \in 1..reader.tried : p = Tried(n)}
        /\ reader.pc = "on" => ~JoinsBack
    BY <1>1 DEF Inv, NothingMissed, Undisturbed, Walking
  <2>2. {p \in 0..Count(listed) - 1 : \E n \in 1..reader.tried : p = Tried(n)'}
          = {p \in 0..Count(listed) - 1 : \E n \in 1..reader.tried : p = Tried(n)}
    BY <1>4, <1>6
  <2>3. {chunk.place : chunk \in reader'.beside} =
          {p \in 0..Count(listed') - 1 : \E n \in 1..reader'.tried : p = Tried(n)'}
    BY <2>1, <2>2, <1>2
  <2>4. reader.pc = "on" => JoinsBack' = JoinsBack
    <3>1. reader.pc = "on" => First' = First
      BY <1>2 DEF First
    <3>2. Head(run).place - 1 \in Int
      BY RunFacts
    <3> QED BY <3>1, <3>2, <1>2, <1>6 DEF JoinsBack, First
  <2> QED BY <2>1, <2>3, <2>4, <1>2 DEF NothingMissed
<1>10. ~Answered'
  BY <1>2 DEF Answered
<1> QED BY <1>3, <1>5, <1>6, <1>8, <1>9, <1>10
     DEF Inv, PassageHoldsTogether, AnswerIsThePassage

LEMMA WalkBackKeeps ==
    ASSUME Inv, WalkBack
    PROVE  Inv'
<1>1. /\ TypeOK /\ Proper(store.nodes) /\ Reading /\ reader.pc = "back" /\ JoinsBack
      /\ UNCHANGED <<durable, store, listed, mapped, ingests>>
      /\ reader' = [reader EXCEPT !.run = <<Node(First - 1)>> \o reader.run]
  BY DEF Inv, WalkBack, Reads
<1>2. IsRun(reader.run, reader.hit) /\ reader.run \in Seq(Chunks)
  BY <1>1, ReaderFacts DEF Reading, Walking, TypeOK
<1>3. First - 1 \in Int
  BY <1>2, RunFacts DEF First
<1>4. Held(First - 1) /\ Node(First - 1).lead = reader.hit.lead
  BY <1>1 DEF JoinsBack, Belongs
<1>5. Node(First - 1) \in Chunks /\ Node(First - 1).place = First - 1
  BY <1>1, <1>3, <1>4, NodeIsAChunk DEF TypeOK
<1>6. PICK c : c = Node(First - 1)
  OBVIOUS
<1>7. c \in Chunks /\ c.place = Head(reader.run).place - 1 /\ c.lead = reader.hit.lead
  BY <1>4, <1>5, <1>6 DEF First
<1>8. AsStored(c)
  BY <1>4, <1>5, <1>6 DEF AsStored
<1>9. /\ <<c>> \o reader.run \in Seq(Chunks)
      /\ IsRun(<<c>> \o reader.run, reader.hit)
      /\ ToSet(<<c>> \o reader.run) = {c} \cup ToSet(reader.run)
  BY <1>2, <1>7, RunsGrowBack
<1>10. PICK run : run = <<c>> \o reader.run
  OBVIOUS
<1>11. /\ run \in Seq(Chunks) /\ reader' = [reader EXCEPT !.run = run]
       /\ IsRun(run, reader.hit) /\ ToSet(run) = {c} \cup ToSet(reader.run)
  BY <1>1, <1>6, <1>9, <1>10
<1> QED BY <1>1, <1>7, <1>8, <1>11, LongerWalksKeep

LEMMA WalkOnKeeps ==
    ASSUME Inv, WalkOn
    PROVE  Inv'
<1>1. /\ TypeOK /\ Proper(store.nodes) /\ Reading /\ reader.pc = "on" /\ JoinsOn
      /\ UNCHANGED <<durable, store, listed, mapped, ingests>>
      /\ reader' = [reader EXCEPT !.run = Append(reader.run, Node(End + 1))]
  BY DEF Inv, WalkOn, Reads
<1>2. IsRun(reader.run, reader.hit) /\ reader.run \in Seq(Chunks)
  BY <1>1, ReaderFacts DEF Reading, Walking, TypeOK
<1>3. End + 1 \in Int
  BY <1>2, RunFacts DEF End
<1>4. Held(End + 1) /\ Node(End + 1).lead = reader.hit.lead
  BY <1>1 DEF JoinsOn, Belongs
<1>5. Node(End + 1) \in Chunks /\ Node(End + 1).place = End + 1
  BY <1>1, <1>3, <1>4, NodeIsAChunk DEF TypeOK
<1>6. PICK c : c = Node(End + 1)
  OBVIOUS
<1>7. c \in Chunks /\ c.place = Last(reader.run).place + 1 /\ c.lead = reader.hit.lead
  BY <1>4, <1>5, <1>6 DEF End
<1>8. AsStored(c)
  BY <1>4, <1>5, <1>6 DEF AsStored
<1>9. /\ Append(reader.run, c) \in Seq(Chunks)
      /\ IsRun(Append(reader.run, c), reader.hit)
      /\ Head(Append(reader.run, c)) = Head(reader.run)
      /\ ToSet(Append(reader.run, c)) = {c} \cup ToSet(reader.run)
  BY <1>2, <1>7, RunsGrowOn
<1>10. PICK run : run = Append(reader.run, c)
  OBVIOUS
<1>11. /\ run \in Seq(Chunks) /\ reader' = [reader EXCEPT !.run = run]
       /\ Head(run) = Head(reader.run)
       /\ IsRun(run, reader.hit) /\ ToSet(run) = {c} \cup ToSet(reader.run)
  BY <1>1, <1>6, <1>9, <1>10
<1> QED BY <1>1, <1>7, <1>8, <1>11, LongerWalksKeep

LEMMA FinishKeeps ==
    ASSUME Inv, Finish
    PROVE  Inv'
<1>1. reader' = AtRest /\ UNCHANGED <<durable, store, listed, mapped, ingests>>
  BY DEF Finish, Reads
<1>2. TypeOK' /\ Proper(store.nodes)'
  BY <1>1, AtRestIsTyped DEF Inv, TypeOK, Proper
<1> QED BY <1>1, <1>2, AtRestIsFine

\* The places tried are those around the hit, each once.
LEMMA PlacesTried ==
    ASSUME reader.hit.place \in Int, NEW p \in Int
    PROVE  (\E n \in 1..2 * Neighbours : p = Tried(n)) <=>
             /\ p # reader.hit.place
             /\ p \in reader.hit.place - Neighbours..reader.hit.place + Neighbours
<1> DEFINE place == reader.hit.place
<1>1. place \in Int /\ Neighbours \in Nat
  BY SearchAssumption
<1>2. \A n \in Nat : Tried(n) = IF n % 2 = 1 THEN place - (n + 1) \div 2 ELSE place + n \div 2
  BY DEF Tried
<1> HIDE DEF place
<1>3. ASSUME NEW n \in 1..2 * Neighbours, p = Tried(n)
      PROVE  p # place /\ p \in place - Neighbours..place + Neighbours
  <2>1. n \in Nat /\ n >= 1 /\ n <= 2 * Neighbours
    BY <1>1
  <2>2. CASE n % 2 = 1
    <3>1. p = place - (n + 1) \div 2
      BY <1>2, <1>3, <2>1, <2>2
    <3>2. (n + 1) \div 2 \in 1..Neighbours
      BY <1>1, <2>1, <2>2
    <3> QED BY <1>1, <3>1, <3>2
  <2>3. CASE n % 2 # 1
    <3>1. p = place + n \div 2
      BY <1>2, <1>3, <2>1, <2>3
    <3>2. n \div 2 \in 1..Neighbours
      BY <1>1, <2>1, <2>3
    <3> QED BY <1>1, <3>1, <3>2
  <2> QED BY <2>2, <2>3
<1>4. ASSUME p # place, p \in place - Neighbours..place + Neighbours
      PROVE  \E n \in 1..2 * Neighbours : p = Tried(n)
  <2>1. CASE p < place
    <3> DEFINE d == place - p
               n == 2 * d - 1
    <3>1. d \in 1..Neighbours /\ p = place - d
      BY <1>1, <1>4, <2>1
    <3> HIDE DEF d
    <3>2. n \in 1..2 * Neighbours /\ n \in Nat /\ n % 2 = 1 /\ (n + 1) \div 2 = d
      BY <1>1, <3>1
    <3> HIDE DEF n
    <3> QED BY <1>2, <3>1, <3>2
  <2>2. CASE p > place
    <3> DEFINE d == p - place
               n == 2 * d
    <3>1. d \in 1..Neighbours /\ p = place + d
      BY <1>1, <1>4, <2>2
    <3> HIDE DEF d
    <3>2. n \in 1..2 * Neighbours /\ n \in Nat /\ n % 2 # 1 /\ n \div 2 = d
      BY <1>1, <3>1
    <3> HIDE DEF n
    <3> QED BY <1>2, <3>1, <3>2
  <2> QED BY <2>1, <2>2, <1>1, <1>4
<1> QED BY <1>3, <1>4 DEF place

LEMMA AnswerKeeps ==
    ASSUME Inv, Answer
    PROVE  Inv'
<1>1. /\ TypeOK /\ Proper(store.nodes) /\ Reading /\ reader.pc = "window"
      /\ UNCHANGED <<durable, store, listed, mapped, ingests>>
  BY DEF Inv, Answer, Reads
<1>2. /\ IsRun(reader.run, reader.hit) /\ reader.run \in Seq(Chunks)
      /\ reader.hit \in Chunks /\ reader.passage = <<>>
      /\ reader.count = Count(listed) /\ reader.beside \subseteq Chunks
      /\ reader.tried = 2 * Neighbours
  BY <1>1, ReaderFacts DEF Reading, Walking, TypeOK
<1>3. PICK run, hit, place, first, last :
        /\ run = reader.run /\ hit = reader.hit /\ place = reader.hit.place
        /\ first = First /\ last = End
  OBVIOUS
<1>4. /\ Len(run) \in 1..MaxChunks /\ DOMAIN run = 1..Len(run)
      /\ first = Head(run).place /\ Head(run) = run[1]
      /\ first \in Nat /\ last \in 0..MaxChunks - 1 /\ place \in Nat
      /\ last = first + Len(run) - 1
      /\ first <= place /\ place <= last
  <2>1. run \in Seq(Chunks) /\ IsRun(run, hit)
        /\ place = hit.place /\ first = Head(run).place /\ last = Last(run).place
    BY <1>2, <1>3 DEF First, End
  <2>2. /\ Len(run) \in 1..MaxChunks
        /\ DOMAIN run = 1..Len(run)
        /\ Head(run) = run[1]
        /\ Head(run).place \in 0..MaxChunks - 1
        /\ Last(run).place = Head(run).place + Len(run) - 1
        /\ Last(run).place \in 0..MaxChunks - 1
        /\ Head(run).place <= hit.place /\ hit.place <= Last(run).place
        /\ hit \in Chunks
    BY <2>1, RunFacts
  <2>3. hit.place \in 0..MaxChunks - 1
    BY <2>2, ChunkFacts
  <2> QED BY <2>1, <2>2, <2>3, SearchAssumption
<1>5. PICK w : w = Window(first, last, place)
  OBVIOUS
<1>6. /\ w.start \in first..place
      /\ w.end \in place..last
      /\ w.end - w.start + 1 = Min({Ceiling, last - first + 1})
  <2>1. first \in Int /\ last \in Int /\ place \in Int /\ first <= place /\ place <= last
    BY <1>4
  <2> QED BY ONLY <1>5, <2>1, WindowIsCentred
<1>7. PICK a, b, size : a = w.start - first + 1 /\ b = w.end - first + 1
                        /\ size = last - first + 1
  OBVIOUS
<1>8. /\ a \in 1..Len(run) /\ b \in 1..Len(run) /\ a <= b /\ b - a + 1 = w.end - w.start + 1
      /\ first + a - 1 = w.start /\ first + b - 1 = w.end
      /\ size \in 0..MaxChunks
  <2>1. first \in Int /\ last \in Int /\ Len(run) \in Int /\ w.start \in Int /\ w.end \in Int
        /\ first <= w.start /\ w.start <= w.end /\ w.end <= last
        /\ last = first + Len(run) - 1 /\ first >= 0 /\ last <= MaxChunks - 1
        /\ Len(run) >= 1
    BY <1>4, <1>6
  <2>2. a \in Int /\ b \in Int /\ size \in Int
    BY <1>7, <2>1
  <2>3. a \in 1..Len(run) /\ b \in 1..Len(run) /\ a <= b
    <3> DEFINE start == w.start
               end == w.end
               length == Len(run)
    <3>1. /\ a = start - first + 1 /\ b = end - first + 1
          /\ start \in Int /\ end \in Int /\ first \in Int /\ last \in Int /\ length \in Int
          /\ first <= start /\ start <= end /\ end <= last /\ last = first + length - 1
      BY <1>7, <2>1, Zenon
    <3> HIDE DEF start, end, length
    <3>2. a \in 1..length /\ b \in 1..length /\ a <= b
      BY ONLY <3>1
    <3> QED BY <3>2 DEF length
  <2>4. /\ b - a + 1 = w.end - w.start + 1
        /\ first + a - 1 = w.start /\ first + b - 1 = w.end
    <3> DEFINE start == w.start
               end == w.end
    <3>1. start \in Int /\ end \in Int /\ first \in Int
          /\ a = start - first + 1 /\ b = end - first + 1
      BY <1>7, <2>1
    <3> HIDE DEF start, end
    <3>2. b - a + 1 = end - start + 1 /\ first + a - 1 = start /\ first + b - 1 = end
      BY ONLY <3>1
    <3> QED BY <3>2 DEF start, end
  <2>5. size \in 0..MaxChunks
    <3>1. MaxChunks \in Int
      BY SearchAssumption
    <3> QED BY ONLY <1>7, <2>1, <2>2, <3>1
  <2> QED BY <2>3, <2>4, <2>5
<1>9. PICK passage : passage = SubSeq(run, a, b)
  OBVIOUS
<1>10. /\ passage \in Seq(Chunks)
       /\ Len(passage) = b - a + 1
       /\ ToSet(passage) \subseteq ToSet(run)
       /\ \A k \in DOMAIN passage :
            passage[k].place = passage[1].place + k - 1 /\ passage[k].lead = hit.lead
       /\ {chunk.place : chunk \in ToSet(passage)} =
            Head(run).place + a - 1..Head(run).place + b - 1
       /\ hit.place \in Head(run).place + a - 1..Head(run).place + b - 1 =>
            hit \in ToSet(passage)
  <2>1. run \in Seq(Chunks) /\ IsRun(run, hit)
    BY <1>2, <1>3
  <2>2. a \in 1..Len(run) /\ b \in 1..Len(run) /\ a <= b
    BY <1>8
  <2>3. PartOfRun(passage, run, hit, a, b)
    BY ONLY <1>9, <2>1, <2>2, PartOfARun
  <2> QED BY <2>3 DEF PartOfRun
<1>11. /\ {chunk.place : chunk \in ToSet(passage)} = w.start..w.end
       /\ hit \in ToSet(passage)
       /\ Len(passage) = Min({Ceiling, size})
  <2>1. Head(run).place + a - 1 = w.start /\ Head(run).place + b - 1 = w.end
    BY <1>4, <1>8
  <2>2. hit.place \in w.start..w.end
    BY <1>3, <1>4, <1>6
  <2>3. Len(passage) = w.end - w.start + 1
    BY <1>8, <1>10
  <2> QED BY <2>1, <2>2, <2>3, <1>6, <1>7, <1>10, Zenon
<1>12. reader' = [reader EXCEPT !.pc = "answered", !.size = size, !.passage = passage]
  BY <1>3, <1>5, <1>7, <1>9 DEF Answer, Reads
<1>13. /\ reader' \in Readers
       /\ reader'.pc = "answered"
       /\ reader'.size = size /\ reader'.passage = passage
       /\ reader'.hit = reader.hit /\ reader'.count = reader.count
       /\ reader'.tried = reader.tried /\ reader'.beside = reader.beside
       /\ reader'.run = reader.run
       /\ reader'.disturbed = reader.disturbed
  BY <1>1, <1>8, <1>10, <1>12, Answers
<1>14. TypeOK'
  BY <1>1, <1>13 DEF TypeOK
<1>15. Reading'
  BY <1>2, <1>13 DEF Reading, Walking
<1>16. /\ \A c \in Chunks : AsStored(c)' = AsStored(c)
       /\ Proper(store.nodes)'
  BY <1>1, <1>13, SameReads
<1>17. ToSet(run) \subseteq Chunks
  BY <1>2, <1>3 DEF ToSet
<1>18. ~reader.disturbed => /\ AsStored(hit)
                            /\ \A chunk \in reader.beside : AsStored(chunk)
                            /\ \A chunk \in ToSet(run) : AsStored(chunk)
  BY <1>1, <1>3 DEF Inv, ReadAsStored, Undisturbed, Walking
<1>19. ReadAsStored'
  <2> SUFFICES ASSUME ~reader.disturbed PROVE ReadAsStored'
    BY <1>13 DEF ReadAsStored, Undisturbed
  <2>1. /\ \A chunk \in ToSet(run) : AsStored(chunk)'
        /\ \A chunk \in reader.beside : AsStored(chunk)'
    BY <1>2, <1>16, <1>17, <1>18
  <2>2. AsStored(reader.hit)'
    BY <1>1, <1>3, <1>13, <1>18 DEF AsStored, Held, Node
  <2> QED BY <2>1, <2>2, <1>3, <1>10, <1>13 DEF ReadAsStored
<1>20. NothingMissed'
  BY <1>13 DEF NothingMissed, Walking
<1>21. PassageHoldsTogether'
  BY <1>3, <1>10, <1>11, <1>13 DEF PassageHoldsTogether
<1>22. AnswerIsThePassage'
  <2> SUFFICES ASSUME ~reader.disturbed, store.nodes = listed
               PROVE  AnswerIsThePassage'
    BY <1>1, <1>13 DEF AnswerIsThePassage, Current
  <2>1. PICK nodes : nodes = store.nodes
    OBVIOUS
  <2>2. Count(nodes) \in Nat /\ \A p \in Int : Held(p) <=> p \in 0..Count(nodes) - 1
    BY <1>1, <2>1, IngestionFacts DEF Held, TypeOK
  <2>3. ASSUME NEW p \in Int, Held(p)
        PROVE  Node(p).lead = nodes.leads[p + 1]
    BY <1>1, <2>1, <2>3, NodeIsAChunk DEF TypeOK
  <2>4. hit.lead = nodes.leads[place + 1] /\ Held(place)
    <3>1. Held(place) /\ hit = Node(place)
      BY <1>3, <1>18 DEF AsStored
    <3> QED BY <3>1, <2>3, <1>4
  <2>5. ASSUME NEW p \in first..last
        PROVE  Held(p) /\ nodes.leads[p + 1] = hit.lead
    <3> DEFINE k == p - first + 1
    <3>1. k \in DOMAIN run /\ run[1].place + k - 1 = p /\ p \in Int
      BY <1>4
    <3> HIDE DEF k
    <3>2. run[k] \in ToSet(run) /\ run[k].place = p /\ run[k].lead = hit.lead
      BY <3>1, <1>2, <1>3 DEF IsRun, ToSet
    <3>3. Held(p) /\ run[k] = Node(p)
      BY <3>2, <1>18 DEF AsStored
    <3> QED BY <3>1, <3>2, <3>3, <2>3
  <2>6. last < Count(nodes)
    BY <1>4, <2>2, <2>5
  <2>7. ~JoinsBack /\ ~JoinsOn
    BY <1>1 DEF Inv, NothingMissed, Undisturbed
  <2>8. first > 0 => nodes.leads[first] # nodes.leads[place + 1]
    <3> SUFFICES ASSUME first > 0 PROVE nodes.leads[first] # hit.lead
      BY <2>4
    <3>1. Held(first - 1) /\ first - 1 \in Int /\ (first - 1) + 1 = first
      BY <1>4, <2>2, <2>6
    <3>2. ~Belongs(first - 1)
      BY <2>7, <1>3 DEF JoinsBack
    <3>3. Node(first - 1).lead # hit.lead
      BY <3>1, <3>2, <1>3 DEF Belongs
    <3> QED BY <3>1, <3>3, <2>3
  <2>9. last + 1 < Count(nodes) => nodes.leads[last + 2] # nodes.leads[place + 1]
    <3> SUFFICES ASSUME last + 1 < Count(nodes) PROVE nodes.leads[last + 2] # hit.lead
      BY <2>4
    <3>1. Held(last + 1) /\ last + 1 \in Int /\ (last + 1) + 1 = last + 2
      BY <1>4, <2>2
    <3>2. ~Belongs(last + 1)
      BY <2>1, <2>7, <1>2, <1>3 DEF JoinsOn
    <3>3. Node(last + 1).lead # hit.lead
      BY <3>1, <3>2, <1>3 DEF Belongs
    <3> QED BY <3>1, <3>3, <2>3
  <2>10. first \in Nat /\ last \in Nat /\ place \in Nat
    BY <1>4
  <2>11. SectionOf(nodes, place) = first..last
    <3>1. \A p \in first..last : nodes.leads[p + 1] = nodes.leads[place + 1]
      BY <2>4, <2>5
    <3>2. Count(nodes) \in Nat /\ first <= place /\ place <= last
      BY <1>4, <2>2
    <3> QED BY ONLY <3>1, <3>2, <2>6, <2>8, <2>9, <2>10, SectionIsTheRun
  <2>12. size = Cardinality(first..last)
    <3>1. first \in Int /\ last \in Int /\ first <= last
      BY <1>4
    <3> QED BY <3>1, <1>7, IntervalEnds
  <2>13. PICK cut : cut = w.start..w.end
    OBVIOUS
  <2>14. /\ cut \in Cuts(first..last, place)
         /\ \A other \in Cuts(first..last, place) :
              OffCentre(cut, place) <= OffCentre(other, place)
    BY <1>4, <1>5, <2>10, <2>13, WindowIsTheCut
  <2>15. {chunk.place : chunk \in reader.beside} =
           {p \in 0..Count(listed) - 1 :
              p # place /\ p \in place - Neighbours..place + Neighbours}
    <3>1. {chunk.place : chunk \in reader.beside} =
            {p \in 0..Count(listed) - 1 : \E n \in 1..2 * Neighbours : p = Tried(n)}
      BY <1>1, <1>2 DEF Inv, NothingMissed, Undisturbed, Walking
    <3>2. \A p \in 0..Count(listed) - 1 : p \in Int
      OBVIOUS
    <3>3. place \in Int
      BY <1>4
    <3>4. \A p \in 0..Count(listed) - 1 :
            (\E n \in 1..2 * Neighbours : p = Tried(n)) <=>
              p # place /\ p \in place - Neighbours..place + Neighbours
      BY <1>3, <3>2, <3>3, PlacesTried
    <3> QED BY <3>1, <3>4
  <2>16. /\ reader'.hit.place = place /\ store'.nodes = nodes /\ listed' = listed
         /\ {chunk.place : chunk \in ToSet(reader'.passage)} = cut
         /\ reader'.size = size /\ reader'.beside = reader.beside
    BY <1>1, <1>3, <1>11, <1>13, <2>1, <2>13
  <2> QED BY <2>11, <2>12, <2>14, <2>15, <2>16, Zenon DEF AnswerIsThePassage
<1> QED BY <1>14, <1>15, <1>16, <1>19, <1>20, <1>21, <1>22 DEF Inv

-----------------------------------------------------------------------------
(* The theorems.                                                           *)

LEMMA InvIsInductive == Inv /\ [Next]_vars => Inv'
<1> SUFFICES ASSUME Inv, [Next]_vars PROVE Inv'
  OBVIOUS
<1>1. CASE Next
  <2>1. CASE \E leads \in BoundedSeq(Leads, MaxChunks) :
               \/ IngestHere(leads) \/ FailDurably(leads) \/ FailInMemory(leads)
               \/ IngestElsewhere(leads)
    BY <2>1, WritersKeep, IngestElsewhereKeeps
  <2>2. CASE Refresh \/ Restart
    BY <2>2, RefreshingKeeps
  <2>3. CASE \E place \in Places : Retrieve(place)
    BY <2>3, RetrieveKeeps
  <2>4. CASE Read
    BY <2>4, PlaceKeeps, UnplacedKeeps, BesideKeeps, GoingOnKeeps, WalkBackKeeps,
       WalkOnKeeps, AnswerKeeps, FinishKeeps DEF Read
  <2> QED BY <1>1, <2>1, <2>2, <2>3, <2>4 DEF Next
<1>2. CASE UNCHANGED vars
  <2>1. /\ TypeOK' /\ Proper(store.nodes)' /\ Reading'
    BY <1>2 DEF vars, Inv, TypeOK, Proper, Reading, Walking
  <2>2. ReadAsStored' /\ NothingMissed'
    BY <1>2 DEF vars, Inv, ReadAsStored, NothingMissed, Walking, Undisturbed, AsStored, Held,
       Node, JoinsBack, JoinsOn, Belongs, First, End, Tried
  <2>3. PassageHoldsTogether' /\ AnswerIsThePassage'
    BY <1>2 DEF vars, Inv, PassageHoldsTogether, AnswerIsThePassage, Answered, Current,
       Undisturbed, Held, Node, JoinsBack, JoinsOn, Belongs
  <2> QED BY <2>1, <2>2, <2>3 DEF Inv
<1> QED BY <1>1, <1>2

THEOREM InvAlways == Spec => []Inv
<1>1. Init => Inv
  BY Starts
<1>2. Inv /\ [Next]_vars => Inv'
  BY InvIsInductive
<1> QED BY <1>1, <1>2, PTL DEF Spec

\* What is stored, listed and read is always of its type.
THEOREM TypeCorrect == Spec => []TypeOK
<1>1. Inv => TypeOK
  BY DEF Inv
<1> QED BY <1>1, InvAlways, PTL

\* An undisturbed search of a source stored and listed whole answers with the
\* section of its hit or the most centred part of it that the ceiling allows,
\* and with every neighbour asked for (pipeline.py _section, _section_window).
THEOREM AnswerIsTheSection == Spec => []AnswerIsThePassage
<1>1. Inv => AnswerIsThePassage
  BY DEF Inv
<1> QED BY <1>1, InvAlways, PTL

\* Whatever is committed between the reads of a search, its passage is one run
\* of consecutive places around its hit (pipeline.py _section).
THEOREM PassagesHoldTogether == Spec => []PassageHoldsTogether
<1>1. Inv => PassageHoldsTogether
  BY DEF Inv
<1> QED BY <1>1, InvAlways, PTL

\* An answer no other instance disturbed is of one ingestion (pipeline.py search,
\* which holds _index_lock for as long as it reads).
THEOREM AnswersAreOfOneIngestion == Spec => []AnswersOneIngestion
<1>1. Inv => AnswersOneIngestion
  <2> SUFFICES ASSUME Inv, Answered, ~reader.disturbed,
                      NEW chunk \in ToSet(reader.passage) \cup reader.beside
               PROVE  chunk.nth = reader.hit.nth
    BY DEF AnswersOneIngestion
  <2>1. AsStored(chunk) /\ AsStored(reader.hit)
    BY DEF Inv, ReadAsStored, Undisturbed, Answered
  <2>2. \A c : AsStored(c) => c.nth = store.nodes.nth
    BY DEF AsStored, Node, Chunk
  <2> QED BY <2>1, <2>2
<1> QED BY <1>1, InvAlways, PTL
=============================================================================
