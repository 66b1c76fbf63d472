------------------------------ MODULE Chunking ------------------------------
(***************************************************************************)
(* How a document becomes the nodes a source stores (pipeline.py _chunk):  *)
(* its sections give the first nodes, a loop folds those below the floor   *)
(* into a neighbour, and repeated texts collapse.                          *)
(*                                                                         *)
(* A text is the sequence of the headings and units written in it, and its *)
(* size in tokens is the sum of theirs and of what the model adds.         *)
(***************************************************************************)
EXTENDS Integers, Sequences, FiniteSets, SequencesExt, FiniteSetsExt

CONSTANTS
    Headings,     \* heading lines
    Contents,     \* units: paragraphs, tables, or the pieces of one
    Cost,         \* the tokens of a heading or a unit
    Special,      \* the tokens the model adds to any text
    Pieces,       \* unit -> what the splitter divides it into
    Floor,        \* min_chunk_tokens
    Cap,          \* chunk_size
    Ceiling,      \* the model's input limit
    MaxSections,  \* most sections of a document (a bound)
    MaxUnits      \* most units of a section (a bound)

NoHeading == "none"

ASSUME ChunkingAssumption ==
    /\ NoHeading \notin Headings
    /\ Headings \cap Contents = {}
    /\ Cost \in [Headings \cup Contents -> Nat \ {0}]
    /\ {Special, Floor, Cap, Ceiling, MaxSections, MaxUnits} \subseteq Nat
    /\ Pieces \in [Contents -> Seq(Contents)]
    /\ Cap <= Ceiling

VARIABLES
    doc,       \* the document, as its sections
    texts,     \* the nodes' texts, in reading order
    origins,   \* the section each text came from
    index,     \* the text the loop is at
    refusals,  \* fragments no merge was legal for
    pc         \* "floor", "collapse" or "done"

vars == <<doc, texts, origins, index, refusals, pc>>

-----------------------------------------------------------------------------
(* Texts.                                                                  *)

Text == Seq(Headings \cup Contents)
Size(text) == FoldLeft(LAMBDA sum, part : sum + Cost[part], Special, text)
Leading(text) == IF text # <<>> /\ Head(text) \in Headings THEN Head(text) ELSE NoHeading

\* _without_repeated_heading.
Repeats(earlier, later) ==
    /\ Leading(later) # NoHeading
    /\ Leading(later) = Leading(earlier)
    /\ Len(later) > 1

\* Mutant: the first line goes, whatever it is.
JoinHeadless(earlier, later) == earlier \o Tail(later)
Join(earlier, later) ==
    earlier \o (IF Repeats(earlier, later) THEN Tail(later) ELSE later)

-----------------------------------------------------------------------------
(* _split_sections and _section_nodes: a unit is a node under its heading, *)
(* and one too wide for the cap is divided.  A heading without units       *)
(* leaves no node.                                                         *)

Sections == [heading : Headings \cup {NoHeading}, units : BoundedSeq(Contents, MaxUnits)]

\* Only what comes before the first heading has none, and then it is not empty.
Documents ==
    {d \in BoundedSeq(Sections, MaxSections) :
        \A n \in DOMAIN d : d[n].heading = NoHeading => n = 1 /\ d[n].units # <<>>}

Under(heading, unit) == IF heading = NoHeading THEN <<unit>> ELSE <<heading, unit>>

UnitNodes(heading, unit) ==
    IF Size(Under(heading, unit)) <= Cap
    THEN <<Under(heading, unit)>>
    ELSE [k \in DOMAIN Pieces[unit] |-> Under(heading, Pieces[unit][k])]

\* The splitter is given what the heading leaves of the cap, and _bounded_parts
\* cuts what still exceeds it.
ASSUME PiecesFit ==
    \A heading \in Headings \cup {NoHeading}, unit \in Contents :
        \A k \in DOMAIN Pieces[unit] : Size(Under(heading, Pieces[unit][k])) <= Cap

SectionNodes(s) == FlattenSeq([k \in DOMAIN s.units |-> UnitNodes(s.heading, s.units[k])])
Nodes(d) == FlattenSeq([n \in DOMAIN d |-> SectionNodes(d[n])])
Origins(d) == FlattenSeq([n \in DOMAIN d |-> [k \in DOMAIN SectionNodes(d[n]) |-> n]])

TypeOK ==
    /\ texts \in Seq(Text)
    /\ origins \in Seq(DOMAIN doc)
    /\ pc = "floor" => Len(origins) = Len(texts)
    /\ index \in Nat \ {0}
    /\ pc = "floor" => index <= Len(texts) + 1
    /\ refusals \in 0..index - 1
    /\ pc \in {"floor", "collapse", "done"}

Init ==
    /\ doc \in Documents
    /\ texts = Nodes(doc)
    /\ origins = Origins(doc)
    /\ index = 1
    /\ refusals = 0
    /\ pc = "floor"

-----------------------------------------------------------------------------
(* _merge_below_floor, one turn of its loop at a time.                     *)

Looping == pc = "floor" /\ Len(texts) # 1 /\ index <= Len(texts)
Small(n) == Size(texts[n]) < Floor

Lower(n, m) == IF n < m THEN n ELSE m
Joined(n, m) == IF n < m THEN Join(texts[n], texts[m]) ELSE Join(texts[m], texts[n])

\* Mutant: the size of the joined text is not looked at.
LegalAtAnySize(n) == {m \in {n - 1, n + 1} : m \in DOMAIN texts}
Legal(n) == {m \in {n - 1, n + 1} : m \in DOMAIN texts /\ Size(Joined(n, m)) <= Ceiling}

\* A neighbour of the same section is offered first, then the one before.
Offer(n, m) == (IF origins[m] # origins[n] THEN 2 ELSE 0) + (IF m > n THEN 1 ELSE 0)
Chosen(n) == CHOOSE m \in Legal(n) : \A k \in Legal(n) : Offer(n, m) <= Offer(n, k)

Keep ==
    /\ Looping
    /\ ~Small(index)
    /\ index' = index + 1
    /\ UNCHANGED <<doc, texts, origins, refusals, pc>>

\* Mutant: the sections are not shrunk in the same places.
FoldTexts(n, text) ==
    /\ texts' = RemoveAt(ReplaceAt(texts, n, text), n + 1)
    /\ origins' = origins

\* The merged text takes the earlier one's place and its section.
Fold(n, text) ==
    /\ texts' = RemoveAt(ReplaceAt(texts, n, text), n + 1)
    /\ origins' = RemoveAt(origins, n + 1)

\* Where the loop goes on after a merge: it looks at the text that grew again.
\* Mutant: it goes on behind it.
Behind(n, m) == Lower(n, m) + 1
Again(n, m) == Lower(n, m)

Merge ==
    /\ Looping
    /\ Small(index)
    /\ Legal(index) # {}
    /\ LET m == Chosen(index) IN
         /\ Fold(Lower(index, m), Joined(index, m))
         /\ index' = Again(index, m)
    /\ UNCHANGED <<doc, refusals, pc>>

\* Mutant: a fragment that is refused is offered again.
RefuseForEver ==
    /\ Looping
    /\ Small(index)
    /\ Legal(index) = {}
    /\ UNCHANGED vars
Refuse ==
    /\ Looping
    /\ Small(index)
    /\ Legal(index) = {}
    /\ refusals' = refusals + 1
    /\ index' = index + 1
    /\ UNCHANGED <<doc, texts, origins, pc>>

Stop ==
    /\ pc = "floor"
    /\ ~Looping
    /\ pc' = "collapse"
    /\ UNCHANGED <<doc, texts, origins, index, refusals>>

\* _dedupe_texts: the first of equal texts is kept, and what is left is numbered.
Firsts == {n \in DOMAIN texts : \A m \in 1..n - 1 : texts[m] # texts[n]}

Collapse ==
    /\ pc = "collapse"
    /\ texts' = [k \in 1..Cardinality(Firsts) |->
                   texts[CHOOSE n \in Firsts : Cardinality({m \in Firsts : m <= n}) = k]]
    /\ pc' = "done"
    /\ UNCHANGED <<doc, origins, index, refusals>>

Next == Keep \/ Merge \/ Refuse \/ Stop \/ Collapse

Spec == Init /\ [][Next]_vars /\ WF_vars(Next)

-----------------------------------------------------------------------------
(* Properties.                                                             *)

\* A text as a reader takes it: each unit, and the heading nearest above it.
HeadingAbove(text, k) ==
    LET above == {j \in 1..k - 1 : text[j] \in Headings} IN
    IF above = {} THEN NoHeading ELSE text[Max(above)]

Reading(text) ==
    FlattenSeq([k \in DOMAIN text |->
        IF text[k] \in Contents THEN <<[unit |-> text[k], under |-> HeadingAbove(text, k)]>>
        ELSE <<>>])

Readings(ts) == FlattenSeq([n \in DOMAIN ts |-> Reading(ts[n])])
UnitsOf(text) ==
    FlattenSeq([k \in DOMAIN text |-> IF text[k] \in Contents THEN <<text[k]>> ELSE <<>>])
Units(ts) == FlattenSeq([n \in DOMAIN ts |-> UnitsOf(ts[n])])

HeadingsDiffer ==
    \A n, m \in DOMAIN doc : doc[n].heading = doc[m].heading => n = m

\* The floor loses and reorders no unit, and leaves every unit below the heading
\* it was written under where no heading of the document repeats
\* (pipeline.py _merge_below_floor: "nothing is dropped to satisfy the floor").
ContentIsKept ==
    pc \in {"floor", "collapse"} =>
        /\ Units(texts) = Units(Nodes(doc))
        /\ HeadingsDiffer => Readings(texts) = Readings(Nodes(doc))

\* No node is longer than the model reads, however often it grew.
WithinCeiling == \A n \in DOMAIN texts : Size(texts[n]) <= Ceiling

\* The floor is a fixpoint: what is left below it can be merged with neither
\* neighbour, though both may have grown since it was refused, and the reported
\* refusals are exactly those texts.
FloorIsReached ==
    pc = "collapse" /\ Len(texts) > 1 =>
        LET below == {n \in DOMAIN texts : Small(n)} IN
        /\ \A n \in below : Legal(n) = {}
        /\ refusals = Cardinality(below)

\* The loop, which steps back as well as forward, ends.
ChunkingEnds == <>(pc = "done")
=============================================================================
