------------------------------- MODULE Layout -------------------------------
(***************************************************************************)
(* The first half of chunking (pipeline.py _split_sections, then           *)
(* _section_nodes): a document is read line by line into sections and      *)
(* units, and each unit becomes nodes no longer than the cap.  Chunking    *)
(* takes up the nodes from there.                                          *)
(*                                                                         *)
(* A line is its number in the document, and a text a sequence of tokens.  *)
(* A token that a cut inside a word leaves at the head of a text is        *)
(* counted as two, its halves: such a cut can cost a token.                *)
(***************************************************************************)
EXTENDS Integers, Sequences, FiniteSets, SequencesExt, FiniteSetsExt

CONSTANTS
    Documents,  \* the documents laid out, each a sequence of kinds of line
    MaxLines,   \* a bound on their lines
    Headings,   \* the kinds that are a heading where no fence is open
    Fences,     \* those that open or close a fence
    Blanks,     \* those with nothing on them
    Rows,       \* rows of a table
    Rules,      \* the rows that underline a table's header
    Words,      \* the tokens of each word of a line of each kind
    Special,    \* the tokens the model adds to any text
    Overlap,    \* chunk_overlap
    Cap         \* chunk_size

ASSUME LayoutAssumption ==
    /\ MaxLines \in Nat
    /\ \A d \in Documents : d \in Seq(DOMAIN Words) /\ Len(d) <= MaxLines
    /\ \A kind \in DOMAIN Words : Words[kind] \in Seq(Nat \ {0})
    /\ \A kind \in Headings \cup Fences \cup Rows \cup Rules : Words[kind] # <<>>
    \* A fence begins with its marks, a heading with a #, and a blank with nothing.
    /\ Headings \cap Fences = {} /\ Blanks \cap (Headings \cup Fences) = {}
    /\ {Special, Overlap, Cap} \subseteq Nat
    /\ Special < Cap /\ Overlap <= Cap

VARIABLES
    doc,       \* the document
    read,      \* how many of its lines are read
    fenced,    \* whether a fence is open
    heading,   \* the line of the heading that is open, or 0
    kind,      \* what the unit that is open is made of
    lines,     \* its lines
    units,     \* the units of the section that is open
    sections,  \* the sections that are closed
    todo,      \* the units still to lay out
    rows,      \* the rows collected for the next part of a table
    row,       \* the row of it that is next
    parts,     \* texts still to be bounded
    pieces,    \* texts that are
    nodes,     \* the nodes laid out
    pc         \* what is going on

vars == <<doc, read, fenced, heading, kind, lines, units, sections, todo, rows, row,
          parts, pieces, nodes, pc>>
reading == <<read, fenced, heading, kind, lines, units, sections>>
dividing == <<rows, row, parts, pieces>>

-----------------------------------------------------------------------------
(* Texts and their tokens.                                                 *)

Halves == {"both", "first", "second"}
TokensOf(ns) == [line : ns, word : Nat, nth : Nat, half : Halves]

Written(n, words) ==
    FlattenSeq([w \in DOMAIN words |->
        [t \in 1..words[w] |-> [line |-> n, word |-> w, nth |-> t, half |-> "both"]]])

\* Each kind of line in each place, so that a text is looked up.
Lines == 1..MaxLines
Texts == [n \in Lines |-> [k \in DOMAIN Words |-> Written(n, Words[k])]]
LineText(n) == Texts[n][doc[n]]
\* _canonical_separator: a header's underline in its shortest form.
Canonical(n) == Written(n, <<1>>)

Size(text) == Special + Len(text)

\* The members of a set of numbers, in order.
Sorted(ns) ==
    [k \in 1..Cardinality(ns) |-> CHOOSE n \in ns : Cardinality({m \in ns : m <= n}) = k]

\* A slice as the tokenizer reads it.
Halved(token) == <<[token EXCEPT !.half = "first"], [token EXCEPT !.half = "second"]>>
ReadAgain(text) ==
    IF Head(text).nth > 1 /\ Head(text).half = "both"
    THEN Halved(Head(text)) \o Tail(text) ELSE text

\* Whether a space, and not a new line, is before the token at k.
AfterSpace(text, k) ==
    /\ text[k].nth = 1
    /\ text[k].half # "second"
    /\ text[k].word > 1
    /\ text[k - 1].line = text[k].line

\* _split_oversized_text: slices of at most budget tokens, which end where a word
\* does if one ends within them.
Cut(text, budget) ==
    LET count == Len(text)
        LastOf(j) ==
            LET stop   == Min({j + budget - 1, count})
                breaks == {k \in j + 1..stop : AfterSpace(text, k)}
            IN IF stop < count /\ breaks # {} THEN Max(breaks) - 1 ELSE stop
        From[j \in 1..count + 1] ==
            IF j > count THEN <<>>
            ELSE <<ReadAgain(SubSeq(text, j, LastOf(j)))>> \o From[LastOf(j) + 1]
    IN IF count <= budget THEN <<text>> ELSE From[1]

-----------------------------------------------------------------------------
(* _split_sections.                                                        *)

Units == [heading : Nat, kind : {"prose", "table"}, lines : Seq(Nat)]
Sections == [heading : Nat, units : Seq(Units)]
PCs == {"lines", "units", "rows", "bound", "done", "refused", "raised"}

TypeOK ==
    /\ read \in 0..Len(doc)
    /\ fenced \in BOOLEAN
    /\ heading \in 0..read
    /\ kind \in {"none", "prose", "table"}
    /\ kind = "none" <=> lines = <<>>
    /\ lines \in Seq(1..read)
    /\ units \in Seq(Units)
    /\ sections \in Seq(Sections)
    /\ todo \in Seq(Units)
    /\ pc \in PCs
    /\ pc \in {"rows", "bound", "refused", "raised"} => todo # <<>>
    /\ pc = "rows" => row \in 1..Len(Head(todo).lines) + 1
    /\ rows \in Seq(1..Len(doc))
    \* No text is empty, if each line that is not blank has a token.
    /\ \A text \in ToSet(parts) \cup ToSet(pieces) \cup {node.body : node \in ToSet(nodes)} :
          /\ text = <<>> => \E k \in DOMAIN Words \ Blanks : Words[k] = <<>>
          /\ ToSet(text) \subseteq TokensOf(1..Len(doc))

Init ==
    /\ doc \in Documents
    /\ read = 0 /\ fenced = FALSE /\ heading = 0 /\ kind = "none"
    /\ lines = <<>> /\ units = <<>> /\ sections = <<>>
    /\ todo = <<>> /\ rows = <<>> /\ row = 1 /\ parts = <<>> /\ pieces = <<>>
    /\ nodes = <<>>
    /\ pc = "lines"

\* flush_unit and flush_section.
ClosedUnits ==
    IF lines = <<>> THEN units
    ELSE Append(units, [heading |-> heading, kind |-> kind, lines |-> lines])
ClosedSections ==
    IF heading = 0 /\ ClosedUnits = <<>> THEN sections
    ELSE Append(sections, [heading |-> heading, units |-> ClosedUnits])

Reading(line) ==
    /\ pc = "lines"
    /\ read < Len(doc)
    /\ line = read + 1
    /\ read' = line
    /\ UNCHANGED <<doc, todo, dividing, nodes, pc>>

\* Mutant: a fence makes no difference.
OpenAnywhere(line) ==
    /\ Reading(line)
    /\ doc[line] \in Headings
    /\ sections' = ClosedSections
    /\ heading' = line
    /\ units' = <<>> /\ lines' = <<>> /\ kind' = "none"
    /\ UNCHANGED fenced
OpenSection(line) ==
    /\ Reading(line)
    /\ doc[line] \in Headings
    /\ ~fenced
    /\ sections' = ClosedSections
    /\ heading' = line
    /\ units' = <<>> /\ lines' = <<>> /\ kind' = "none"
    /\ UNCHANGED fenced

\* Mutant: the kind of the unit that ended is kept.
EndUnitOnly(line) ==
    /\ Reading(line)
    /\ doc[line] \in Blanks
    /\ units' = ClosedUnits
    /\ lines' = <<>> /\ kind' = kind
    /\ UNCHANGED <<fenced, heading, sections>>
EndUnit(line) ==
    /\ Reading(line)
    /\ doc[line] \in Blanks
    /\ units' = ClosedUnits
    /\ lines' = <<>> /\ kind' = "none"
    /\ UNCHANGED <<fenced, heading, sections>>

LineKind(line) == IF doc[line] \in Rows \cup Rules THEN "table" ELSE "prose"

TakeLine(line) ==
    /\ Reading(line)
    /\ doc[line] \notin Blanks
    /\ doc[line] \in Headings => fenced
    /\ fenced' = (fenced # (doc[line] \in Fences))
    /\ kind' = LineKind(line)
    /\ IF kind' = kind
       THEN lines' = Append(lines, line) /\ units' = units
       ELSE lines' = <<line>> /\ units' = ClosedUnits
    /\ UNCHANGED <<heading, sections>>

AllUnits(secs) == FlattenSeq([s \in DOMAIN secs |-> secs[s].units])

EndDocument ==
    /\ pc = "lines"
    /\ read = Len(doc)
    /\ sections' = ClosedSections
    /\ todo' = AllUnits(ClosedSections)
    /\ units' = <<>> /\ lines' = <<>> /\ kind' = "none"
    /\ pc' = "units"
    /\ UNCHANGED <<doc, read, fenced, heading, dividing, nodes>>

-----------------------------------------------------------------------------
(* _section_nodes, one unit after another.                                 *)

Unit == Head(todo)
Text(ns) == FlattenSeq([k \in DOMAIN ns |-> LineText(ns[k])])
Heading(u) == IF u.heading = 0 THEN <<>> ELSE LineText(u.heading)

\* Mutant: the heading is not spent from the cap.
CapItself(u) == Cap
\* What the heading leaves of the cap.
Limit(u) == Max({Cap - Len(Heading(u)), 1})

Node(body) == [heading |-> Unit.heading, body |-> body]
NodesOf(texts) == [k \in DOMAIN texts |-> Node(texts[k])]

Stored(texts) ==
    /\ nodes' = nodes \o NodesOf(texts)
    /\ todo' = Tail(todo)

KeepParagraph ==
    /\ pc = "units"
    /\ todo # <<>>
    /\ Unit.kind = "prose"
    /\ Size(Heading(Unit) \o Text(Unit.lines)) <= Cap
    /\ Stored(<<Text(Unit.lines)>>)
    /\ UNCHANGED <<doc, reading, dividing, pc>>

\* The sentence splitter is not built for less than what it is to repeat.
SplitterRefuses ==
    /\ pc = "units"
    /\ todo # <<>>
    /\ Unit.kind = "prose"
    /\ Size(Heading(Unit) \o Text(Unit.lines)) > Cap
    /\ Limit(Unit) < Overlap
    /\ pc' = "refused"
    /\ UNCHANGED <<doc, reading, todo, dividing, nodes>>

\* The sentence splitter, which cuts after the lines in ends; what it repeats of
\* one piece in the next is left out.
DivideParagraph(ends) ==
    /\ pc = "units"
    /\ todo # <<>>
    /\ Unit.kind = "prose"
    /\ Size(Heading(Unit) \o Text(Unit.lines)) > Cap
    /\ Limit(Unit) >= Overlap
    /\ ends \subseteq DOMAIN Unit.lines /\ Len(Unit.lines) \in ends
    /\ LET stops == Sorted(ends)
           From(k) == IF k = 1 THEN 1 ELSE stops[k - 1] + 1
       IN parts' = [k \in DOMAIN stops |-> Text(SubSeq(Unit.lines, From(k), stops[k]))]
    /\ pieces' = <<>>
    /\ pc' = "bound"
    /\ UNCHANGED <<doc, reading, todo, rows, row, nodes>>

\* _table_parts.  The header is the first row, and the underline if that is next.
Underlined(u) == IF Len(u.lines) > 1 THEN doc[u.lines[2]] \in Rules ELSE FALSE
HeadRows(u) == IF Underlined(u) THEN 2 ELSE 1
Header(u) ==
    IF Underlined(u) THEN LineText(u.lines[1]) \o Canonical(u.lines[2])
    ELSE LineText(u.lines[1])
Table(u, ns) == Header(u) \o Text(ns)
RowsOf(u) == SubSeq(u.lines, HeadRows(u) + 1, Len(u.lines))

KeepTable ==
    /\ pc = "units"
    /\ todo # <<>>
    /\ Unit.kind = "table"
    /\ Size(Table(Unit, RowsOf(Unit))) <= Limit(Unit)
    /\ Stored(<<Table(Unit, RowsOf(Unit))>>)
    /\ UNCHANGED <<doc, reading, dividing, pc>>

DivideTable ==
    /\ pc = "units"
    /\ todo # <<>>
    /\ Unit.kind = "table"
    /\ Size(Table(Unit, RowsOf(Unit))) > Limit(Unit)
    /\ row' = HeadRows(Unit) + 1
    /\ rows' = <<>> /\ parts' = <<>> /\ pieces' = <<>>
    /\ pc' = "rows"
    /\ UNCHANGED <<doc, reading, todo, nodes>>

ThisRow == Unit.lines[row]
Overfull == rows # <<>> /\ Size(Table(Unit, Append(rows, ThisRow))) > Limit(Unit)
Flushed == IF Overfull THEN Append(parts, Table(Unit, rows)) ELSE parts

\* Mutant: the header alone is spent from the limit.
AllButHeader(u) == Max({Limit(u) - Size(Header(u)), 1})
\* What the header and what the model adds leave of the limit.
RowBudget(u) == Max({Limit(u) - Size(Header(u)) - Special, 1})

TakeRow ==
    /\ pc = "rows"
    /\ row <= Len(Unit.lines)
    /\ Size(Table(Unit, <<ThisRow>>)) <= Limit(Unit)
    /\ parts' = Flushed
    /\ rows' = IF Overfull THEN <<ThisRow>> ELSE Append(rows, ThisRow)
    /\ row' = row + 1
    /\ UNCHANGED <<doc, reading, todo, pieces, nodes, pc>>

\* Mutant: the rows collected are not put before the row that is cut.
CutRowFirst ==
    /\ pc = "rows"
    /\ row <= Len(Unit.lines)
    /\ Size(Table(Unit, <<ThisRow>>)) > Limit(Unit)
    /\ \E slices \in {Cut(LineText(ThisRow), RowBudget(Unit))} :
         parts' = parts \o [k \in DOMAIN slices |-> Header(Unit) \o slices[k]]
    /\ row' = row + 1
    /\ UNCHANGED <<doc, reading, todo, rows, pieces, nodes, pc>>
\* A row too wide to stand beside the header.
CutRow ==
    /\ pc = "rows"
    /\ row <= Len(Unit.lines)
    /\ Size(Table(Unit, <<ThisRow>>)) > Limit(Unit)
    /\ \E slices \in {Cut(LineText(ThisRow), RowBudget(Unit))} :
         parts' = Flushed \o [k \in DOMAIN slices |-> Header(Unit) \o slices[k]]
    /\ rows' = IF Overfull THEN <<>> ELSE rows
    /\ row' = row + 1
    /\ UNCHANGED <<doc, reading, todo, pieces, nodes, pc>>

EndTable ==
    /\ pc = "rows"
    /\ row > Len(Unit.lines)
    /\ parts' = (IF rows # <<>> THEN Append(parts, Table(Unit, rows))
                 ELSE IF parts = <<>> THEN <<Header(Unit)>> ELSE parts)
    /\ rows' = <<>>
    /\ pc' = "bound"
    /\ UNCHANGED <<doc, reading, todo, row, pieces, nodes>>

-----------------------------------------------------------------------------
(* _bounded_parts: what is over the limit is cut, and what it is cut into  *)
(* is bounded in its turn.                                                 *)

\* Mutant: what the model adds is not spent from the budget.
WholeLimit(u) == Limit(u)
BoundBudget(u) == Max({Limit(u) - Special, 1})

PartFits ==
    /\ pc = "bound"
    /\ parts # <<>>
    /\ Size(Head(parts)) <= Limit(Unit)
    /\ pieces' = Append(pieces, Head(parts))
    /\ parts' = Tail(parts)
    /\ UNCHANGED <<doc, reading, todo, rows, row, nodes, pc>>

PartIsCut ==
    /\ pc = "bound"
    /\ parts # <<>>
    /\ Size(Head(parts)) > Limit(Unit)
    /\ Len(Head(parts)) > BoundBudget(Unit)
    /\ parts' = Cut(Head(parts), BoundBudget(Unit)) \o Tail(parts)
    /\ UNCHANGED <<doc, reading, todo, rows, row, pieces, nodes, pc>>

\* Mutant: nothing bounds the recursion.
BoundAgain ==
    /\ pc = "bound"
    /\ parts # <<>>
    /\ Size(Head(parts)) > Limit(Unit)
    /\ Len(Head(parts)) <= BoundBudget(Unit)
    /\ UNCHANGED vars
\* The cut returns the text itself, which is bounded again as it was, until Python
\* refuses to recurse further.
RecursionEnds ==
    /\ pc = "bound"
    /\ parts # <<>>
    /\ Size(Head(parts)) > Limit(Unit)
    /\ Len(Head(parts)) <= BoundBudget(Unit)
    /\ pc' = "raised"
    /\ UNCHANGED <<doc, reading, todo, dividing, nodes>>

UnitDone ==
    /\ pc = "bound"
    /\ parts = <<>>
    /\ Stored(pieces)
    /\ pieces' = <<>>
    /\ pc' = "units"
    /\ UNCHANGED <<doc, reading, rows, row, parts>>

Finish ==
    /\ pc = "units"
    /\ todo = <<>>
    /\ pc' = "done"
    /\ UNCHANGED <<doc, reading, todo, dividing, nodes>>

Next ==
    \/ \E line \in DOMAIN doc : OpenSection(line) \/ EndUnit(line) \/ TakeLine(line)
    \/ EndDocument
    \/ KeepParagraph \/ SplitterRefuses \/ KeepTable \/ DivideTable
    \/ \E ends \in SUBSET DOMAIN doc : DivideParagraph(ends)
    \/ TakeRow \/ CutRow \/ EndTable
    \/ PartFits \/ PartIsCut \/ RecursionEnds \/ UnitDone \/ Finish

Spec == Init /\ [][Next]_vars /\ WF_vars(Next)

-----------------------------------------------------------------------------
(* Properties.  First the document as a reader takes it, without the       *)
(* splitter's state.                                                       *)

InFence(n) == Cardinality({m \in 1..n - 1 : doc[m] \in Fences}) % 2 = 1
Opens(n) == doc[n] \in Headings /\ ~InFence(n)
Content == {n \in DOMAIN doc : doc[n] \notin Blanks /\ ~Opens(n)}
HeadingAbove(n) == Max({0} \cup {m \in 1..n - 1 : Opens(m)})
OneUnit(n, m) == n..m \subseteq Content /\ \A k \in n..m : LineKind(k) = LineKind(n)

\* The lines of units, one unit after another.
LinesOf(us) == FlattenSeq([k \in DOMAIN us |-> us[k].lines])

\* The sections hold the document's content, every line once, in order and under
\* the heading nearest above it, where a heading inside a fence is none; two lines
\* are one unit exactly when nothing but lines of their kind is between them; every
\* heading has its section, in order; and a section without a heading is the first
\* or is none, which is what the floor takes for granted (pipeline.py
\* _split_sections).
SectionsAreTheDocuments ==
    pc # "lines" =>
        /\ LinesOf(AllUnits(sections)) = Sorted(Content)
        /\ \A u \in ToSet(AllUnits(sections)) : \A n \in ToSet(u.lines) :
              /\ u.heading = HeadingAbove(n)
              /\ u.kind = LineKind(n)
              /\ ToSet(u.lines) = {m \in Content : OneUnit(Min({n, m}), Max({n, m}))}
        /\ {section.heading : section \in ToSet(sections)} \ {0} = {n \in DOMAIN doc : Opens(n)}
        /\ \A s, t \in DOMAIN sections : s < t => sections[s].heading < sections[t].heading
        /\ \A s \in DOMAIN sections :
              sections[s].heading = 0 => s = 1 /\ sections[s].units # <<>>

\* The lines that are a table's header.
HeaderLines ==
    UNION {{u.lines[k] : k \in 1..HeadRows(u)} :
              u \in {v \in ToSet(AllUnits(sections)) : v.kind = "table"}}

\* What of a text is not of these lines, in halves, whichever of its tokens a cut
\* has counted so.
Outside(text, ns) ==
    FlattenSeq([i \in DOMAIN text |->
        IF text[i].line \in ns THEN <<>>
        ELSE IF text[i].half = "both" THEN Halved(text[i]) ELSE <<text[i]>>])

\* Division loses nothing and reorders nothing: the nodes' texts, without the
\* headers that are repeated, read as the document's content, though rows are
\* collected, a wide one among them is cut, and the cuts are cut again; and every
\* node is under the heading of all that is in it (pipeline.py _table_parts,
\* _split_oversized_text: "the pieces are slices of the text itself").
ContentIsStored ==
    pc = "done" =>
        /\ FlattenSeq([k \in DOMAIN nodes |-> Outside(nodes[k].body, HeaderLines)]) =
              Outside(Text(Sorted(Content)), HeaderLines)
        /\ \A node \in ToSet(nodes) : \A i \in DOMAIN node.body :
              node.heading = HeadingAbove(node.body[i].line)

\* Whether a heading leaves the units under it a token.
Roomy(h) == Cap - (IF h = 0 THEN 0 ELSE Len(LineText(h))) > Special

\* Under a heading that leaves room, no node is longer than the cap with its
\* heading on, whatever it was cut from and whatever a cut inside a word cost
\* (pipeline.py _section_nodes: a heading "is spent from the budget").
NodesFit ==
    \A node \in ToSet(nodes) :
        Roomy(node.heading) =>
            Size((IF node.heading = 0 THEN <<>> ELSE LineText(node.heading)) \o node.body) <= Cap

\* Every part of a table whose header leaves a row a token begins with that header
\* and has some of a row under it: no cut separates the two (pipeline.py
\* _table_parts: "so each stored row names its own columns").
RowsNameTheirColumns ==
    \A u \in {v \in ToSet(AllUnits(sections)) : v.kind = "table"} :
        Size(Header(u)) + Special < Limit(u) =>
            \A node \in ToSet(nodes) :
                (\E i \in DOMAIN node.body : node.body[i].line \in ToSet(u.lines)) =>
                    /\ IsPrefix(Header(u), node.body)
                    /\ RowsOf(u) # <<>> => Len(node.body) > Len(Header(u))

\* Whatever the document, laying it out fails under a heading only, by recursing
\* only under one that leaves no room, and never in content without a heading.
OnlyHeadingsRefuse ==
    pc \in {"refused", "raised"} =>
        /\ Unit.heading # 0
        /\ pc = "raised" => ~Roomy(Unit.heading)

\* Every document is laid out or refused: reading, collecting and cutting end.
LayoutEnds == <>(pc \in {"done", "refused", "raised"})

-----------------------------------------------------------------------------
(* A statement of the repository that the code does not keep.              *)

\* pipeline.py _bounded_parts: what does not fit "is over by construction means
\* more than the budget of content, so cutting it again always makes progress".
CuttingMakesProgress == pc # "raised"
=============================================================================
