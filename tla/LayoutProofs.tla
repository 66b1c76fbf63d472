---------------------------- MODULE LayoutProofs ----------------------------
(***************************************************************************)
(* Proofs about Layout, for every document, cap and tokenizer.             *)
(***************************************************************************)
EXTENDS Layout, SequenceFacts

-----------------------------------------------------------------------------
(* Texts.                                                                  *)

Numbers == 1..Len(doc)
Token == TokensOf(Numbers)

\* Whether a line that is not blank may have no token.
Wordless == \E k \in DOMAIN Words \ Blanks : Words[k] = <<>>

Body == Filled(Token, Wordless)
Worded == {n \in Numbers : doc[n] \notin Blanks}

LEMMA DocumentIs ==
  ASSUME doc \in Documents
  PROVE  /\ Len(doc) \in Nat /\ DOMAIN doc = Numbers
         /\ \A n \in Numbers : doc[n] \in DOMAIN Words /\ Words[doc[n]] \in Seq(Nat \ {0})
         /\ Numbers \subseteq Lines
<1>1. doc \in Seq(DOMAIN Words)
  BY LayoutAssumption
<1>2. Len(doc) \in Nat /\ DOMAIN doc = Numbers
  BY <1>1, LenProperties DEF Numbers
<1>3. \A n \in Numbers : doc[n] \in DOMAIN Words
  BY <1>1, ElementOfSeq DEF Numbers
<1>4. Numbers \subseteq Lines
  <2>1. Len(doc) <= MaxLines /\ MaxLines \in Nat
    BY LayoutAssumption
  <2> QED BY <1>2, <2>1 DEF Lines, Numbers
<1> QED BY <1>2, <1>3, <1>4, LayoutAssumption

LEMMA WrittenType ==
  ASSUME NEW ns, NEW n \in ns, NEW words \in Seq(Nat \ {0})
  PROVE  /\ Written(n, words) \in Seq(TokensOf(ns))
         /\ words # <<>> => Written(n, words) # <<>>
<1>1. PICK f : f = [w \in DOMAIN words |->
        [t \in 1..words[w] |-> [line |-> n, word |-> w, nth |-> t, half |-> "both"]]]
  OBVIOUS
<1>2. PICK F : F = Filled(TokensOf(ns), FALSE)
  OBVIOUS
<1>3. ASSUME NEW w \in DOMAIN words PROVE f[w] \in F
  <2>1. w \in Nat
    BY LenProperties
  <2>2. PICK m \in Nat \ {0} : m = words[w]
    BY ElementOfSeq, LenProperties
  <2>3. PICK g : g = [t \in 1..m |-> [line |-> n, word |-> w, nth |-> t, half |-> "both"]]
    OBVIOUS
  <2>4. g \in [1..m -> TokensOf(ns)]
    BY <2>1, <2>3 DEF TokensOf, Halves
  <2>5. g \in Seq(TokensOf(ns)) /\ Len(g) = m
    BY <2>4, FunctionIsSequence
  <2>6. g # <<>>
    BY <2>5, EmptySeq
  <2>7. f[w] = g
    BY <1>1, <2>2, <2>3
  <2> QED BY <1>2, <2>5, <2>6, <2>7 DEF Filled
<1>4. f = [w \in DOMAIN words |-> f[w]]
  BY <1>1
<1>5. f \in Seq(F) /\ Len(f) = Len(words)
  <2>1. PICK S : S = Nat \ {0}
    OBVIOUS
  <2>2. words \in Seq(S)
    BY <2>1
  <2> QED BY <1>3, <1>4, <2>2, MapIsSequence
<1>6. Written(n, words) = FlattenSeq(f)
  BY <1>1 DEF Written
<1>7. CASE words # <<>>
  <2>1. f # <<>>
    BY <1>5, <1>7, EmptySeq
  <2>2. FlattenSeq(f) \in Filled(TokensOf(ns), FALSE)
    BY <1>2, <1>5, <2>1, FlattenFilled
  <2> QED BY <1>6, <2>2 DEF Filled
<1>8. CASE words = <<>>
  <2>1. f = <<>>
    BY <1>5, <1>8, EmptySeq
  <2> QED BY <1>6, <1>8, <2>1, FlattenEmpty, EmptySeq
<1> QED BY <1>7, <1>8

LEMMA LineTextOf ==
  ASSUME doc \in Documents, NEW ns, NEW n \in ns, n \in Numbers
  PROVE  /\ LineText(n) \in Seq(TokensOf(ns))
         /\ doc[n] \notin Blanks => LineText(n) \in Filled(TokensOf(ns), Wordless)
         /\ Words[doc[n]] # <<>> => LineText(n) \in Filled(TokensOf(ns), FALSE)
<1>1. PICK k \in DOMAIN Words : k = doc[n] /\ Words[k] \in Seq(Nat \ {0})
  BY DocumentIs
<1>2. n \in Lines
  BY DocumentIs
<1>3. LineText(n) = Written(n, Words[k])
  BY <1>1, <1>2 DEF LineText, Texts
<1>4. /\ LineText(n) \in Seq(TokensOf(ns))
      /\ Words[k] # <<>> => LineText(n) # <<>>
  BY <1>1, <1>3, WrittenType
<1>5. k \notin Blanks => Words[k] # <<>> \/ Wordless
  BY <1>1 DEF Wordless
<1> QED BY <1>1, <1>4, <1>5 DEF Filled

LEMMA LineTextType ==
  ASSUME doc \in Documents, NEW n \in Numbers
  PROVE  LineText(n) \in Seq(Token) /\ (doc[n] \notin Blanks => LineText(n) \in Body)
  BY LineTextOf DEF Token, Body

\* The lines of W are texts of E, with a token unless V.
Texted(W, E, V) == \A n \in W : LineText(n) \in Filled(E, V)

LEMMA WordedTexted == doc \in Documents => Texted(Worded, Token, Wordless)
  BY LineTextType DEF Worded, Texted, Body

LEMMA TextOf ==
  ASSUME NEW W, NEW E, NEW V, Texted(W, E, V), NEW ns \in Seq(W)
  PROVE  Text(ns) \in Seq(E) /\ (ns # <<>> => Text(ns) \in Filled(E, V))
<1>1. PICK f : f = [k \in DOMAIN ns |-> LineText(ns[k])]
  OBVIOUS
<1>2. PICK F : F = Filled(E, V)
  OBVIOUS
<1>3. ASSUME NEW k \in DOMAIN ns PROVE f[k] \in F
  <2>1. ns[k] \in W
    BY ElementOfSeq, LenProperties
  <2> QED BY <1>1, <1>2, <2>1 DEF Texted
<1>4. f = [k \in DOMAIN ns |-> f[k]]
  BY <1>1
<1>5. f \in Seq(F) /\ Len(f) = Len(ns)
  BY <1>3, <1>4, MapIsSequence
<1>6. Text(ns) = FlattenSeq(f)
  BY <1>1 DEF Text
<1>7. CASE ns # <<>>
  <2>1. f # <<>>
    BY <1>5, <1>7, EmptySeq
  <2>2. FlattenSeq(f) \in Filled(E, V)
    BY <1>2, <1>5, <2>1, FlattenFilled
  <2> QED BY <1>6, <2>2 DEF Filled
<1>8. CASE ns = <<>>
  <2>1. f = <<>>
    BY <1>5, <1>8, EmptySeq
  <2> QED BY <1>6, <1>8, <2>1, FlattenEmpty, EmptySeq
<1> QED BY <1>7, <1>8

LEMMA TextType ==
  ASSUME doc \in Documents, NEW ns \in Seq(Worded)
  PROVE  Text(ns) \in Seq(Token) /\ (ns # <<>> => Text(ns) \in Body)
  BY WordedTexted, TextOf DEF Body

\* Units whose lines are the document's.
Headed == {0} \cup Numbers
Whole == [heading : Headed, kind : {"prose", "table"}, lines : Seq(Worded) \ {<<>>}]

LEMMA HeadingType ==
  ASSUME doc \in Documents, NEW u \in Whole
  PROVE  Heading(u) \in Seq(Token) /\ Len(Heading(u)) \in Nat
<1>1. u.heading \in Headed
  BY DEF Whole
<1>2. <<>> \in Seq(Token)
  BY EmptySeq
<1>3. Heading(u) \in Seq(Token)
  <2>1. CASE u.heading = 0
    BY <1>2, <2>1 DEF Heading
  <2>2. CASE u.heading # 0
    BY <1>1, <2>2, LineTextType DEF Heading, Headed
  <2> QED BY <2>1, <2>2
<1> QED BY <1>3, LenProperties

LEMMA HeaderType ==
  ASSUME doc \in Documents, NEW u \in Whole
  PROVE  /\ Header(u) \in Body
         /\ HeadRows(u) \in 1..Len(u.lines)
         /\ RowsOf(u) \in Seq(Worded)
         /\ \A ns \in Seq(Worded) : Table(u, ns) \in Body
<1>1. PICK ls \in Seq(Worded) : ls = u.lines /\ ls # <<>>
  BY DEF Whole
<1>2. PICK n \in Nat \ {0} : n = Len(ls)
  BY <1>1, LenProperties, EmptySeq
<1>3. 1 \in 1..n /\ (n > 1 => 2 \in 1..n)
  OBVIOUS
<1>4. /\ ls[1] \in Numbers /\ LineText(ls[1]) \in Body
      /\ n > 1 => ls[2] \in Numbers
  <2>1. ls[1] \in Worded /\ (n > 1 => ls[2] \in Worded)
    BY <1>2, <1>3, ElementOfSeq
  <2> QED BY <2>1, LineTextType DEF Worded
<1>5. Underlined(u) => n > 1
  BY <1>1, <1>2 DEF Underlined
<1>6. Header(u) \in Body
  <2>1. CASE ~Underlined(u)
    BY <1>1, <1>4, <2>1 DEF Header
  <2>2. CASE Underlined(u)
    <3>1. <<1>> \in Seq(Nat \ {0})
      OBVIOUS
    <3>2. Canonical(ls[2]) \in Seq(Token)
      BY <1>4, <1>5, <2>2, <3>1, WrittenType DEF Canonical, Token
    <3>3. LineText(ls[1]) \o Canonical(ls[2]) \in Body
      BY <1>4, <3>2, ConcatFilled DEF Body
    <3> QED BY <1>1, <2>2, <3>3 DEF Header
  <2> QED BY <2>1, <2>2
<1>7. HeadRows(u) \in 1..n
  BY <1>5 DEF HeadRows
<1>8. RowsOf(u) \in Seq(Worded)
  <2>1. PICK m \in 1..n : m = HeadRows(u)
    BY <1>7
  <2>2. \A i \in m + 1..n : ls[i] \in Worded
    <3>1. \A i \in m + 1..n : i \in 1..n
      OBVIOUS
    <3> QED BY <1>2, <3>1, ElementOfSeq
  <2>3. SubSeq(ls, m + 1, n) \in Seq(Worded)
    BY <2>2, SubSeqProperties
  <2> QED BY <1>1, <1>2, <2>1, <2>3 DEF RowsOf
<1>9. ASSUME NEW ns \in Seq(Worded) PROVE Table(u, ns) \in Body
  <2>1. Text(ns) \in Seq(Token)
    BY TextType
  <2> QED BY <1>6, <2>1, ConcatFilled DEF Table, Body
<1> QED BY <1>1, <1>2, <1>6, <1>7, <1>8, <1>9

\* The greater of two numbers.
LEMMA MaxOfTwo ==
  ASSUME NEW a \in Int, NEW b \in Int
  PROVE  Max({a, b}) = IF a >= b THEN a ELSE b
<1>1. {a, b} \in SUBSET Int
  OBVIOUS
<1>2. CASE a >= b
  <2>1. a \in {a, b} /\ \A y \in {a, b} : y <= a
    BY <1>2
  <2> QED BY <1>1, <1>2, <2>1, MaxIs
<1>3. CASE ~(a >= b)
  <2>1. b \in {a, b} /\ \A y \in {a, b} : y <= b
    BY <1>3
  <2> QED BY <1>1, <1>3, <2>1, MaxIs
<1> QED BY <1>2, <1>3

\* What a unit's texts may have of tokens, which is what its heading leaves, if it
\* leaves one.
LEMMA LimitIs ==
  ASSUME doc \in Documents, NEW u \in Whole
  PROVE  /\ Limit(u) = IF Cap - Len(Heading(u)) >= 1 THEN Cap - Len(Heading(u)) ELSE 1
         /\ Limit(u) \in Nat \ {0}
         /\ RowBudget(u) \in Nat \ {0}
         /\ BoundBudget(u) = IF Limit(u) - Special >= 1 THEN Limit(u) - Special ELSE 1
         /\ BoundBudget(u) \in Nat \ {0}
<1>1. Len(Heading(u)) \in Nat /\ Cap \in Nat /\ Special \in Nat
  BY HeadingType, LayoutAssumption
<1>2. PICK l \in Int : l = Cap - Len(Heading(u))
  BY <1>1
<1>3. Limit(u) = (IF l >= 1 THEN l ELSE 1) /\ Limit(u) \in Nat \ {0}
  BY <1>2, MaxOfTwo DEF Limit
<1>4. PICK k \in Int : k = Limit(u) - Special
  BY <1>1, <1>3
<1>5. BoundBudget(u) = (IF k >= 1 THEN k ELSE 1) /\ BoundBudget(u) \in Nat \ {0}
  BY <1>4, MaxOfTwo DEF BoundBudget
<1>6. PICK s \in Nat : s = Size(Header(u))
  <2>1. Len(Header(u)) \in Nat
    BY HeaderType, LenProperties DEF Body, Filled
  <2>2. Special + Len(Header(u)) \in Nat
    BY <1>1, <2>1
  <2> QED BY <2>2 DEF Size
<1>7. PICK m \in Int : m = Limit(u) - Size(Header(u)) - Special
  <2>1. Limit(u) - s - Special \in Int
    BY <1>1, <1>3
  <2> QED BY <1>6, <2>1
<1>8. RowBudget(u) = (IF m >= 1 THEN m ELSE 1) /\ RowBudget(u) \in Nat \ {0}
  BY <1>7, MaxOfTwo DEF RowBudget
<1> QED BY <1>2, <1>3, <1>4, <1>5, <1>8

-----------------------------------------------------------------------------
(* Cuts.                                                                   *)

\* The lesser of two numbers.
LEMMA MinOfTwo ==
  ASSUME NEW a \in Int, NEW b \in Int
  PROVE  Min({a, b}) = IF a <= b THEN a ELSE b
<1>1. PICK x \in {a, b} : x = IF a <= b THEN a ELSE b
  OBVIOUS
<1>2. x \in Int /\ x <= a /\ x <= b
  BY <1>1
<1>3. x \in {a, b} /\ \A y \in {a, b} : x <= y
  BY <1>2
<1>4. ASSUME NEW z \in {a, b}, \A y \in {a, b} : z <= y PROVE z = x
  <2>1. z <= x /\ x <= z /\ z \in Int
    BY <1>2, <1>3, <1>4
  <2> QED BY <1>2, <2>1
<1> QED BY <1>1, <1>3, <1>4 DEF Min

\* A slice is read as a text of the same lines, at most a token longer.
LEMMA ReadAgainType ==
  ASSUME NEW ns, NEW text \in Seq(TokensOf(ns)), text # <<>>
  PROVE  /\ ReadAgain(text) \in Filled(TokensOf(ns), FALSE)
         /\ Len(ReadAgain(text)) <= Len(text) + 1
<1>a. PICK E : E = TokensOf(ns)
  OBVIOUS
<1>1. Head(text) \in E /\ Tail(text) \in Seq(E) /\ Len(Tail(text)) = Len(text) - 1
  BY <1>a, HeadTailProperties
<1>2. \A half \in Halves : [Head(text) EXCEPT !.half = half] \in E
  BY <1>a, <1>1 DEF TokensOf
<1>3. /\ Halved(Head(text)) \in Filled(E, FALSE)
      /\ Len(Halved(Head(text))) = 2
  <2>1. PICK x \in E, y \in E : Halved(Head(text)) = <<x, y>>
    BY <1>2 DEF Halved, Halves
  <2>2. <<x, y>> \in Seq(E) /\ <<x, y>> # <<>> /\ Len(<<x, y>>) = 2
    OBVIOUS
  <2> QED BY <2>1, <2>2 DEF Filled
<1>4. /\ Halved(Head(text)) \o Tail(text) \in Filled(E, FALSE)
      /\ Len(Halved(Head(text)) \o Tail(text)) = 2 + (Len(text) - 1)
  <2>1. PICK halves \in Seq(E) : halves = Halved(Head(text)) /\ Len(halves) = 2
    BY <1>3 DEF Filled
  <2>2. PICK rest \in Seq(E) : rest = Tail(text) /\ Len(rest) = Len(text) - 1
    BY <1>1, Zenon
  <2>3. halves \o rest \in Filled(E, FALSE)
    BY <1>3, <2>1, <2>2, ConcatFilled, Zenon
  <2>4. Len(halves \o rest) = Len(halves) + Len(rest)
    BY ConcatProperties
  <2> QED BY <2>1, <2>2, <2>3, <2>4, Zenon
<1>5. text \in Filled(E, FALSE) /\ Len(text) \in Nat
  BY <1>a, LenProperties DEF Filled
<1>6. ReadAgain(text) = Halved(Head(text)) \o Tail(text) \/ ReadAgain(text) = text
  BY DEF ReadAgain
<1>7. ReadAgain(text) \in Filled(E, FALSE)
  BY <1>4, <1>5, <1>6, Zenon
<1>8. Len(ReadAgain(text)) <= Len(text) + 1
  <2>1. PICK n \in Nat : n = Len(text)
    BY <1>5
  <2>2. 2 + (n - 1) <= n + 1 /\ n <= n + 1
    OBVIOUS
  <2> QED BY <1>4, <1>6, <2>1, <2>2, Zenon
<1> QED BY <1>a, <1>7, <1>8

\* What is cut is walked slice by slice, each of them at most the budget long.
CutBy(text, n, budget, last, piece, f) ==
    /\ \A j \in 1..n : last[j] \in j..n /\ last[j] <= j + budget - 1
    /\ \A j \in 1..n : piece[j] = ReadAgain(SubSeq(text, j, last[j]))
    /\ Walks(piece, last, n, 1, f)
    /\ Cut(text, budget) = f[1]

LEMMA CutWalks ==
  ASSUME NEW text, NEW n \in Nat, n = Len(text), NEW budget \in Nat \ {0}
  PROVE  \/ n <= budget /\ Cut(text, budget) = <<text>>
         \/ \E last, piece, f : CutBy(text, n, budget, last, piece, f)
<1> DEFINE Stop(j) == Min({j + budget - 1, Len(text)})
           Breaks(j) == {k \in j + 1..Stop(j) : AfterSpace(text, k)}
           LastOf(j) == IF Stop(j) < Len(text) /\ Breaks(j) # {} THEN Max(Breaks(j)) - 1
                        ELSE Stop(j)
           From(f) == f = [j \in 1..Len(text) + 1 |->
                        IF j > Len(text) THEN <<>>
                        ELSE <<ReadAgain(SubSeq(text, j, LastOf(j)))>> \o f[LastOf(j) + 1]]
<1>1. n = Len(text)
  OBVIOUS
<1>2. ASSUME NEW j \in 1..n PROVE LastOf(j) \in j..n /\ LastOf(j) <= j + budget - 1
  <2>1. PICK a \in Int : a = j + budget - 1 /\ a >= j
    OBVIOUS
  <2>2. Stop(j) = IF a <= n THEN a ELSE n
    BY <1>1, <2>1, MinOfTwo
  <2>3. PICK stop \in j..n : stop = Stop(j) /\ stop <= a
    BY <2>1, <2>2
  <2>4. PICK breaks : breaks = Breaks(j)
    OBVIOUS
  <2>5. /\ breaks \subseteq j + 1..stop
        /\ j + 1..stop \subseteq 1..n
    <3>1. j + 1..stop \subseteq 1..n
      OBVIOUS
    <3> HIDE DEF Stop
    <3>2. breaks \subseteq j + 1..stop
      BY <2>3, <2>4, Zenon
    <3> QED BY <3>1, <3>2
  <2> HIDE DEF Stop, Breaks
  <2>6. CASE breaks # {}
    <3>1. breaks \subseteq 1..n
      BY <2>5, Zenon
    <3>2. PICK k \in breaks : k = Max(breaks)
      BY <2>6, <3>1, MaxIsMember
    <3>3. k \in j + 1..stop
      BY <2>5, Zenon
    <3>4. k - 1 \in j..n /\ k - 1 <= a
      BY <2>3, <3>3
    <3>5. LastOf(j) = k - 1 \/ LastOf(j) = stop
      BY <2>3, <2>4, <3>2
    <3> QED BY <2>1, <2>3, <3>4, <3>5
  <2>7. CASE breaks = {}
    BY <2>1, <2>3, <2>4, <2>7
  <2> QED BY <2>6, <2>7
<1>3. PICK last : last = [j \in 1..n |-> LastOf(j)]
  OBVIOUS
<1>4. PICK piece : piece = [j \in 1..n |-> ReadAgain(SubSeq(text, j, LastOf(j)))]
  OBVIOUS
<1>5. Cut(text, budget) = IF n <= budget THEN <<text>> ELSE (CHOOSE f : From(f))[1]
  BY <1>1 DEF Cut
<1> HIDE DEF LastOf
<1>6. \A j \in 1..n : last[j] = LastOf(j) /\ last[j] \in j..n /\ last[j] <= j + budget - 1
  BY <1>2, <1>3
<1>7. \A j \in 1..n : piece[j] = ReadAgain(SubSeq(text, j, last[j]))
  BY <1>4, <1>6, Zenon
<1>8. ASSUME NEW f PROVE From(f) <=> Walks(piece, last, n, 1, f)
  <2>1. PICK g : g = [j \in 1..n + 1 |->
                        IF j > n THEN <<>>
                        ELSE <<ReadAgain(SubSeq(text, j, LastOf(j)))>> \o f[LastOf(j) + 1]]
    OBVIOUS
  <2>2. PICK h : h = [j \in 1..n + 1 |-> IF j > n THEN <<>> ELSE <<piece[j]>> \o f[last[j] + 1]]
    OBVIOUS
  <2>3. ASSUME NEW j \in 1..n + 1 PROVE g[j] = h[j]
    <3>1. CASE j > n
      BY <2>1, <2>2, <3>1
    <3>2. CASE ~(j > n)
      <4>1. j \in 1..n
        BY <3>2
      <4>2. piece[j] = ReadAgain(SubSeq(text, j, LastOf(j))) /\ last[j] = LastOf(j)
        BY <1>4, <1>6, <4>1, Zenon
      <4> QED BY <2>1, <2>2, <3>2, <4>2, Zenon
    <3> QED BY <3>1, <3>2
  <2>4. g = h
    BY <2>1, <2>2, <2>3
  <2> QED BY <1>1, <2>1, <2>2, <2>4, Zenon DEF Walks
<1>9. PICK f : f = CHOOSE g : From(g)
  OBVIOUS
<1>10. From(f)
  <2>1. \E g : From(g)
    <3>1. \A j \in 1..n : last[j] \in j..n
      BY <1>6
    <3>2. \E g : Walks(piece, last, n, 1, g)
      BY <3>1, WalkExists
    <3> QED BY <1>8, <3>2, Zenon
  <2> QED BY <1>9, <2>1, Zenon
<1> HIDE DEF From
<1>11. Walks(piece, last, n, 1, f)
  BY <1>8, <1>10
<1>12. \A j \in 1..n : last[j] \in j..n /\ last[j] <= j + budget - 1
  BY <1>6
<1>13. CASE n <= budget
  BY <1>5, <1>13, Zenon
<1>14. CASE ~(n <= budget)
  <2>1. Cut(text, budget) = f[1]
    BY <1>5, <1>9, <1>14, Zenon
  <2>2. CutBy(text, n, budget, last, piece, f)
    BY <1>7, <1>11, <1>12, <2>1, Zenon DEF CutBy
  <2> QED BY <2>2, Zenon
<1> QED BY <1>13, <1>14

\* The slices of a cut are texts of the lines of what is cut, none is empty, and none
\* is longer than the budget but by what reading it again costs.
Slices(ns, budget) == {text \in Filled(TokensOf(ns), FALSE) : Len(text) <= budget + 1}

LEMMA CutSlices ==
  ASSUME NEW ns, NEW text \in Seq(TokensOf(ns)), text # <<>>, NEW budget \in Nat \ {0}
  PROVE  Cut(text, budget) \in Seq(Slices(ns, budget)) /\ Cut(text, budget) # <<>>
<1>1. PICK n \in Nat : n = Len(text) /\ n > 0
  BY LenProperties, EmptySeq
<1>2. CASE n <= budget /\ Cut(text, budget) = <<text>>
  <2>1. n <= budget + 1
    BY <1>2
  <2>2. text \in Slices(ns, budget)
    BY <1>1, <2>1 DEF Slices, Filled
  <2> QED BY <1>2, <2>2
<1>3. ASSUME NEW last, NEW piece, NEW f,
             CutBy(text, n, budget, last, piece, f)
      PROVE  Cut(text, budget) \in Seq(Slices(ns, budget)) /\ Cut(text, budget) # <<>>
  <2>0. /\ \A j \in 1..n : last[j] \in j..n /\ last[j] <= j + budget - 1
        /\ \A j \in 1..n : piece[j] = ReadAgain(SubSeq(text, j, last[j]))
        /\ Walks(piece, last, n, 1, f)
        /\ Cut(text, budget) = f[1]
    BY <1>3 DEF CutBy
  <2>1. ASSUME NEW j \in 1..n PROVE piece[j] \in Slices(ns, budget)
    <3>a. PICK E : E = TokensOf(ns)
      OBVIOUS
    <3>1. PICK m \in j..n : m = last[j] /\ m <= j + budget - 1
      BY <2>0
    <3>2. \A i \in j..m : text[i] \in E
      <4>1. \A i \in j..m : i \in 1..n
        OBVIOUS
      <4> QED BY <1>1, <3>a, <4>1, ElementOfSeq
    <3>3. SubSeq(text, j, m) \in Seq(E) /\ Len(SubSeq(text, j, m)) = m - j + 1
      BY <3>2, SubSeqProperties
    <3>4. SubSeq(text, j, m) # <<>>
      <4>1. m - j + 1 # 0
        OBVIOUS
      <4> QED BY <3>3, <4>1, EmptySeq
    <3>5. PICK slice \in Filled(E, FALSE) :
             /\ slice = ReadAgain(SubSeq(text, j, m))
             /\ Len(slice) <= (m - j + 1) + 1
      BY <3>a, <3>3, <3>4, ReadAgainType
    <3>6. Len(slice) <= budget + 1
      <4>1. Len(slice) \in Nat
        BY LenProperties DEF Filled
      <4> QED BY <3>1, <3>5, <4>1
    <3>7. slice \in Slices(ns, budget)
      BY <3>a, <3>6 DEF Slices
    <3> QED BY <2>0, <3>1, <3>5, <3>7
  <2>2. PICK E : E = Slices(ns, budget)
    OBVIOUS
  <2>3. \A j \in 1..n : piece[j] \in E
    BY <2>1, <2>2
  <2>4. (\A j \in 1..n + 1 : f[j] \in Seq(E)) /\ (n > 0 => f[1] # <<>>)
    <3>1. \A j \in 1..n : last[j] \in j..n
      BY <2>0
    <3>2. Walks(piece, last, n, 1, f)
      BY <2>0
    <3> QED BY <2>3, <3>1, <3>2, WalkType
  <2>5. 1 \in 1..n + 1
    BY <1>1
  <2> QED BY <1>1, <2>0, <2>2, <2>4, <2>5
<1>4. \/ n <= budget /\ Cut(text, budget) = <<text>>
      \/ \E last, piece, f : CutBy(text, n, budget, last, piece, f)
  BY <1>1, CutWalks
<1> QED BY <1>2, <1>3, <1>4, Zenon

LEMMA CutType ==
  ASSUME NEW ns, NEW V, NEW text \in Filled(TokensOf(ns), V), NEW budget \in Nat \ {0}
  PROVE  Cut(text, budget) \in Seq(Filled(TokensOf(ns), V))
<1>1. text \in Seq(TokensOf(ns)) /\ (V \/ text # <<>>)
  BY DEF Filled
<1>2. CASE text # <<>>
  <2>1. Cut(text, budget) \in Seq(Slices(ns, budget))
    BY <1>1, <1>2, CutSlices
  <2>2. Slices(ns, budget) \subseteq Filled(TokensOf(ns), V)
    BY DEF Slices, Filled
  <2> QED BY <2>1, <2>2, SeqMonotonic
<1>3. CASE text = <<>>
  <2>1. Len(text) <= budget
    <3>1. Len(text) = 0
      BY <1>1, <1>3, EmptySeq
    <3> QED BY <3>1
  <2>2. Cut(text, budget) = <<text>>
    BY <2>1 DEF Cut
  <2>3. <<text>> \in Seq(Filled(TokensOf(ns), V))
    OBVIOUS
  <2> QED BY <2>2, <2>3
<1> QED BY <1>2, <1>3

-----------------------------------------------------------------------------
(* A paragraph's lines, divided where the splitter will.                   *)

LEMMA SortedPlaces ==
  ASSUME NEW n \in Nat, NEW ns, ns \subseteq 1..n
  PROVE  \E size \in Nat :
            /\ size = Cardinality(ns)
            /\ Sorted(ns) \in Seq(ns) /\ Len(Sorted(ns)) = size /\ DOMAIN Sorted(ns) = 1..size
            /\ \A k \in 1..size :
                  Sorted(ns)[k] \in ns /\ Cardinality(UpTo(ns, Sorted(ns)[k])) = k
<1>1. ns \in SUBSET (Nat \ {0})
  OBVIOUS
<1>2. UpTo(ns, n) = ns
  <2>1. \A m \in ns : m <= n
    OBVIOUS
  <2> QED BY <2>1, Zenon DEF UpTo
<1>3. /\ IsFiniteSet(ns)
      /\ \A j \in 1..Cardinality(ns) : \E m \in ns : Cardinality(UpTo(ns, m)) = j
  BY <1>1, <1>2, CountReaches
<1>4. PICK size \in Nat : size = Cardinality(ns)
  BY <1>3, FS_CardinalityType
<1>5. Sorted(ns) = [k \in 1..size |-> CHOOSE m \in ns : Cardinality(UpTo(ns, m)) = k]
  BY <1>4 DEF Sorted, UpTo
<1>6. ASSUME NEW k \in 1..size
      PROVE  Sorted(ns)[k] \in ns /\ Cardinality(UpTo(ns, Sorted(ns)[k])) = k
  <2>1. Sorted(ns)[k] = CHOOSE m \in ns : Cardinality(UpTo(ns, m)) = k
    BY <1>5
  <2>2. \E m \in ns : Cardinality(UpTo(ns, m)) = k
    BY <1>3, <1>4
  <2> QED BY <2>1, <2>2, Zenon
<1>7. Sorted(ns) \in [1..size -> ns]
  BY <1>5, <1>6
<1>8. Sorted(ns) \in Seq(ns) /\ Len(Sorted(ns)) = size /\ DOMAIN Sorted(ns) = 1..size
  BY <1>7, FunctionIsSequence
<1> QED BY <1>4, <1>6, <1>8

LEMMA SortedType ==
  ASSUME NEW n \in Nat, NEW ns, ns \subseteq 1..n
  PROVE  \E size \in Nat :
            /\ size = Cardinality(ns)
            /\ DOMAIN Sorted(ns) = 1..size
            /\ \A k \in 1..size : Sorted(ns)[k] \in ns
            /\ \A k, m \in 1..size : k < m => Sorted(ns)[k] < Sorted(ns)[m]
<1>1. ns \in SUBSET (Nat \ {0})
  OBVIOUS
<1>2. PICK size \in Nat :
         /\ size = Cardinality(ns) /\ DOMAIN Sorted(ns) = 1..size
         /\ \A k \in 1..size : Sorted(ns)[k] \in ns /\ Cardinality(UpTo(ns, Sorted(ns)[k])) = k
  BY SortedPlaces
<1>3. ASSUME NEW k \in 1..size, NEW m \in 1..size, k < m
      PROVE  Sorted(ns)[k] < Sorted(ns)[m]
  <2>1. PICK x \in ns, y \in ns :
           /\ x = Sorted(ns)[k] /\ Cardinality(UpTo(ns, x)) = k
           /\ y = Sorted(ns)[m] /\ Cardinality(UpTo(ns, y)) = m
    BY <1>2
  <2>2. y < x => m < k
    BY <1>1, <2>1, CountIsPlace
  <2>3. x # y
    BY <1>3, <2>1
  <2> QED BY <1>3, <2>1, <2>2, <2>3
<1> QED BY <1>2, <1>3

\* A member is in its place.
LEMMA SortedIs ==
  ASSUME NEW n \in Nat, NEW ns, ns \subseteq 1..n, NEW x \in ns
  PROVE  Sorted(ns)[Cardinality(UpTo(ns, x))] = x
<1>1. ns \in SUBSET (Nat \ {0})
  OBVIOUS
<1>2. PICK size \in Nat :
         /\ size = Cardinality(ns)
         /\ \A k \in 1..size : Sorted(ns)[k] \in ns /\ Cardinality(UpTo(ns, Sorted(ns)[k])) = k
  BY SortedPlaces
<1>3. PICK k \in Nat : k = Cardinality(UpTo(ns, x))
  <2>1. IsFiniteSet(UpTo(ns, x))
    BY <1>1, CountReaches
  <2> QED BY <2>1, FS_CardinalityType
<1>4. k \in 1..size
  <2>1. IsFiniteSet(UpTo(ns, n)) /\ UpTo(ns, n) = ns
    <3>1. \A m \in ns : m <= n
      OBVIOUS
    <3>2. UpTo(ns, n) = ns
      BY <3>1, Zenon DEF UpTo
    <3> QED BY <1>1, <3>2, CountReaches
  <2>2. UpTo(ns, x) \in SUBSET ns /\ x \in UpTo(ns, x)
    BY DEF UpTo
  <2>3. IsFiniteSet(UpTo(ns, x)) /\ k <= size
    BY <1>2, <1>3, <2>1, <2>2, FS_Subset
  <2>4. k # 0
    BY <1>3, <2>2, <2>3, FS_EmptySet
  <2> QED BY <2>3, <2>4
<1>5. PICK y \in ns : y = Sorted(ns)[k] /\ Cardinality(UpTo(ns, y)) = k
  BY <1>2, <1>4
<1>6. ~(x < y) /\ ~(y < x)
  BY <1>1, <1>3, <1>5, CountIsPlace
<1> QED BY <1>1, <1>3, <1>5, <1>6

LEMMA SortedEmpty == Sorted({}) = <<>>
<1>1. {} \subseteq 1..0
  OBVIOUS
<1>2. Sorted({}) \in Seq({}) /\ Len(Sorted({})) = 0
  BY <1>1, SortedPlaces, FS_EmptySet
<1> QED BY <1>2, EmptySeq

\* A number above all the others is the last.
LEMMA SortedGrows ==
  ASSUME NEW n \in Nat, NEW ns, ns \subseteq 1..n
  PROVE  Sorted(ns \cup {n + 1}) = Append(Sorted(ns), n + 1)
<1> DEFINE more == ns \cup {n + 1}
<1>1. more \subseteq 1..n + 1 /\ n + 1 \in Nat /\ n + 1 \in more
  OBVIOUS
<1>a. PICK size \in Nat :
         /\ size = Cardinality(ns)
         /\ Sorted(ns) \in Seq(ns) /\ Len(Sorted(ns)) = size
         /\ \A k \in 1..size :
               Sorted(ns)[k] \in ns /\ Cardinality(UpTo(ns, Sorted(ns)[k])) = k
  BY SortedPlaces
<1>b. PICK s : s = Sorted(ns)
  OBVIOUS
<1>2. /\ size = Cardinality(ns) /\ s = Sorted(ns) /\ s \in Seq(ns) /\ Len(s) = size
      /\ \A k \in 1..size : s[k] \in ns /\ Cardinality(UpTo(ns, s[k])) = k
  BY <1>a, <1>b
<1>3. Cardinality(more) = size + 1
  <2>1. n + 1 \notin ns
    OBVIOUS
  <2>2. IsFiniteSet(ns)
    <3>1. ns \in SUBSET (Nat \ {0}) /\ \A m \in ns : m <= n
      OBVIOUS
    <3>2. UpTo(ns, n) = ns
      BY <3>1, Zenon DEF UpTo
    <3> QED BY <3>1, <3>2, CountReaches
  <2>3. Cardinality(ns \cup {n + 1}) = Cardinality(ns) + 1
    BY <2>1, <2>2, FS_AddElement
  <2> QED BY <1>2, <2>3
<1>4. PICK t : t = Sorted(more) /\ t = [k \in 1..size + 1 |-> t[k]]
  <2>1. PICK t : t = Sorted(more)
    OBVIOUS
  <2>2. t \in Seq(more) /\ Len(t) = size + 1
    BY <1>1, <1>3, <2>1, SortedPlaces
  <2>3. t = [k \in 1..size + 1 |-> t[k]]
    BY <2>2, SeqDef, LenProperties
  <2> QED BY <2>1, <2>3
<1>5. PICK u : u = Append(s, n + 1) /\ u = [k \in 1..size + 1 |-> u[k]]
               /\ u[size + 1] = n + 1 /\ \A k \in 1..size : u[k] = s[k]
  <2>1. s \in Seq(Nat)
    <3>1. ns \subseteq Nat
      OBVIOUS
    <3> QED BY <1>2, <3>1, SeqMonotonic
  <2>a. size = Len(s) /\ n + 1 \in Nat
    BY <1>1, <1>2
  <2>2. PICK u \in Seq(Nat) : u = Append(s, n + 1) /\ Appends(u, s, n + 1, size)
    BY <2>a, <2>1, AppendElements
  <2>3. u = [k \in 1..size + 1 |-> u[k]]
    BY <2>2, LenProperties DEF Appends
  <2> QED BY <2>2, <2>3 DEF Appends, Agree
<1>6. ASSUME NEW k \in 1..size + 1 PROVE t[k] = u[k]
  <2>1. CASE k = size + 1
    <3>1. UpTo(more, n + 1) = more
      <4>1. \A m \in more : m <= n + 1
        OBVIOUS
      <4> HIDE DEF more
      <4> QED BY <4>1, Zenon DEF UpTo
    <3>2. Sorted(more)[Cardinality(UpTo(more, n + 1))] = n + 1
      BY <1>1, SortedIs
    <3> QED BY <1>3, <1>4, <1>5, <2>1, <3>1, <3>2
  <2>2. CASE k # size + 1
    <3>a. k \in 1..size
      BY <2>2
    <3>1. PICK x \in ns : x = s[k] /\ Cardinality(UpTo(ns, x)) = k /\ k \in 1..size
      BY <1>2, <3>a
    <3>2. UpTo(more, x) = UpTo(ns, x)
      <4>1. ~(n + 1 <= x)
        OBVIOUS
      <4> QED BY <4>1 DEF UpTo
    <3>3. Sorted(more)[Cardinality(UpTo(more, x))] = x
      <4>1. x \in more
        OBVIOUS
      <4> QED BY <1>1, <4>1, SortedIs
    <3> QED BY <1>4, <1>5, <3>1, <3>2, <3>3
  <2> QED BY <2>1, <2>2
<1>7. t = u
  BY <1>4, <1>5, <1>6, Zenon
<1> QED BY <1>2, <1>4, <1>5, <1>7

LEMMA DividedType ==
  ASSUME NEW W, NEW E, NEW V, Texted(W, E, V), NEW ns \in Seq(W), NEW ends \in SUBSET DOMAIN ns
  PROVE  LET stops == Sorted(ends)
             From(k) == IF k = 1 THEN 1 ELSE stops[k - 1] + 1
         IN [k \in DOMAIN stops |-> Text(SubSeq(ns, From(k), stops[k]))] \in Seq(Filled(E, V))
<1> DEFINE From(k) == IF k = 1 THEN 1 ELSE Sorted(ends)[k - 1] + 1
           Part(k) == SubSeq(ns, From(k), Sorted(ends)[k])
<1>1. PICK n \in Nat : n = Len(ns) /\ DOMAIN ns = 1..n
  BY LenProperties
<1>2. PICK size \in Nat :
         /\ DOMAIN Sorted(ends) = 1..size
         /\ \A k \in 1..size : Sorted(ends)[k] \in ends
         /\ \A k, m \in 1..size : k < m => Sorted(ends)[k] < Sorted(ends)[m]
  <2>1. ends \subseteq 1..n
    BY <1>1
  <2> QED BY <2>1, SortedType
<1>3. ASSUME NEW k \in 1..size PROVE Text(Part(k)) \in Filled(E, V)
  <2>1. PICK to \in 1..n : to = Sorted(ends)[k]
    BY <1>1, <1>2
  <2>2. PICK from \in 1..to : from = From(k)
    <3>1. CASE k = 1
      BY <3>1
    <3>2. CASE k # 1
      <4>1. k - 1 \in 1..size /\ k - 1 < k
        BY <3>2
      <4>2. PICK before \in 1..n : before = Sorted(ends)[k - 1]
        BY <1>1, <1>2, <4>1
      <4>3. before < to
        BY <1>2, <2>1, <4>1, <4>2, Zenon
      <4>4. before + 1 \in 1..to
        BY <4>3
      <4> QED BY <3>2, <4>2, <4>4
    <3> QED BY <3>1, <3>2
  <2>3. \A i \in from..to : ns[i] \in W
    <3>1. \A i \in from..to : i \in 1..n
      OBVIOUS
    <3> QED BY <1>1, <3>1, ElementOfSeq
  <2>4. SubSeq(ns, from, to) \in Seq(W) /\ Len(SubSeq(ns, from, to)) = to - from + 1
    BY <2>3, SubSeqProperties
  <2>5. SubSeq(ns, from, to) # <<>>
    <3>1. to - from + 1 # 0
      OBVIOUS
    <3> QED BY <2>4, <3>1, EmptySeq
  <2>6. Text(SubSeq(ns, from, to)) \in Filled(E, V)
    BY <2>4, <2>5, TextOf
  <2> QED BY <2>1, <2>2, <2>6
<1>4. PICK f : f = [k \in DOMAIN Sorted(ends) |-> Text(Part(k))]
  OBVIOUS
<1>5. f \in [1..size -> Filled(E, V)]
  <2> HIDE DEF Part
  <2> QED BY <1>2, <1>3, <1>4
<1>6. f \in Seq(Filled(E, V))
  BY <1>5, FunctionIsSequence
<1> QED BY <1>4, <1>6

-----------------------------------------------------------------------------
(* The invariant.  What is read is the document's, what waits and what is  *)
(* laid out are texts of it, and a length that was checked once still      *)
(* holds: the texts bounded fit what the unit's heading leaves, and the    *)
(* nodes the cap.                                                          *)

Seen == {n \in Worded : n <= read}
Closed == [heading : Headed, units : Seq(Whole)]
Within == {text \in Body : Size(text) <= Limit(Unit)}
HeadingOf(h) == IF h = 0 THEN <<>> ELSE LineText(h)
Fitting == {node \in [heading : Headed, body : Body] :
               Roomy(node.heading) => Size(HeadingOf(node.heading) \o node.body) <= Cap}

ReadIn ==
    /\ doc \in Documents
    /\ read \in 0..Len(doc)
    /\ fenced \in BOOLEAN
    /\ heading \in 0..read
    /\ kind \in {"none", "prose", "table"}
    /\ kind = "none" <=> lines = <<>>
    /\ lines \in Seq(Seen)
    /\ units \in Seq(Whole)
    /\ sections \in Seq(Closed)

LaidOut ==
    /\ pc \in PCs
    /\ todo \in Seq(Whole)
    /\ pc \in {"rows", "bound", "refused", "raised"} => todo # <<>>
    /\ pc = "rows" => row \in 1..Len(Unit.lines) + 1
    /\ rows \in Seq(Worded)
    /\ parts \in Seq(Body)
    /\ pieces \in Seq(Body)
    /\ pc \in {"rows", "bound"} => pieces \in Seq(Within)
    /\ nodes \in Seq(Fitting)

Inv == ReadIn /\ LaidOut /\ OnlyHeadingsRefuse

\* The sets change with the document only, and with the unit what fits it.
LEMMA Same ==
  ASSUME doc' = doc
  PROVE  /\ Numbers' = Numbers /\ Worded' = Worded /\ Headed' = Headed /\ Whole' = Whole
         /\ Closed' = Closed /\ Body' = Body /\ Fitting' = Fitting
         /\ read' = read => Seen' = Seen
         /\ todo' = todo => Within' = Within
<1>1. Numbers' = Numbers
  BY DEF Numbers
<1>2. Worded' = Worded /\ Headed' = Headed
  BY <1>1 DEF Worded, Headed
<1>3. Body' = Body
  BY <1>1 DEF Body, Token, Wordless
<1>4. Whole' = Whole
  BY <1>2 DEF Whole
<1>5. Closed' = Closed
  BY <1>2, <1>4 DEF Closed
<1>6. Fitting' = Fitting
  BY <1>2, <1>3 DEF Fitting, Roomy, HeadingOf, LineText
<1>7. read' = read => Seen' = Seen
  BY <1>2 DEF Seen
<1>8. todo' = todo => Within' = Within
  BY <1>3 DEF Within, Limit, Heading, Unit, LineText
<1> QED BY <1>1, <1>2, <1>3, <1>4, <1>5, <1>6, <1>7, <1>8

LEMMA NumbersOf ==
  ASSUME ReadIn
  PROVE  /\ Numbers = 1..Len(doc) /\ DOMAIN doc = Numbers /\ Len(doc) \in Nat /\ read \in Nat
         /\ Seen \subseteq Worded /\ lines \in Seq(Worded) /\ heading \in Headed
<1>1. Len(doc) \in Nat /\ DOMAIN doc = Numbers /\ read \in 0..Len(doc) /\ heading \in 0..read
  BY DocumentIs DEF ReadIn
<1>2. Seen \subseteq Worded
  BY DEF Seen
<1>3. lines \in Seq(Worded)
  BY <1>2, SeqMonotonic DEF ReadIn
<1>4. heading \in Headed
  BY <1>1 DEF Headed, Numbers
<1> QED BY <1>1, <1>2, <1>3, <1>4 DEF Numbers

LEMMA ClosedType ==
  ASSUME ReadIn
  PROVE  ClosedUnits \in Seq(Whole) /\ ClosedSections \in Seq(Closed)
<1>1. ClosedUnits \in Seq(Whole)
  <2>1. CASE lines = <<>>
    BY <2>1 DEF ClosedUnits, ReadIn
  <2>2. CASE lines # <<>>
    <3>1. [heading |-> heading, kind |-> kind, lines |-> lines] \in Whole
      BY <2>2, NumbersOf DEF Whole, ReadIn
    <3> QED BY <2>2, <3>1, AppendProperties DEF ClosedUnits, ReadIn
  <2> QED BY <2>1, <2>2
<1>2. [heading |-> heading, units |-> ClosedUnits] \in Closed
  BY <1>1, NumbersOf DEF Closed
<1>3. sections \in Seq(Closed)
  BY DEF ReadIn
<1>4. Append(sections, [heading |-> heading, units |-> ClosedUnits]) \in Seq(Closed)
  BY <1>2, <1>3, AppendProperties
<1> QED BY <1>1, <1>3, <1>4 DEF ClosedSections

LEMMA AllUnitsType ==
  ASSUME NEW secs \in Seq(Closed)
  PROVE  AllUnits(secs) \in Seq(Whole)
<1>1. PICK f : f = [s \in DOMAIN secs |-> secs[s].units]
  OBVIOUS
<1>2. PICK S : S = Seq(Whole)
  OBVIOUS
<1>3. ASSUME NEW s \in DOMAIN secs PROVE f[s] \in S
  <2>1. secs[s] \in Closed
    BY ElementOfSeq, LenProperties
  <2> QED BY <1>1, <1>2, <2>1 DEF Closed
<1>4. f = [s \in DOMAIN secs |-> f[s]]
  BY <1>1
<1>5. f \in Seq(S)
  BY <1>3, <1>4, MapIsSequence
<1>6. FlattenSeq(f) \in Seq(Whole)
  BY <1>2, <1>5, FlattenType
<1> QED BY <1>1, <1>6 DEF AllUnits

\* Of the lines read and one more, each is one of those read.
LEMMA ReadOn ==
  ASSUME ReadIn, NEW line \in DOMAIN doc, Reading(line)
  PROVE  /\ doc' = doc /\ doc' \in Documents /\ read' = line /\ read' \in 0..Len(doc')
         /\ line \in Headed /\ line \in 0..read'
         /\ heading \in 0..read'
         /\ Seen \subseteq Seen'
         /\ doc[line] \notin Blanks => line \in Seen'
         /\ Whole' = Whole /\ Closed' = Closed
<1>1. /\ doc' = doc /\ read' = line /\ line = read + 1
      /\ read < Len(doc)
  BY DEF Reading
<1>2. Worded' = Worded /\ Whole' = Whole /\ Closed' = Closed /\ Numbers' = Numbers
  BY <1>1, Same
<1>3. line \in Numbers /\ Len(doc) \in Nat /\ read \in Nat
  BY NumbersOf
<1>4. Seen' = {n \in Worded : n <= line}
  BY <1>1, <1>2 DEF Seen
<1>5. \A n \in Worded : n \in Nat /\ (n <= read => n <= line)
  BY <1>1, <1>3 DEF Worded, Numbers
<1>6. Seen \subseteq Seen'
  BY <1>4, <1>5, Zenon DEF Seen
<1>7. doc[line] \notin Blanks => line \in Seen'
  BY <1>3, <1>4 DEF Worded, Numbers
<1>8. line \in 0..Len(doc) /\ line \in 0..line /\ line \in Headed /\ heading \in 0..line
  BY <1>1, <1>3 DEF Numbers, Headed, ReadIn
<1> QED BY <1>1, <1>2, <1>6, <1>7, <1>8 DEF ReadIn

LEMMA StaysRead ==
  ASSUME ReadIn, UNCHANGED <<doc, reading>>
  PROVE  ReadIn'
<1>1. /\ doc' = doc /\ read' = read /\ fenced' = fenced /\ heading' = heading /\ kind' = kind
      /\ lines' = lines /\ units' = units /\ sections' = sections
  BY DEF reading
<1>2. Seen' = Seen /\ Whole' = Whole /\ Closed' = Closed
  BY <1>1, Same
<1> QED BY <1>1, <1>2 DEF ReadIn

LEMMA StaysLaidOut ==
  ASSUME LaidOut, OnlyHeadingsRefuse, UNCHANGED <<doc, todo, dividing, nodes, pc>>
  PROVE  LaidOut' /\ OnlyHeadingsRefuse'
<1>1. /\ doc' = doc /\ todo' = todo /\ nodes' = nodes /\ pc' = pc
      /\ rows' = rows /\ row' = row /\ parts' = parts /\ pieces' = pieces
  BY DEF dividing
<1>2. Worded' = Worded /\ Whole' = Whole /\ Body' = Body /\ Fitting' = Fitting /\ Within' = Within
  BY <1>1, Same
<1>3. LaidOut'
  BY <1>1, <1>2 DEF LaidOut, Unit
<1>4. OnlyHeadingsRefuse'
  BY <1>1 DEF OnlyHeadingsRefuse, Unit, Roomy, LineText
<1> QED BY <1>3, <1>4

LEMMA InvHoldsFirst ==
  ASSUME Init
  PROVE  Inv
<1>1. doc \in Documents /\ Len(doc) \in Nat
  BY DocumentIs DEF Init
<1>2. /\ lines \in Seq(Seen) /\ units \in Seq(Whole) /\ sections \in Seq(Closed)
      /\ todo \in Seq(Whole) /\ rows \in Seq(Worded)
  BY EmptySeq DEF Init
<1>3. parts \in Seq(Body) /\ pieces \in Seq(Body) /\ nodes \in Seq(Fitting)
  BY EmptySeq DEF Init
<1>4. pc = "lines" /\ read = 0 /\ heading = 0 /\ fenced = FALSE /\ kind = "none" /\ lines = <<>>
  BY DEF Init
<1>5. ReadIn
  <2>1. read \in 0..Len(doc) /\ heading \in 0..read
    BY <1>1, <1>4
  <2>2. fenced \in BOOLEAN /\ kind \in {"none", "prose", "table"}
    BY <1>4
  <2> QED BY <1>1, <1>2, <1>4, <2>1, <2>2, Zenon DEF ReadIn
<1>6. LaidOut
  BY <1>2, <1>3, <1>4 DEF LaidOut, PCs
<1> QED BY <1>4, <1>5, <1>6 DEF Inv, OnlyHeadingsRefuse

-----------------------------------------------------------------------------
(* The lines are read.                                                     *)

LEMMA OpenSectionKeeps ==
  ASSUME ReadIn, NEW line \in DOMAIN doc, OpenSection(line)
  PROVE  ReadIn'
<1>1. /\ sections' = ClosedSections /\ heading' = line /\ fenced' = fenced
      /\ units' = <<>> /\ lines' = <<>> /\ kind' = "none"
      /\ Reading(line)
  BY DEF OpenSection
<1>2. /\ doc' \in Documents /\ read' \in 0..Len(doc') /\ line \in 0..read'
      /\ Whole' = Whole /\ Closed' = Closed
  BY <1>1, ReadOn
<1>3. /\ lines' \in Seq(Seen') /\ units' \in Seq(Whole)
      /\ sections' \in Seq(Closed)
  BY <1>1, ClosedType, EmptySeq
<1>4. fenced \in BOOLEAN
  BY DEF ReadIn
<1> QED BY <1>1, <1>2, <1>3, <1>4 DEF ReadIn

LEMMA EndUnitKeeps ==
  ASSUME ReadIn, NEW line \in DOMAIN doc, EndUnit(line)
  PROVE  ReadIn'
<1>1. /\ sections' = sections /\ heading' = heading /\ fenced' = fenced
      /\ units' = ClosedUnits /\ lines' = <<>> /\ kind' = "none"
      /\ Reading(line)
  BY DEF EndUnit
<1>2. /\ doc' \in Documents /\ read' \in 0..Len(doc') /\ heading \in 0..read'
      /\ Whole' = Whole /\ Closed' = Closed
  BY <1>1, ReadOn
<1>3. lines' \in Seq(Seen') /\ units' \in Seq(Whole)
  BY <1>1, ClosedType, EmptySeq
<1>4. fenced \in BOOLEAN /\ sections \in Seq(Closed)
  BY DEF ReadIn
<1> QED BY <1>1, <1>2, <1>3, <1>4 DEF ReadIn

LEMMA TakeLineKeeps ==
  ASSUME ReadIn, NEW line \in DOMAIN doc, TakeLine(line)
  PROVE  ReadIn'
<1>1. /\ sections' = sections /\ heading' = heading
      /\ fenced' = (fenced # (doc[line] \in Fences))
      /\ kind' = LineKind(line)
      /\ kind' = kind => lines' = Append(lines, line) /\ units' = units
      /\ kind' # kind => lines' = <<line>> /\ units' = ClosedUnits
      /\ Reading(line) /\ doc[line] \notin Blanks
  BY DEF TakeLine
<1>2. /\ doc' \in Documents /\ read' \in 0..Len(doc') /\ heading \in 0..read'
      /\ Seen \subseteq Seen' /\ line \in Seen'
      /\ Whole' = Whole /\ Closed' = Closed
  BY <1>1, ReadOn
<1>3. units' \in Seq(Whole) /\ sections' \in Seq(Closed)
  BY <1>1, ClosedType DEF ReadIn
<1>4. fenced' \in BOOLEAN
  BY <1>1
<1>5. kind' \in {"prose", "table"}
  BY <1>1 DEF LineKind
<1>6. lines' \in Seq(Seen') /\ lines' # <<>>
  <2>1. PICK S : S = Seen'
    OBVIOUS
  <2>2. lines \in Seq(S)
    BY <1>2, <2>1, SeqMonotonic DEF ReadIn
  <2>3. Append(lines, line) \in Seq(S) /\ Append(lines, line) # <<>>
    BY <1>2, <2>1, <2>2, AppendProperties
  <2>4. <<line>> \in Seq(S) /\ <<line>> # <<>>
    BY <1>2, <2>1
  <2> QED BY <1>1, <2>1, <2>3, <2>4
<1> QED BY <1>1, <1>2, <1>3, <1>4, <1>5, <1>6 DEF ReadIn

LEMMA EndDocumentKeeps ==
  ASSUME Inv, EndDocument
  PROVE  Inv'
<1>1. /\ sections' = ClosedSections /\ todo' = AllUnits(ClosedSections)
      /\ units' = <<>> /\ lines' = <<>> /\ kind' = "none" /\ pc' = "units"
      /\ doc' = doc /\ read' = read /\ fenced' = fenced /\ heading' = heading
      /\ rows' = rows /\ row' = row /\ parts' = parts /\ pieces' = pieces /\ nodes' = nodes
  BY DEF EndDocument, dividing
<1>2. /\ Seen' = Seen /\ Worded' = Worded /\ Whole' = Whole /\ Closed' = Closed
      /\ Body' = Body /\ Fitting' = Fitting
  BY <1>1, Same
<1>3. /\ ClosedSections \in Seq(Closed)
      /\ AllUnits(ClosedSections) \in Seq(Whole)
  BY ClosedType, AllUnitsType DEF Inv
<1>4. ReadIn'
  <2>1. lines' \in Seq(Seen') /\ units' \in Seq(Whole')
    BY <1>1, EmptySeq
  <2> QED BY <1>1, <1>2, <1>3, <2>1 DEF Inv, ReadIn
<1>5. LaidOut'
  BY <1>1, <1>2, <1>3 DEF Inv, LaidOut, PCs
<1>6. OnlyHeadingsRefuse'
  BY <1>1 DEF OnlyHeadingsRefuse
<1> QED BY <1>4, <1>5, <1>6 DEF Inv

-----------------------------------------------------------------------------
(* The units are laid out.                                                 *)

LEMMA UnitIs ==
  ASSUME LaidOut, todo # <<>>
  PROVE  /\ Unit \in Whole /\ Unit.heading \in Headed /\ Unit.lines \in Seq(Worded)
         /\ Unit.lines # <<>>
         /\ Tail(todo) \in Seq(Whole)
<1>1. Unit \in Whole /\ Tail(todo) \in Seq(Whole)
  BY HeadTailProperties DEF LaidOut, Unit
<1> QED BY <1>1 DEF Whole

\* A heading leaves room exactly if it leaves more than what the model adds.
LEMMA RoomyIs ==
  ASSUME doc \in Documents, NEW u \in Whole
  PROVE  /\ Heading(u) = HeadingOf(u.heading)
         /\ Roomy(u.heading) <=> Cap - Len(Heading(u)) > Special
         /\ u.heading = 0 => Len(Heading(u)) = 0
<1>1. Len(<<>>) = 0
  OBVIOUS
<1>2. Heading(u) = HeadingOf(u.heading) /\ (u.heading = 0 => Heading(u) = <<>>)
  BY DEF Heading, HeadingOf
<1>3. Len(Heading(u)) = IF u.heading = 0 THEN 0 ELSE Len(LineText(u.heading))
  BY <1>1 DEF Heading
<1> QED BY <1>1, <1>2, <1>3, Zenon DEF Roomy

\* What fits what the heading leaves fits the cap.
LEMMA WithinFits ==
  ASSUME doc \in Documents, NEW u \in Whole, NEW body \in Body, Size(body) <= Limit(u)
  PROVE  [heading |-> u.heading, body |-> body] \in Fitting
<1>1. PICK h \in Nat, b \in Nat : h = Len(Heading(u)) /\ b = Len(body)
  BY HeadingType, LenProperties DEF Body, Filled
<1>2. Len(Heading(u) \o body) = h + b
  BY <1>1, HeadingType, ConcatProperties DEF Body, Filled
<1>3. Cap \in Nat /\ Special \in Nat
  BY LayoutAssumption
<1>4. ASSUME Roomy(u.heading) PROVE Size(HeadingOf(u.heading) \o body) <= Cap
  <2>1. Cap - h > Special
    BY <1>1, <1>4, RoomyIs
  <2>2. Limit(u) = Cap - h
    BY <1>1, <1>3, <2>1, LimitIs
  <2>3. Special + b <= Cap - h
    BY <1>1, <2>2 DEF Size
  <2>4. Special + (h + b) <= Cap
    BY <1>1, <1>3, <2>3
  <2> QED BY <1>2, <2>4, RoomyIs DEF Size
<1>5. [heading |-> u.heading, body |-> body] \in [heading : Headed, body : Body]
  BY DEF Whole
<1> QED BY <1>4, <1>5 DEF Fitting

LEMMA StoredKeeps ==
  ASSUME LaidOut, todo # <<>>, NEW T, NEW texts \in Seq(T), Stored(texts),
         \A text \in T : Node(text) \in Fitting
  PROVE  nodes' \in Seq(Fitting) /\ todo' \in Seq(Whole)
<1>1. PICK f : f = NodesOf(texts)
  OBVIOUS
<1>2. ASSUME NEW k \in DOMAIN texts PROVE f[k] \in Fitting
  <2>1. texts[k] \in T
    BY ElementOfSeq, LenProperties
  <2>2. f[k] = Node(texts[k])
    BY <1>1 DEF NodesOf
  <2> QED BY <2>1, <2>2
<1>3. f = [k \in DOMAIN texts |-> f[k]]
  BY <1>1 DEF NodesOf
<1>4. f \in Seq(Fitting)
  BY <1>2, <1>3, MapIsSequence
<1>5. nodes \o f \in Seq(Fitting)
  BY <1>4, ConcatProperties DEF LaidOut
<1> QED BY <1>1, <1>5, UnitIs DEF Stored

\* Between two units nothing more is to be kept.
LEMMA BetweenUnits ==
  ASSUME Inv, doc' = doc, pc' = "units", todo' \in Seq(Whole), nodes' \in Seq(Fitting),
         rows' \in Seq(Worded), parts' \in Seq(Body), pieces' \in Seq(Body)
  PROVE  LaidOut' /\ OnlyHeadingsRefuse'
<1>1. Worded' = Worded /\ Whole' = Whole /\ Body' = Body /\ Fitting' = Fitting
  BY Same
<1>2. LaidOut'
  BY <1>1 DEF LaidOut, PCs
<1> QED BY <1>2 DEF OnlyHeadingsRefuse

LEMMA KeepParagraphKeeps ==
  ASSUME Inv, KeepParagraph
  PROVE  Inv'
<1>1. /\ todo # <<>> /\ pc' = "units" /\ doc' = doc
      /\ Size(Heading(Unit) \o Text(Unit.lines)) <= Cap
      /\ Stored(<<Text(Unit.lines)>>)
      /\ rows' = rows /\ parts' = parts /\ pieces' = pieces
      /\ UNCHANGED <<doc, reading>>
  BY DEF KeepParagraph, dividing, Inv, LaidOut
<1>2. doc \in Documents /\ LaidOut /\ ReadIn
  BY DEF Inv, ReadIn
<1>3. PICK text \in Body : text = Text(Unit.lines)
  BY <1>1, <1>2, UnitIs, TextType
<1>4. Node(text) \in Fitting
  <2>1. Node(text) \in [heading : Headed, body : Body]
    BY <1>1, <1>2, UnitIs DEF Node
  <2>2. Size(HeadingOf(Unit.heading) \o text) <= Cap
    BY <1>1, <1>2, <1>3, UnitIs, RoomyIs
  <2> QED BY <2>1, <2>2 DEF Fitting, Node
<1>5. <<text>> \in Seq({text})
  OBVIOUS
<1>6. nodes' \in Seq(Fitting) /\ todo' \in Seq(Whole)
  BY <1>1, <1>2, <1>3, <1>4, <1>5, StoredKeeps
<1>7. LaidOut' /\ OnlyHeadingsRefuse'
  BY <1>1, <1>6, BetweenUnits DEF Inv, LaidOut
<1> QED BY <1>1, <1>2, <1>7, StaysRead DEF Inv

LEMMA KeepTableKeeps ==
  ASSUME Inv, KeepTable
  PROVE  Inv'
<1>1. /\ todo # <<>> /\ pc' = "units" /\ doc' = doc
      /\ Size(Table(Unit, RowsOf(Unit))) <= Limit(Unit)
      /\ Stored(<<Table(Unit, RowsOf(Unit))>>)
      /\ rows' = rows /\ parts' = parts /\ pieces' = pieces
      /\ UNCHANGED <<doc, reading>>
  BY DEF KeepTable, dividing, Inv, LaidOut
<1>2. doc \in Documents /\ LaidOut /\ ReadIn
  BY DEF Inv, ReadIn
<1>3. PICK text \in Body : text = Table(Unit, RowsOf(Unit))
  BY <1>1, <1>2, UnitIs, HeaderType
<1>4. Node(text) \in Fitting
  BY <1>1, <1>2, <1>3, UnitIs, WithinFits DEF Node
<1>5. <<text>> \in Seq({text})
  OBVIOUS
<1>6. nodes' \in Seq(Fitting) /\ todo' \in Seq(Whole)
  BY <1>1, <1>2, <1>3, <1>4, <1>5, StoredKeeps
<1>7. LaidOut' /\ OnlyHeadingsRefuse'
  BY <1>1, <1>6, BetweenUnits DEF Inv, LaidOut
<1> QED BY <1>1, <1>2, <1>7, StaysRead DEF Inv

LEMMA UnitDoneKeeps ==
  ASSUME Inv, UnitDone
  PROVE  Inv'
<1>1. /\ pc = "bound" /\ todo # <<>> /\ pc' = "units" /\ doc' = doc
      /\ Stored(pieces)
      /\ rows' = rows /\ parts' = parts /\ pieces' = <<>>
      /\ UNCHANGED <<doc, reading>>
  BY DEF UnitDone, Inv, LaidOut
<1>2. doc \in Documents /\ LaidOut /\ ReadIn
  BY DEF Inv, ReadIn
<1>3. pieces \in Seq(Within)
  BY <1>1, <1>2 DEF LaidOut
<1>4. ASSUME NEW text \in Within PROVE Node(text) \in Fitting
  BY <1>1, <1>2, UnitIs, WithinFits DEF Node, Within
<1>5. nodes' \in Seq(Fitting) /\ todo' \in Seq(Whole)
  BY <1>1, <1>2, <1>3, <1>4, StoredKeeps
<1>6. rows' \in Seq(Worded) /\ parts' \in Seq(Body) /\ pieces' \in Seq(Body)
  BY <1>1, EmptySeq DEF Inv, LaidOut
<1>7. LaidOut' /\ OnlyHeadingsRefuse'
  BY <1>1, <1>5, <1>6, BetweenUnits
<1> QED BY <1>1, <1>2, <1>7, StaysRead DEF Inv

\* Within a unit the document stays, and what is left to lay out.
LEMMA WithinUnit ==
  ASSUME Inv, UNCHANGED <<doc, reading>>, todo' = todo, todo # <<>>, nodes' = nodes,
         pc' \in {"rows", "bound"}, pc' = "rows" => row' \in 1..Len(Unit.lines) + 1,
         rows' \in Seq(Worded), parts' \in Seq(Body), pieces' \in Seq(Within)
  PROVE  Inv'
<1>1. doc' = doc
  OBVIOUS
<1>2. /\ Worded' = Worded /\ Whole' = Whole /\ Body' = Body /\ Fitting' = Fitting
      /\ Within' = Within
  BY <1>1, Same
<1>3. pieces' \in Seq(Body)
  <2>1. Within \subseteq Body
    BY DEF Within
  <2> QED BY <2>1, SeqMonotonic
<1>4. LaidOut'
  <2>1. Unit' = Unit
    BY DEF Unit
  <2>2. todo \in Seq(Whole) /\ nodes \in Seq(Fitting) /\ pc' \in PCs
    BY DEF Inv, LaidOut, PCs
  <2> QED BY <1>2, <1>3, <2>1, <2>2 DEF LaidOut
<1>5. OnlyHeadingsRefuse'
  BY DEF OnlyHeadingsRefuse
<1> QED BY <1>4, <1>5, StaysRead DEF Inv

LEMMA DivideParagraphKeeps ==
  ASSUME Inv, NEW ends \in SUBSET DOMAIN doc, DivideParagraph(ends)
  PROVE  Inv'
<1>1. /\ todo # <<>> /\ todo' = todo /\ pc' = "bound" /\ nodes' = nodes
      /\ rows' = rows /\ pieces' = <<>>
      /\ ends \in SUBSET DOMAIN Unit.lines
      /\ UNCHANGED <<doc, reading>>
  BY DEF DivideParagraph
<1>2. doc \in Documents /\ LaidOut
  BY DEF Inv, ReadIn
<1>3. PICK ns \in Seq(Worded) : ns = Unit.lines
  BY <1>1, <1>2, UnitIs
<1>4. parts' \in Seq(Body)
  <2>1. parts' = LET stops == Sorted(ends)
                     From(k) == IF k = 1 THEN 1 ELSE stops[k - 1] + 1
                 IN [k \in DOMAIN stops |-> Text(SubSeq(ns, From(k), stops[k]))]
    BY <1>3 DEF DivideParagraph
  <2>2. ends \in SUBSET DOMAIN ns
    BY <1>1, <1>3
  <2>3. Texted(Worded, Token, Wordless)
    BY <1>2, WordedTexted
  <2> QED BY <2>1, <2>2, <2>3, DividedType DEF Body
<1>5. pieces' \in Seq(Within) /\ rows' \in Seq(Worded)
  BY <1>1, <1>2, EmptySeq DEF LaidOut
<1> QED BY <1>1, <1>4, <1>5, WithinUnit

LEMMA DivideTableKeeps ==
  ASSUME Inv, DivideTable
  PROVE  Inv'
<1>1. /\ todo # <<>> /\ todo' = todo /\ pc' = "rows" /\ nodes' = nodes
      /\ row' = HeadRows(Unit) + 1
      /\ rows' = <<>> /\ parts' = <<>> /\ pieces' = <<>>
      /\ UNCHANGED <<doc, reading>>
  BY DEF DivideTable
<1>2. doc \in Documents /\ LaidOut
  BY DEF Inv, ReadIn
<1>3. PICK n \in Nat : n = Len(Unit.lines)
  BY <1>1, <1>2, UnitIs, LenProperties
<1>4. HeadRows(Unit) \in 1..n
  BY <1>1, <1>2, <1>3, UnitIs, HeaderType
<1>5. row' \in 1..n + 1
  BY <1>1, <1>4
<1>6. pieces' \in Seq(Within) /\ rows' \in Seq(Worded) /\ parts' \in Seq(Body)
  BY <1>1, EmptySeq
<1> QED BY <1>1, <1>3, <1>5, <1>6, WithinUnit

\* What the steps through a table's rows collect.
LEMMA RowsType ==
  ASSUME Inv, pc = "rows", row <= Len(Unit.lines)
  PROVE  /\ ThisRow \in Worded
         /\ Flushed \in Seq(Body)
         /\ row + 1 \in 1..Len(Unit.lines) + 1
<1>1. todo # <<>> /\ doc \in Documents /\ LaidOut
  BY DEF Inv, ReadIn, LaidOut
<1>2. PICK ns \in Seq(Worded) : ns = Unit.lines
  BY <1>1, UnitIs
<1>3. PICK n \in Nat : n = Len(ns)
  BY LenProperties
<1>4. row \in 1..n
  <2>1. row \in 1..n + 1 /\ row <= n
    BY <1>1, <1>2, <1>3 DEF LaidOut
  <2> QED BY <2>1
<1>5. ThisRow \in Worded
  BY <1>2, <1>3, <1>4, ElementOfSeq DEF ThisRow
<1>6. rows \in Seq(Worded) /\ parts \in Seq(Body)
  BY <1>1 DEF LaidOut
<1>7. Table(Unit, rows) \in Body
  BY <1>1, <1>6, UnitIs, HeaderType
<1>8. Append(parts, Table(Unit, rows)) \in Seq(Body)
  BY <1>6, <1>7, AppendProperties
<1>9. row + 1 \in 1..n + 1
  BY <1>4
<1> QED BY <1>2, <1>3, <1>5, <1>6, <1>8, <1>9 DEF Flushed

LEMMA TakeRowKeeps ==
  ASSUME Inv, TakeRow
  PROVE  Inv'
<1>1. /\ pc = "rows" /\ todo' = todo /\ pc' = "rows" /\ nodes' = nodes
      /\ row <= Len(Unit.lines) /\ row' = row + 1
      /\ parts' = Flushed /\ pieces' = pieces
      /\ rows' = IF Overfull THEN <<ThisRow>> ELSE Append(rows, ThisRow)
      /\ UNCHANGED <<doc, reading>>
  BY DEF TakeRow
<1>2. /\ todo # <<>> /\ pieces \in Seq(Within) /\ rows \in Seq(Worded)
  BY <1>1 DEF Inv, LaidOut
<1>3. ThisRow \in Worded /\ Flushed \in Seq(Body) /\ row + 1 \in 1..Len(Unit.lines) + 1
  BY <1>1, RowsType
<1>4. rows' \in Seq(Worded)
  <2>1. <<ThisRow>> \in Seq(Worded)
    BY <1>3
  <2>2. Append(rows, ThisRow) \in Seq(Worded)
    BY <1>2, <1>3, AppendProperties
  <2> QED BY <1>1, <2>1, <2>2
<1> QED BY <1>1, <1>2, <1>3, <1>4, WithinUnit

LEMMA CutRowKeeps ==
  ASSUME Inv, CutRow
  PROVE  Inv'
<1>1. /\ pc = "rows" /\ todo' = todo /\ pc' = "rows" /\ nodes' = nodes
      /\ row <= Len(Unit.lines) /\ row' = row + 1
      /\ pieces' = pieces
      /\ rows' = IF Overfull THEN <<>> ELSE rows
      /\ UNCHANGED <<doc, reading>>
  BY DEF CutRow
<1>2. PICK slices :
         /\ slices = Cut(LineText(ThisRow), RowBudget(Unit))
         /\ parts' = Flushed \o [k \in DOMAIN slices |-> Header(Unit) \o slices[k]]
  BY DEF CutRow
<1>3. /\ todo # <<>> /\ pieces \in Seq(Within) /\ rows \in Seq(Worded)
      /\ doc \in Documents /\ LaidOut
  BY <1>1 DEF Inv, LaidOut, ReadIn
<1>4. ThisRow \in Worded /\ Flushed \in Seq(Body) /\ row + 1 \in 1..Len(Unit.lines) + 1
  BY <1>1, RowsType
<1>5. slices \in Seq(Body)
  <2>1. LineText(ThisRow) \in Body
    BY <1>3, <1>4, LineTextType DEF Worded
  <2>2. RowBudget(Unit) \in Nat \ {0}
    BY <1>3, UnitIs, LimitIs
  <2> QED BY <1>2, <2>1, <2>2, CutType DEF Body, Token
<1>6. PICK f : f = [k \in DOMAIN slices |-> Header(Unit) \o slices[k]]
  OBVIOUS
<1>7. ASSUME NEW k \in DOMAIN slices PROVE f[k] \in Body
  <2>1. slices[k] \in Body
    BY <1>5, ElementOfSeq, LenProperties
  <2>2. Header(Unit) \in Seq(Token)
    BY <1>3, UnitIs, HeaderType DEF Body, Filled
  <2>3. Header(Unit) \o slices[k] \in Body
    BY <2>1, <2>2, ConcatFilled DEF Body
  <2> QED BY <1>6, <2>3
<1>8. f = [k \in DOMAIN slices |-> f[k]]
  BY <1>6
<1>9. f \in Seq(Body)
  BY <1>5, <1>7, <1>8, MapIsSequence
<1>10. parts' \in Seq(Body)
  BY <1>2, <1>4, <1>6, <1>9, ConcatProperties
<1>11. rows' \in Seq(Worded)
  BY <1>1, <1>3, EmptySeq
<1> QED BY <1>1, <1>3, <1>4, <1>10, <1>11, WithinUnit

LEMMA EndTableKeeps ==
  ASSUME Inv, EndTable
  PROVE  Inv'
<1>1. /\ pc = "rows" /\ todo' = todo /\ pc' = "bound" /\ nodes' = nodes
      /\ parts' = (IF rows # <<>> THEN Append(parts, Table(Unit, rows))
                   ELSE IF parts = <<>> THEN <<Header(Unit)>> ELSE parts)
      /\ rows' = <<>> /\ pieces' = pieces
      /\ UNCHANGED <<doc, reading>>
  BY DEF EndTable
<1>2. /\ todo # <<>> /\ pieces \in Seq(Within) /\ rows \in Seq(Worded) /\ parts \in Seq(Body)
      /\ doc \in Documents /\ LaidOut
  BY <1>1 DEF Inv, LaidOut, ReadIn
<1>3. PICK header \in Body, table \in Body : header = Header(Unit) /\ table = Table(Unit, rows)
  BY <1>2, UnitIs, HeaderType
<1>4. Append(parts, table) \in Seq(Body) /\ <<header>> \in Seq(Body)
  BY <1>2, <1>3, AppendProperties
<1>5. parts' \in Seq(Body)
  BY <1>1, <1>2, <1>3, <1>4
<1>6. rows' \in Seq(Worded)
  BY <1>1, EmptySeq
<1> QED BY <1>1, <1>2, <1>5, <1>6, WithinUnit

LEMMA PartFitsKeeps ==
  ASSUME Inv, PartFits
  PROVE  Inv'
<1>1. /\ pc = "bound" /\ todo' = todo /\ pc' = "bound" /\ nodes' = nodes
      /\ parts # <<>> /\ Size(Head(parts)) <= Limit(Unit)
      /\ pieces' = Append(pieces, Head(parts)) /\ parts' = Tail(parts) /\ rows' = rows
      /\ UNCHANGED <<doc, reading>>
  BY DEF PartFits, Inv, LaidOut
<1>2. /\ todo # <<>> /\ pieces \in Seq(Within) /\ rows \in Seq(Worded) /\ parts \in Seq(Body)
  BY <1>1 DEF Inv, LaidOut
<1>3. Head(parts) \in Body /\ Tail(parts) \in Seq(Body)
  BY <1>1, <1>2, HeadTailProperties
<1>4. Head(parts) \in Within
  BY <1>1, <1>3 DEF Within
<1>5. Append(pieces, Head(parts)) \in Seq(Within)
  BY <1>2, <1>4, AppendProperties
<1> QED BY <1>1, <1>2, <1>3, <1>5, WithinUnit

LEMMA PartIsCutKeeps ==
  ASSUME Inv, PartIsCut
  PROVE  Inv'
<1>1. /\ pc = "bound" /\ todo' = todo /\ pc' = "bound" /\ nodes' = nodes
      /\ parts # <<>> /\ pieces' = pieces /\ rows' = rows
      /\ parts' = Cut(Head(parts), BoundBudget(Unit)) \o Tail(parts)
      /\ UNCHANGED <<doc, reading>>
  BY DEF PartIsCut, Inv, LaidOut
<1>2. /\ todo # <<>> /\ pieces \in Seq(Within) /\ rows \in Seq(Worded) /\ parts \in Seq(Body)
      /\ doc \in Documents /\ LaidOut
  BY <1>1 DEF Inv, LaidOut, ReadIn
<1>3. Head(parts) \in Body /\ Tail(parts) \in Seq(Body)
  BY <1>1, <1>2, HeadTailProperties
<1>4. Cut(Head(parts), BoundBudget(Unit)) \in Seq(Body)
  <2>1. BoundBudget(Unit) \in Nat \ {0}
    BY <1>2, UnitIs, LimitIs
  <2> QED BY <1>3, <2>1, CutType DEF Body, Token
<1>5. parts' \in Seq(Body)
  BY <1>1, <1>3, <1>4, ConcatProperties
<1> QED BY <1>1, <1>2, <1>5, WithinUnit

\* A step that only ends the work keeps what is laid out.
LEMMA EndedLaidOut ==
  ASSUME Inv, UNCHANGED <<doc, todo, dividing, nodes>>, pc' \in {"done", "refused", "raised"},
         pc' # "done" => todo # <<>>
  PROVE  LaidOut'
<1>1. /\ doc' = doc /\ todo' = todo /\ nodes' = nodes
      /\ rows' = rows /\ parts' = parts /\ pieces' = pieces
  BY DEF dividing
<1>2. Worded' = Worded /\ Whole' = Whole /\ Body' = Body /\ Fitting' = Fitting
  BY <1>1, Same
<1> QED BY <1>1, <1>2 DEF Inv, LaidOut, PCs

\* Without a heading the cap itself is left, and no splitter refuses that.
LEMMA SplitterRefusesKeeps ==
  ASSUME Inv, SplitterRefuses
  PROVE  Inv'
<1>1. /\ todo # <<>> /\ pc' = "refused" /\ Limit(Unit) < Overlap
      /\ todo' = todo
      /\ UNCHANGED <<doc, todo, dividing, nodes>> /\ UNCHANGED <<doc, reading>>
  BY DEF SplitterRefuses
<1>2. doc \in Documents /\ LaidOut /\ ReadIn
  BY DEF Inv, ReadIn
<1>3. PICK u \in Whole : u = Unit
  BY <1>1, <1>2, UnitIs
<1>4. u.heading # 0
  <2>1. SUFFICES ASSUME u.heading = 0 PROVE FALSE
    OBVIOUS
  <2>2. Len(Heading(u)) = 0
    BY <1>2, <2>1, RoomyIs
  <2>3. Cap \in Nat /\ Overlap \in Nat /\ Overlap <= Cap
    BY LayoutAssumption
  <2>4. PICK l \in Nat : l = Limit(u) /\ l = IF Cap - 0 >= 1 THEN Cap - 0 ELSE 1
    BY <1>2, <2>2, LimitIs
  <2>5. l >= Overlap
    BY <2>3, <2>4
  <2>6. l < Overlap
    BY <1>1, <1>3, <2>4
  <2> QED BY <2>3, <2>4, <2>5, <2>6
<1>5. OnlyHeadingsRefuse'
  <2>1. Unit' = u
    BY <1>1, <1>3 DEF Unit
  <2> QED BY <1>1, <1>4, <2>1 DEF OnlyHeadingsRefuse
<1>6. LaidOut'
  BY <1>1, EndedLaidOut
<1> QED BY <1>1, <1>2, <1>5, <1>6, StaysRead DEF Inv

\* Where a heading leaves room, what is over its limit is more than the budget.
LEMMA RecursionEndsKeeps ==
  ASSUME Inv, RecursionEnds
  PROVE  Inv'
<1>1. /\ pc = "bound" /\ pc' = "raised" /\ parts # <<>>
      /\ Size(Head(parts)) > Limit(Unit) /\ Len(Head(parts)) <= BoundBudget(Unit)
      /\ todo' = todo /\ doc' = doc
      /\ UNCHANGED <<doc, todo, dividing, nodes>> /\ UNCHANGED <<doc, reading>>
  BY DEF RecursionEnds
<1>2. doc \in Documents /\ LaidOut /\ ReadIn /\ todo # <<>> /\ parts \in Seq(Body)
  BY <1>1 DEF Inv, ReadIn, LaidOut
<1>3. PICK u \in Whole : u = Unit
  BY <1>2, UnitIs
<1>4. ~Roomy(u.heading)
  <2>1. SUFFICES ASSUME Roomy(u.heading) PROVE FALSE
    OBVIOUS
  <2>2. PICK h \in Nat, l \in Nat, b \in Nat :
           h = Len(Heading(u)) /\ l = Limit(u) /\ b = Len(Head(parts))
    <3>1. Head(parts) \in Body
      BY <1>1, <1>2, HeadTailProperties
    <3> QED BY <1>2, <3>1, HeadingType, LimitIs, LenProperties DEF Body, Filled
  <2>3. Cap \in Nat /\ Special \in Nat
    BY LayoutAssumption
  <2>4. Cap - h > Special
    BY <1>2, <2>1, <2>2, RoomyIs
  <2>5. l = Cap - h
    <3>1. l = IF Cap - h >= 1 THEN Cap - h ELSE 1
      BY <1>2, <2>2, LimitIs
    <3> QED BY <2>3, <2>4, <3>1
  <2>6. BoundBudget(u) = l - Special
    <3>1. BoundBudget(u) = IF l - Special >= 1 THEN l - Special ELSE 1
      BY <1>2, <2>2, LimitIs
    <3> QED BY <2>3, <2>4, <2>5, <3>1
  <2>7. Special + b > l /\ b <= l - Special
    BY <1>1, <1>3, <2>2, <2>6 DEF Size
  <2> QED BY <2>2, <2>3, <2>7
<1>5. u.heading # 0
  <2>1. SUFFICES ASSUME u.heading = 0 PROVE FALSE
    OBVIOUS
  <2>2. Len(Heading(u)) = 0
    BY <1>2, <2>1, RoomyIs
  <2>3. Cap - Len(Heading(u)) > Special
    BY <2>2, LayoutAssumption
  <2> QED BY <1>2, <1>4, <2>3, RoomyIs
<1>6. OnlyHeadingsRefuse'
  <2>1. Unit' = u
    BY <1>1, <1>3 DEF Unit
  <2>2. Roomy(u.heading)' <=> Roomy(u.heading)
    BY <1>1, <2>1 DEF Roomy, LineText
  <2>3. ~Roomy(Unit.heading)'
    BY <1>1, <1>3, <1>4 DEF Roomy, LineText, Unit
  <2> QED BY <1>5, <2>1, <2>3 DEF OnlyHeadingsRefuse
<1>7. LaidOut'
  BY <1>1, <1>2, EndedLaidOut
<1> QED BY <1>1, <1>2, <1>6, <1>7, StaysRead DEF Inv

LEMMA FinishKeeps ==
  ASSUME Inv, Finish
  PROVE  Inv'
<1>1. pc' = "done" /\ UNCHANGED <<doc, todo, dividing, nodes>> /\ UNCHANGED <<doc, reading>>
  BY DEF Finish
<1>2. LaidOut' /\ OnlyHeadingsRefuse'
  BY <1>1, EndedLaidOut DEF OnlyHeadingsRefuse
<1> QED BY <1>1, <1>2, StaysRead DEF Inv

-----------------------------------------------------------------------------
(* Every step keeps the invariant.                                         *)

LEMMA StepKeeps ==
  ASSUME Inv, [Next]_vars
  PROVE  Inv'
<1>1. LaidOut /\ OnlyHeadingsRefuse /\ ReadIn
  BY DEF Inv
<1>2. ASSUME NEW line \in DOMAIN doc, OpenSection(line) \/ EndUnit(line) \/ TakeLine(line)
      PROVE  Inv'
  <2>1. Reading(line)
    BY <1>2 DEF OpenSection, EndUnit, TakeLine
  <2>2. LaidOut' /\ OnlyHeadingsRefuse'
    BY <1>1, <2>1, StaysLaidOut DEF Reading
  <2>3. ReadIn'
    BY <1>1, <1>2, OpenSectionKeeps, EndUnitKeeps, TakeLineKeeps
  <2> QED BY <2>2, <2>3 DEF Inv
<1>3. CASE EndDocument
  BY <1>3, EndDocumentKeeps
<1>4. CASE KeepParagraph \/ SplitterRefuses \/ KeepTable \/ DivideTable
  BY <1>4, KeepParagraphKeeps, SplitterRefusesKeeps, KeepTableKeeps, DivideTableKeeps
<1>5. ASSUME NEW ends \in SUBSET DOMAIN doc, DivideParagraph(ends) PROVE Inv'
  BY <1>5, DivideParagraphKeeps
<1>6. CASE TakeRow \/ CutRow \/ EndTable
  BY <1>6, TakeRowKeeps, CutRowKeeps, EndTableKeeps
<1>7. CASE PartFits \/ PartIsCut \/ RecursionEnds \/ UnitDone \/ Finish
  BY <1>7, PartFitsKeeps, PartIsCutKeeps, RecursionEndsKeeps, UnitDoneKeeps, FinishKeeps
<1>8. CASE UNCHANGED vars
  <2>1. UNCHANGED <<doc, reading>> /\ UNCHANGED <<doc, todo, dividing, nodes, pc>>
    BY <1>8 DEF vars, reading, dividing
  <2> QED BY <1>1, <2>1, StaysRead, StaysLaidOut DEF Inv
<1> QED BY <1>2, <1>3, <1>4, <1>5, <1>6, <1>7, <1>8 DEF Next

LEMMA InvHolds == Spec => []Inv
<1>1. Init => Inv
  BY InvHoldsFirst
<1>2. Inv /\ [Next]_vars => Inv'
  BY StepKeeps
<1> QED BY <1>1, <1>2, PTL DEF Spec

\* What the invariant says of types.
LEMMA InvTypes ==
  ASSUME Inv
  PROVE  TypeOK
<1>1. ReadIn /\ LaidOut
  BY DEF Inv
<1>2. /\ Numbers = 1..Len(doc) /\ DOMAIN doc = Numbers /\ Len(doc) \in Nat /\ read \in Nat
      /\ read \in 0..Len(doc)
  BY <1>1, NumbersOf DEF ReadIn
<1>3. lines \in Seq(1..read)
  <2>1. \A n \in Seen : n \in 1..read
    BY <1>2 DEF Seen, Worded
  <2>2. Seen \subseteq 1..read
    BY <2>1
  <2> QED BY <1>1, <2>2, SeqMonotonic DEF ReadIn
<1>4. Worded \subseteq 1..Len(doc) /\ Worded \subseteq Nat
  BY <1>2 DEF Worded
<1>5. Whole \subseteq Units
  <2>1. Seq(Worded) \subseteq Seq(Nat)
    BY <1>4, SeqMonotonic
  <2>2. Headed \subseteq Nat
    BY <1>2 DEF Headed
  <2> QED BY <2>1, <2>2 DEF Whole, Units
<1>6. units \in Seq(Units) /\ todo \in Seq(Units)
  BY <1>1, <1>5, SeqMonotonic DEF ReadIn, LaidOut
<1>7. sections \in Seq(Sections)
  <2>1. Seq(Whole) \subseteq Seq(Units)
    BY <1>5, SeqMonotonic
  <2>2. Headed \subseteq Nat
    BY <1>2 DEF Headed
  <2>3. Closed \subseteq Sections
    BY <2>1, <2>2 DEF Closed, Sections
  <2> QED BY <1>1, <2>3, SeqMonotonic DEF ReadIn
<1>8. rows \in Seq(1..Len(doc))
  BY <1>1, <1>4, SeqMonotonic DEF LaidOut
<1>9. ASSUME NEW text \in ToSet(parts) \cup ToSet(pieces) \cup {node.body : node \in ToSet(nodes)}
      PROVE  /\ text = <<>> => \E k \in DOMAIN Words \ Blanks : Words[k] = <<>>
             /\ ToSet(text) \subseteq TokensOf(1..Len(doc))
  <2>1. text \in Body
    <3>1. ASSUME NEW S, NEW s \in Seq(S) PROVE ToSet(s) \subseteq S
      BY ElementOfSeq, LenProperties DEF ToSet
    <3>2. ToSet(parts) \subseteq Body /\ ToSet(pieces) \subseteq Body /\ ToSet(nodes) \subseteq Fitting
      BY <1>1, <3>1 DEF LaidOut
    <3>3. \A node \in Fitting : node.body \in Body
      BY DEF Fitting
    <3> QED BY <3>2, <3>3
  <2>2. text \in Seq(Token) /\ (text = <<>> => Wordless)
    BY <2>1 DEF Body, Filled
  <2>3. ToSet(text) \subseteq Token
    BY <2>2, ElementOfSeq, LenProperties DEF ToSet
  <2> QED BY <1>2, <2>2, <2>3 DEF Wordless, Token
<1>10. /\ read \in 0..Len(doc) /\ fenced \in BOOLEAN /\ heading \in 0..read
       /\ kind \in {"none", "prose", "table"} /\ (kind = "none" <=> lines = <<>>)
       /\ pc \in PCs /\ (pc \in {"rows", "bound", "refused", "raised"} => todo # <<>>)
       /\ pc = "rows" => row \in 1..Len(Head(todo).lines) + 1
  BY <1>1 DEF ReadIn, LaidOut, Unit
<1> QED BY <1>3, <1>6, <1>7, <1>8, <1>9, <1>10, Zenon DEF TypeOK

-----------------------------------------------------------------------------

\* The variables keep their types: what is open are lines read and not blank, what is
\* laid out are texts of the document's tokens, and no slice, part or piece is empty.
THEOREM TypeCorrect == Spec => []TypeOK
<1>1. Inv => TypeOK
  BY InvTypes
<1> QED BY <1>1, InvHolds, PTL

\* Under a heading that leaves room every node fits the cap with its heading on,
\* whether it was kept whole, collected row by row or cut again and again, for every
\* tokenizer that adds less than the cap.
THEOREM NodesFitTheCap == Spec => []NodesFit
<1>1. Inv => NodesFit
  <2>1. ASSUME Inv, NEW node \in ToSet(nodes) PROVE node \in Fitting
    <3>1. nodes \in Seq(Fitting)
      BY <2>1 DEF Inv, LaidOut
    <3> QED BY <3>1, ElementOfSeq, LenProperties DEF ToSet
  <2> QED BY <2>1 DEF NodesFit, Fitting, HeadingOf
<1> QED BY <1>1, InvHolds, PTL

\* Laying out fails only under a heading, and recurses without end only under one that
\* leaves no room: content without a heading is always laid out or still being so.
THEOREM RefusalsHaveAHeading == Spec => []OnlyHeadingsRefuse
<1>1. Inv => OnlyHeadingsRefuse
  BY DEF Inv
<1> QED BY <1>1, InvHolds, PTL

-----------------------------------------------------------------------------
(* What a part is of, and what it begins with.  Units have no line in      *)
(* common, so that a part with a line of a table is of that table; and of  *)
(* a table whose header leaves a row a token every part begins with the    *)
(* header and is short enough not to be cut again.                         *)

Owned(u) == Filled(TokensOf(ToSet(u.lines)), Wordless)
\* Whether a slice of a row, read again, has its place beside the header.
Room(u) == Special >= 1 /\ u.kind = "table" /\ Size(Header(u)) + Special < Limit(u)
Named(u) ==
    {text \in Owned(u) :
        Room(u) =>
            /\ IsPrefix(Header(u), text)
            /\ RowsOf(u) # <<>> => Len(text) > Len(Header(u))}
Short(u) == {text \in Named(u) : Room(u) => Size(text) <= Limit(u)}

Apart(us) == \A u, v \in us : u # v => ToSet(u.lines) \cap ToSet(v.lines) = {}
AreRows(ns) == \A n \in ToSet(ns) : doc[n] \in Rows \cup Rules
UnitsOf(secs) == UNION {ToSet(sec.units) : sec \in ToSet(secs)}
UnitsClosed == ToSet(units) \cup UnitsOf(sections)

Disjoint ==
    /\ Apart(UnitsClosed)
    /\ \A u \in UnitsClosed :
          /\ ToSet(u.lines) \subseteq Seen \ ToSet(lines)
          /\ u.kind = "table" => AreRows(u.lines)
    /\ kind = "table" => AreRows(lines)

Laid == ToSet(AllUnits(sections))
NamedHere == Named(Unit)
ShortHere == Short(Unit)
Belonging == {node \in [heading : Headed, body : Body] : 
                 \E u \in Laid : node.heading = u.heading /\ node.body \in Named(u)}

Filling ==
    /\ Unit.kind = "table"
    /\ rows \in Seq(ToSet(Unit.lines))
    /\ rows # <<>> => Size(Table(Unit, rows)) <= Limit(Unit)
    /\ rows = <<>> /\ parts = <<>> => row = HeadRows(Unit) + 1

Naming ==
    /\ pc = "lines" => todo = <<>> /\ nodes = <<>>
    /\ todo \in Seq(Laid)
    /\ pc = "rows" => Filling
    /\ pc \in {"rows", "bound"} => parts \in Seq(ShortHere) /\ pieces \in Seq(NamedHere)
    /\ nodes \in Seq(Belonging)

\* The sets change with the document only, with the sections and with the unit.
LEMMA SameNames ==
  ASSUME doc' = doc
  PROVE  /\ sections' = sections => Laid' = Laid /\ Belonging' = Belonging
         /\ todo' = todo => NamedHere' = NamedHere /\ ShortHere' = ShortHere
<1>1. Headed' = Headed /\ Body' = Body
  BY Same
<1>2. sections' = sections => Laid' = Laid
  BY DEF Laid
<1>3. sections' = sections => Belonging' = Belonging
  BY <1>1, <1>2 DEF Belonging, Named, Owned, Room, Header, Underlined, HeadRows, RowsOf,
                    LineText, Limit, Heading
<1>4. todo' = todo => NamedHere' = NamedHere
  BY DEF NamedHere, Named, Owned, Room, Header, Underlined, HeadRows, RowsOf, LineText,
         Limit, Heading, Unit
<1>5. todo' = todo => ShortHere' = ShortHere
  BY <1>4 DEF ShortHere, NamedHere, Short, Named, Owned, Room, Header, Underlined, HeadRows,
              RowsOf, LineText, Limit, Heading, Unit
<1> QED BY <1>2, <1>3, <1>4, <1>5

LEMMA SeqOfItsSet ==
  ASSUME NEW S, NEW s \in Seq(S)
  PROVE  s \in Seq(ToSet(s)) /\ ToSet(s) \subseteq S
<1>1. DOMAIN s = 1..Len(s) /\ Len(s) \in Nat /\ \A k \in DOMAIN s : s[k] \in S
  BY LenProperties, ElementOfSeq
<1>2. ToSet(s) \subseteq S /\ \A k \in DOMAIN s : s[k] \in ToSet(s)
  BY <1>1 DEF ToSet
<1>3. s \in Seq(ToSet(s))
  <2>1. PICK T : T = ToSet(s)
    OBVIOUS
  <2>2. s = [k \in DOMAIN s |-> s[k]]
    BY <1>1, SeqDef
  <2> QED BY <1>2, <2>1, <2>2, MapIsSequence
<1> QED BY <1>2, <1>3

\* A unit's texts are of its lines, and a row's is not empty.
LEMMA OwnTexts ==
  ASSUME doc \in Documents, NEW u \in Whole
  PROVE  /\ u.lines \in Seq(ToSet(u.lines)) /\ ToSet(u.lines) \subseteq Worded
         /\ Texted(ToSet(u.lines), TokensOf(ToSet(u.lines)), Wordless)
         /\ AreRows(u.lines) => Texted(ToSet(u.lines), TokensOf(ToSet(u.lines)), FALSE)
<1>1. PICK ls \in Seq(Worded) : ls = u.lines
  BY DEF Whole
<1>2. ls \in Seq(ToSet(ls)) /\ ToSet(ls) \subseteq Worded
  BY SeqOfItsSet
<1>5. ASSUME NEW n \in ToSet(ls)
      PROVE  /\ LineText(n) \in Filled(TokensOf(ToSet(ls)), Wordless)
             /\ doc[n] \in Rows \cup Rules => LineText(n) \in Filled(TokensOf(ToSet(ls)), FALSE)
  <2>1. n \in Numbers /\ doc[n] \notin Blanks
    BY <1>2 DEF Worded
  <2>2. doc[n] \in Rows \cup Rules => Words[doc[n]] # <<>>
    BY LayoutAssumption
  <2> QED BY <2>1, <2>2, LineTextOf
<1> QED BY <1>1, <1>2, <1>5, Zenon DEF Texted, AreRows

LEMMA OwnHeader ==
  ASSUME doc \in Documents, NEW u \in Whole
  PROVE  /\ Header(u) \in Owned(u)
         /\ RowsOf(u) \in Seq(ToSet(u.lines))
<1>1. PICK W, ls :
         /\ ls = u.lines /\ W = ToSet(ls) /\ ls # <<>> /\ W \subseteq Worded /\ ls \in Seq(W)
         /\ Texted(W, TokensOf(W), Wordless)
  BY OwnTexts DEF Whole
<1>2. PICK n \in Nat \ {0} : n = Len(ls)
  BY <1>1, LenProperties, EmptySeq
<1>3. 1 \in 1..n /\ (n > 1 => 2 \in 1..n)
  OBVIOUS
<1>4. ls[1] \in W /\ (n > 1 => ls[2] \in W)
  BY <1>1, <1>2, <1>3, ElementOfSeq
<1>5. Underlined(u) => n > 1
  BY <1>1, <1>2 DEF Underlined
<1>6. LineText(ls[1]) \in Filled(TokensOf(W), Wordless)
  BY <1>1, <1>4 DEF Texted
<1>7. Underlined(u) => Canonical(ls[2]) \in Seq(TokensOf(W))
  <2>1. <<1>> \in Seq(Nat \ {0})
    OBVIOUS
  <2> QED BY <1>4, <1>5, <2>1, WrittenType DEF Canonical
<1>8. Header(u) \in Filled(TokensOf(W), Wordless)
  BY <1>1, <1>6, <1>7, ConcatFilled DEF Header
<1>9. RowsOf(u) \in Seq(W)
  <2>1. PICK m \in 1..n : m = HeadRows(u)
    BY <1>1, <1>2, HeaderType
  <2>2. \A i \in m + 1..n : ls[i] \in W
    <3>1. \A i \in m + 1..n : i \in 1..n
      OBVIOUS
    <3> QED BY <1>1, <1>2, <3>1, ElementOfSeq
  <2>3. SubSeq(ls, m + 1, n) \in Seq(W)
    BY <2>2, SubSeqProperties
  <2> QED BY <1>1, <1>2, <2>1, <2>3 DEF RowsOf
<1> QED BY <1>1, <1>8, <1>9 DEF Owned

\* What is behind a header begins with it.
LEMMA BeginsWith ==
  ASSUME NEW E, NEW h \in Seq(E), NEW r \in Seq(E)
  PROVE  /\ IsPrefix(h, h \o r)
         /\ Len(h \o r) = Len(h) + Len(r)
         /\ r # <<>> => Len(h \o r) > Len(h)
<1>1. PICK n \in Nat, m \in Nat : n = Len(h) /\ m = Len(r)
  BY LenProperties
<1>2. /\ Len(h \o r) = n + m /\ h \o r \in Seq(E)
      /\ \A i \in 1..n : (h \o r)[i] = h[i]
  BY <1>1, ConcatProperties
<1>3. r # <<>> => m > 0
  BY <1>1, EmptySeq
<1>4. IsPrefix(h, h \o r)
  <2>1. \A i \in 1..n : h[i] \in E /\ (h \o r)[i] \in E
    BY <1>1, <1>2, ElementOfSeq
  <2>2. SubSeq(h, 1, n) = SubSeq(h \o r, 1, n)
    BY <1>2, <2>1, SubSeqProperties
  <2> QED BY <1>1, <1>2, <2>2 DEF IsPrefix
<1> QED BY <1>1, <1>2, <1>3, <1>4

\* So do a table's rows, with or without rows before them.
LEMMA HeadedIsNamed ==
  ASSUME doc \in Documents, NEW u \in Whole, NEW rest \in Seq(TokensOf(ToSet(u.lines))),
         RowsOf(u) # <<>> => rest # <<>>
  PROVE  Header(u) \o rest \in Named(u)
<1>1. PICK E : E = TokensOf(ToSet(u.lines))
  OBVIOUS
<1>2. Header(u) \in Filled(E, Wordless) /\ Header(u) \in Seq(E)
  BY <1>1, OwnHeader DEF Owned, Filled
<1>3. Header(u) \o rest \in Filled(E, Wordless)
  BY <1>1, <1>2, ConcatFilled
<1>4. /\ IsPrefix(Header(u), Header(u) \o rest)
      /\ rest # <<>> => Len(Header(u) \o rest) > Len(Header(u))
  BY <1>1, <1>2, BeginsWith
<1> QED BY <1>1, <1>3, <1>4 DEF Named, Owned

LEMMA TableIsNamed ==
  ASSUME doc \in Documents, NEW u \in Whole, AreRows(u.lines), NEW ns \in Seq(ToSet(u.lines)),
         RowsOf(u) # <<>> => ns # <<>>
  PROVE  Table(u, ns) \in Named(u)
<1>1. PICK W, E : W = ToSet(u.lines) /\ E = TokensOf(W)
  OBVIOUS
<1>2. Texted(W, E, FALSE)
  BY <1>1, OwnTexts
<1>3. Text(ns) \in Seq(E) /\ (ns # <<>> => Text(ns) \in Filled(E, FALSE))
  BY <1>1, <1>2, TextOf
<1>4. ns # <<>> => Text(ns) # <<>>
  BY <1>3 DEF Filled
<1> QED BY <1>1, <1>3, <1>4, HeadedIsNamed DEF Table

-----------------------------------------------------------------------------
(* No line is in two units.                                                *)

LEMMA SetOfAppend ==
  ASSUME NEW S, NEW s \in Seq(S), NEW e
  PROVE  ToSet(Append(s, e)) = ToSet(s) \cup {e}
<1>1. PICK n \in Nat : n = Len(s) /\ DOMAIN s = 1..n
  BY LenProperties
<1>2. /\ DOMAIN Append(s, e) = 1..n + 1
      /\ Append(s, e)[n + 1] = e /\ \A i \in 1..n : Append(s, e)[i] = s[i]
  <2>1. PICK T : T = S \cup {e}
    OBVIOUS
  <2>2. s \in Seq(T)
    BY <2>1, SeqMonotonic
  <2>3. /\ Append(s, e) \in Seq(T) /\ Len(Append(s, e)) = n + 1
        /\ Append(s, e)[n + 1] = e /\ \A i \in 1..n : Append(s, e)[i] = s[i]
    BY <1>1, <2>1, <2>2, AppendProperties
  <2> QED BY <2>3, LenProperties
<1>3. ASSUME NEW i \in 1..n + 1 PROVE Append(s, e)[i] \in ToSet(s) \cup {e}
  <2>1. i # n + 1 => i \in 1..n
    OBVIOUS
  <2> QED BY <1>1, <1>2, <2>1 DEF ToSet
<1> QED BY <1>2, <1>3 DEF ToSet

\* What is closed with the unit that is open.
Open == [heading |-> heading, kind |-> kind, lines |-> lines]
UnitsThen == UnitsClosed \cup (IF lines = <<>> THEN {} ELSE {Open})

LEMMA ThenDisjoint ==
  ASSUME ReadIn, Disjoint
  PROVE  /\ Apart(UnitsThen)
         /\ \A u \in UnitsThen :
               ToSet(u.lines) \subseteq Seen /\ (u.kind = "table" => AreRows(u.lines))
<1>1. Open.lines = lines /\ Open.kind = kind
  BY DEF Open
<1>2. ToSet(lines) \subseteq Seen
  BY ElementOfSeq, LenProperties DEF ReadIn, ToSet
<1>3. /\ Apart(UnitsClosed)
      /\ \A u \in UnitsClosed :
            /\ ToSet(u.lines) \subseteq Seen \ ToSet(lines)
            /\ u.kind = "table" => AreRows(u.lines)
      /\ kind = "table" => AreRows(lines)
  BY DEF Disjoint
<1>4. \A u \in UnitsThen : u \in UnitsClosed \/ u = Open
  BY DEF UnitsThen
<1>5. \A u \in UnitsClosed : ToSet(u.lines) \cap ToSet(lines) = {}
  BY <1>3
<1>6. ASSUME NEW u \in UnitsThen, NEW v \in UnitsThen, u # v
      PROVE  ToSet(u.lines) \cap ToSet(v.lines) = {}
  <2>1. CASE u \in UnitsClosed /\ v \in UnitsClosed
    BY <1>3, <1>6, <2>1 DEF Apart
  <2>2. CASE u = Open
    <3>1. v \in UnitsClosed
      BY <1>4, <1>6, <2>2
    <3> QED BY <1>1, <1>5, <2>2, <3>1
  <2>3. CASE v = Open
    <3>1. u \in UnitsClosed
      BY <1>4, <1>6, <2>3
    <3> QED BY <1>1, <1>5, <2>3, <3>1
  <2> QED BY <1>4, <2>1, <2>2, <2>3
<1>7. ASSUME NEW u \in UnitsThen
      PROVE  ToSet(u.lines) \subseteq Seen /\ (u.kind = "table" => AreRows(u.lines))
  <2>1. CASE u \in UnitsClosed
    BY <1>3, <2>1
  <2>2. CASE u = Open
    BY <1>1, <1>2, <1>3, <2>2
  <2> QED BY <1>4, <2>1, <2>2
<1> QED BY <1>6, <1>7 DEF Apart

LEMMA ClosedAreThen ==
  ASSUME ReadIn
  PROVE  ToSet(ClosedUnits) \cup UnitsOf(ClosedSections) \subseteq UnitsThen
<1>1. ToSet(ClosedUnits) \subseteq UnitsThen
  <2>1. CASE lines = <<>>
    BY <2>1 DEF ClosedUnits, UnitsThen, UnitsClosed
  <2>2. CASE lines # <<>>
    <3>1. ClosedUnits = Append(units, Open)
      BY <2>2 DEF ClosedUnits, Open
    <3>2. ToSet(Append(units, Open)) \subseteq ToSet(units) \cup {Open}
      BY SetOfAppend DEF ReadIn
    <3> QED BY <2>2, <3>1, <3>2 DEF UnitsThen, UnitsClosed
  <2> QED BY <2>1, <2>2
<1>2. PICK new : new = [heading |-> heading, units |-> ClosedUnits]
  OBVIOUS
<1>3. ToSet(ClosedSections) \subseteq ToSet(sections) \cup {new}
  <2>1. ToSet(Append(sections, new)) \subseteq ToSet(sections) \cup {new}
    BY SetOfAppend DEF ReadIn
  <2> QED BY <1>2, <2>1 DEF ClosedSections
<1>4. ASSUME NEW sec \in ToSet(ClosedSections) PROVE ToSet(sec.units) \subseteq UnitsThen
  <2>1. CASE sec \in ToSet(sections)
    BY <2>1 DEF UnitsThen, UnitsClosed, UnitsOf
  <2>2. CASE sec = new
    BY <1>1, <1>2, <2>2
  <2> QED BY <1>3, <2>1, <2>2
<1> QED BY <1>1, <1>4 DEF UnitsOf

LEMMA DisjointStays ==
  ASSUME ReadIn, Disjoint, doc' = doc, Seen \subseteq Seen', UnitsClosed' \subseteq UnitsThen,
         \A u \in UnitsClosed' : ToSet(u.lines) \cap ToSet(lines') = {},
         kind' = "table" => \A n \in ToSet(lines') : doc[n] \in Rows \cup Rules
  PROVE  Disjoint'
<1>1. Apart(UnitsClosed)'
  BY ThenDisjoint DEF Apart
<1>2. ASSUME NEW u \in UnitsClosed'
      PROVE  /\ ToSet(u.lines) \subseteq Seen' \ ToSet(lines')
             /\ u.kind = "table" => AreRows(u.lines)'
  <2>1. ToSet(u.lines) \subseteq Seen /\ (u.kind = "table" => AreRows(u.lines))
    BY ThenDisjoint
  <2>2. AreRows(u.lines) => AreRows(u.lines)'
    BY DEF AreRows
  <2> QED BY <2>1, <2>2
<1>3. kind' = "table" => AreRows(lines)'
  BY DEF AreRows
<1> QED BY <1>1, <1>2, <1>3 DEF Disjoint

LEMMA ReadingDisjoint ==
  ASSUME ReadIn, Disjoint, NEW line \in DOMAIN doc,
         OpenSection(line) \/ EndUnit(line) \/ TakeLine(line)
  PROVE  Disjoint'
<1>1. Reading(line)
  BY DEF OpenSection, EndUnit, TakeLine
<1>2. doc' = doc /\ Seen \subseteq Seen'
  BY <1>1, ReadOn
<1>3. ToSet(<<>>) = {}
  BY DEF ToSet
<1>4. CASE OpenSection(line)
  <2>1. /\ units' = <<>> /\ sections' = ClosedSections /\ lines' = <<>> /\ kind' = "none"
    BY <1>4 DEF OpenSection
  <2>2. UnitsClosed' \subseteq UnitsThen
    BY <1>3, <2>1, ClosedAreThen DEF UnitsClosed, UnitsOf
  <2> QED BY <1>2, <1>3, <2>1, <2>2, DisjointStays
<1>5. CASE EndUnit(line)
  <2>1. /\ units' = ClosedUnits /\ sections' = sections /\ lines' = <<>> /\ kind' = "none"
    BY <1>5 DEF EndUnit
  <2>2. UnitsClosed' \subseteq UnitsThen
    BY <2>1, ClosedAreThen DEF UnitsClosed, UnitsOf, UnitsThen
  <2> QED BY <1>2, <1>3, <2>1, <2>2, DisjointStays
<1>6. CASE TakeLine(line)
  <2>1. /\ sections' = sections /\ kind' = LineKind(line)
        /\ kind' = kind => lines' = Append(lines, line) /\ units' = units
        /\ kind' # kind => lines' = <<line>> /\ units' = ClosedUnits
    BY <1>6 DEF TakeLine
  <2>2. kind' = "table" => doc[line] \in Rows \cup Rules
    BY <2>1 DEF LineKind
  <2>3. line \notin Seen
    <3>1. line = read + 1 /\ read \in Nat
      BY <1>1, NumbersOf DEF Reading
    <3> QED BY <3>1 DEF Seen
  <2>4. CASE kind' = kind
    <3>1. UnitsClosed' = UnitsClosed /\ UnitsClosed \subseteq UnitsThen
      BY <2>1, <2>4 DEF UnitsClosed, UnitsOf, UnitsThen
    <3>2. ToSet(lines') \subseteq ToSet(lines) \cup {line}
      BY <2>1, <2>4, SetOfAppend DEF ReadIn
    <3>3. \A u \in UnitsClosed : ToSet(u.lines) \cap ToSet(lines') = {}
      <4>1. \A u \in UnitsClosed : ToSet(u.lines) \subseteq Seen \ ToSet(lines)
        BY DEF Disjoint
      <4> QED BY <2>3, <3>2, <4>1
    <3>4. kind' = "table" => \A n \in ToSet(lines') : doc[n] \in Rows \cup Rules
      <4>1. kind = "table" => \A n \in ToSet(lines) : doc[n] \in Rows \cup Rules
        BY DEF Disjoint, AreRows
      <4> QED BY <2>2, <2>4, <3>2, <4>1
    <3> QED BY <1>2, <3>1, <3>3, <3>4, DisjointStays
  <2>5. CASE kind' # kind
    <3>1. UnitsClosed' \subseteq UnitsThen
      BY <2>1, <2>5, ClosedAreThen DEF UnitsClosed, UnitsOf, UnitsThen
    <3>2. ToSet(lines') = {line}
      BY <2>1, <2>5 DEF ToSet
    <3>3. \A u \in UnitsClosed' : ToSet(u.lines) \cap ToSet(lines') = {}
      BY <2>3, <3>1, <3>2, ThenDisjoint
    <3> QED BY <1>2, <2>2, <3>1, <3>2, <3>3, DisjointStays
  <2> QED BY <2>4, <2>5
<1> QED BY <1>4, <1>5, <1>6

LEMMA EndedDisjoint ==
  ASSUME ReadIn, Disjoint, EndDocument
  PROVE  Disjoint'
<1>1. ToSet(<<>>) = {}
  BY DEF ToSet
<1>2. /\ units' = <<>> /\ sections' = ClosedSections /\ lines' = <<>> /\ kind' = "none"
      /\ doc' = doc /\ read' = read
  BY DEF EndDocument
<1>3. Seen' = Seen
  BY <1>2, Same
<1>4. UnitsClosed' \subseteq UnitsThen
  BY <1>1, <1>2, ClosedAreThen DEF UnitsClosed, UnitsOf
<1> QED BY <1>1, <1>2, <1>3, <1>4, DisjointStays

LEMMA UnreadDisjoint ==
  ASSUME Disjoint, UNCHANGED <<doc, reading>>
  PROVE  Disjoint'
<1>1. /\ doc' = doc /\ read' = read /\ kind' = kind
      /\ lines' = lines /\ units' = units /\ sections' = sections
  BY DEF reading
<1>2. Seen' = Seen /\ UnitsClosed' = UnitsClosed
  BY <1>1, Same DEF UnitsClosed, UnitsOf
<1> QED BY <1>1, <1>2 DEF Disjoint, AreRows, Apart

-----------------------------------------------------------------------------
(* The parts are of their unit and begin with its header.                  *)

LEMMA LaidIs ==
  ASSUME Inv, Disjoint
  PROVE  /\ Laid \subseteq UnitsClosed /\ Laid \subseteq Whole
         /\ AllUnits(sections) \in Seq(Laid)
<1>1. sections \in Seq(Closed)
  BY DEF Inv, ReadIn
<1>2. AllUnits(sections) \in Seq(Whole)
  BY <1>1, AllUnitsType
<1>3. AllUnits(sections) \in Seq(Laid) /\ Laid \subseteq Whole
  BY <1>2, SeqOfItsSet DEF Laid
<1>4. PICK S : S = Seq(UnitsOf(sections))
  OBVIOUS
<1>5. PICK f : f = [s \in DOMAIN sections |-> sections[s].units]
  OBVIOUS
<1>6. ASSUME NEW s \in DOMAIN sections PROVE f[s] \in S
  <2>1. sections[s] \in Closed /\ sections[s] \in ToSet(sections)
    BY <1>1, ElementOfSeq, LenProperties DEF ToSet
  <2>2. PICK us \in Seq(Whole) : us = sections[s].units
    BY <2>1 DEF Closed
  <2>3. us \in Seq(ToSet(us))
    BY SeqOfItsSet
  <2>4. ToSet(us) \subseteq UnitsOf(sections)
    BY <2>1, <2>2 DEF UnitsOf
  <2> QED BY <1>4, <1>5, <2>2, <2>3, <2>4, SeqMonotonic
<1>7. f = [s \in DOMAIN sections |-> f[s]]
  BY <1>5
<1>8. f \in Seq(S)
  BY <1>1, <1>6, <1>7, MapIsSequence
<1>9. AllUnits(sections) \in Seq(UnitsOf(sections))
  BY <1>4, <1>5, <1>8, FlattenType DEF AllUnits
<1>10. Laid \subseteq UnitsOf(sections)
  BY <1>9, SeqOfItsSet DEF Laid
<1> QED BY <1>3, <1>10 DEF UnitsClosed

LEMMA UnitLaid ==
  ASSUME Inv, Disjoint, Naming, todo # <<>>
  PROVE  /\ doc \in Documents
         /\ Unit \in Laid /\ Unit \in Whole /\ Tail(todo) \in Seq(Laid)
         /\ Unit.kind = "table" => AreRows(Unit.lines)
<1>1. Unit \in Laid /\ Tail(todo) \in Seq(Laid)
  BY HeadTailProperties DEF Naming, Unit
<1>2. Unit \in Whole /\ Unit \in UnitsClosed
  BY <1>1, LaidIs
<1> QED BY <1>1, <1>2 DEF Disjoint, Inv, ReadIn

LEMMA OwnedIsBody ==
  ASSUME doc \in Documents, NEW u \in Whole
  PROVE  Named(u) \subseteq Owned(u) /\ Owned(u) \subseteq Body
<1>1. ToSet(u.lines) \subseteq Numbers
  BY OwnTexts DEF Worded
<1>2. TokensOf(ToSet(u.lines)) \subseteq Token
  BY <1>1 DEF Token, TokensOf
<1>3. Seq(TokensOf(ToSet(u.lines))) \subseteq Seq(Token)
  BY <1>2, SeqMonotonic
<1> QED BY <1>3 DEF Named, Owned, Body, Filled

LEMMA StoredNamed ==
  ASSUME Inv, Disjoint, Naming, todo # <<>>, NEW T, NEW texts \in Seq(T), Stored(texts),
         T \subseteq NamedHere
  PROVE  nodes' \in Seq(Belonging) /\ todo' \in Seq(Laid)
<1>1. PICK f : f = NodesOf(texts)
  OBVIOUS
<1>2. ASSUME NEW k \in DOMAIN texts PROVE f[k] \in Belonging
  <2>1. texts[k] \in NamedHere
    BY ElementOfSeq, LenProperties
  <2>2. f[k] = [heading |-> Unit.heading, body |-> texts[k]]
    BY <1>1 DEF NodesOf, Node
  <2>3. texts[k] \in Body /\ Unit.heading \in Headed /\ Unit \in Laid
    BY <2>1, UnitLaid, OwnedIsBody DEF NamedHere, Whole
  <2> QED BY <2>1, <2>2, <2>3 DEF Belonging, NamedHere
<1>3. f = [k \in DOMAIN texts |-> f[k]]
  BY <1>1 DEF NodesOf
<1>4. f \in Seq(Belonging)
  BY <1>2, <1>3, MapIsSequence
<1>5. nodes \o f \in Seq(Belonging)
  BY <1>4, ConcatProperties DEF Naming
<1> QED BY <1>1, <1>5, UnitLaid DEF Stored

LEMMA NamingBetween ==
  ASSUME doc' = doc, sections' = sections, pc' \notin {"lines", "rows", "bound"},
         todo' \in Seq(Laid), nodes' \in Seq(Belonging)
  PROVE  Naming'
  BY SameNames DEF Naming

LEMMA NamingWithin ==
  ASSUME Naming, UNCHANGED <<doc, reading>>, todo' = todo, nodes' = nodes,
         pc' \in {"rows", "bound"}, pc' = "rows" => Filling',
         parts' \in Seq(ShortHere), pieces' \in Seq(NamedHere)
  PROVE  Naming'
<1>1. doc' = doc /\ sections' = sections
  BY DEF reading
<1> QED BY <1>1, SameNames DEF Naming

\* What may be in a text of a unit that is no table with room.
LEMMA RoomlessIsShort ==
  ASSUME NEW u, ~Room(u)
  PROVE  Owned(u) \subseteq Short(u)
  BY DEF Short, Named

LEMMA KeepParagraphNames ==
  ASSUME Inv, Disjoint, Naming, KeepParagraph
  PROVE  Naming'
<1>1. /\ todo # <<>> /\ pc' = "units" /\ doc' = doc /\ sections' = sections
      /\ Unit.kind = "prose"
      /\ Stored(<<Text(Unit.lines)>>)
  BY DEF KeepParagraph, reading
<1>2. PICK text : text = Text(Unit.lines)
  OBVIOUS
<1>3. text \in Owned(Unit)
  <2>1. Unit \in Whole /\ doc \in Documents /\ Unit.lines # <<>>
    BY <1>1, UnitLaid DEF Whole
  <2>2. /\ Unit.lines \in Seq(ToSet(Unit.lines))
        /\ Texted(ToSet(Unit.lines), TokensOf(ToSet(Unit.lines)), Wordless)
    BY <2>1, OwnTexts
  <2> QED BY <1>2, <2>1, <2>2, TextOf DEF Owned
<1>4. {text} \subseteq NamedHere
  BY <1>1, <1>3 DEF NamedHere, Named, Room
<1>5. <<text>> \in Seq({text})
  OBVIOUS
<1>6. nodes' \in Seq(Belonging) /\ todo' \in Seq(Laid)
  BY <1>1, <1>2, <1>4, <1>5, StoredNamed
<1> QED BY <1>1, <1>6, NamingBetween

LEMMA KeepTableNames ==
  ASSUME Inv, Disjoint, Naming, KeepTable
  PROVE  Naming'
<1>1. /\ todo # <<>> /\ pc' = "units" /\ doc' = doc /\ sections' = sections
      /\ Unit.kind = "table"
      /\ Stored(<<Table(Unit, RowsOf(Unit))>>)
  BY DEF KeepTable, reading
<1>2. PICK text : text = Table(Unit, RowsOf(Unit))
  OBVIOUS
<1>3. {text} \subseteq NamedHere
  <2>1. Unit \in Whole /\ doc \in Documents /\ AreRows(Unit.lines)
    BY <1>1, UnitLaid
  <2>2. RowsOf(Unit) \in Seq(ToSet(Unit.lines))
    BY <2>1, OwnHeader
  <2> QED BY <1>2, <2>1, <2>2, TableIsNamed DEF NamedHere
<1>4. <<text>> \in Seq({text})
  OBVIOUS
<1>5. nodes' \in Seq(Belonging) /\ todo' \in Seq(Laid)
  BY <1>1, <1>2, <1>3, <1>4, StoredNamed
<1> QED BY <1>1, <1>5, NamingBetween

LEMMA UnitDoneNames ==
  ASSUME Inv, Disjoint, Naming, UnitDone
  PROVE  Naming'
<1>1. /\ pc = "bound" /\ pc' = "units" /\ doc' = doc /\ sections' = sections
      /\ Stored(pieces)
  BY DEF UnitDone, reading
<1>2. todo # <<>> /\ pieces \in Seq(NamedHere)
  BY <1>1 DEF Inv, LaidOut, Naming
<1>3. nodes' \in Seq(Belonging) /\ todo' \in Seq(Laid)
  BY <1>1, <1>2, StoredNamed
<1> QED BY <1>1, <1>3, NamingBetween

LEMMA DivideParagraphNames ==
  ASSUME Inv, Disjoint, Naming, NEW ends \in SUBSET DOMAIN doc, DivideParagraph(ends)
  PROVE  Naming'
<1>1. /\ todo # <<>> /\ todo' = todo /\ pc' = "bound" /\ nodes' = nodes /\ pieces' = <<>>
      /\ Unit.kind = "prose" /\ ends \in SUBSET DOMAIN Unit.lines
      /\ UNCHANGED <<doc, reading>>
  BY DEF DivideParagraph
<1>2. PICK W : W = ToSet(Unit.lines)
  OBVIOUS
<1>3. PICK ns \in Seq(W) : ns = Unit.lines /\ Texted(W, TokensOf(W), Wordless)
  BY <1>1, <1>2, UnitLaid, OwnTexts
<1>4. parts' \in Seq(Owned(Unit))
  <2>1. parts' = LET stops == Sorted(ends)
                     From(k) == IF k = 1 THEN 1 ELSE stops[k - 1] + 1
                 IN [k \in DOMAIN stops |-> Text(SubSeq(ns, From(k), stops[k]))]
    BY <1>3 DEF DivideParagraph
  <2>2. ends \in SUBSET DOMAIN ns
    BY <1>1, <1>3
  <2>3. parts' \in Seq(Filled(TokensOf(W), Wordless))
    BY <1>3, <2>1, <2>2, DividedType
  <2> QED BY <1>2, <2>3 DEF Owned
<1>5. Owned(Unit) \subseteq ShortHere
  BY <1>1, RoomlessIsShort DEF Room, ShortHere
<1>6. parts' \in Seq(ShortHere) /\ pieces' \in Seq(NamedHere)
  BY <1>1, <1>4, <1>5, SeqMonotonic, EmptySeq
<1> QED BY <1>1, <1>6, NamingWithin

LEMMA DivideTableNames ==
  ASSUME Inv, Disjoint, Naming, DivideTable
  PROVE  Naming'
<1>1. /\ todo # <<>> /\ todo' = todo /\ pc' = "rows" /\ nodes' = nodes
      /\ Unit.kind = "table"
      /\ row' = HeadRows(Unit) + 1 /\ rows' = <<>> /\ parts' = <<>> /\ pieces' = <<>>
      /\ doc' = doc
      /\ UNCHANGED <<doc, reading>>
  BY DEF DivideTable
<1>2. parts' \in Seq(ShortHere) /\ pieces' \in Seq(NamedHere)
  BY <1>1, EmptySeq
<1>3. Filling'
  <2>1. Unit' = Unit
    BY <1>1 DEF Unit
  <2>2. HeadRows(Unit)' = HeadRows(Unit)
    BY <1>1, <2>1 DEF HeadRows, Underlined
  <2>3. rows' \in Seq(ToSet(Unit.lines)')
    BY <1>1, EmptySeq
  <2> QED BY <1>1, <2>1, <2>2, <2>3 DEF Filling
<1> QED BY <1>1, <1>2, <1>3, NamingWithin

\* What the rows collected must be, once a part is there or a row.
LEMMA FillingStays ==
  ASSUME doc' = doc, todo' = todo, Unit.kind = "table",
         NEW ns \in Seq(ToSet(Unit.lines)), rows' = ns,
         ns # <<>> => Size(Table(Unit, ns)) <= Limit(Unit),
         ns # <<>> \/ parts' # <<>>
  PROVE  Filling'
<1>1. Unit' = Unit
  BY DEF Unit
<1>2. Limit(Unit)' = Limit(Unit)
  BY <1>1 DEF Limit, Heading, LineText
<1>3. Header(Unit)' = Header(Unit)
  BY <1>1 DEF Header, Underlined, LineText
<1>4. Text(rows)' = Text(ns)
  BY DEF Text, LineText
<1>5. Size(Table(Unit, rows))' = Size(Table(Unit, ns))
  BY <1>3, <1>4 DEF Size, Table
<1> QED BY <1>1, <1>2, <1>5 DEF Filling

LEMMA RowIs ==
  ASSUME Inv, Disjoint, Naming, pc = "rows"
  PROVE  /\ todo # <<>> /\ Unit.kind = "table" /\ Unit \in Whole /\ AreRows(Unit.lines)
         /\ doc \in Documents
         /\ Len(Unit.lines) \in Nat
         /\ row \in 1..Len(Unit.lines) + 1
         /\ row <= Len(Unit.lines) => ThisRow \in ToSet(Unit.lines)
         /\ parts \in Seq(ShortHere) /\ pieces \in Seq(NamedHere)
         /\ rows # <<>> => Table(Unit, rows) \in ShortHere
<1>1. todo # <<>> /\ row \in 1..Len(Unit.lines) + 1
  BY DEF Inv, LaidOut
<1>2. Filling /\ parts \in Seq(ShortHere) /\ pieces \in Seq(NamedHere)
  BY DEF Naming
<1>3. Unit.kind = "table" /\ Unit \in Whole /\ AreRows(Unit.lines) /\ doc \in Documents
  BY <1>1, <1>2, UnitLaid DEF Filling
<1>4. PICK ns \in Seq(Worded) : ns = Unit.lines
  BY <1>3 DEF Whole
<1>5. Len(ns) \in Nat /\ DOMAIN ns = 1..Len(ns)
  BY LenProperties
<1>6. row <= Len(ns) => ThisRow \in ToSet(ns)
  <2>1. row <= Len(ns) => row \in 1..Len(ns)
    BY <1>1, <1>4, <1>5
  <2> QED BY <1>4, <1>5, <2>1 DEF ThisRow, ToSet
<1>7. rows # <<>> => Table(Unit, rows) \in ShortHere
  <2>1. rows # <<>> => Table(Unit, rows) \in Named(Unit)
    BY <1>2, <1>3, TableIsNamed DEF Filling
  <2> QED BY <1>2, <2>1 DEF Filling, ShortHere, Short
<1> QED BY <1>1, <1>2, <1>3, <1>4, <1>5, <1>6, <1>7

LEMMA FlushedIsShort ==
  ASSUME Inv, Disjoint, Naming, pc = "rows"
  PROVE  Flushed \in Seq(ShortHere)
<1>1. rows # <<>> => Append(parts, Table(Unit, rows)) \in Seq(ShortHere)
  BY RowIs, AppendProperties
<1> QED BY <1>1, RowIs DEF Flushed, Overfull

LEMMA TakeRowNames ==
  ASSUME Inv, Disjoint, Naming, TakeRow
  PROVE  Naming'
<1>1. /\ pc = "rows" /\ todo' = todo /\ pc' = "rows" /\ nodes' = nodes
      /\ row <= Len(Unit.lines) /\ Size(Table(Unit, <<ThisRow>>)) <= Limit(Unit)
      /\ parts' = Flushed /\ pieces' = pieces /\ doc' = doc
      /\ rows' = IF Overfull THEN <<ThisRow>> ELSE Append(rows, ThisRow)
      /\ UNCHANGED <<doc, reading>>
  BY DEF TakeRow
<1>2. /\ ThisRow \in ToSet(Unit.lines) /\ Unit.kind = "table" /\ Unit \in Whole
      /\ doc \in Documents /\ pieces \in Seq(NamedHere)
  BY <1>1, RowIs
<1>3. PICK W : W = ToSet(Unit.lines)
  OBVIOUS
<1>4. rows \in Seq(W)
  BY <1>1, <1>3 DEF Naming, Filling
<1>5. /\ <<ThisRow>> \in Seq(W) /\ <<ThisRow>> # <<>>
      /\ Append(rows, ThisRow) \in Seq(W) /\ Append(rows, ThisRow) # <<>>
  BY <1>2, <1>3, <1>4, AppendProperties
<1>6. ~Overfull => Size(Table(Unit, Append(rows, ThisRow))) <= Limit(Unit)
  <2>1. CASE rows = <<>>
    <3>1. Append(rows, ThisRow) = <<ThisRow>>
      BY <2>1
    <3> QED BY <1>1, <3>1
  <2>2. CASE rows # <<>>
    <3>1. PICK l \in Nat : l = Limit(Unit)
      BY <1>2, LimitIs
    <3>2. PICK s \in Nat : s = Size(Table(Unit, Append(rows, ThisRow)))
      <4>1. W \subseteq Worded
        BY <1>2, <1>3, OwnTexts
      <4>2. Append(rows, ThisRow) \in Seq(Worded)
        BY <1>5, <4>1, SeqMonotonic
      <4>3. Len(Table(Unit, Append(rows, ThisRow))) \in Nat
        BY <1>2, <4>2, HeaderType, LenProperties DEF Body, Filled
      <4> QED BY <4>3, LayoutAssumption DEF Size
    <3>3. ~Overfull => ~(s > l)
      BY <2>2, <3>1, <3>2 DEF Overfull
    <3>4. ~(s > l) => s <= l
      OBVIOUS
    <3> QED BY <3>1, <3>2, <3>3, <3>4
  <2> QED BY <2>1, <2>2
<1>7. PICK ns \in Seq(W) : ns = rows'
  BY <1>1, <1>5
<1>8. ns # <<>> /\ Size(Table(Unit, ns)) <= Limit(Unit)
  BY <1>1, <1>5, <1>6, <1>7
<1>9. Filling'
  BY <1>1, <1>2, <1>3, <1>7, <1>8, FillingStays
<1> QED BY <1>1, <1>2, <1>9, FlushedIsShort, NamingWithin

\* A slice of a wide row, read again, still stands beside the header: the token that
\* reading it can cost is one of those the model adds, which the budget spends twice.
LEMMA RowSliceIsShort ==
  ASSUME doc \in Documents, NEW u \in Whole,
         NEW slice \in Slices(ToSet(u.lines), RowBudget(u))
  PROVE  Header(u) \o slice \in Short(u)
<1>1. PICK E : E = TokensOf(ToSet(u.lines))
  OBVIOUS
<1>2. slice \in Seq(E) /\ slice # <<>> /\ Len(slice) <= RowBudget(u) + 1
  BY <1>1 DEF Slices, Filled
<1>3. Header(u) \o slice \in Named(u)
  BY <1>1, <1>2, HeadedIsNamed
<1>4. ASSUME Room(u) PROVE Size(Header(u) \o slice) <= Limit(u)
  <2>1. Header(u) \in Seq(E)
    BY <1>1, OwnHeader DEF Owned, Filled
  <2>2. PICK h \in Nat, s \in Nat, l \in Nat, special \in Nat :
           h = Len(Header(u)) /\ s = Len(slice) /\ l = Limit(u) /\ special = Special
    BY <1>2, <2>1, LimitIs, LenProperties, LayoutAssumption
  <2>3. Len(Header(u) \o slice) = h + s
    BY <1>2, <2>1, <2>2, ConcatProperties
  <2>4. special + h + special < l
    BY <1>4, <2>2 DEF Room, Size
  <2>5. PICK b \in Int : b = l - (special + h) - special /\ b >= 1
    BY <2>4
  <2>6. RowBudget(u) = b
    <3>1. RowBudget(u) = Max({b, 1})
      BY <2>2, <2>5 DEF RowBudget, Size
    <3> QED BY <2>5, <3>1, MaxOfTwo
  <2>7. s <= b + 1 /\ special >= 1
    BY <1>2, <1>4, <2>2, <2>6 DEF Room
  <2>8. special + (h + s) <= l
    BY <2>5, <2>7
  <2> QED BY <2>2, <2>3, <2>8 DEF Size
<1> QED BY <1>3, <1>4 DEF Short

LEMMA CutRowNames ==
  ASSUME Inv, Disjoint, Naming, CutRow
  PROVE  Naming'
<1>1. /\ pc = "rows" /\ todo' = todo /\ pc' = "rows" /\ nodes' = nodes
      /\ row <= Len(Unit.lines) /\ pieces' = pieces /\ doc' = doc
      /\ rows' = IF Overfull THEN <<>> ELSE rows
      /\ UNCHANGED <<doc, reading>>
  BY DEF CutRow
<1>2. PICK slices :
         /\ slices = Cut(LineText(ThisRow), RowBudget(Unit))
         /\ parts' = Flushed \o [k \in DOMAIN slices |-> Header(Unit) \o slices[k]]
  BY DEF CutRow
<1>3. /\ ThisRow \in ToSet(Unit.lines) /\ Unit.kind = "table" /\ Unit \in Whole
      /\ AreRows(Unit.lines) /\ doc \in Documents /\ pieces \in Seq(NamedHere)
  BY <1>1, RowIs
<1>4. PICK W : W = ToSet(Unit.lines)
  OBVIOUS
<1>5. PICK S : S = Slices(W, RowBudget(Unit))
  OBVIOUS
<1>6. slices \in Seq(S) /\ slices # <<>>
  <2>1. Texted(W, TokensOf(W), FALSE)
    BY <1>3, <1>4, OwnTexts
  <2>2. LineText(ThisRow) \in Seq(TokensOf(W)) /\ LineText(ThisRow) # <<>>
    BY <1>3, <1>4, <2>1 DEF Texted, Filled
  <2>3. RowBudget(Unit) \in Nat \ {0}
    BY <1>3, LimitIs
  <2> QED BY <1>2, <1>5, <2>2, <2>3, CutSlices
<1>7. PICK f : f = [k \in DOMAIN slices |-> Header(Unit) \o slices[k]]
  OBVIOUS
<1>8. ASSUME NEW k \in DOMAIN slices PROVE f[k] \in ShortHere
  <2>1. slices[k] \in S
    BY <1>6, ElementOfSeq, LenProperties
  <2>2. Header(Unit) \o slices[k] \in Short(Unit)
    BY <1>3, <1>4, <1>5, <2>1, RowSliceIsShort
  <2> QED BY <1>7, <2>2 DEF ShortHere
<1>9. f = [k \in DOMAIN slices |-> f[k]]
  BY <1>7
<1>10. f \in Seq(ShortHere) /\ Len(f) = Len(slices)
  BY <1>6, <1>8, <1>9, MapIsSequence
<1>11. parts' \in Seq(ShortHere) /\ parts' # <<>>
  <2>1. PICK n \in Nat, m \in Nat : n = Len(Flushed) /\ m = Len(f) /\ m # 0
    BY <1>1, <1>6, <1>10, FlushedIsShort, LenProperties, EmptySeq
  <2>2. Flushed \o f \in Seq(ShortHere) /\ Len(Flushed \o f) = n + m
    <3>1. PICK T : T = ShortHere
      OBVIOUS
    <3>2. PICK flushed \in Seq(T) : flushed = Flushed
      BY <1>1, <3>1, FlushedIsShort
    <3>3. f \in Seq(T)
      BY <1>10, <3>1
    <3>4. flushed \o f \in Seq(T) /\ Len(flushed \o f) = Len(flushed) + Len(f)
      BY <3>3, ConcatProperties
    <3> QED BY <2>1, <3>1, <3>2, <3>4
  <2>3. Len(parts') # 0
    BY <1>2, <1>7, <2>1, <2>2
  <2> QED BY <1>2, <1>7, <2>2, <2>3, EmptySeq
<1>12. PICK ns \in Seq(W) : ns = rows' /\ (ns # <<>> => ns = rows)
  <2>1. rows \in Seq(W) /\ <<>> \in Seq(W)
    BY <1>1, <1>4, EmptySeq DEF Naming, Filling
  <2> QED BY <1>1, <2>1
<1>13. ns # <<>> => Size(Table(Unit, ns)) <= Limit(Unit)
  BY <1>1, <1>12 DEF Naming, Filling
<1>14. Filling'
  BY <1>1, <1>3, <1>4, <1>11, <1>12, <1>13, FillingStays
<1> QED BY <1>1, <1>3, <1>11, <1>14, NamingWithin

\* A table without rows is its header.
LEMMA HeaderAlone ==
  ASSUME doc \in Documents, NEW u \in Whole, RowsOf(u) = <<>>
  PROVE  Header(u) \in Short(u)
<1>1. PICK E : E = TokensOf(ToSet(u.lines))
  OBVIOUS
<1>2. PICK h \in Seq(E) : h = Header(u)
  BY <1>1, OwnHeader DEF Owned, Filled
<1>3. h \o <<>> = h /\ <<>> \in Seq(E)
  BY <1>2, EmptySeq
<1>4. Header(u) \in Named(u)
  <2>1. Header(u) \o <<>> \in Named(u)
    BY <1>1, <1>3, HeadedIsNamed
  <2> QED BY <1>2, <1>3, <2>1
<1>5. Room(u) => Size(Header(u)) <= Limit(u)
  <2>1. PICK n \in Nat, l \in Nat, special \in Nat :
           n = Len(h) /\ l = Limit(u) /\ special = Special
    BY LimitIs, LenProperties, LayoutAssumption
  <2>2. special + n + special < l => special + n <= l
    OBVIOUS
  <2> QED BY <1>2, <2>1, <2>2 DEF Room, Size
<1> QED BY <1>4, <1>5 DEF Short

LEMMA EndTableNames ==
  ASSUME Inv, Disjoint, Naming, EndTable
  PROVE  Naming'
<1>1. /\ pc = "rows" /\ todo' = todo /\ pc' = "bound" /\ nodes' = nodes
      /\ row > Len(Unit.lines)
      /\ parts' = (IF rows # <<>> THEN Append(parts, Table(Unit, rows))
                   ELSE IF parts = <<>> THEN <<Header(Unit)>> ELSE parts)
      /\ pieces' = pieces
      /\ UNCHANGED <<doc, reading>>
  BY DEF EndTable
<1>2. /\ Unit \in Whole /\ doc \in Documents /\ Len(Unit.lines) \in Nat
      /\ parts \in Seq(ShortHere) /\ pieces \in Seq(NamedHere)
      /\ rows # <<>> => Table(Unit, rows) \in ShortHere
  BY <1>1, RowIs
<1>3. CASE rows # <<>>
  <2>1. parts' \in Seq(ShortHere)
    BY <1>1, <1>2, <1>3, AppendProperties
  <2> QED BY <1>1, <1>2, <2>1, NamingWithin
<1>4. CASE rows = <<>> /\ parts = <<>>
  <2>1. row = HeadRows(Unit) + 1
    BY <1>1, <1>4 DEF Naming, Filling
  <2>2. RowsOf(Unit) = <<>>
    <3>1. PICK ls \in Seq(Worded), n \in Nat : ls = Unit.lines /\ n = Len(ls)
      BY <1>2, LenProperties DEF Whole
    <3>2. PICK m \in Nat : m = HeadRows(Unit) /\ m + 1 > n
      <4>1. HeadRows(Unit) \in Nat
        BY DEF HeadRows
      <4> QED BY <1>1, <2>1, <3>1, <4>1
    <3>3. SubSeq(ls, m + 1, n) = <<>>
      BY <3>1, <3>2, SubSeqProperties, EmptySeq
    <3> QED BY <3>1, <3>2, <3>3 DEF RowsOf
  <2>3. Header(Unit) \in ShortHere
    BY <1>2, <2>2, HeaderAlone DEF ShortHere
  <2>4. parts' \in Seq(ShortHere)
    BY <1>1, <1>4, <2>3
  <2> QED BY <1>1, <1>2, <2>4, NamingWithin
<1>5. CASE rows = <<>> /\ parts # <<>>
  BY <1>1, <1>2, <1>5, NamingWithin
<1> QED BY <1>3, <1>4, <1>5

LEMMA PartFitsNames ==
  ASSUME Inv, Disjoint, Naming, PartFits
  PROVE  Naming'
<1>1. /\ pc = "bound" /\ todo' = todo /\ pc' = "bound" /\ nodes' = nodes /\ parts # <<>>
      /\ pieces' = Append(pieces, Head(parts)) /\ parts' = Tail(parts)
      /\ UNCHANGED <<doc, reading>>
  BY DEF PartFits
<1>2. parts \in Seq(ShortHere) /\ pieces \in Seq(NamedHere)
  BY <1>1 DEF Naming
<1>3. Head(parts) \in ShortHere /\ Tail(parts) \in Seq(ShortHere)
  BY <1>1, <1>2, HeadTailProperties
<1>4. Head(parts) \in NamedHere
  BY <1>3 DEF ShortHere, Short, NamedHere
<1>5. Append(pieces, Head(parts)) \in Seq(NamedHere)
  BY <1>2, <1>4, AppendProperties
<1> QED BY <1>1, <1>3, <1>5, NamingWithin

\* A part of a table with room is never cut.
LEMMA PartIsCutNames ==
  ASSUME Inv, Disjoint, Naming, PartIsCut
  PROVE  Naming'
<1>1. /\ pc = "bound" /\ todo' = todo /\ pc' = "bound" /\ nodes' = nodes /\ parts # <<>>
      /\ Size(Head(parts)) > Limit(Unit)
      /\ parts' = Cut(Head(parts), BoundBudget(Unit)) \o Tail(parts) /\ pieces' = pieces
      /\ UNCHANGED <<doc, reading>>
  BY DEF PartIsCut
<1>2. /\ parts \in Seq(ShortHere) /\ pieces \in Seq(NamedHere)
      /\ Unit \in Whole /\ doc \in Documents
  BY <1>1, UnitLaid DEF Naming, Inv, LaidOut
<1>3. Head(parts) \in ShortHere /\ Tail(parts) \in Seq(ShortHere)
  BY <1>1, <1>2, HeadTailProperties
<1>4. PICK text \in Owned(Unit) : text = Head(parts)
  BY <1>3 DEF ShortHere, Short, Named
<1>5. ~Room(Unit)
  <2>1. PICK l \in Nat, s \in Nat : l = Limit(Unit) /\ s = Size(text)
    <3>1. Len(text) \in Nat
      BY LenProperties DEF Owned, Filled
    <3>2. Special + Len(text) \in Nat
      BY <3>1, LayoutAssumption
    <3> QED BY <1>2, <3>2, LimitIs DEF Size
  <2>2. ~(s <= l)
    BY <1>1, <1>4, <2>1
  <2> QED BY <1>3, <1>4, <2>1, <2>2 DEF ShortHere, Short
<1>6. Cut(text, BoundBudget(Unit)) \in Seq(Owned(Unit))
  <2>1. BoundBudget(Unit) \in Nat \ {0}
    BY <1>2, LimitIs
  <2>2. PICK W : W = ToSet(Unit.lines)
    OBVIOUS
  <2>3. text \in Filled(TokensOf(W), Wordless)
    BY <2>2 DEF Owned
  <2>4. Cut(text, BoundBudget(Unit)) \in Seq(Filled(TokensOf(W), Wordless))
    BY <2>1, <2>3, CutType
  <2> QED BY <2>2, <2>4 DEF Owned
<1>7. Cut(text, BoundBudget(Unit)) \in Seq(ShortHere)
  BY <1>5, <1>6, RoomlessIsShort, SeqMonotonic DEF ShortHere
<1>8. parts' \in Seq(ShortHere)
  BY <1>1, <1>3, <1>4, <1>7, ConcatProperties
<1> QED BY <1>1, <1>2, <1>8, NamingWithin

\* Reading lays nothing out.
LEMMA ReadingNames ==
  ASSUME Naming, NEW line \in DOMAIN doc,
         OpenSection(line) \/ EndUnit(line) \/ TakeLine(line)
  PROVE  Naming'
<1>1. Reading(line)
  BY DEF OpenSection, EndUnit, TakeLine
<1>2. pc' = "lines" /\ todo' = <<>> /\ nodes' = <<>>
  BY <1>1 DEF Reading, Naming
<1>3. todo' \in Seq(Laid') /\ nodes' \in Seq(Belonging')
  BY <1>2, EmptySeq
<1> QED BY <1>2, <1>3 DEF Naming

LEMMA EndDocumentNames ==
  ASSUME Inv', Naming, EndDocument
  PROVE  Naming'
<1>1. doc' = doc
  BY DEF EndDocument
<1>2. /\ pc = "lines" /\ pc' = "units" /\ nodes' = nodes
      /\ todo' = AllUnits(sections')
  BY DEF EndDocument
<1>3. nodes' = <<>>
  BY <1>2 DEF Naming
<1>4. todo' \in Seq(Laid')
  <2>1. PICK secs \in Seq(Closed) : secs = sections'
    BY <1>1, Same DEF Inv, ReadIn
  <2>2. AllUnits(secs) \in Seq(Whole)
    BY AllUnitsType
  <2>3. AllUnits(secs) \in Seq(ToSet(AllUnits(secs)))
    BY <2>2, SeqOfItsSet
  <2> QED BY <1>2, <2>1, <2>3 DEF Laid
<1>5. nodes' \in Seq(Belonging')
  BY <1>3, EmptySeq
<1> QED BY <1>2, <1>4, <1>5 DEF Naming

LEMMA StillNames ==
  ASSUME Naming, UNCHANGED <<doc, reading>>, UNCHANGED <<todo, dividing, nodes>>,
         pc' \in {pc, "done", "refused", "raised"}
  PROVE  Naming'
<1>1. /\ doc' = doc /\ sections' = sections /\ todo' = todo /\ nodes' = nodes
      /\ rows' = rows /\ row' = row /\ parts' = parts /\ pieces' = pieces
  BY DEF reading, dividing
<1>2. /\ Laid' = Laid /\ Belonging' = Belonging
      /\ NamedHere' = NamedHere /\ ShortHere' = ShortHere
  BY <1>1, SameNames
<1>3. Filling => Filling'
  <2>1. Unit' = Unit
    BY <1>1 DEF Unit
  <2>2. Limit(Unit)' = Limit(Unit)
    BY <1>1, <2>1 DEF Limit, Heading, LineText
  <2>3. Table(Unit, rows)' = Table(Unit, rows)
    BY <1>1, <2>1 DEF Table, Header, Underlined, Text, LineText
  <2>4. HeadRows(Unit)' = HeadRows(Unit)
    BY <1>1, <2>1 DEF HeadRows, Underlined
  <2> QED BY <1>1, <2>1, <2>2, <2>3, <2>4 DEF Filling, Size
<1> QED BY <1>1, <1>2, <1>3 DEF Naming

LEMMA NamingHoldsFirst ==
  ASSUME Init
  PROVE  Disjoint /\ Naming
<1>1. /\ lines = <<>> /\ units = <<>> /\ sections = <<>> /\ kind = "none"
      /\ todo = <<>> /\ nodes = <<>> /\ pc = "lines"
  BY DEF Init
<1>2. UnitsClosed = {}
  BY <1>1 DEF UnitsClosed, UnitsOf, ToSet
<1>3. Disjoint
  BY <1>1, <1>2 DEF Disjoint, Apart
<1>4. Naming
  BY <1>1, EmptySeq DEF Naming
<1> QED BY <1>3, <1>4

LEMMA StepNames ==
  ASSUME Inv, Inv', Disjoint, Naming, [Next]_vars
  PROVE  Disjoint' /\ Naming'
<1>1. ReadIn
  BY DEF Inv
<1>2. ASSUME NEW line \in DOMAIN doc, OpenSection(line) \/ EndUnit(line) \/ TakeLine(line)
      PROVE  Disjoint' /\ Naming'
  BY <1>1, <1>2, ReadingDisjoint, ReadingNames
<1>3. CASE EndDocument
  BY <1>1, <1>3, EndedDisjoint, EndDocumentNames
<1>4. ASSUME KeepParagraph \/ KeepTable \/ DivideTable
      PROVE  Disjoint' /\ Naming'
  <2>1. UNCHANGED <<doc, reading>>
    BY <1>4 DEF KeepParagraph, KeepTable, DivideTable
  <2> QED BY <1>4, <2>1, UnreadDisjoint, KeepParagraphNames, KeepTableNames, DivideTableNames
<1>5. ASSUME NEW ends \in SUBSET DOMAIN doc, DivideParagraph(ends)
      PROVE  Disjoint' /\ Naming'
  <2>1. UNCHANGED <<doc, reading>>
    BY <1>5 DEF DivideParagraph
  <2> QED BY <1>5, <2>1, UnreadDisjoint, DivideParagraphNames
<1>6. ASSUME TakeRow \/ CutRow \/ EndTable
      PROVE  Disjoint' /\ Naming'
  <2>1. UNCHANGED <<doc, reading>>
    BY <1>6 DEF TakeRow, CutRow, EndTable
  <2> QED BY <1>6, <2>1, UnreadDisjoint, TakeRowNames, CutRowNames, EndTableNames
<1>7. ASSUME PartFits \/ PartIsCut \/ UnitDone
      PROVE  Disjoint' /\ Naming'
  <2>1. UNCHANGED <<doc, reading>>
    BY <1>7 DEF PartFits, PartIsCut, UnitDone
  <2> QED BY <1>7, <2>1, UnreadDisjoint, PartFitsNames, PartIsCutNames, UnitDoneNames
<1>8. ASSUME SplitterRefuses \/ RecursionEnds \/ Finish \/ UNCHANGED vars
      PROVE  Disjoint' /\ Naming'
  <2>1. /\ UNCHANGED <<doc, reading>> /\ UNCHANGED <<todo, dividing, nodes>>
        /\ pc' \in {pc, "done", "refused", "raised"}
    BY <1>8 DEF SplitterRefuses, RecursionEnds, Finish, vars, reading, dividing
  <2> QED BY <2>1, UnreadDisjoint, StillNames
<1> QED BY <1>2, <1>3, <1>4, <1>5, <1>6, <1>7, <1>8 DEF Next

\* A token is of one unit's lines, which is the unit its node is of.
LEMMA NamesFollow ==
  ASSUME Special >= 1, Inv, Disjoint, Naming
  PROVE  RowsNameTheirColumns
<1> SUFFICES ASSUME NEW u \in Laid, u.kind = "table", Size(Header(u)) + Special < Limit(u),
                    NEW node \in ToSet(nodes), NEW i \in DOMAIN node.body,
                    node.body[i].line \in ToSet(u.lines)
             PROVE  /\ IsPrefix(Header(u), node.body)
                    /\ RowsOf(u) # <<>> => Len(node.body) > Len(Header(u))
  BY DEF RowsNameTheirColumns, Laid
<1>1. node \in Belonging
  BY SeqOfItsSet DEF Naming
<1>2. PICK v \in Laid : node.body \in Named(v)
  BY <1>1 DEF Belonging
<1>3. node.body[i].line \in ToSet(v.lines)
  <2>1. PICK E, text :
           E = TokensOf(ToSet(v.lines)) /\ text = node.body /\ text \in Seq(E)
    BY <1>2 DEF Named, Owned, Filled
  <2>2. text[i] \in E
    BY <2>1, ElementOfSeq, LenProperties
  <2> QED BY <2>1, <2>2 DEF TokensOf
<1>4. u = v
  <2>1. u \in UnitsClosed /\ v \in UnitsClosed
    BY LaidIs
  <2> QED BY <1>3, <2>1 DEF Disjoint, Apart
<1>5. Room(u)
  BY DEF Room
<1> QED BY <1>2, <1>4, <1>5 DEF Named

\* Whatever the document, the tokenizer's words and the cap, no cut separates a row from
\* the names of its columns: every node with a token of a table whose header leaves a row
\* a token begins with that table's own header, and with some of a row under it, provided
\* the model adds a token to each text, as those that bracket it with [CLS] and [SEP] do
\* (pipeline.py _model_token_count).  For one that adds none, a slice of a wide row that
\* is a token longer when it is read again is cut again, and one half loses the header.
THEOREM RowsKeepTheirHeader ==
  ASSUME Special >= 1
  PROVE  Spec => []RowsNameTheirColumns
<1>1. Init => Disjoint /\ Naming
  BY NamingHoldsFirst
<1>2. Inv /\ Inv' /\ (Disjoint /\ Naming) /\ [Next]_vars => (Disjoint /\ Naming)'
  BY StepNames
<1>3. Inv /\ Disjoint /\ Naming => RowsNameTheirColumns
  BY NamesFollow
<1> QED BY <1>1, <1>2, <1>3, InvHolds, PTL DEF Spec

-----------------------------------------------------------------------------
(* What the document's lines are to a reader, who knows no state but it.   *)

Above(h, n) ==
    /\ h \in 0..n - 1
    /\ h # 0 => Opens(h)
    /\ \A m \in h + 1..n - 1 : ~Opens(m)

\* A unit's lines are those from a to b, and more of them are not before a.
RunOf(u, a, b) ==
    /\ a <= b /\ ToSet(u.lines) = a..b /\ a..b \subseteq Content
    /\ \A n \in a..b : LineKind(n) = u.kind /\ Above(u.heading, n)
    /\ a - 1 \in Content => LineKind(a - 1) # u.kind
\* Nor behind b.
Ends(u, b) == b + 1 \in Content => LineKind(b + 1) # u.kind
Run(u) == \E a, b \in Numbers : RunOf(u, a, b) /\ Ends(u, b)

LEMMA SameReader ==
  ASSUME doc' = doc
  PROVE  /\ Content' = Content /\ Numbers' = Numbers
         /\ \A n : InFence(n)' <=> InFence(n)
         /\ \A n : Opens(n)' <=> Opens(n)
         /\ \A n : LineKind(n)' = LineKind(n)
         /\ \A h, n : Above(h, n)' <=> Above(h, n)
<1>1. \A n : InFence(n)' <=> InFence(n)
  BY DEF InFence
<1>2. \A n : Opens(n)' <=> Opens(n)
  BY <1>1 DEF Opens
<1>3. \A n : LineKind(n)' = LineKind(n)
  BY DEF LineKind
<1>4. Content' = Content
  BY <1>2 DEF Content
<1>5. \A h, n : Above(h, n)' <=> Above(h, n)
  BY <1>2 DEF Above
<1> QED BY <1>1, <1>2, <1>3, <1>4, <1>5, Same

LEMMA SameRuns ==
  ASSUME doc' = doc
  PROVE  /\ \A u, a, b : RunOf(u, a, b) => RunOf(u, a, b)'
         /\ \A u : Run(u) => Run(u)'
<1>1. \A u, a, b : RunOf(u, a, b) => RunOf(u, a, b)'
  BY SameReader DEF RunOf
<1>2. \A u, b : Ends(u, b) => Ends(u, b)'
  BY SameReader DEF Ends
<1>3. \A u : Run(u) => Run(u)'
  BY <1>1, <1>2, SameReader DEF Run
<1> QED BY <1>1, <1>3

LEMMA Parity ==
  ASSUME NEW c \in Nat
  PROVE  (c + 1) % 2 = 1 <=> ~(c % 2 = 1)
  OBVIOUS

\* A line that opens or closes a fence changes whether the next is in one.
LEMMA FenceGoesOn ==
  ASSUME doc \in Documents
  PROVE  /\ ~InFence(1)
         /\ \A n \in Numbers :
               /\ doc[n] \in Fences => (InFence(n + 1) <=> ~InFence(n))
               /\ doc[n] \notin Fences => (InFence(n + 1) <=> InFence(n))
<1>1. PICK F : F = {m \in Numbers : doc[m] \in Fences}
  OBVIOUS
<1>2. F \in SUBSET (Nat \ {0}) /\ Len(doc) \in Nat
  BY <1>1, DocumentIs DEF Numbers
<1>3. ASSUME NEW k \in 0..Len(doc)
      PROVE  InFence(k + 1) <=> Cardinality(UpTo(F, k)) % 2 = 1
  <2>1. {m \in 1..(k + 1) - 1 : doc[m] \in Fences} = UpTo(F, k)
    BY <1>1, <1>2 DEF UpTo, Numbers
  <2> QED BY <2>1 DEF InFence
<1>4. ~InFence(1)
  <2>1. \A m \in F : ~(m <= 0)
    BY <1>2
  <2>2. UpTo(F, 0) = {}
    BY <2>1 DEF UpTo
  <2>3. 0 \in 0..Len(doc) /\ 0 + 1 = 1
    BY <1>2
  <2>4. Cardinality({}) = 0 /\ ~(0 % 2 = 1)
    BY FS_EmptySet
  <2> QED BY <1>3, <2>2, <2>3, <2>4
<1>5. ASSUME NEW n \in Numbers
      PROVE  /\ doc[n] \in Fences => (InFence(n + 1) <=> ~InFence(n))
             /\ doc[n] \notin Fences => (InFence(n + 1) <=> InFence(n))
  <2>1. PICK k \in Nat : k + 1 = n /\ k \in 0..Len(doc) /\ n \in 0..Len(doc)
    <3>1. n - 1 \in Nat /\ (n - 1) + 1 = n /\ n - 1 \in 0..Len(doc) /\ n \in 0..Len(doc)
      BY <1>2 DEF Numbers
    <3> QED BY <3>1
  <2>2. IsFiniteSet(UpTo(F, k)) /\ F \in SUBSET Nat
    BY <1>2, CountReaches
  <2>3. PICK c \in Nat : c = Cardinality(UpTo(F, k))
    BY <2>2, FS_CardinalityType
  <2>4. InFence(n) <=> c % 2 = 1
    BY <1>3, <2>1, <2>3
  <2>5. InFence(n + 1) <=> Cardinality(UpTo(F, k + 1)) % 2 = 1
    BY <1>3, <2>1
  <2>6. /\ k + 1 \in F => Cardinality(UpTo(F, k + 1)) = c + 1
        /\ k + 1 \notin F => Cardinality(UpTo(F, k + 1)) = c
    BY <2>2, <2>3, CountGoesOn
  <2>7. k + 1 \in F <=> doc[n] \in Fences
    BY <1>1, <2>1
  <2>8. (c + 1) % 2 = 1 <=> ~(c % 2 = 1)
    BY Parity
  <2> QED BY <2>4, <2>5, <2>6, <2>7, <2>8, Zenon
<1> QED BY <1>4, <1>5

LEMMA AboveIs ==
  ASSUME NEW n \in Nat, NEW h, Above(h, n)
  PROVE  HeadingAbove(n) = h
<1>1. PICK S : S = {0} \cup {m \in 1..n - 1 : Opens(m)}
  OBVIOUS
<1>2. S \in SUBSET Int
  BY <1>1
<1>3. h \in S
  BY <1>1 DEF Above
<1>4. \A m \in S : m <= h
  <2>1. ASSUME NEW m \in 1..n - 1, Opens(m) PROVE m <= h
    <3>1. ~(m \in h + 1..n - 1) /\ h \in 0..n - 1
      BY <2>1 DEF Above
    <3> QED BY <3>1
  <2>2. 0 <= h
    BY DEF Above
  <2> QED BY <1>1, <2>1, <2>2
<1>5. Max(S) = h
  BY <1>2, <1>3, <1>4, MaxIs
<1> QED BY <1>1, <1>5 DEF HeadingAbove

LEMMA AboveGoesOn ==
  ASSUME NEW n \in Nat \ {0}, NEW h, Above(h, n)
  PROVE  /\ ~Opens(n) => Above(h, n + 1)
         /\ Opens(n) => Above(n, n + 1)
<1>1. h \in 0..n - 1 /\ (h # 0 => Opens(h)) /\ \A m \in h + 1..n - 1 : ~Opens(m)
  BY DEF Above
<1>2. ASSUME ~Opens(n) PROVE Above(h, n + 1)
  <2>1. h \in 0..(n + 1) - 1
    BY <1>1
  <2>2. \A m \in h + 1..(n + 1) - 1 : m = n \/ m \in h + 1..n - 1
    BY <1>1
  <2> QED BY <1>1, <1>2, <2>1, <2>2, Zenon DEF Above
<1>3. ASSUME Opens(n) PROVE Above(n, n + 1)
  <2>1. n \in 0..(n + 1) - 1 /\ ~(\E m : m \in n + 1..(n + 1) - 1)
    OBVIOUS
  <2> QED BY <1>3, <2>1, Zenon DEF Above
<1> QED BY <1>2, <1>3

\* A run that has begun and ended is a unit as a reader takes it.
LEMMA RunIsUnit ==
  ASSUME doc \in Documents, NEW u, NEW a \in Numbers, NEW b \in Numbers, RunOf(u, a, b),
         Ends(u, b), NEW n \in ToSet(u.lines)
  PROVE  /\ u.heading = HeadingAbove(n)
         /\ u.kind = LineKind(n)
         /\ ToSet(u.lines) = {m \in Content : OneUnit(Min({n, m}), Max({n, m}))}
<1>1. a \in Nat /\ b \in Nat /\ a <= b /\ n \in a..b /\ n \in Nat /\ Content \subseteq Nat
  <2>1. Numbers \subseteq Nat /\ Content \subseteq Numbers
    BY DocumentIs DEF Numbers, Content
  <2> QED BY <2>1 DEF RunOf
<1>2. /\ ToSet(u.lines) = a..b /\ a..b \subseteq Content
      /\ \A k \in a..b : LineKind(k) = u.kind /\ Above(u.heading, k)
      /\ a - 1 \in Content => LineKind(a - 1) # u.kind
      /\ b + 1 \in Content => LineKind(b + 1) # u.kind
  BY DEF RunOf, Ends
<1>3. u.heading = HeadingAbove(n) /\ u.kind = LineKind(n)
  BY <1>1, <1>2, AboveIs
<1>4. ASSUME NEW m \in Content
      PROVE  m \in a..b <=> OneUnit(Min({n, m}), Max({n, m}))
  <2>1. m \in Nat
    BY <1>1
  <2>2. CASE n <= m
    <3>1. Min({n, m}) = n /\ Max({n, m}) = m
      <4>1. n >= m => n = m
        BY <1>1, <2>1, <2>2
      <4> QED BY <1>1, <2>1, <2>2, <4>1, MinOfTwo, MaxOfTwo
    <3>2. ASSUME m \in a..b PROVE OneUnit(n, m)
      <4>1. n..m \subseteq a..b
        BY <1>1, <3>2
      <4> QED BY <1>2, <1>3, <4>1 DEF OneUnit
    <3>3. ASSUME OneUnit(n, m) PROVE m \in a..b
      <4>1. SUFFICES ASSUME m > b PROVE FALSE
        BY <1>1, <2>1, <2>2
      <4>2. b + 1 \in n..m
        BY <1>1, <2>1, <4>1
      <4> QED BY <1>2, <1>3, <3>3, <4>2 DEF OneUnit
    <3> QED BY <3>1, <3>2, <3>3
  <2>3. CASE ~(n <= m)
    <3>1. Min({n, m}) = m /\ Max({n, m}) = n
      <4>1. n >= m
        BY <1>1, <2>1, <2>3
      <4> QED BY <1>1, <2>1, <2>3, <4>1, MinOfTwo, MaxOfTwo
    <3>2. ASSUME m \in a..b PROVE OneUnit(m, n)
      <4>1. m..n \subseteq a..b
        BY <1>1, <3>2
      <4>2. LineKind(m) = u.kind
        BY <1>2, <3>2
      <4> QED BY <1>2, <4>1, <4>2 DEF OneUnit
    <3>3. ASSUME OneUnit(m, n) PROVE m \in a..b
      <4>1. SUFFICES ASSUME m < a PROVE FALSE
        BY <1>1, <2>1, <2>3
      <4>2. a - 1 \in m..n /\ n \in m..n
        BY <1>1, <2>1, <4>1
      <4> QED BY <1>2, <1>3, <3>3, <4>2 DEF OneUnit
    <3> QED BY <3>1, <3>2, <3>3
  <2> QED BY <2>2, <2>3
<1> QED BY <1>2, <1>3, <1>4

-----------------------------------------------------------------------------
(* The lines of units, and the units of sections.                          *)

LinesIn == [u \in Whole |-> u.lines]
UnitsIn == [sec \in Closed |-> sec.units]

LEMMA LinesOfIs ==
  /\ Maps(LinesIn, Whole, Worded)
  /\ \A us \in Seq(Whole) : LinesOf(us) = Spread(LinesIn, us)
<1>1. \A u \in Whole : LinesIn[u] = u.lines /\ u.lines \in Seq(Worded)
  BY DEF LinesIn, Whole
<1>2. ASSUME NEW us \in Seq(Whole) PROVE LinesOf(us) = Spread(LinesIn, us)
  <2>1. \A k \in DOMAIN us : us[k] \in Whole
    BY ElementOfSeq, LenProperties
  <2>2. Mapped(LinesIn, us) = [k \in DOMAIN us |-> us[k].lines]
    BY <1>1, <2>1 DEF Mapped
  <2> QED BY <2>2 DEF LinesOf, Spread
<1> QED BY <1>1, <1>2 DEF Maps

LEMMA LinesOfType ==
  ASSUME NEW us \in Seq(Whole)
  PROVE  /\ LinesOf(us) \in Seq(Worded)
         /\ \A u \in Whole : LinesOf(Append(us, u)) = LinesOf(us) \o u.lines
         /\ \A vs \in Seq(Whole) :
               us \o vs \in Seq(Whole) /\ LinesOf(us \o vs) = LinesOf(us) \o LinesOf(vs)
<1>1. PICK F, P, W : F = LinesIn /\ P = Whole /\ W = Worded
  OBVIOUS
<1>2. Maps(F, P, W) /\ us \in Seq(P) /\ \A vs \in Seq(P) : LinesOf(vs) = Spread(F, vs)
  BY <1>1, LinesOfIs, Zenon
<1>3. LinesOf(us) \in Seq(W)
  BY <1>2, MappedType
<1>4. ASSUME NEW u \in P PROVE LinesOf(Append(us, u)) = LinesOf(us) \o F[u]
  <2>1. Append(us, u) \in Seq(P)
    BY <1>2, AppendProperties
  <2>2. Spread(F, Append(us, u)) = Spread(F, us) \o F[u]
    BY <1>2, SpreadAppend
  <2> QED BY <1>2, <2>1, <2>2, Zenon
<1>5. ASSUME NEW vs \in Seq(P)
      PROVE  us \o vs \in Seq(P) /\ LinesOf(us \o vs) = LinesOf(us) \o LinesOf(vs)
  <2>1. us \o vs \in Seq(P) /\ Spread(F, us \o vs) = Spread(F, us) \o Spread(F, vs)
    BY <1>2, SpreadConcat
  <2> QED BY <1>2, <2>1, Zenon
<1>6. \A u \in P : F[u] = u.lines
  BY <1>1 DEF LinesIn
<1> QED BY <1>1, <1>3, <1>4, <1>5, <1>6, Zenon

LEMMA LinesOfNone == LinesOf(<<>>) = <<>>
<1>1. LinesOf(<<>>) = FlattenSeq(<<>>)
  BY DEF LinesOf
<1> QED BY <1>1, FlattenEmpty

LEMMA AllUnitsAppend ==
  ASSUME NEW secs \in Seq(Closed), NEW sec \in Closed
  PROVE  AllUnits(Append(secs, sec)) = AllUnits(secs) \o sec.units
<1>1. PICK F, P, W : F = UnitsIn /\ P = Closed /\ W = Whole
  OBVIOUS
<1>2. \A x \in P : F[x] = x.units /\ x.units \in Seq(W)
  BY <1>1 DEF UnitsIn, Closed
<1>3. Maps(F, P, W)
  BY <1>2 DEF Maps
<1>4. ASSUME NEW ss \in Seq(P) PROVE AllUnits(ss) = Spread(F, ss)
  <2>1. \A k \in DOMAIN ss : ss[k] \in P
    BY ElementOfSeq, LenProperties
  <2>2. Mapped(F, ss) = [k \in DOMAIN ss |-> ss[k].units]
    BY <1>2, <2>1 DEF Mapped
  <2> QED BY <2>2 DEF AllUnits, Spread
<1>5. secs \in Seq(P) /\ sec \in P
  BY <1>1
<1>6. Append(secs, sec) \in Seq(P)
  BY <1>5, AppendProperties
<1>7. Spread(F, Append(secs, sec)) = Spread(F, secs) \o F[sec]
  BY <1>3, <1>5, SpreadAppend
<1> QED BY <1>2, <1>4, <1>5, <1>6, <1>7, Zenon

\* All units are units of a section.
LEMMA AllUnitsAre ==
  ASSUME NEW secs \in Seq(Closed)
  PROVE  ToSet(AllUnits(secs)) \subseteq UnitsOf(secs)
<1>4. PICK S : S = Seq(UnitsOf(secs))
  OBVIOUS
<1>5. PICK f : f = [s \in DOMAIN secs |-> secs[s].units]
  OBVIOUS
<1>6. ASSUME NEW s \in DOMAIN secs PROVE f[s] \in S
  <2>1. secs[s] \in Closed /\ secs[s] \in ToSet(secs)
    BY ElementOfSeq, LenProperties DEF ToSet
  <2>2. PICK us \in Seq(Whole) : us = secs[s].units
    BY <2>1 DEF Closed
  <2>3. us \in Seq(ToSet(us))
    BY SeqOfItsSet
  <2>4. ToSet(us) \subseteq UnitsOf(secs)
    BY <2>1, <2>2 DEF UnitsOf
  <2> QED BY <1>4, <1>5, <2>2, <2>3, <2>4, SeqMonotonic
<1>7. f = [s \in DOMAIN secs |-> f[s]]
  BY <1>5
<1>8. f \in Seq(S)
  BY <1>6, <1>7, MapIsSequence
<1>9. AllUnits(secs) \in Seq(UnitsOf(secs))
  BY <1>4, <1>5, <1>8, FlattenType DEF AllUnits
<1> QED BY <1>9, SeqOfItsSet

-----------------------------------------------------------------------------
(* What is read so far, unit by unit and section by section.               *)

ReadContent == {n \in Content : n <= read}
Taken == LinesOf(AllUnits(sections) \o units) \o lines
Tops(secs) == {sec.heading : sec \in ToSet(secs)}
Rising(secs) == \A s, t \in DOMAIN secs : s < t => secs[s].heading < secs[t].heading

UnitsAs ==
    /\ \A u \in UnitsClosed : Run(u)
    /\ lines # <<>> => \E a \in Numbers : RunOf(Open, a, read)
    /\ lines = <<>> => read \notin Content
HeadsAs ==
    /\ (Tops(sections) \cup {heading}) \ {0} = {n \in Numbers : n <= read /\ Opens(n)}
    /\ Rising(sections)
    /\ \A sec \in ToSet(sections) :
          sec.heading < heading /\ (sec.heading = 0 => sec.units # <<>>)

ReadAs ==
    pc = "lines" =>
        /\ fenced <=> InFence(read + 1)
        /\ Above(heading, read + 1)
        /\ UnitsAs
        /\ Taken = Sorted(ReadContent)
        /\ HeadsAs

\* Which of a reader's lines a step reads.
LEMMA LineIs ==
  ASSUME ReadIn, NEW line \in DOMAIN doc, fenced <=> InFence(read + 1)
  PROVE  /\ Reading(line) => line = read + 1 /\ line \in Numbers /\ read \in Nat
         /\ OpenSection(line) => Opens(line) /\ line \notin Content /\ doc[line] \notin Fences
         /\ EndUnit(line) => ~Opens(line) /\ line \notin Content /\ doc[line] \notin Fences
         /\ TakeLine(line) => ~Opens(line) /\ line \in Content
<1>1. Reading(line) => line = read + 1 /\ line \in Numbers /\ read \in Nat
  BY NumbersOf DEF Reading
<1>2. Headings \cap Fences = {} /\ Blanks \cap (Headings \cup Fences) = {}
  BY LayoutAssumption
<1>3. ASSUME OpenSection(line)
      PROVE  Opens(line) /\ line \notin Content /\ doc[line] \notin Fences
  <2>1. line = read + 1 /\ doc[line] \in Headings /\ ~fenced
    BY <1>3 DEF OpenSection, Reading
  <2> QED BY <1>2, <2>1 DEF Opens, Content
<1>4. ASSUME EndUnit(line)
      PROVE  ~Opens(line) /\ line \notin Content /\ doc[line] \notin Fences
  <2>1. doc[line] \in Blanks
    BY <1>4 DEF EndUnit
  <2> QED BY <1>2, <2>1 DEF Opens, Content
<1>5. ASSUME TakeLine(line)
      PROVE  ~Opens(line) /\ line \in Content
  <2>1. line = read + 1 /\ doc[line] \notin Blanks /\ (doc[line] \in Headings => fenced)
    BY <1>5 DEF TakeLine, Reading
  <2> QED BY <2>1 DEF Opens, Content
<1> QED BY <1>1, <1>3, <1>4, <1>5

LEMMA ReadingFence ==
  ASSUME ReadIn, NEW line \in DOMAIN doc, fenced <=> InFence(read + 1), Above(heading, read + 1),
         OpenSection(line) \/ EndUnit(line) \/ TakeLine(line)
  PROVE  (fenced <=> InFence(read + 1))' /\ Above(heading, read + 1)'
<1>1. Reading(line)
  BY DEF OpenSection, EndUnit, TakeLine
<1>2. read' = line /\ line = read + 1 /\ line \in Numbers /\ doc' = doc /\ doc \in Documents
      /\ line \in Nat \ {0}
  <2>1. line = read + 1 /\ line \in Numbers /\ read \in Nat
    BY <1>1, LineIs
  <2> QED BY <1>1, <2>1 DEF Reading, ReadIn
<1>3. /\ doc[line] \in Fences => (InFence(line + 1) <=> ~InFence(line))
      /\ doc[line] \notin Fences => (InFence(line + 1) <=> InFence(line))
  BY <1>2, FenceGoesOn
<1>4. fenced \in BOOLEAN /\ (fenced <=> InFence(line))
  BY <1>2 DEF ReadIn
<1>5. (OpenSection(line) \/ EndUnit(line)) => fenced' = fenced /\ doc[line] \notin Fences
  BY LineIs DEF OpenSection, EndUnit
<1>6. fenced' <=> InFence(line + 1)
  <2>1. CASE OpenSection(line) \/ EndUnit(line)
    BY <1>3, <1>4, <1>5, <2>1
  <2>2. CASE TakeLine(line)
    <3>1. fenced' = (fenced # (doc[line] \in Fences))
      BY <2>2 DEF TakeLine
    <3>2. doc[line] \in Fences => (fenced' <=> ~fenced)
      BY <1>4, <3>1
    <3>3. doc[line] \notin Fences => (fenced' <=> fenced)
      BY <1>4, <3>1
    <3> QED BY <1>3, <1>4, <3>2, <3>3, Zenon
  <2> QED BY <2>1, <2>2
<1>7. Above(heading', line + 1)
  <2>1. Above(heading, line)
    BY <1>2
  <2>2. CASE OpenSection(line)
    <3>1. heading' = line /\ Opens(line)
      BY <2>2, LineIs DEF OpenSection
    <3> QED BY <1>2, <2>1, <3>1, AboveGoesOn
  <2>3. CASE EndUnit(line) \/ TakeLine(line)
    <3>1. heading' = heading /\ ~Opens(line)
      BY <2>3, LineIs DEF EndUnit, TakeLine
    <3> QED BY <1>2, <2>1, <3>1, AboveGoesOn
  <2> QED BY <2>2, <2>3
<1>8. InFence(line + 1)' <=> InFence(line + 1)
  BY <1>2, SameReader
<1>9. \A h, n : Above(h, n)' <=> Above(h, n)
  BY <1>2, SameReader
<1>10. Above(heading, read + 1)'
  <2>1. PICK h, n : h = heading' /\ n = line + 1
    OBVIOUS
  <2>2. Above(h, n)'
    BY <1>7, <1>9, <2>1
  <2>3. read' + 1 = n
    BY <1>2, <2>1
  <2> QED BY <2>1, <2>2, <2>3 DEF Above
<1>11. (fenced <=> InFence(read + 1))'
  <2>1. PICK n : n = line + 1
    OBVIOUS
  <2>2. InFence(n)' <=> InFence(n)
    BY <1>2, SameReader
  <2>3. read' + 1 = n
    BY <1>2, <2>1
  <2> QED BY <1>6, <2>1, <2>2, <2>3 DEF InFence
<1> QED BY <1>10, <1>11

\* If the line that is read next ends the unit that is open, that is a run too.
LEMMA ThenRuns ==
  ASSUME ReadIn, UnitsAs, read + 1 \in Content => LineKind(read + 1) # kind
  PROVE  \A u \in UnitsThen : Run(u)
<1>1. ASSUME NEW a \in Numbers, RunOf(Open, a, read) PROVE Run(Open)
  <2>1. a \in Nat /\ 1 <= a /\ a <= read /\ read \in 0..Len(doc) /\ Len(doc) \in Nat
    BY <1>1, NumbersOf DEF RunOf, Numbers, ReadIn
  <2>2. read \in Numbers
    BY <2>1 DEF Numbers
  <2>3. Ends(Open, read)
    BY DEF Ends, Open
  <2> QED BY <1>1, <2>2, <2>3 DEF Run
<1> QED BY <1>1 DEF UnitsThen, UnitsAs

LEMMA ReadingUnits ==
  ASSUME ReadIn, NEW line \in DOMAIN doc, fenced <=> InFence(read + 1), Above(heading, read + 1),
         UnitsAs, OpenSection(line) \/ EndUnit(line) \/ TakeLine(line)
  PROVE  UnitsAs'
<1>1. Reading(line)
  BY DEF OpenSection, EndUnit, TakeLine
<1>2. /\ read' = line /\ line = read + 1 /\ line \in Numbers /\ read \in Nat /\ doc' = doc
  BY <1>1, LineIs DEF Reading
<1>3. /\ Content' = Content /\ Numbers' = Numbers
      /\ \A u : Run(u) => Run(u)'
      /\ \A u, a, b : RunOf(u, a, b) => RunOf(u, a, b)'
  BY <1>2, SameReader, SameRuns
<1>4. ToSet(<<>>) = {}
  BY DEF ToSet
<1>5. CASE OpenSection(line) \/ EndUnit(line)
  <2>1. line \notin Content /\ lines' = <<>>
    BY <1>5, LineIs DEF OpenSection, EndUnit
  <2>2. UnitsClosed' \subseteq UnitsThen
    <3>1. CASE OpenSection(line)
      BY <1>4, <3>1, ClosedAreThen DEF OpenSection, UnitsClosed, UnitsOf
    <3>2. CASE EndUnit(line)
      BY <3>2, ClosedAreThen DEF EndUnit, UnitsClosed, UnitsOf, UnitsThen
    <3> QED BY <1>5, <3>1, <3>2
  <2>3. \A u \in UnitsThen : Run(u)
    BY <1>2, <2>1, ThenRuns
  <2> QED BY <1>2, <1>3, <2>1, <2>2, <2>3 DEF UnitsAs
<1>6. CASE TakeLine(line)
  <2>1. /\ sections' = sections /\ heading' = heading
        /\ kind' = LineKind(line)
        /\ kind' = kind => lines' = Append(lines, line) /\ units' = units
        /\ kind' # kind => lines' = <<line>> /\ units' = ClosedUnits
        /\ line \in Content
    BY <1>6, LineIs DEF TakeLine
  <2>2. kind' # "none" /\ (lines = <<>> => kind = "none")
    BY <2>1 DEF LineKind, ReadIn
  <2>3. PICK new : new = [heading |-> heading, kind |-> LineKind(line), lines |-> lines']
    OBVIOUS
  <2>4. Open' = new
    BY <2>1, <2>3 DEF Open
  <2>5. Above(heading, line)
    BY <1>2
  <2>6. CASE kind' = kind
    <3>1. lines # <<>>
      BY <2>2, <2>6
    <3>2. PICK a \in Numbers : RunOf(Open, a, read)
      BY <3>1 DEF UnitsAs
    <3>3. /\ a <= read /\ a \in Nat /\ ToSet(lines) = a..read /\ a..read \subseteq Content
          /\ \A n \in a..read : LineKind(n) = kind /\ Above(heading, n)
          /\ a - 1 \in Content => LineKind(a - 1) # kind
      BY <3>2 DEF RunOf, Open, Numbers
    <3>4. ToSet(lines') = ToSet(lines) \cup {line}
      BY <2>1, <2>6, SetOfAppend DEF ReadIn
    <3>5. a..line = a..read \cup {line} /\ a <= line
      BY <1>2, <3>3
    <3>6. RunOf(new, a, line)
      BY <2>1, <2>3, <2>5, <2>6, <3>3, <3>4, <3>5 DEF RunOf
    <3>7. RunOf(new, a, line)'
      BY <1>3, <3>6
    <3>8. RunOf(Open, a, read)'
      BY <1>2, <2>4, <3>7 DEF RunOf
    <3>9. lines' # <<>>
      BY <1>4, <3>4
    <3>10. UnitsClosed' = UnitsClosed
      BY <2>1, <2>6 DEF UnitsClosed, UnitsOf
    <3> QED BY <1>3, <3>8, <3>9, <3>10 DEF UnitsAs
  <2>7. CASE kind' # kind
    <3>1. UnitsClosed' \subseteq UnitsThen
      BY <2>1, <2>7, ClosedAreThen DEF UnitsClosed, UnitsOf, UnitsThen
    <3>2. \A u \in UnitsThen : Run(u)
      BY <1>2, <2>1, <2>7, ThenRuns
    <3>3. ToSet(lines') = {line} /\ lines' # <<>>
      BY <2>1, <2>7 DEF ToSet
    <3>4. line - 1 \in Content => LineKind(line - 1) # LineKind(line)
      <4>1. SUFFICES ASSUME read \in Content PROVE LineKind(read) # kind'
        BY <1>2, <2>1
      <4>2. PICK a \in Numbers : RunOf(Open, a, read)
        BY <4>1 DEF UnitsAs
      <4>3. a <= read /\ a \in Nat /\ \A n \in a..read : LineKind(n) = kind
        BY <4>2 DEF RunOf, Open, Numbers
      <4> QED BY <1>2, <2>7, <4>3
    <3>5. line..line = {line}
      BY <1>2
    <3>6. RunOf(new, line, line)
      BY <1>2, <2>1, <2>3, <2>5, <3>3, <3>4, <3>5 DEF RunOf
    <3>7. RunOf(new, line, line)'
      BY <1>3, <3>6
    <3>8. RunOf(Open, line, read)'
      BY <1>2, <2>4, <3>7 DEF RunOf
    <3> QED BY <1>2, <1>3, <3>1, <3>2, <3>3, <3>8 DEF UnitsAs
  <2> QED BY <2>6, <2>7
<1> QED BY <1>5, <1>6

\* Closing a unit and a section takes no line and loses none.
LEMMA ClosedLines ==
  ASSUME ReadIn
  PROVE  /\ Taken \in Seq(Worded) /\ AllUnits(sections) \in Seq(Whole)
         /\ LinesOf(AllUnits(sections) \o ClosedUnits) = Taken
         /\ LinesOf(AllUnits(ClosedSections)) = Taken
<1>1. PICK us : us = AllUnits(sections)
  OBVIOUS
<1>2. us \in Seq(Whole) /\ units \in Seq(Whole) /\ sections \in Seq(Closed) /\ lines \in Seq(Worded)
  BY <1>1, AllUnitsType, NumbersOf DEF ReadIn
<1>3. us \o units \in Seq(Whole) /\ LinesOf(us \o units) \in Seq(Worded)
  BY <1>2, LinesOfType
<1>4. LinesOf(us \o ClosedUnits) = LinesOf(us \o units) \o lines
  <2>1. CASE lines = <<>>
    <3>1. LinesOf(us \o units) \o <<>> = LinesOf(us \o units)
      BY <1>3, ConcatEmptySeq
    <3> QED BY <2>1, <3>1 DEF ClosedUnits
  <2>2. CASE lines # <<>>
    <3>1. Open \in Whole /\ Open.lines = lines
      BY <1>2, <2>2, NumbersOf DEF Whole, ReadIn, Open
    <3>2. us \o Append(units, Open) = Append(us \o units, Open)
      BY <1>2, <3>1, ConcatAppend
    <3>3. LinesOf(Append(us \o units, Open)) = LinesOf(us \o units) \o lines
      BY <1>3, <3>1, LinesOfType
    <3>4. ClosedUnits = Append(units, Open)
      BY <2>2 DEF ClosedUnits, Open
    <3> QED BY <3>2, <3>3, <3>4, Zenon
  <2> QED BY <2>1, <2>2
<1>5. AllUnits(ClosedSections) = us \o ClosedUnits
  <2>1. CASE heading = 0 /\ ClosedUnits = <<>>
    <3>1. us \o <<>> = us
      BY <1>2, ConcatEmptySeq
    <3> QED BY <1>1, <2>1, <3>1 DEF ClosedSections
  <2>2. CASE ~(heading = 0 /\ ClosedUnits = <<>>)
    <3>1. PICK new : new = [heading |-> heading, units |-> ClosedUnits]
      OBVIOUS
    <3>2. new \in Closed /\ new.units = ClosedUnits
      BY <3>1, ClosedType, NumbersOf DEF Closed
    <3>3. AllUnits(Append(sections, new)) = us \o ClosedUnits
      BY <1>1, <1>2, <3>2, AllUnitsAppend
    <3> QED BY <2>2, <3>1, <3>3 DEF ClosedSections
  <2> QED BY <2>1, <2>2
<1>6. Taken = LinesOf(us \o units) \o lines
  BY <1>1 DEF Taken
<1>7. Taken \in Seq(Worded)
  BY <1>2, <1>3, <1>6, ConcatProperties
<1> QED BY <1>1, <1>2, <1>4, <1>5, <1>6, <1>7, Zenon

LEMMA ReadingTaken ==
  ASSUME ReadIn, NEW line \in DOMAIN doc, fenced <=> InFence(read + 1), Taken = Sorted(ReadContent),
         OpenSection(line) \/ EndUnit(line) \/ TakeLine(line)
  PROVE  (Taken = Sorted(ReadContent))'
<1>1. Reading(line)
  BY DEF OpenSection, EndUnit, TakeLine
<1>2. /\ read' = line /\ line = read + 1 /\ line \in Numbers /\ read \in Nat /\ doc' = doc
  BY <1>1, LineIs DEF Reading
<1>3. Content' = Content /\ Content \subseteq Numbers /\ Numbers \subseteq Nat \ {0}
  BY <1>2, SameReader, NumbersOf DEF Content, Numbers
<1>4. PICK us : us = AllUnits(sections)
  OBVIOUS
<1>5. /\ us \in Seq(Whole) /\ units \in Seq(Whole) /\ lines \in Seq(Worded)
      /\ Taken \in Seq(Worded) /\ Taken = LinesOf(us \o units) \o lines
      /\ LinesOf(us \o ClosedUnits) = Taken /\ LinesOf(AllUnits(ClosedSections)) = Taken
      /\ LinesOf(us \o units) \in Seq(Worded)
  BY <1>4, ClosedLines, NumbersOf, LinesOfType DEF ReadIn, Taken
<1>6. Taken \o <<>> = Taken
  BY <1>5, ConcatEmptySeq
<1>7. CASE OpenSection(line) \/ EndUnit(line)
  <2>1. ReadContent' = ReadContent
    <3>1. line \notin Content
      BY <1>7, LineIs
    <3>2. \A n \in Content : n <= line <=> n <= read
      BY <1>2, <1>3, <3>1
    <3> QED BY <1>2, <1>3, <3>2 DEF ReadContent
  <2>2. Taken' = Taken
    <3>1. CASE OpenSection(line)
      <4>1. PICK vs : vs = AllUnits(ClosedSections)
        OBVIOUS
      <4>2. vs \in Seq(Whole)
        BY <4>1, ClosedType, AllUnitsType
      <4>3. vs \o <<>> = vs
        BY <4>2, ConcatEmptySeq
      <4>4. Taken' = LinesOf(vs \o <<>>) \o <<>>
        BY <3>1, <4>1 DEF OpenSection, Taken
      <4> QED BY <1>5, <1>6, <4>1, <4>3, <4>4, Zenon
    <3>2. CASE EndUnit(line)
      <4>1. Taken' = LinesOf(us \o ClosedUnits) \o <<>>
        BY <1>4, <3>2 DEF EndUnit, Taken
      <4> QED BY <1>5, <1>6, <4>1, Zenon
    <3> QED BY <1>7, <3>1, <3>2
  <2> QED BY <2>1, <2>2 DEF Sorted
<1>8. CASE TakeLine(line)
  <2>1. ReadContent' = ReadContent \cup {line}
    <3>1. line \in Content
      BY <1>8, LineIs
    <3>2. \A n \in Content : n <= line <=> n <= read \/ n = line
      BY <1>2, <1>3
    <3> QED BY <1>2, <1>3, <3>1, <3>2 DEF ReadContent
  <2>2. /\ sections' = sections
        /\ kind' = kind => lines' = Append(lines, line) /\ units' = units
        /\ kind' # kind => lines' = <<line>> /\ units' = ClosedUnits
    BY <1>8 DEF TakeLine
  <2>3. line \in Worded
    BY <1>2, <1>8 DEF TakeLine, Worded
  <2>4. Taken' = Append(Taken, line)
    <3>1. CASE kind' = kind
      <4>1. Taken' = LinesOf(us \o units) \o Append(lines, line)
        BY <1>4, <2>2, <3>1 DEF Taken
      <4> QED BY <1>5, <2>3, <4>1, ConcatAppend
    <3>2. CASE kind' # kind
      <4>1. Taken' = Taken \o <<line>>
        BY <1>4, <1>5, <2>2, <3>2 DEF Taken
      <4> QED BY <1>5, <2>3, <4>1, AppendIsConcat
    <3> QED BY <3>1, <3>2
  <2>5. ReadContent \subseteq 1..read
    BY <1>2, <1>3 DEF ReadContent
  <2>6. Sorted(ReadContent \cup {read + 1}) = Append(Sorted(ReadContent), read + 1)
    BY <1>2, <2>5, SortedGrows
  <2>7. PICK ns : ns = ReadContent \cup {read + 1}
    OBVIOUS
  <2>8. Sorted(ReadContent)' = Sorted(ns)
    BY <1>2, <2>1, <2>7 DEF Sorted
  <2> QED BY <1>2, <2>4, <2>6, <2>7, <2>8
<1> QED BY <1>7, <1>8

LEMMA ClosedHeads ==
  ASSUME ReadIn, HeadsAs
  PROVE  /\ Tops(ClosedSections) \ {0} = {n \in Numbers : n <= read /\ Opens(n)}
         /\ Rising(ClosedSections)
         /\ \A sec \in ToSet(ClosedSections) :
               sec.heading <= heading /\ (sec.heading = 0 => sec.units # <<>>)
<1>1. /\ (Tops(sections) \cup {heading}) \ {0} = {n \in Numbers : n <= read /\ Opens(n)}
      /\ Rising(sections)
      /\ \A sec \in ToSet(sections) :
            sec.heading < heading /\ (sec.heading = 0 => sec.units # <<>>)
  BY DEF HeadsAs
<1>2. sections \in Seq(Closed) /\ heading \in Nat /\ Headed \subseteq Nat
  BY NumbersOf DEF ReadIn, Headed, Numbers
<1>3. \A sec \in ToSet(sections) : sec.heading \in Nat /\ sec.heading <= heading
  <2>1. ASSUME NEW sec \in ToSet(sections) PROVE sec.heading \in Nat
    <3>1. sec \in Closed
      BY <1>2, ElementOfSeq, LenProperties DEF ToSet
    <3> QED BY <1>2, <3>1 DEF Closed
  <2>2. \A sec \in ToSet(sections) : sec.heading < heading
    BY <1>1
  <2> QED BY <1>2, <2>1, <2>2
<1>4. CASE heading = 0 /\ ClosedUnits = <<>>
  <2>1. ClosedSections = sections
    BY <1>4 DEF ClosedSections
  <2>2. (Tops(sections) \cup {heading}) \ {0} = Tops(sections) \ {0}
    BY <1>4
  <2> QED BY <1>1, <1>3, <2>1, <2>2
<1>5. CASE ~(heading = 0 /\ ClosedUnits = <<>>)
  <2>1. PICK new : new = [heading |-> heading, units |-> ClosedUnits]
    OBVIOUS
  <2>2. /\ ClosedSections = Append(sections, new)
        /\ new.heading = heading /\ (new.heading = 0 => new.units # <<>>) /\ new \in Closed
    <3>1. ClosedSections = Append(sections, new) /\ new.heading = heading /\ new.units = ClosedUnits
      BY <1>5, <2>1 DEF ClosedSections
    <3>2. new \in Closed
      BY <2>1, ClosedType, NumbersOf DEF Closed
    <3> QED BY <1>5, <3>1, <3>2
  <2>3. ToSet(Append(sections, new)) = ToSet(sections) \cup {new}
    BY <1>2, SetOfAppend
  <2>4. Tops(Append(sections, new)) = Tops(sections) \cup {heading}
    BY <2>2, <2>3 DEF Tops
  <2>5. Rising(Append(sections, new))
    <3>1. PICK n \in Nat : n = Len(sections) /\ DOMAIN sections = 1..n
      BY <1>2, LenProperties
    <3>2. PICK more \in Seq(Closed) : more = Append(sections, new) /\ Appends(more, sections, new, n)
      BY <1>2, <2>2, <3>1, AppendElements
    <3>3. /\ DOMAIN more = 1..n + 1 /\ more[n + 1] = new
          /\ \A i \in 1..n : more[i] = sections[i]
      BY <3>2, LenProperties DEF Appends, Agree
    <3>4. ASSUME NEW s \in 1..n + 1, NEW t \in 1..n + 1, s < t
          PROVE  more[s].heading < more[t].heading
      <4>1. s \in 1..n /\ (t = n + 1 \/ t \in 1..n)
        BY <3>4
      <4>2. sections[s] \in ToSet(sections)
        BY <3>1, <4>1 DEF ToSet
      <4>3. CASE t = n + 1
        BY <1>1, <2>2, <3>3, <4>1, <4>2, <4>3
      <4>4. CASE t \in 1..n
        BY <1>1, <3>1, <3>3, <3>4, <4>1, <4>4 DEF Rising
      <4> QED BY <4>1, <4>3, <4>4
    <3> QED BY <3>2, <3>3, <3>4 DEF Rising
  <2>6. \A sec \in ToSet(sections) \cup {new} :
           sec.heading <= heading /\ (sec.heading = 0 => sec.units # <<>>)
    BY <1>1, <1>2, <1>3, <2>2
  <2> QED BY <1>1, <2>2, <2>3, <2>4, <2>5, <2>6
<1> QED BY <1>4, <1>5

LEMMA ReadingHeads ==
  ASSUME ReadIn, NEW line \in DOMAIN doc, fenced <=> InFence(read + 1), HeadsAs,
         OpenSection(line) \/ EndUnit(line) \/ TakeLine(line)
  PROVE  HeadsAs'
<1>1. Reading(line)
  BY DEF OpenSection, EndUnit, TakeLine
<1>2. /\ read' = line /\ line = read + 1 /\ line \in Numbers /\ read \in Nat /\ doc' = doc
  BY <1>1, LineIs DEF Reading
<1>3. Numbers \subseteq Nat \ {0}
  BY NumbersOf DEF Numbers
<1>0. Headed \subseteq Nat
  BY <1>3 DEF Headed
<1>4. PICK heads : heads = {n \in Numbers : n <= read /\ Opens(n)}
  OBVIOUS
<1>5. PICK then : then = {n \in Numbers : n <= line /\ Opens(n)}
  OBVIOUS
<1>6. {n \in Numbers : n <= read /\ Opens(n)}' = then
  <2>1. Numbers' = Numbers /\ \A n : Opens(n)' <=> Opens(n)
    BY <1>2, SameReader
  <2> QED BY <1>2, <1>5, <2>1
<1>7. CASE OpenSection(line)
  <2>1. /\ sections' = ClosedSections /\ heading' = line /\ Opens(line)
    BY <1>7, LineIs DEF OpenSection
  <2>2. then = heads \cup {line}
    <3>1. \A n \in Numbers : n <= line <=> n <= read \/ n = line
      BY <1>2, <1>3
    <3> QED BY <1>2, <1>4, <1>5, <2>1, <3>1
  <2>3. /\ Tops(ClosedSections) \ {0} = heads /\ Rising(ClosedSections)
        /\ \A sec \in ToSet(ClosedSections) :
              sec.heading <= heading /\ (sec.heading = 0 => sec.units # <<>>)
    BY <1>4, ClosedHeads
  <2>4. (Tops(ClosedSections) \cup {line}) \ {0} = then
    BY <1>2, <1>3, <2>2, <2>3
  <2>5. \A sec \in ToSet(ClosedSections) : sec.heading < line
    <3>1. heading \in 0..read
      BY DEF ReadIn
    <3>2. ASSUME NEW sec \in ToSet(ClosedSections) PROVE sec.heading \in Nat
      <4>1. sec \in Closed
        BY ClosedType, ElementOfSeq, LenProperties DEF ToSet
      <4>2. sec.heading \in Headed
        BY <4>1 DEF Closed
      <4> QED BY <1>0, <4>2
    <3> QED BY <1>2, <2>3, <3>1, <3>2
  <2> QED BY <1>6, <2>1, <2>3, <2>4, <2>5 DEF HeadsAs, Tops, Rising
<1>8. CASE EndUnit(line) \/ TakeLine(line)
  <2>1. /\ sections' = sections /\ heading' = heading /\ ~Opens(line)
    BY <1>8, LineIs DEF EndUnit, TakeLine
  <2>2. then = heads
    <3>1. \A n \in Numbers : n <= line <=> n <= read \/ n = line
      BY <1>2, <1>3
    <3> QED BY <1>4, <1>5, <2>1, <3>1
  <2> QED BY <1>4, <1>6, <2>1, <2>2 DEF HeadsAs, Tops, Rising
<1> QED BY <1>7, <1>8

LEMMA ReadAsFirst ==
  ASSUME Init
  PROVE  ReadAs
<1>1. /\ doc \in Documents /\ read = 0 /\ ~fenced /\ heading = 0
      /\ lines = <<>> /\ units = <<>> /\ sections = <<>>
  BY DEF Init
<1>2. Numbers \subseteq Nat \ {0} /\ DOMAIN doc = Numbers /\ 0 + 1 = 1
  BY <1>1, DocumentIs DEF Numbers
<1>3. ToSet(<<>>) = {}
  BY DEF ToSet
<1>4. Above(0, 1)
  BY DEF Above
<1>5. Content \subseteq Numbers /\ 0 \notin Numbers /\ \A n \in Numbers : ~(n <= 0)
  BY <1>2 DEF Content
<1>6. UnitsAs
  BY <1>1, <1>3, <1>5 DEF UnitsAs, UnitsClosed, UnitsOf
<1>7. Taken = Sorted(ReadContent)
  <2>1. AllUnits(<<>>) = <<>>
    BY FlattenEmpty DEF AllUnits
  <2>2. Taken = LinesOf(<<>> \o <<>>) \o <<>>
    BY <1>1, <2>1 DEF Taken
  <2>3. <<>> \o <<>> = <<>>
    OBVIOUS
  <2>4. Taken = <<>>
    BY <2>2, <2>3, LinesOfNone
  <2>5. ReadContent = {}
    BY <1>1, <1>5 DEF ReadContent
  <2> QED BY <2>4, <2>5, SortedEmpty
<1>8. HeadsAs
  <2>1. {n \in Numbers : n <= read /\ Opens(n)} = {}
    BY <1>1, <1>5
  <2>2. Tops(<<>>) = {} /\ Rising(<<>>)
    BY <1>3 DEF Tops, Rising
  <2> QED BY <1>1, <1>3, <2>1, <2>2 DEF HeadsAs
<1> QED BY <1>1, <1>2, <1>4, <1>6, <1>7, <1>8, FenceGoesOn DEF ReadAs

\* The sections secs are the document's.
AreTheDocuments(secs) ==
    /\ LinesOf(AllUnits(secs)) = Sorted(Content)
    /\ \A u \in ToSet(AllUnits(secs)) : \A n \in ToSet(u.lines) :
          /\ u.heading = HeadingAbove(n)
          /\ u.kind = LineKind(n)
          /\ ToSet(u.lines) = {m \in Content : OneUnit(Min({n, m}), Max({n, m}))}
    /\ {section.heading : section \in ToSet(secs)} \ {0} = {n \in DOMAIN doc : Opens(n)}
    /\ \A s, t \in DOMAIN secs : s < t => secs[s].heading < secs[t].heading
    /\ \A s \in DOMAIN secs : secs[s].heading = 0 => s = 1 /\ secs[s].units # <<>>

LEMMA StayTheDocuments ==
  ASSUME doc' = doc, NEW c, AreTheDocuments(c), sections' = c
  PROVE  SectionsAreTheDocuments'
<1>1. /\ Content' = Content
      /\ \A n : Opens(n)' <=> Opens(n)
      /\ \A n : LineKind(n)' = LineKind(n)
  BY SameReader
<1>2. \A n : HeadingAbove(n)' = HeadingAbove(n)
  BY <1>1 DEF HeadingAbove
<1>3. \A n, m : OneUnit(n, m)' <=> OneUnit(n, m)
  BY <1>1 DEF OneUnit
<1>4. AreTheDocuments(c)'
  <2>1. (LinesOf(AllUnits(c)) = Sorted(Content))'
    BY <1>1 DEF AreTheDocuments, Sorted
  <2>2. ASSUME NEW u \in ToSet(AllUnits(c)), NEW n \in ToSet(u.lines)
        PROVE  /\ u.heading = HeadingAbove(n)'
               /\ u.kind = LineKind(n)'
               /\ ToSet(u.lines) = {m \in Content : OneUnit(Min({n, m}), Max({n, m}))}'
    <3>1. {m \in Content : OneUnit(Min({n, m}), Max({n, m}))}'
             = {m \in Content : OneUnit(Min({n, m}), Max({n, m}))}
      BY <1>1, <1>3
    <3> QED BY <1>1, <1>2, <3>1 DEF AreTheDocuments
  <2>3. {n \in DOMAIN doc : Opens(n)}' = {n \in DOMAIN doc : Opens(n)}
    BY <1>1
  <2> QED BY <2>1, <2>2, <2>3 DEF AreTheDocuments
<1> QED BY <1>4, Zenon DEF SectionsAreTheDocuments, AreTheDocuments

\* The whole of what the sections are, once the document is read.
LEMMA EndDocumentIsRead ==
  ASSUME ReadIn, ReadAs, EndDocument
  PROVE  SectionsAreTheDocuments'
<1>1. /\ pc = "lines" /\ read = Len(doc) /\ doc' = doc /\ sections' = ClosedSections
  BY DEF EndDocument
<1>2. UnitsAs /\ Taken = Sorted(ReadContent) /\ HeadsAs
  BY <1>1 DEF ReadAs
<1>3. /\ doc \in Documents /\ Numbers = 1..Len(doc) /\ DOMAIN doc = Numbers /\ Len(doc) \in Nat
      /\ ClosedSections \in Seq(Closed)
  BY NumbersOf, ClosedType DEF ReadIn
<1>4. Content \subseteq Numbers /\ read + 1 \notin Numbers /\ \A n \in Numbers : n <= read
  BY <1>1, <1>3 DEF Content
<1>5. LinesOf(AllUnits(ClosedSections)) = Sorted(Content)
  <2>1. ReadContent = Content
    BY <1>4 DEF ReadContent
  <2> QED BY <1>2, <2>1, ClosedLines
<1>6. ASSUME NEW u \in ToSet(AllUnits(ClosedSections)), NEW n \in ToSet(u.lines)
      PROVE  /\ u.heading = HeadingAbove(n)
             /\ u.kind = LineKind(n)
             /\ ToSet(u.lines) = {m \in Content : OneUnit(Min({n, m}), Max({n, m}))}
  <2>1. u \in UnitsThen
    BY <1>3, AllUnitsAre, ClosedAreThen
  <2>2. Run(u)
    BY <1>2, <1>4, <2>1, ThenRuns
  <2>3. PICK a \in Numbers, b \in Numbers : RunOf(u, a, b) /\ Ends(u, b)
    BY <2>2 DEF Run
  <2> QED BY <1>3, <2>3, RunIsUnit
<1>7. /\ Tops(ClosedSections) \ {0} = {n \in DOMAIN doc : Opens(n)}
      /\ Rising(ClosedSections)
      /\ \A sec \in ToSet(ClosedSections) : sec.heading = 0 => sec.units # <<>>
  <2>1. {n \in Numbers : n <= read /\ Opens(n)} = {n \in DOMAIN doc : Opens(n)}
    BY <1>3, <1>4
  <2> QED BY <1>2, <2>1, ClosedHeads
<1>8. ASSUME NEW s \in DOMAIN ClosedSections, ClosedSections[s].heading = 0
      PROVE  s = 1 /\ ClosedSections[s].units # <<>>
  <2>1. PICK c \in Seq(Closed) : c = ClosedSections
    BY <1>3
  <2>2. DOMAIN c = 1..Len(c) /\ Len(c) \in Nat /\ \A t \in DOMAIN c : c[t] \in Closed
    BY ElementOfSeq, LenProperties
  <2>3. \A t \in DOMAIN c : c[t].heading \in Nat
    <3>1. \A t \in DOMAIN c : c[t].heading \in Headed
      BY <2>2 DEF Closed
    <3> QED BY <1>3, <3>1 DEF Headed
  <2>4. s = 1
    <3>1. SUFFICES ASSUME s # 1 PROVE FALSE
      OBVIOUS
    <3>2. s \in 1..Len(c) /\ 1 \in DOMAIN c /\ 1 < s
      BY <1>8, <2>1, <2>2, <3>1
    <3>3. c[1].heading < c[s].heading
      BY <1>7, <2>1, <2>2, <3>2 DEF Rising
    <3> QED BY <1>8, <2>1, <2>3, <3>2, <3>3
  <2>5. ClosedSections[s] \in ToSet(ClosedSections)
    BY <1>8 DEF ToSet
  <2> QED BY <1>7, <1>8, <2>4, <2>5
<1>9. PICK c : c = ClosedSections
  OBVIOUS
<1>10. AreTheDocuments(c)
  BY <1>5, <1>6, <1>7, <1>8, <1>9, Zenon DEF AreTheDocuments, Tops, Rising
<1> QED BY <1>1, <1>9, <1>10, StayTheDocuments

\* The steps that read nothing.
LayingOut ==
    \/ KeepParagraph \/ SplitterRefuses \/ KeepTable \/ DivideTable
    \/ \E ends \in SUBSET DOMAIN doc : DivideParagraph(ends)
    \/ TakeRow \/ CutRow \/ EndTable
    \/ PartFits \/ PartIsCut \/ RecursionEnds \/ UnitDone \/ Finish

LEMMA LayingOutReads ==
  ASSUME LayingOut
  PROVE  UNCHANGED <<doc, reading>> /\ pc # "lines" /\ pc' # "lines"
<1>1. CASE KeepParagraph \/ SplitterRefuses \/ KeepTable \/ DivideTable
  BY <1>1 DEF KeepParagraph, SplitterRefuses, KeepTable, DivideTable
<1>2. ASSUME NEW ends, DivideParagraph(ends)
      PROVE  UNCHANGED <<doc, reading>> /\ pc # "lines" /\ pc' # "lines"
  BY <1>2 DEF DivideParagraph
<1>3. CASE TakeRow \/ CutRow \/ EndTable
  BY <1>3 DEF TakeRow, CutRow, EndTable
<1>4. CASE PartFits \/ PartIsCut \/ RecursionEnds \/ UnitDone \/ Finish
  BY <1>4 DEF PartFits, PartIsCut, RecursionEnds, UnitDone, Finish
<1> QED BY <1>1, <1>2, <1>3, <1>4 DEF LayingOut

LEMMA SameReadAs ==
  ASSUME ReadAs, UNCHANGED vars
  PROVE  ReadAs'
<1>1. /\ doc' = doc /\ read' = read /\ fenced' = fenced /\ heading' = heading /\ kind' = kind
      /\ lines' = lines /\ units' = units /\ sections' = sections /\ pc' = pc
  BY DEF vars
<1>2. /\ Content' = Content /\ Numbers' = Numbers
      /\ \A u : Run(u) => Run(u)'
      /\ \A u, a, b : RunOf(u, a, b) => RunOf(u, a, b)'
      /\ \A n : Opens(n)' <=> Opens(n)
  BY <1>1, SameReader, SameRuns
<1>3. Open' = Open /\ UnitsClosed' = UnitsClosed /\ ReadContent' = ReadContent /\ Taken' = Taken
  BY <1>1, <1>2 DEF Open, UnitsClosed, UnitsOf, ReadContent, Taken
<1>4. SUFFICES ASSUME pc = "lines" PROVE ReadAs'
  BY <1>1 DEF ReadAs
<1>5. UnitsAs'
  <2>1. lines # <<>> => \E a \in Numbers : RunOf(Open, a, read)'
    <3>1. PICK u, b : u = Open /\ b = read
      OBVIOUS
    <3>2. ASSUME NEW a \in Numbers, RunOf(u, a, b) PROVE RunOf(Open, a, read)'
      <4>1. RunOf(u, a, b)'
        BY <1>2, <3>2
      <4> QED BY <1>1, <1>3, <3>1, <4>1 DEF RunOf
    <3> QED BY <1>4, <3>1, <3>2 DEF ReadAs, UnitsAs
  <2> QED BY <1>1, <1>2, <1>3, <1>4, <2>1 DEF ReadAs, UnitsAs
<1>6. HeadsAs'
  <2>1. {n \in Numbers : n <= read /\ Opens(n)}' = {n \in Numbers : n <= read /\ Opens(n)}
    BY <1>1, <1>2
  <2> QED BY <1>1, <1>4, <2>1 DEF ReadAs, HeadsAs, Tops, Rising
<1>7. (fenced <=> InFence(read + 1))' /\ Above(heading, read + 1)'
  BY <1>1, <1>4 DEF ReadAs, InFence, Above, Opens
<1>8. (Taken = Sorted(ReadContent))'
  BY <1>3, <1>4 DEF ReadAs, Sorted
<1> QED BY <1>5, <1>6, <1>7, <1>8 DEF ReadAs

LEMMA StepReads ==
  ASSUME Inv, ReadAs, SectionsAreTheDocuments, [Next]_vars
  PROVE  ReadAs' /\ SectionsAreTheDocuments'
<1>1. ReadIn
  BY DEF Inv
<1>2. PICK c : c = sections
  OBVIOUS
<1>3. pc # "lines" => AreTheDocuments(c)
  BY <1>2, Zenon DEF SectionsAreTheDocuments, AreTheDocuments
<1>4. ASSUME NEW line \in DOMAIN doc, OpenSection(line) \/ EndUnit(line) \/ TakeLine(line)
      PROVE  ReadAs' /\ SectionsAreTheDocuments'
  <2>1. pc = "lines" /\ pc' = "lines"
    BY <1>4 DEF OpenSection, EndUnit, TakeLine, Reading
  <2>2. /\ fenced <=> InFence(read + 1)
        /\ Above(heading, read + 1)
        /\ UnitsAs /\ Taken = Sorted(ReadContent) /\ HeadsAs
    BY <2>1 DEF ReadAs
  <2>3. (fenced <=> InFence(read + 1))' /\ Above(heading, read + 1)'
    BY <1>1, <1>4, <2>2, ReadingFence
  <2>4. UnitsAs' /\ (Taken = Sorted(ReadContent))' /\ HeadsAs'
    BY <1>1, <1>4, <2>2, ReadingUnits, ReadingTaken, ReadingHeads
  <2>5. ReadAs'
    BY <2>3, <2>4 DEF ReadAs
  <2> QED BY <2>1, <2>5 DEF SectionsAreTheDocuments
<1>5. CASE EndDocument
  <2>1. pc' # "lines"
    BY <1>5 DEF EndDocument
  <2> QED BY <1>1, <1>5, <2>1, EndDocumentIsRead DEF ReadAs
<1>6. CASE LayingOut
  <2>1. doc' = doc /\ sections' = c /\ pc # "lines" /\ pc' # "lines"
    BY <1>2, <1>6, LayingOutReads DEF reading
  <2> QED BY <1>3, <2>1, StayTheDocuments DEF ReadAs
<1>7. CASE UNCHANGED vars
  <2>1. doc' = doc /\ sections' = c /\ pc' = pc
    BY <1>2, <1>7 DEF vars
  <2>2. SectionsAreTheDocuments'
    <3>1. CASE pc = "lines"
      BY <2>1, <3>1 DEF SectionsAreTheDocuments
    <3>2. CASE pc # "lines"
      BY <1>3, <2>1, <3>2, StayTheDocuments
    <3> QED BY <3>1, <3>2
  <2> QED BY <1>7, <2>2, SameReadAs
<1> QED BY <1>4, <1>5, <1>6, <1>7 DEF Next, LayingOut

\* Whatever the document, its sections are the document as a reader takes it: they hold
\* every line of its content once, in order, under the heading nearest above it, and its
\* units are the longest runs of lines of a kind that nothing is between; every heading
\* that no fence holds has its section, in order; and only the first has none.
THEOREM SectionsAreTheReaders == Spec => []SectionsAreTheDocuments
<1>1. Init => ReadAs /\ SectionsAreTheDocuments
  BY ReadAsFirst DEF Init, SectionsAreTheDocuments
<1>2. Inv /\ (ReadAs /\ SectionsAreTheDocuments) /\ [Next]_vars
         => (ReadAs /\ SectionsAreTheDocuments)'
  BY StepReads
<1> QED BY <1>1, <1>2, InvHolds, PTL DEF Spec

-----------------------------------------------------------------------------
(* Texts of lines, one behind another.                                     *)

TextIn == [n \in Worded |-> LineText(n)]

LEMMA TextIsSpread ==
  ASSUME doc \in Documents
  PROVE  /\ Maps(TextIn, Worded, Token)
         /\ \A ns \in Seq(Worded) : Text(ns) = Spread(TextIn, ns)
<1>1. ASSUME NEW n \in Worded PROVE TextIn[n] = LineText(n) /\ LineText(n) \in Seq(Token)
  BY LineTextType DEF TextIn, Worded
<1>2. ASSUME NEW ns \in Seq(Worded) PROVE Text(ns) = Spread(TextIn, ns)
  <2>1. \A k \in DOMAIN ns : ns[k] \in Worded
    BY ElementOfSeq, LenProperties
  <2>2. Mapped(TextIn, ns) = [k \in DOMAIN ns |-> LineText(ns[k])]
    BY <1>1, <2>1 DEF Mapped
  <2> QED BY <2>2 DEF Text, Spread
<1> QED BY <1>1, <1>2 DEF Maps

LEMMA TextConcat ==
  ASSUME doc \in Documents, NEW s \in Seq(Worded), NEW t \in Seq(Worded)
  PROVE  s \o t \in Seq(Worded) /\ Text(s \o t) = Text(s) \o Text(t)
<1>1. PICK F, P, E : F = TextIn /\ P = Worded /\ E = Token
  OBVIOUS
<1>2. Maps(F, P, E) /\ \A ns \in Seq(P) : Text(ns) = Spread(F, ns)
  BY <1>1, TextIsSpread, Zenon
<1>3. s \in Seq(P) /\ t \in Seq(P)
  BY <1>1
<1>4. s \o t \in Seq(P) /\ Spread(F, s \o t) = Spread(F, s) \o Spread(F, t)
  BY <1>2, <1>3, SpreadConcat
<1> QED BY <1>1, <1>2, <1>3, <1>4, Zenon

LEMMA TextOne ==
  ASSUME doc \in Documents, NEW n \in Worded
  PROVE  <<n>> \in Seq(Worded) /\ Text(<<n>>) = LineText(n)
<1>1. PICK F, P, E : F = TextIn /\ P = Worded /\ E = Token
  OBVIOUS
<1>2. Maps(F, P, E) /\ \A ns \in Seq(P) : Text(ns) = Spread(F, ns)
  BY <1>1, TextIsSpread, Zenon
<1>3. <<n>> \in Seq(P) /\ n \in P
  BY <1>1
<1>4. Spread(F, <<n>>) = F[n]
  BY <1>2, <1>3, SpreadOne
<1> QED BY <1>1, <1>2, <1>3, <1>4 DEF TextIn

LEMMA TextNone == Text(<<>>) = <<>>
<1>1. Text(<<>>) = FlattenSeq(<<>>)
  BY DEF Text
<1> QED BY <1>1, FlattenEmpty

-----------------------------------------------------------------------------
(* What of a text is outside some lines, and what a cut leaves of it.      *)

\* What Outside has of each token.
Leaves(ns) ==
    [token \in Token |->
        IF token.line \in ns THEN <<>>
        ELSE IF token.half = "both" THEN Halved(token) ELSE <<token>>]

LEMMA OutsideIs ==
  ASSUME NEW ns
  PROVE  /\ Maps(Leaves(ns), Token, Token)
         /\ \A text \in Seq(Token) : Outside(text, ns) = Spread(Leaves(ns), text)
<1>1. ASSUME NEW token \in Token PROVE Leaves(ns)[token] \in Seq(Token)
  <2>1. PICK E : E = Token
    OBVIOUS
  <2>2. PICK x \in E, y \in E, z \in E : token = x /\ Halved(token) = <<y, z>>
    <3>1. \A half \in Halves : [token EXCEPT !.half = half] \in E
      BY <2>1 DEF Token, TokensOf
    <3> QED BY <2>1, <3>1 DEF Halved, Halves
  <2>3. <<>> \in Seq(E) /\ <<x>> \in Seq(E) /\ <<y, z>> \in Seq(E)
    OBVIOUS
  <2>4. \/ Leaves(ns)[token] = <<>>
        \/ Leaves(ns)[token] = <<y, z>>
        \/ Leaves(ns)[token] = <<x>>
    BY <2>2, Zenon DEF Leaves
  <2> QED BY <2>1, <2>3, <2>4, Zenon
<1>2. ASSUME NEW text \in Seq(Token) PROVE Outside(text, ns) = Spread(Leaves(ns), text)
  <2>1. \A i \in DOMAIN text : text[i] \in Token
    BY ElementOfSeq, LenProperties
  <2>2. Mapped(Leaves(ns), text) =
           [i \in DOMAIN text |->
               IF text[i].line \in ns THEN <<>>
               ELSE IF text[i].half = "both" THEN Halved(text[i]) ELSE <<text[i]>>]
    BY <2>1 DEF Mapped, Leaves
  <2> QED BY <2>2, Zenon DEF Outside, Spread
<1> QED BY <1>1, <1>2 DEF Maps

\* Reading a slice again counts a token as its halves, which it has anyway.
LEMMA ReadAgainLeaves ==
  ASSUME NEW ns, NEW text \in Seq(Token), text # <<>>
  PROVE  /\ ReadAgain(text) \in Seq(Token)
         /\ Spread(Leaves(ns), ReadAgain(text)) = Spread(Leaves(ns), text)
<1>1. PICK F, E : F = Leaves(ns) /\ E = Token
  OBVIOUS
<1>2. Maps(F, E, E)
  BY <1>1, OutsideIs
<1>3. PICK x \in E, rest \in Seq(E) : x = Head(text) /\ rest = Tail(text)
  BY <1>1, HeadTailProperties
<1>4. text = <<x>> \o rest
  BY <1>3, HeadIsFirst
<1>5. CASE ReadAgain(text) = text
  BY <1>5
<1>6. CASE ReadAgain(text) # text
  <2>1. x.half = "both" /\ ReadAgain(text) = Halved(x) \o rest
    BY <1>3, <1>6 DEF ReadAgain
  <2>2. PICK a \in E, b \in E :
           /\ a = [x EXCEPT !.half = "first"] /\ b = [x EXCEPT !.half = "second"]
           /\ a.line = x.line /\ b.line = x.line /\ a.half # "both" /\ b.half # "both"
    <3>1. E = TokensOf(Numbers)
      BY <1>1 DEF Token
    <3>2. \A half \in Halves :
             /\ [x EXCEPT !.half = half] \in E
             /\ [x EXCEPT !.half = half].line = x.line
             /\ [x EXCEPT !.half = half].half = half
      BY <3>1 DEF TokensOf
    <3> QED BY <3>2 DEF Halves
  <2>3. Halved(x) = <<a, b>>
    BY <2>2 DEF Halved
  <2>4. PICK two \in Seq(E) : two = <<a, b>> /\ Spread(F, two) = F[a] \o F[b]
    <3>1. PICK two : two = <<a, b>>
      OBVIOUS
    <3>2. two \in Seq(E) /\ Joins(Spread(F, two), F[a], F[b])
      BY <1>2, <3>1, SpreadTwo
    <3> QED BY <3>1, <3>2 DEF Joins
  <2>5. F[a] \o F[b] = F[x]
    <3>1. CASE x.line \in ns
      <4>1. F[a] = <<>> /\ F[b] = <<>> /\ F[x] = <<>>
        BY <1>1, <2>2, <3>1 DEF Leaves
      <4>2. <<>> \o <<>> = <<>>
        OBVIOUS
      <4> QED BY <4>1, <4>2, Zenon
    <3>2. CASE x.line \notin ns
      <4>1. F[a] = <<a>> /\ F[b] = <<b>>
        BY <1>1, <2>2, <3>2, Zenon DEF Leaves
      <4>2. F[x] = <<a, b>>
        BY <1>1, <2>1, <2>3, <3>2, Zenon DEF Leaves
      <4>3. <<a>> \o <<b>> = <<a, b>>
        BY PairIs
      <4> QED BY <4>1, <4>2, <4>3, Zenon
    <3> QED BY <3>1, <3>2
  <2>7. two \o rest \in Seq(E) /\ Spread(F, two \o rest) = Spread(F, two) \o Spread(F, rest)
    BY <1>2, SpreadConcat
  <2>a. <<x>> \in Seq(E)
    OBVIOUS
  <2>8. PICK one \in Seq(E) : one = <<x>>
    BY <2>a
  <2>b. Spread(F, one) = F[x]
    BY <1>2, <2>8, SpreadOne
  <2>9. Spread(F, one \o rest) = Spread(F, one) \o Spread(F, rest)
    BY <1>2, SpreadConcat
  <2>10. Spread(F, two \o rest) = Spread(F, one \o rest)
    BY <2>4, <2>5, <2>7, <2>9, <2>b, Zenon
  <2> QED BY <1>1, <1>4, <2>1, <2>3, <2>4, <2>7, <2>8, <2>10, Zenon
<1> QED BY <1>5, <1>6

\* The slices of a cut leave together what is cut leaves.
LEMMA CutLeaves ==
  ASSUME NEW ns, NEW text \in Seq(Token), NEW budget \in Nat \ {0}
  PROVE  /\ Cut(text, budget) \in Seq(Seq(Token))
         /\ Spread(Leaves(ns), FlattenSeq(Cut(text, budget))) = Spread(Leaves(ns), text)
<1>a. PICK F, E, P : F = Leaves(ns) /\ E = Token /\ P = Seq(Token)
  OBVIOUS
<1>b. Maps(F, E, E) /\ text \in Seq(E) /\ P = Seq(E)
  BY <1>a, OutsideIs
<1>1. PICK n \in Nat : n = Len(text)
  BY LenProperties
<1>2. CASE Cut(text, budget) = <<text>>
  <2>1. FlattenSeq(<<text>>) = text
    BY FlattenOne
  <2>2. <<text>> \in Seq(P)
    BY <1>a
  <2> QED BY <1>2, <1>a, <2>1, <2>2
<1>3. ASSUME NEW last, NEW piece, NEW f, CutBy(text, n, budget, last, piece, f)
      PROVE  /\ Cut(text, budget) \in Seq(Seq(Token))
             /\ Spread(Leaves(ns), FlattenSeq(Cut(text, budget))) = Spread(Leaves(ns), text)
  <2>1. /\ \A j \in 1..n : last[j] \in j..n
        /\ \A j \in 1..n : piece[j] = ReadAgain(SubSeq(text, j, last[j]))
        /\ Walks(piece, last, n, 1, f)
        /\ Cut(text, budget) = f[1]
    BY <1>3 DEF CutBy
  <2>2. PICK G : G = [s \in P |-> Spread(F, s)]
    OBVIOUS
  <2>3. Maps(G, P, E) /\ \A s \in P : G[s] = Spread(F, s)
    BY <1>b, <2>2, MappedType DEF Maps
  <2>4. PICK has : has = [j \in 1..n + 1 |-> Spread(F, SubSeq(text, j, n))]
    OBVIOUS
  <2>5. ASSUME NEW j \in 1..n
        PROVE  piece[j] \in P /\ has[j] = G[piece[j]] \o has[last[j] + 1]
    <3>1. PICK m \in j..n : m = last[j]
      BY <2>1
    <3>2. j \in 1..n + 1 /\ m \in j - 1..n /\ m + 1 \in 1..n + 1
      OBVIOUS
    <3>3. /\ SubSeq(text, j, m) \in Seq(E) /\ SubSeq(text, m + 1, n) \in Seq(E)
          /\ SubSeq(text, j, n) = SubSeq(text, j, m) \o SubSeq(text, m + 1, n)
      <4>1. FromTo(j, m, n)
        BY <3>2 DEF FromTo
      <4>2. /\ SubSeq(text, j, m) \in Seq(E) /\ SubSeq(text, m + 1, n) \in Seq(E)
            /\ Joins(SubSeq(text, j, n), SubSeq(text, j, m), SubSeq(text, m + 1, n))
        BY <1>1, <1>b, <4>1, SubSeqParts
      <4> QED BY <4>2 DEF Joins
    <3>4. PICK slice \in Seq(E), rest \in Seq(E) :
             slice = SubSeq(text, j, m) /\ rest = SubSeq(text, m + 1, n)
      BY <3>3
    <3>5. slice # <<>>
      <4>1. \A i \in j..m : text[i] \in E
        <5>1. \A i \in j..m : i \in 1..n
          OBVIOUS
        <5> QED BY <1>1, <1>b, <5>1, ElementOfSeq
      <4>2. Len(SubSeq(text, j, m)) = m - j + 1
        BY <4>1, SubSeqProperties
      <4>3. m - j + 1 # 0
        OBVIOUS
      <4> QED BY <3>4, <4>2, <4>3, EmptySeq
    <3>6. ReadAgain(slice) \in P /\ Spread(F, ReadAgain(slice)) = Spread(F, slice)
      BY <1>a, <1>b, <3>4, <3>5, ReadAgainLeaves
    <3>7. piece[j] = ReadAgain(slice)
      BY <2>1, <3>1, <3>4
    <3>8. Spread(F, slice \o rest) = Spread(F, slice) \o Spread(F, rest)
      BY <1>b, SpreadConcat
    <3>9. has[j] = Spread(F, slice \o rest) /\ has[m + 1] = Spread(F, rest)
      BY <2>4, <3>2, <3>3, <3>4
    <3> QED BY <2>3, <3>1, <3>6, <3>7, <3>8, <3>9
  <2>6. has[n + 1] = <<>>
    <3>1. SubSeq(text, n + 1, n) = <<>>
      BY SubSeqEmpty
    <3>2. has[n + 1] = Spread(F, SubSeq(text, n + 1, n))
      BY <2>4
    <3> QED BY <3>1, <3>2, SpreadEmpty
  <2>7. has[1] = Spread(F, text)
    <3>1. SubSeq(text, 1, n) = text
      BY <1>1, SubSeqFull
    <3>2. has[1] = Spread(F, SubSeq(text, 1, n))
      BY <2>4
    <3> QED BY <3>1, <3>2
  <2>8. f[1] \in Seq(P) /\ Spread(G, f[1]) = has[1]
    <3>1. Maps(G, P, E) /\ Walks(piece, last, n, 1, f) /\ \A j \in 1..n : last[j] \in j..n
      BY <2>1, <2>3
    <3>2. \A j \in 1..n : piece[j] \in P
      BY <2>5
    <3>3. \A j \in 1..n : has[j] = G[piece[j]] \o has[last[j] + 1]
      BY <2>5
    <3>4. Carries(has, G, P, piece, last, n)
      BY <2>6, <3>1, <3>2, <3>3, Zenon DEF Carries
    <3> QED BY <3>1, <3>4, WalkSpread
  <2>9. Spread(F, FlattenSeq(f[1])) = Spread(G, f[1])
    <3>1. PICK ss \in Seq(Seq(E)) : ss = f[1]
      BY <1>b, <2>8
    <3>2. Spread(F, FlattenSeq(ss)) = FlattenSeq([k \in DOMAIN ss |-> Spread(F, ss[k])])
      BY <1>b, SpreadFlatten
    <3>3. \A k \in DOMAIN ss : ss[k] \in P
      BY <1>b, ElementOfSeq, LenProperties
    <3>4. Mapped(G, ss) = [k \in DOMAIN ss |-> Spread(F, ss[k])]
      BY <2>3, <3>3 DEF Mapped
    <3> QED BY <3>1, <3>2, <3>4 DEF Spread
  <2> QED BY <1>a, <2>1, <2>7, <2>8, <2>9
<1> QED BY <1>1, <1>2, <1>3, CutWalks, Zenon

LEMMA OutsideType ==
  ASSUME NEW ns, NEW text \in Seq(Token)
  PROVE  Outside(text, ns) \in Seq(Token)
<1>1. Outside(text, ns) = Spread(Leaves(ns), text) /\ Maps(Leaves(ns), Token, Token)
  BY OutsideIs
<1>2. Spread(Leaves(ns), text) \in Seq(Token)
  BY <1>1, MappedType
<1> QED BY <1>1, <1>2

LEMMA OutsideEmpty == ASSUME NEW ns PROVE Outside(<<>>, ns) = <<>>
<1>1. <<>> \in Seq(Token)
  BY EmptySeq
<1>2. Outside(<<>>, ns) = Spread(Leaves(ns), <<>>)
  BY <1>1, OutsideIs
<1> QED BY <1>2, SpreadEmpty

LEMMA OutsideConcat ==
  ASSUME NEW ns, NEW s \in Seq(Token), NEW t \in Seq(Token)
  PROVE  s \o t \in Seq(Token) /\ Outside(s \o t, ns) = Outside(s, ns) \o Outside(t, ns)
<1>1. PICK F, E : F = Leaves(ns) /\ E = Token
  OBVIOUS
<1>2. Maps(F, E, E) /\ \A text \in Seq(E) : Outside(text, ns) = Spread(F, text)
  BY <1>1, OutsideIs, Zenon
<1>3. s \in Seq(E) /\ t \in Seq(E)
  BY <1>1
<1>4. s \o t \in Seq(E) /\ Spread(F, s \o t) = Spread(F, s) \o Spread(F, t)
  BY <1>2, <1>3, SpreadConcat
<1> QED BY <1>1, <1>2, <1>3, <1>4, Zenon

LEMMA OutsideFlatten ==
  ASSUME NEW ns, NEW ss \in Seq(Seq(Token))
  PROVE  /\ FlattenSeq(ss) \in Seq(Token)
         /\ Outside(FlattenSeq(ss), ns) = FlattenSeq([k \in DOMAIN ss |-> Outside(ss[k], ns)])
<1>1. PICK F, E : F = Leaves(ns) /\ E = Token
  OBVIOUS
<1>2. Maps(F, E, E) /\ \A text \in Seq(E) : Outside(text, ns) = Spread(F, text)
  BY <1>1, OutsideIs, Zenon
<1>3. PICK tt \in Seq(Seq(E)) : tt = ss
  BY <1>1
<1>4. /\ FlattenSeq(tt) \in Seq(E)
      /\ Spread(F, FlattenSeq(tt)) = FlattenSeq([k \in DOMAIN tt |-> Spread(F, tt[k])])
  BY <1>2, SpreadFlatten
<1>5. [k \in DOMAIN tt |-> Spread(F, tt[k])] = [k \in DOMAIN tt |-> Outside(tt[k], ns)]
  <2>1. PICK P : P = Seq(E)
    OBVIOUS
  <2>2. \A k \in DOMAIN tt : tt[k] \in P
    BY <2>1, ElementOfSeq, LenProperties
  <2> QED BY <1>2, <2>1, <2>2
<1> QED BY <1>1, <1>2, <1>3, <1>4, <1>5, Zenon

LEMMA OutsideCut ==
  ASSUME NEW ns, NEW text \in Seq(Token), NEW budget \in Nat \ {0}
  PROVE  /\ Cut(text, budget) \in Seq(Seq(Token))
         /\ Outside(FlattenSeq(Cut(text, budget)), ns) = Outside(text, ns)
<1>1. PICK slices \in Seq(Seq(Token)) : slices = Cut(text, budget)
  BY CutLeaves
<1>2. FlattenSeq(slices) \in Seq(Token)
  BY FlattenType
<1>3. /\ Outside(FlattenSeq(slices), ns) = Spread(Leaves(ns), FlattenSeq(slices))
      /\ Outside(text, ns) = Spread(Leaves(ns), text)
  BY <1>2, OutsideIs
<1> QED BY <1>1, <1>3, CutLeaves

\* Nothing of a text is outside its own lines.
LEMMA OutsideNothing ==
  ASSUME NEW ns, NEW W, W \subseteq Numbers, W \subseteq ns, NEW text \in Seq(TokensOf(W))
  PROVE  text \in Seq(Token) /\ Outside(text, ns) = <<>>
<1>1. TokensOf(W) \subseteq Token
  BY DEF Token, TokensOf
<1>2. text \in Seq(Token)
  BY <1>1, SeqMonotonic
<1>3. ASSUME NEW token \in TokensOf(W) PROVE Leaves(ns)[token] = <<>>
  <2>1. token.line \in ns
    BY DEF TokensOf
  <2> QED BY <1>1, <2>1 DEF Leaves
<1>4. Spread(Leaves(ns), text) = <<>>
  BY <1>3, SpreadNothing
<1> QED BY <1>2, <1>4, OutsideIs

\* A table's header leaves nothing, so that its rows leave what the table does.
LEMMA OutsideHeader ==
  ASSUME doc \in Documents, NEW ns, NEW u \in Whole, {u.lines[k] : k \in 1..HeadRows(u)} \subseteq ns
  PROVE  /\ Header(u) \in Seq(Token) /\ Outside(Header(u), ns) = <<>>
         /\ Text(u.lines) \in Seq(Token) /\ Text(RowsOf(u)) \in Seq(Token)
         /\ Outside(Text(u.lines), ns) = Outside(Text(RowsOf(u)), ns)
<1>1. PICK ls \in Seq(Worded) : ls = u.lines /\ ls # <<>>
  BY DEF Whole
<1>2. PICK n \in Nat \ {0} : n = Len(ls)
  BY <1>1, LenProperties, EmptySeq
<1>3. PICK m \in 1..n : m = HeadRows(u)
  BY <1>1, <1>2, HeaderType
<1>4. PICK W : W = {ls[k] : k \in 1..m}
  OBVIOUS
<1>5. W \subseteq ns /\ W \subseteq Numbers /\ Worded \subseteq Numbers
  <2>1. \A k \in 1..m : k \in 1..n
    OBVIOUS
  <2>2. \A k \in 1..m : ls[k] \in Worded
    BY <1>2, <2>1, ElementOfSeq
  <2>3. Worded \subseteq Numbers
    BY DEF Worded
  <2> QED BY <1>1, <1>3, <1>4, <2>2, <2>3
<1>6. \A k \in 1..m : ls[k] \in W /\ LineText(ls[k]) \in Seq(TokensOf(W))
  BY <1>4, <1>5, LineTextOf
<1>7. Header(u) \in Seq(TokensOf(W))
  <2>1. 1 \in 1..m /\ (Underlined(u) => 2 \in 1..m)
    BY <1>3 DEF HeadRows
  <2>2. LineText(ls[1]) \in Seq(TokensOf(W))
    BY <1>6, <2>1
  <2>3. Underlined(u) => Canonical(ls[2]) \in Seq(TokensOf(W))
    <3>1. <<1>> \in Seq(Nat \ {0})
      OBVIOUS
    <3> QED BY <1>6, <2>1, <3>1, WrittenType DEF Canonical
  <2>4. Underlined(u) => LineText(ls[1]) \o Canonical(ls[2]) \in Seq(TokensOf(W))
    BY <2>2, <2>3, ConcatProperties
  <2> QED BY <1>1, <2>2, <2>4 DEF Header
<1>8. Header(u) \in Seq(Token) /\ Outside(Header(u), ns) = <<>>
  BY <1>5, <1>7, OutsideNothing
<1>9. FromTo(1, m, n)
  BY DEF FromTo
<1>10. /\ SubSeq(ls, 1, m) \in Seq(Worded) /\ SubSeq(ls, m + 1, n) \in Seq(Worded)
       /\ Joins(SubSeq(ls, 1, n), SubSeq(ls, 1, m), SubSeq(ls, m + 1, n))
  BY <1>2, <1>9, SubSeqParts
<1>11. PICK first \in Seq(Worded), rest \in Seq(Worded) :
          first = SubSeq(ls, 1, m) /\ rest = SubSeq(ls, m + 1, n)
  BY <1>10
<1>12. ls = first \o rest /\ rest = RowsOf(u)
  BY <1>1, <1>2, <1>3, <1>10, <1>11, SubSeqFull DEF Joins, RowsOf
<1>13. Text(first) \in Seq(TokensOf(W))
  <2>1. \A i \in 1..m : ls[i] \in W
    BY <1>6
  <2>2. first \in Seq(W)
    BY <1>11, <2>1, SubSeqProperties
  <2>3. Texted(W, TokensOf(W), TRUE)
    BY <1>4, <1>6 DEF Texted, Filled
  <2> QED BY <2>2, <2>3, TextOf
<1>14. Text(first) \in Seq(Token) /\ Outside(Text(first), ns) = <<>>
  BY <1>5, <1>13, OutsideNothing
<1>15. PICK s \in Seq(Token), t \in Seq(Token) : s = Text(first) /\ t = Text(rest)
  BY <1>14, TextType
<1>16. Text(ls) = s \o t
  BY <1>12, <1>15, TextConcat
<1>17. s \o t \in Seq(Token) /\ Outside(s \o t, ns) = Outside(s, ns) \o Outside(t, ns)
  BY OutsideConcat
<1>18. <<>> \o Outside(t, ns) = Outside(t, ns)
  BY OutsideType, ConcatEmptySeq
<1> QED BY <1>1, <1>8, <1>12, <1>14, <1>15, <1>16, <1>17, <1>18, Zenon

-----------------------------------------------------------------------------
(* What is stored, and what is still to be: together, outside the headers, *)
(* the document's content.                                                 *)

BodiesOf(ns) == FlattenSeq([k \in DOMAIN ns |-> ns[k].body])
Bodied == [heading : Headed, body : Seq(Token)]
BodyIn == [node \in Bodied |-> node.body]

LEMMA BodiesAre ==
  /\ Maps(BodyIn, Bodied, Token)
  /\ \A ns \in Seq(Bodied) : BodiesOf(ns) = Spread(BodyIn, ns)
<1>1. \A node \in Bodied : BodyIn[node] = node.body /\ node.body \in Seq(Token)
  BY DEF BodyIn, Bodied
<1>2. ASSUME NEW ns \in Seq(Bodied) PROVE BodiesOf(ns) = Spread(BodyIn, ns)
  <2>1. \A k \in DOMAIN ns : ns[k] \in Bodied
    BY ElementOfSeq, LenProperties
  <2>2. Mapped(BodyIn, ns) = [k \in DOMAIN ns |-> ns[k].body]
    BY <1>1, <2>1 DEF Mapped
  <2> QED BY <2>2 DEF BodiesOf, Spread
<1> QED BY <1>1, <1>2 DEF Maps

LEMMA BodiesConcat ==
  ASSUME NEW ns \in Seq(Bodied), NEW ms \in Seq(Bodied)
  PROVE  /\ BodiesOf(ns) \in Seq(Token) /\ BodiesOf(ms) \in Seq(Token)
         /\ ns \o ms \in Seq(Bodied) /\ BodiesOf(ns \o ms) = BodiesOf(ns) \o BodiesOf(ms)
<1>1. PICK F, P, E : F = BodyIn /\ P = Bodied /\ E = Token
  OBVIOUS
<1>2. Maps(F, P, E) /\ \A us \in Seq(P) : BodiesOf(us) = Spread(F, us)
  BY <1>1, BodiesAre, Zenon
<1>3. ns \in Seq(P) /\ ms \in Seq(P)
  BY <1>1
<1>4. ns \o ms \in Seq(P) /\ Spread(F, ns \o ms) = Spread(F, ns) \o Spread(F, ms)
  BY <1>2, <1>3, SpreadConcat
<1>5. Spread(F, ns) \in Seq(E) /\ Spread(F, ms) \in Seq(E)
  BY <1>2, <1>3, MappedType
<1> QED BY <1>1, <1>2, <1>3, <1>4, <1>5, Zenon

LEMMA BodyIsText == Body \subseteq Seq(Token) /\ Fitting \subseteq Bodied
  BY DEF Body, Filled, Fitting, Bodied

\* The nodes of some texts hold these texts.
LEMMA BodiesOfNodes ==
  ASSUME NEW texts \in Seq(Body), Unit.heading \in Headed
  PROVE  NodesOf(texts) \in Seq(Bodied) /\ BodiesOf(NodesOf(texts)) = FlattenSeq(texts)
<1>1. PICK f : f = NodesOf(texts)
  OBVIOUS
<1>2. DOMAIN texts = 1..Len(texts) /\ \A k \in DOMAIN texts : texts[k] \in Seq(Token)
  BY ElementOfSeq, LenProperties, BodyIsText
<1>3. f = [k \in DOMAIN texts |-> [heading |-> Unit.heading, body |-> texts[k]]]
  BY <1>1 DEF NodesOf, Node
<1>4. \A k \in DOMAIN texts : f[k] \in Bodied /\ f[k].body = texts[k]
  BY <1>2, <1>3 DEF Bodied
<1>5. f = [k \in DOMAIN texts |-> f[k]] /\ DOMAIN f = DOMAIN texts
  BY <1>3
<1>6. f \in Seq(Bodied)
  BY <1>4, <1>5, MapIsSequence
<1>7. [k \in DOMAIN f |-> f[k].body] = texts
  <2>1. texts = [k \in DOMAIN texts |-> texts[k]]
    BY SeqDef, <1>2
  <2> QED BY <1>4, <1>5, <2>1
<1> QED BY <1>1, <1>6, <1>7 DEF BodiesOf

\* s and t have together what the whole has.
AsMuch(s, t, whole, ns) == Outside(s, ns) \o Outside(t, ns) = Outside(whole, ns)

\* What goes over from the one to the other is not lost.
LEMMA GoesOver ==
  ASSUME NEW ns, NEW s \in Seq(Token), NEW t \in Seq(Token), NEW u \in Seq(Token),
         NEW v \in Seq(Token), NEW whole, Outside(t, ns) = Outside(v, ns),
         AsMuch(s, t \o u, whole, ns)
  PROVE  AsMuch(s \o v, u, whole, ns)
<1>1. PICK a \in Seq(Token), b \in Seq(Token), c \in Seq(Token) :
         a = Outside(s, ns) /\ b = Outside(t, ns) /\ c = Outside(u, ns)
  BY OutsideType
<1>2. Outside(t \o u, ns) = b \o c
  <2>1. Outside(t \o u, ns) = Outside(t, ns) \o Outside(u, ns)
    BY OutsideConcat
  <2> QED BY <1>1, <2>1, Zenon
<1>3. Outside(s \o v, ns) = a \o b
  <2>1. Outside(s \o v, ns) = Outside(s, ns) \o Outside(v, ns)
    BY OutsideConcat
  <2> QED BY <1>1, <2>1, Zenon
<1>4. Associate(a, b, c)
  BY ConcatAssociate
<1> QED BY <1>1, <1>2, <1>3, <1>4, Zenon DEF AsMuch, Associate

StoredSoFar ==
    AsMuch(BodiesOf(nodes), Text(LinesOf(todo)), Text(LinesOf(AllUnits(sections))), HeaderLines)
RowsSoFar ==
    AsMuch(FlattenSeq(parts), Text(rows) \o Text(SubSeq(Unit.lines, row, Len(Unit.lines))),
           Text(Unit.lines), HeaderLines)
BoundSoFar == AsMuch(FlattenSeq(pieces), FlattenSeq(parts), Text(Unit.lines), HeaderLines)

Kept ==
    /\ pc = "rows" => pieces = <<>> /\ RowsSoFar
    /\ pc = "bound" => BoundSoFar
    /\ pc # "lines" => StoredSoFar
    /\ pc = "done" => todo = <<>>

\* The texts change with the document only, and with the sections the header lines.
LEMMA SameTexts ==
  ASSUME doc' = doc
  PROVE  /\ \A ns : Text(ns)' = Text(ns)
         /\ sections' = sections => HeaderLines' = HeaderLines
<1>1. \A ns : Text(ns)' = Text(ns)
  BY DEF Text, LineText
<1>2. sections' = sections => HeaderLines' = HeaderLines
  BY DEF HeaderLines, HeadRows, Underlined
<1> QED BY <1>1, <1>2

\* What is stored of a unit is what the unit leaves.
LEMMA StoredIsKept ==
  ASSUME Inv, todo # <<>>, StoredSoFar, doc' = doc, sections' = sections,
         NEW texts \in Seq(Body), Stored(texts),
         Outside(FlattenSeq(texts), HeaderLines) = Outside(Text(Unit.lines), HeaderLines)
  PROVE  StoredSoFar'
<1>1. doc \in Documents /\ todo \in Seq(Whole) /\ nodes \in Seq(Bodied) /\ sections \in Seq(Closed)
  BY BodyIsText, SeqMonotonic DEF Inv, ReadIn, LaidOut
<1>2. PICK u \in Whole, rest \in Seq(Whole) : u = Unit /\ rest = Tail(todo)
  BY <1>1, HeadTailProperties DEF Unit
<1>3. LinesOf(todo) = u.lines \o LinesOf(rest)
  <2>1. PICK one : one = <<u>>
    OBVIOUS
  <2>2. one \in Seq(Whole) /\ one = Append(<<>>, u)
    BY <2>1
  <2>3. todo = one \o rest
    BY <1>1, <1>2, <2>1, HeadIsFirst DEF Unit
  <2>4. LinesOf(one) = u.lines
    <3>1. <<>> \in Seq(Whole)
      BY EmptySeq
    <3>2. LinesOf(Append(<<>>, u)) = LinesOf(<<>>) \o u.lines
      BY <3>1, LinesOfType
    <3>3. <<>> \o u.lines = u.lines
      BY ConcatEmptySeq DEF Whole
    <3> QED BY <2>2, <3>2, <3>3, LinesOfNone
  <2> QED BY <2>2, <2>3, <2>4, LinesOfType
<1>4. PICK ls \in Seq(Worded), ms \in Seq(Worded) : ls = u.lines /\ ms = LinesOf(rest)
  BY LinesOfType DEF Whole
<1>5. PICK t \in Seq(Token), r \in Seq(Token) : t = Text(ls) /\ r = Text(ms)
  BY <1>1, TextType
<1>6. Text(LinesOf(todo)) = t \o r
  BY <1>1, <1>3, <1>4, <1>5, TextConcat
<1>7. PICK s \in Seq(Token), v \in Seq(Token) : s = BodiesOf(nodes) /\ v = FlattenSeq(texts)
  <2>1. FlattenSeq(texts) \in Seq(Token)
    BY BodyIsText, SeqMonotonic, FlattenType
  <2> QED BY <1>1, <2>1, BodiesConcat
<1>8. BodiesOf(nodes') = s \o v
  <2>1. Unit.heading \in Headed
    BY <1>2 DEF Whole
  <2>2. PICK ns \in Seq(Bodied) : ns = NodesOf(texts) /\ BodiesOf(ns) = v
    BY <1>7, <2>1, BodiesOfNodes
  <2>3. nodes' = nodes \o ns
    BY <2>2 DEF Stored
  <2> QED BY <1>1, <1>7, <2>2, <2>3, BodiesConcat
<1>9. PICK N, whole : N = HeaderLines /\ whole = Text(LinesOf(AllUnits(sections)))
  OBVIOUS
<1>10. AsMuch(s \o v, r, whole, N)
  <2>1. AsMuch(s, t \o r, whole, N)
    BY <1>6, <1>7, <1>9 DEF StoredSoFar
  <2>2. Outside(t, N) = Outside(v, N)
    BY <1>2, <1>4, <1>5, <1>7, <1>9
  <2> QED BY <2>1, <2>2, GoesOver
<1>11. HeaderLines' = N /\ \A ns : Text(ns)' = Text(ns)
  BY <1>9, SameTexts
<1>12. LinesOf(todo') = ms
  BY <1>2, <1>4 DEF Stored
<1>13. LinesOf(AllUnits(sections')) = LinesOf(AllUnits(sections))
  OBVIOUS
<1> QED
  <2>1. Text(LinesOf(todo))' = r
    BY <1>5, <1>11, <1>12
  <2>2. Text(LinesOf(AllUnits(sections)))' = whole
    BY <1>9, <1>11, <1>13
  <2> QED BY <1>8, <1>10, <1>11, <2>1, <2>2 DEF StoredSoFar

LEMMA AllOnOneSide ==
  ASSUME NEW ns, NEW s \in Seq(Token), NEW whole
  PROVE  /\ AsMuch(<<>>, s, whole, ns) <=> Outside(s, ns) = Outside(whole, ns)
         /\ AsMuch(s, <<>>, whole, ns) <=> Outside(s, ns) = Outside(whole, ns)
<1>1. PICK a \in Seq(Token) : a = Outside(s, ns)
  BY OutsideType
<1>2. <<>> \o a = a /\ a \o <<>> = a
  BY ConcatEmptySeq
<1> QED BY <1>1, <1>2, OutsideEmpty, Zenon DEF AsMuch

\* What is still to be stored may be exchanged for what leaves the same.
LEMMA LeftForLeft ==
  ASSUME NEW ns, NEW s, NEW t \in Seq(Token), NEW u \in Seq(Token), NEW v \in Seq(Token),
         NEW whole, Outside(t, ns) = Outside(v, ns), AsMuch(s, t \o u, whole, ns)
  PROVE  AsMuch(s, v \o u, whole, ns)
<1>1. Outside(t \o u, ns) = Outside(t, ns) \o Outside(u, ns)
  BY OutsideConcat
<1>2. Outside(v \o u, ns) = Outside(v, ns) \o Outside(u, ns)
  BY OutsideConcat
<1> QED BY <1>1, <1>2, Zenon DEF AsMuch

\* A table leaves what its rows do, and so does any part of it.
LEMMA TableLeaves ==
  ASSUME doc \in Documents, NEW u \in Laid, u \in Whole, u.kind = "table"
  PROVE  /\ Header(u) \in Seq(Token) /\ Outside(Header(u), HeaderLines) = <<>>
         /\ Text(RowsOf(u)) \in Seq(Token)
         /\ Outside(Text(u.lines), HeaderLines) = Outside(Text(RowsOf(u)), HeaderLines)
         /\ \A text \in Seq(Token) :
               /\ Header(u) \o text \in Seq(Token)
               /\ Outside(Header(u) \o text, HeaderLines) = Outside(text, HeaderLines)
<1>1. PICK N : N = HeaderLines
  OBVIOUS
<1>2. {u.lines[k] : k \in 1..HeadRows(u)} \subseteq N
  BY <1>1 DEF HeaderLines, Laid
<1>3. PICK h \in Seq(Token) : h = Header(u) /\ Outside(h, N) = <<>>
  BY <1>2, OutsideHeader
<1>4. ASSUME NEW text \in Seq(Token)
      PROVE  h \o text \in Seq(Token) /\ Outside(h \o text, N) = Outside(text, N)
  <2>1. h \o text \in Seq(Token) /\ Outside(h \o text, N) = Outside(h, N) \o Outside(text, N)
    BY OutsideConcat
  <2>2. <<>> \o Outside(text, N) = Outside(text, N)
    BY OutsideType, ConcatEmptySeq
  <2> QED BY <1>3, <2>1, <2>2, Zenon
<1>5. Text(RowsOf(u)) \in Seq(Token) /\ Outside(Text(u.lines), N) = Outside(Text(RowsOf(u)), N)
  BY <1>2, OutsideHeader
<1> QED BY <1>1, <1>3, <1>4, <1>5

LEMMA StillStored ==
  ASSUME StoredSoFar, doc' = doc, sections' = sections, todo' = todo, nodes' = nodes
  PROVE  StoredSoFar'
  BY SameTexts DEF StoredSoFar

LEMMA KeptFirst == Init => Kept
  BY DEF Init, Kept

LEMMA EndDocumentKept ==
  ASSUME Inv, Naming, EndDocument
  PROVE  Kept'
<1>1. /\ pc = "lines" /\ nodes' = nodes /\ doc' = doc /\ pc' = "units"
      /\ todo' = AllUnits(ClosedSections) /\ sections' = ClosedSections
  BY DEF EndDocument
<1>2. nodes' = <<>>
  BY <1>1 DEF Naming
<1>3. doc \in Documents /\ AllUnits(ClosedSections) \in Seq(Whole)
  BY ClosedType, AllUnitsType DEF Inv, ReadIn
<1>4. PICK us \in Seq(Whole) : us = AllUnits(ClosedSections)
  BY <1>3
<1>a. PICK t \in Seq(Token) : t = Text(LinesOf(us))
  BY <1>3, LinesOfType, TextType
<1>5. PICK N : N = HeaderLines' /\ t = Text(LinesOf(us))
  BY <1>a
<1>6. AsMuch(<<>>, t, t, N)
  BY AllOnOneSide
<1>7. BodiesOf(<<>>) = <<>>
  <2>1. BodiesOf(<<>>) = FlattenSeq(<<>>)
    BY DEF BodiesOf
  <2> QED BY <2>1, FlattenEmpty
<1>8. todo' = us /\ AllUnits(sections') = us
  BY <1>1, <1>4
<1>9. Text(LinesOf(todo))' = t /\ Text(LinesOf(AllUnits(sections)))' = t
  <2>1. LinesOf(todo') = LinesOf(us) /\ LinesOf(AllUnits(sections')) = LinesOf(us)
    BY <1>8
  <2>2. \A ns : Text(ns)' = Text(ns)
    BY <1>1, SameTexts
  <2> QED BY <1>5, <2>1, <2>2
<1>10. StoredSoFar'
  BY <1>2, <1>5, <1>6, <1>7, <1>9 DEF StoredSoFar
<1> QED BY <1>1, <1>10 DEF Kept

LEMMA KeepParagraphKept ==
  ASSUME Inv, Kept, KeepParagraph
  PROVE  Kept'
<1>1. /\ pc = "units" /\ pc' = "units" /\ todo # <<>> /\ doc' = doc /\ sections' = sections
      /\ Stored(<<Text(Unit.lines)>>)
  BY DEF KeepParagraph, reading
<1>2. Unit \in Whole /\ doc \in Documents
  BY <1>1, HeadTailProperties DEF Inv, LaidOut, ReadIn, Unit
<1>3. PICK text \in Body : text = Text(Unit.lines)
  BY <1>2, TextType DEF Whole
<1>4. PICK texts \in Seq(Body) : texts = <<text>>
  <2>1. <<text>> \in Seq(Body)
    OBVIOUS
  <2> QED BY <2>1
<1>5. FlattenSeq(texts) = text
  <2>1. text \in Seq(Token)
    BY BodyIsText
  <2> QED BY <1>4, <2>1, FlattenOne
<1>6. StoredSoFar
  BY <1>1 DEF Kept
<1>7. StoredSoFar'
  BY <1>1, <1>3, <1>4, <1>5, <1>6, StoredIsKept
<1> QED BY <1>1, <1>7 DEF Kept

LEMMA KeepTableKept ==
  ASSUME Inv, Disjoint, Naming, Kept, KeepTable
  PROVE  Kept'
<1>1. /\ pc = "units" /\ pc' = "units" /\ todo # <<>> /\ doc' = doc /\ sections' = sections
      /\ Unit.kind = "table" /\ Stored(<<Table(Unit, RowsOf(Unit))>>)
  BY DEF KeepTable, reading
<1>2. Unit \in Laid /\ Unit \in Whole /\ doc \in Documents
  BY <1>1, UnitLaid
<1>3. PICK text \in Body : text = Table(Unit, RowsOf(Unit))
  <2>1. AreRows(Unit.lines)
    BY <1>1, UnitLaid
  <2>2. RowsOf(Unit) \in Seq(ToSet(Unit.lines))
    BY <1>2, OwnHeader
  <2>3. Table(Unit, RowsOf(Unit)) \in Named(Unit)
    BY <1>2, <2>1, <2>2, TableIsNamed
  <2> QED BY <1>2, <2>3, OwnedIsBody
<1>4. PICK texts \in Seq(Body) : texts = <<text>>
  <2>1. <<text>> \in Seq(Body)
    OBVIOUS
  <2> QED BY <2>1
<1>5. FlattenSeq(texts) = text
  <2>1. text \in Seq(Token)
    BY BodyIsText
  <2> QED BY <1>4, <2>1, FlattenOne
<1>6. Outside(text, HeaderLines) = Outside(Text(Unit.lines), HeaderLines)
  <2>1. text = Header(Unit) \o Text(RowsOf(Unit))
    BY <1>3 DEF Table
  <2> QED BY <1>1, <1>2, <2>1, TableLeaves
<1>7. StoredSoFar
  BY <1>1 DEF Kept
<1>8. StoredSoFar'
  BY <1>1, <1>3, <1>4, <1>5, <1>6, <1>7, StoredIsKept
<1> QED BY <1>1, <1>8 DEF Kept

LEMMA DivideTableKept ==
  ASSUME Inv, Disjoint, Naming, Kept, DivideTable
  PROVE  Kept'
<1>1. /\ pc = "units" /\ pc' = "rows" /\ todo # <<>> /\ doc' = doc /\ sections' = sections
      /\ todo' = todo /\ nodes' = nodes /\ Unit.kind = "table"
      /\ row' = HeadRows(Unit) + 1 /\ rows' = <<>> /\ parts' = <<>> /\ pieces' = <<>>
  BY DEF DivideTable, reading
<1>2. Unit \in Laid /\ Unit \in Whole /\ doc \in Documents
  BY <1>1, UnitLaid
<1>3. PICK N, u : N = HeaderLines /\ u = Unit
  OBVIOUS
<1>a. PICK t \in Seq(Token) : t = Text(RowsOf(u))
  BY <1>1, <1>2, <1>3, TableLeaves
<1>4. PICK whole : t = Text(RowsOf(u)) /\ whole = Text(u.lines)
  BY <1>a
<1>5. Outside(t, N) = Outside(whole, N)
  BY <1>1, <1>2, <1>3, <1>4, TableLeaves
<1>6. AsMuch(<<>>, <<>> \o t, whole, N)
  <2>1. <<>> \o t = t
    BY ConcatEmptySeq
  <2> QED BY <1>5, <2>1, AllOnOneSide
<1>7. Unit' = u /\ HeaderLines' = N /\ \A ns : Text(ns)' = Text(ns)
  BY <1>1, <1>3, SameTexts DEF Unit
<1>8. SubSeq(u.lines, row', Len(u.lines)) = RowsOf(u)
  BY <1>1, <1>3 DEF RowsOf
<1>9. RowsSoFar'
  BY <1>1, <1>4, <1>6, <1>7, <1>8, TextNone, FlattenEmpty DEF RowsSoFar
<1>10. StoredSoFar'
  BY <1>1, StillStored DEF Kept
<1> QED BY <1>1, <1>9, <1>10 DEF Kept

LEMMA UnitDoneKept ==
  ASSUME Inv, Kept, UnitDone
  PROVE  Kept'
<1>1. /\ pc = "bound" /\ pc' = "units" /\ doc' = doc /\ sections' = sections
      /\ parts = <<>> /\ Stored(pieces)
  BY DEF UnitDone, reading
<1>2. todo # <<>> /\ pieces \in Seq(Body)
  BY <1>1 DEF Inv, LaidOut
<1>a. PICK s \in Seq(Token) : s = FlattenSeq(pieces)
  <2>1. pieces \in Seq(Seq(Token))
    BY <1>2, BodyIsText, SeqMonotonic
  <2> QED BY <2>1, FlattenType
<1>3. PICK whole, N :
         s = FlattenSeq(pieces) /\ whole = Text(Unit.lines) /\ N = HeaderLines
  BY <1>a
<1>4. AsMuch(s, <<>>, whole, N) /\ StoredSoFar
  BY <1>1, <1>3, FlattenEmpty DEF Kept, BoundSoFar
<1>5. Outside(s, N) = Outside(whole, N)
  BY <1>4, AllOnOneSide
<1>6. StoredSoFar'
  BY <1>1, <1>2, <1>3, <1>4, <1>5, StoredIsKept
<1> QED BY <1>1, <1>6 DEF Kept

LEMMA EndsKept ==
  ASSUME Kept, SplitterRefuses \/ RecursionEnds \/ Finish
  PROVE  Kept'
<1>1. /\ pc \in {"units", "bound"} /\ pc' \in {"refused", "raised", "done"}
      /\ doc' = doc /\ sections' = sections /\ todo' = todo /\ nodes' = nodes
      /\ pc' = "done" => todo = <<>>
  BY DEF SplitterRefuses, RecursionEnds, Finish, reading
<1>2. StoredSoFar'
  BY <1>1, StillStored DEF Kept
<1> QED BY <1>1, <1>2 DEF Kept

\* What the table still has, from the row that is next.
Remaining == Text(SubSeq(Unit.lines, row, Len(Unit.lines)))

LEMMA RemainingIs ==
  ASSUME Inv, pc = "rows"
  PROVE  /\ doc \in Documents /\ Remaining \in Seq(Token)
         /\ row = Len(Unit.lines) + 1 => Remaining = <<>>
         /\ row <= Len(Unit.lines) =>
               \E rest \in Seq(Token) :
                  /\ ThisRow \in Worded /\ LineText(ThisRow) \in Seq(Token)
                  /\ rest = Text(SubSeq(Unit.lines, row + 1, Len(Unit.lines)))
                  /\ Remaining = LineText(ThisRow) \o rest
<1>1. doc \in Documents /\ todo # <<>> /\ row \in 1..Len(Unit.lines) + 1 /\ Unit \in Whole
  BY HeadTailProperties DEF Inv, ReadIn, LaidOut, Unit
<1>2. PICK ls \in Seq(Worded), n \in Nat : ls = Unit.lines /\ n = Len(ls)
  BY <1>1, LenProperties DEF Whole
<1>3. SubSeq(ls, row, n) \in Seq(Worded)
  <2>1. FromTo(row, n, n)
    BY <1>1, <1>2 DEF FromTo
  <2> QED BY <1>2, <2>1, SubSeqParts
<1>4. Remaining \in Seq(Token)
  BY <1>1, <1>2, <1>3, TextType DEF Remaining
<1>5. ASSUME row = n + 1 PROVE Remaining = <<>>
  <2>1. SubSeq(ls, row, n) = <<>>
    BY <1>5, SubSeqEmpty
  <2> QED BY <1>2, <2>1, TextNone DEF Remaining
<1>6. ASSUME row <= n
      PROVE  \E rest \in Seq(Token) :
                /\ ThisRow \in Worded /\ LineText(ThisRow) \in Seq(Token)
                /\ rest = Text(SubSeq(ls, row + 1, n))
                /\ Remaining = LineText(ThisRow) \o rest
  <2>1. PICK k \in 1..n : k = row
    BY <1>1, <1>2, <1>6
  <2>2. FromTo(k, k, n)
    BY DEF FromTo
  <2>3. /\ SubSeq(ls, k, k) \in Seq(Worded) /\ SubSeq(ls, k + 1, n) \in Seq(Worded)
        /\ Joins(SubSeq(ls, k, n), SubSeq(ls, k, k), SubSeq(ls, k + 1, n))
    BY <1>2, <2>2, SubSeqParts
  <2>4. PICK x \in Worded : x = ls[k]
    BY <1>2, ElementOfSeq
  <2>5. SubSeq(ls, k, k) = <<x>>
    <3>1. SubSeq(ls, k, k) = SubSeq(ls, k, k - 1) \o <<ls[k]>>
      <4>1. k \in 1..Len(ls) /\ k \in k..Len(ls)
        BY <1>2
      <4> QED BY <4>1, SubSeqRecursiveSecond
    <3>2. SubSeq(ls, k, k - 1) = <<>>
      BY SubSeqEmpty
    <3>3. <<x>> \in Seq(Worded)
      OBVIOUS
    <3>4. <<>> \o <<x>> = <<x>>
      BY <3>3, ConcatEmptySeq
    <3> QED BY <2>4, <3>1, <3>2, <3>4, Zenon
  <2>6. PICK one \in Seq(Worded), rest \in Seq(Worded) : one = <<x>> /\ rest = SubSeq(ls, k + 1, n)
    BY <2>3, <2>5
  <2>7. Text(one \o rest) = Text(one) \o Text(rest)
    BY <1>1, TextConcat
  <2>8. Text(one) = LineText(x) /\ LineText(x) \in Seq(Token)
    <3>1. Text(<<x>>) = LineText(x)
      BY <1>1, TextOne
    <3>2. Text(one) \in Seq(Token)
      BY <1>1, TextType
    <3> QED BY <2>6, <3>1, <3>2
  <2>9. Remaining = Text(one \o rest)
    BY <1>2, <2>1, <2>3, <2>5, <2>6 DEF Remaining, Joins
  <2>10. x = ThisRow
    BY <1>2, <2>1, <2>4 DEF ThisRow
  <2>11. Text(rest) \in Seq(Token)
    BY <1>1, TextType
  <2> QED BY <2>1, <2>6, <2>7, <2>8, <2>9, <2>10, <2>11
<1> QED BY <1>1, <1>2, <1>4, <1>5, <1>6

\* The rows collected have been put among the parts, or there are none.
LEMMA FlushedKept ==
  ASSUME Inv, Disjoint, Naming, Kept, pc = "rows", Overfull \/ rows = <<>>
  PROVE  /\ Flushed \in Seq(Seq(Token))
         /\ AsMuch(FlattenSeq(Flushed), Remaining, Text(Unit.lines), HeaderLines)
<1>1. /\ todo # <<>> /\ rows \in Seq(Worded) /\ Unit.kind = "table"
      /\ parts \in Seq(Seq(Token))
  BY BodyIsText, SeqMonotonic DEF Inv, LaidOut, Naming, Filling
<1>2. Unit \in Laid /\ Unit \in Whole /\ doc \in Documents
  BY <1>1, UnitLaid
<1>3. PICK t \in Seq(Token), u \in Seq(Token) : t = Text(rows) /\ u = Remaining
  BY <1>1, <1>2, TextType, RemainingIs
<1>4. PICK d \in Seq(Token) : d = FlattenSeq(parts)
  BY <1>1, FlattenType
<1>5. PICK N, whole : N = HeaderLines /\ whole = Text(Unit.lines)
  OBVIOUS
<1>6. AsMuch(d, t \o u, whole, N)
  BY <1>3, <1>4, <1>5 DEF Kept, RowsSoFar, Remaining
<1>7. CASE rows = <<>>
  <2>1. t = <<>> /\ <<>> \o u = u
    BY <1>3, <1>7, TextNone, ConcatEmptySeq
  <2>2. Flushed = parts
    BY <1>7 DEF Flushed, Overfull
  <2> QED BY <1>1, <1>3, <1>4, <1>5, <1>6, <2>1, <2>2
<1>8. CASE Overfull
  <2>1. PICK v \in Seq(Token) : v = Table(Unit, rows) /\ Outside(v, N) = Outside(t, N)
    BY <1>1, <1>2, <1>3, <1>5, TableLeaves DEF Table
  <2>2. AsMuch(d \o v, u, whole, N)
    BY <1>6, <2>1, GoesOver
  <2>3. Flushed = Append(parts, v)
    BY <1>8, <2>1 DEF Flushed
  <2>4. Append(parts, v) \in Seq(Seq(Token)) /\ FlattenSeq(Append(parts, v)) = d \o v
    <3>1. PICK E : E = Seq(Token)
      OBVIOUS
    <3>2. Append(parts, v) \in Seq(E)
      BY <1>1, <3>1, AppendProperties
    <3> QED BY <1>1, <1>4, <3>1, <3>2, FlattenAppend
  <2> QED BY <1>3, <1>5, <2>2, <2>3, <2>4
<1> QED BY <1>7, <1>8

LEMMA TakeRowKept ==
  ASSUME Inv, Disjoint, Naming, Kept, TakeRow
  PROVE  Kept'
<1>1. /\ pc = "rows" /\ pc' = "rows" /\ doc' = doc /\ sections' = sections
      /\ todo' = todo /\ nodes' = nodes /\ pieces' = pieces
      /\ row <= Len(Unit.lines) /\ row' = row + 1 /\ parts' = Flushed
      /\ rows' = IF Overfull THEN <<ThisRow>> ELSE Append(rows, ThisRow)
  BY DEF TakeRow, reading
<1>2. doc \in Documents /\ rows \in Seq(Worded) /\ parts \in Seq(Seq(Token))
  BY BodyIsText, SeqMonotonic DEF Inv, ReadIn, LaidOut
<1>3. PICK N, whole, u : N = HeaderLines /\ whole = Text(Unit.lines) /\ u = Unit
  OBVIOUS
<1>4. PICK n \in Worded, x \in Seq(Token), z \in Seq(Token) :
         /\ n = ThisRow /\ x = LineText(n)
         /\ z = Text(SubSeq(u.lines, row + 1, Len(u.lines))) /\ Remaining = x \o z
  BY <1>1, <1>3, RemainingIs
<1>5. PICK ns : ns = rows'
  OBVIOUS
<1>6. AsMuch(FlattenSeq(Flushed), Text(ns) \o z, whole, N)
  <2>1. CASE Overfull
    <3>1. Text(ns) = x
      BY <1>1, <1>2, <1>4, <1>5, <2>1, TextOne
    <3> QED BY <1>1, <1>3, <1>4, <2>1, <3>1, FlushedKept
  <2>2. CASE ~Overfull
    <3>1. Text(ns) = Text(rows) \o x
      <4>1. <<n>> \in Seq(Worded) /\ Text(<<n>>) = x
        BY <1>2, <1>4, TextOne
      <4>2. ns = rows \o <<n>>
        BY <1>1, <1>2, <1>4, <1>5, <2>2
      <4> QED BY <1>2, <4>1, <4>2, TextConcat
    <3>2. PICK t \in Seq(Token) : t = Text(rows)
      BY <1>2, TextType
    <3>3. Associate(t, x, z)
      BY ConcatAssociate
    <3>4. AsMuch(FlattenSeq(parts), t \o (x \o z), whole, N)
      BY <1>1, <1>3, <1>4, <3>2 DEF Kept, RowsSoFar, Remaining
    <3>5. Flushed = parts
      BY <2>2 DEF Flushed
    <3> QED BY <3>1, <3>2, <3>3, <3>4, <3>5, Zenon DEF Associate
  <2> QED BY <2>1, <2>2
<1>7. HeaderLines' = N /\ Unit' = u /\ \A ms : Text(ms)' = Text(ms)
  BY <1>1, <1>3, SameTexts DEF Unit
<1>8. RowsSoFar'
  BY <1>1, <1>3, <1>4, <1>5, <1>6, <1>7 DEF RowsSoFar
<1>9. StoredSoFar'
  BY <1>1, StillStored DEF Kept
<1> QED BY <1>1, <1>8, <1>9 DEF Kept

\* Slices with the header before each leave what the slices do.
LEMMA HeadedSlices ==
  ASSUME NEW ns, NEW h \in Seq(Token), Outside(h, ns) = <<>>, NEW slices \in Seq(Seq(Token))
  PROVE  /\ [k \in DOMAIN slices |-> h \o slices[k]] \in Seq(Seq(Token))
         /\ Outside(FlattenSeq([k \in DOMAIN slices |-> h \o slices[k]]), ns) =
               Outside(FlattenSeq(slices), ns)
<1>1. PICK E : E = Seq(Token)
  OBVIOUS
<1>2. PICK f : f = [k \in DOMAIN slices |-> h \o slices[k]]
  OBVIOUS
<1>3. ASSUME NEW k \in DOMAIN slices
      PROVE  f[k] \in E /\ Outside(f[k], ns) = Outside(slices[k], ns)
  <2>1. PICK s \in E : s = slices[k]
    BY <1>1, ElementOfSeq, LenProperties
  <2>2. h \o s \in Seq(Token) /\ Outside(h \o s, ns) = Outside(h, ns) \o Outside(s, ns)
    BY <1>1, OutsideConcat
  <2>3. <<>> \o Outside(s, ns) = Outside(s, ns)
    BY <1>1, OutsideType, ConcatEmptySeq
  <2>4. f[k] = h \o s
    BY <1>2, <2>1
  <2> QED BY <1>1, <2>1, <2>2, <2>3, <2>4, Zenon
<1>4. f = [k \in DOMAIN slices |-> f[k]]
  BY <1>2
<1>5. f \in Seq(E) /\ DOMAIN f = DOMAIN slices
  BY <1>1, <1>3, <1>4, MapIsSequence
<1>6. Outside(FlattenSeq(f), ns) = FlattenSeq([k \in DOMAIN f |-> Outside(f[k], ns)])
  BY <1>1, <1>5, OutsideFlatten
<1>7. Outside(FlattenSeq(slices), ns) = FlattenSeq([k \in DOMAIN slices |-> Outside(slices[k], ns)])
  BY OutsideFlatten
<1>8. [k \in DOMAIN f |-> Outside(f[k], ns)] = [k \in DOMAIN slices |-> Outside(slices[k], ns)]
  BY <1>3, <1>5
<1> QED BY <1>1, <1>2, <1>5, <1>6, <1>7, <1>8

LEMMA CutRowKept ==
  ASSUME Inv, Disjoint, Naming, Kept, CutRow
  PROVE  Kept'
<1>1. /\ pc = "rows" /\ pc' = "rows" /\ doc' = doc /\ sections' = sections
      /\ todo' = todo /\ nodes' = nodes /\ pieces' = pieces
      /\ row <= Len(Unit.lines) /\ row' = row + 1
      /\ Size(Table(Unit, <<ThisRow>>)) > Limit(Unit)
      /\ rows' = IF Overfull THEN <<>> ELSE rows
  BY DEF CutRow, reading
<1>2. PICK slices :
         /\ slices = Cut(LineText(ThisRow), RowBudget(Unit))
         /\ parts' = Flushed \o [k \in DOMAIN slices |-> Header(Unit) \o slices[k]]
  BY DEF CutRow
<1>3. /\ doc \in Documents /\ rows \in Seq(Worded) /\ todo # <<>> /\ Unit.kind = "table"
      /\ Unit \in Laid /\ Unit \in Whole
  BY <1>1, UnitLaid DEF Inv, ReadIn, LaidOut, Naming, Filling
<1>a. PICK h \in Seq(Token) : h = Header(Unit) /\ Outside(h, HeaderLines) = <<>>
  BY <1>3, TableLeaves
<1>4. PICK N, whole, u :
         /\ N = HeaderLines /\ whole = Text(Unit.lines) /\ u = Unit
         /\ h = Header(Unit) /\ Outside(h, N) = <<>>
  BY <1>a
<1>5. PICK n \in Worded, x \in Seq(Token), z \in Seq(Token) :
         /\ n = ThisRow /\ x = LineText(n)
         /\ z = Text(SubSeq(u.lines, row + 1, Len(u.lines))) /\ Remaining = x \o z
  BY <1>1, <1>4, RemainingIs
<1>6. Overfull \/ rows = <<>>
  <2>1. SUFFICES ASSUME rows # <<>>
                 PROVE  Size(Table(u, Append(rows, n))) > Limit(u)
    BY <1>4, <1>5 DEF Overfull
  <2>2. PICK t \in Seq(Token) : t = Text(rows)
    BY <1>3, TextType
  <2>3. PICK one \in Seq(Worded) : one = <<n>> /\ Text(one) = x
    BY <1>3, <1>5, TextOne
  <2>4. Append(rows, n) = rows \o one
    BY <1>3, <2>3
  <2>5. Text(Append(rows, n)) = t \o x
    BY <1>3, <2>2, <2>3, <2>4, TextConcat
  <2>6. Table(u, <<n>>) = h \o x /\ Table(u, Append(rows, n)) = h \o (t \o x)
    BY <1>4, <2>3, <2>5 DEF Table
  <2>7. PICK a \in Nat, b \in Nat, c \in Nat : a = Len(h) /\ b = Len(t) /\ c = Len(x)
    BY LenProperties
  <2>8. t \o x \in Seq(Token) /\ Len(t \o x) = b + c
    BY <2>7, ConcatProperties
  <2>9. Len(h \o x) = a + c /\ Len(h \o (t \o x)) = a + (b + c)
    BY <2>7, <2>8, ConcatProperties
  <2>10. Special + (a + c) > Limit(u)
    BY <1>1, <1>4, <1>5, <2>6, <2>9 DEF Size
  <2>11. Special \in Nat /\ Limit(u) \in Nat
    BY <1>3, <1>4, LimitIs, LayoutAssumption
  <2>12. Special + (a + (b + c)) > Limit(u)
    BY <2>10, <2>11
  <2> QED BY <2>6, <2>9, <2>12 DEF Size
<1>7. /\ Flushed \in Seq(Seq(Token))
      /\ AsMuch(FlattenSeq(Flushed), x \o z, whole, N)
  BY <1>1, <1>4, <1>5, <1>6, FlushedKept
<1>8. RowBudget(u) \in Nat \ {0}
  BY <1>3, <1>4, LimitIs
<1>9. PICK ss \in Seq(Seq(Token)) : ss = slices /\ Outside(FlattenSeq(ss), N) = Outside(x, N)
  BY <1>2, <1>4, <1>5, <1>8, OutsideCut
<1>10. PICK ts \in Seq(Seq(Token)) :
          /\ ts = [k \in DOMAIN ss |-> h \o ss[k]]
          /\ Outside(FlattenSeq(ts), N) = Outside(FlattenSeq(ss), N)
  BY <1>4, HeadedSlices
<1>11. PICK ps \in Seq(Seq(Token)), d \in Seq(Token), v \in Seq(Token) :
          ps = Flushed /\ d = FlattenSeq(ps) /\ v = FlattenSeq(ts)
  BY <1>7, FlattenType
<1>12. AsMuch(d \o v, z, whole, N)
  BY <1>7, <1>9, <1>10, <1>11, GoesOver
<1>13. FlattenSeq(parts') = d \o v
  <2>1. parts' = ps \o ts
    BY <1>2, <1>4, <1>9, <1>10, <1>11
  <2> QED BY <1>11, <2>1, FlattenConcat
<1>14. rows' = <<>> /\ <<>> \o z = z
  BY <1>1, <1>6, ConcatEmptySeq
<1>15. HeaderLines' = N /\ Unit' = u /\ \A ms : Text(ms)' = Text(ms)
  BY <1>1, <1>4, SameTexts DEF Unit
<1>16. RowsSoFar'
  BY <1>1, <1>4, <1>5, <1>12, <1>13, <1>14, <1>15, TextNone DEF RowsSoFar
<1>17. StoredSoFar'
  BY <1>1, StillStored DEF Kept
<1> QED BY <1>1, <1>16, <1>17 DEF Kept

LEMMA EndTableKept ==
  ASSUME Inv, Disjoint, Naming, Kept, EndTable
  PROVE  Kept'
<1>1. /\ pc = "rows" /\ pc' = "bound" /\ doc' = doc /\ sections' = sections
      /\ todo' = todo /\ nodes' = nodes /\ pieces' = pieces
      /\ row > Len(Unit.lines)
      /\ parts' = (IF rows # <<>> THEN Append(parts, Table(Unit, rows))
                   ELSE IF parts = <<>> THEN <<Header(Unit)>> ELSE parts)
  BY DEF EndTable, reading
<1>2. /\ doc \in Documents /\ rows \in Seq(Worded) /\ todo # <<>> /\ Unit.kind = "table"
      /\ Unit \in Laid /\ Unit \in Whole /\ parts \in Seq(Seq(Token))
      /\ row = Len(Unit.lines) + 1
  <2>1. todo # <<>> /\ row \in 1..Len(Unit.lines) + 1
    BY <1>1 DEF Inv, LaidOut
  <2>2. Unit \in Whole
    BY <2>1, HeadTailProperties DEF Inv, LaidOut, Unit
  <2>3. Len(Unit.lines) \in Nat
    BY <2>2, LenProperties DEF Whole
  <2>4. row = Len(Unit.lines) + 1
    BY <1>1, <2>1, <2>3
  <2>5. Unit.kind = "table"
    BY <1>1 DEF Naming, Filling
  <2>6. parts \in Seq(Seq(Token))
    BY BodyIsText, SeqMonotonic DEF Inv, LaidOut
  <2> QED BY <2>1, <2>4, <2>5, <2>6, UnitLaid DEF Inv, LaidOut
<1>3. PICK N, whole, u : N = HeaderLines /\ whole = Text(Unit.lines) /\ u = Unit
  OBVIOUS
<1>4. PICK d \in Seq(Token), t \in Seq(Token) : d = FlattenSeq(parts) /\ t = Text(rows)
  BY <1>2, FlattenType, TextType
<1>5. pieces = <<>> /\ AsMuch(d, t, whole, N)
  <2>1. Remaining = <<>> /\ t \o <<>> = t
    BY <1>1, <1>2, RemainingIs, ConcatEmptySeq
  <2> QED BY <1>1, <1>3, <1>4, <2>1 DEF Kept, RowsSoFar, Remaining
<1>6. PICK E : E = Seq(Token)
  OBVIOUS
<1>7. \E s \in Seq(Token) : s = FlattenSeq(parts') /\ AsMuch(s, <<>>, whole, N)
  <2>1. CASE rows # <<>>
    <3>1. PICK v \in Seq(Token) : v = Table(u, rows) /\ Outside(v, N) = Outside(t, N)
      BY <1>2, <1>3, <1>4, TableLeaves DEF Table
    <3>2. t \o <<>> = t /\ <<>> \in Seq(Token)
      BY ConcatEmptySeq, EmptySeq
    <3>3. AsMuch(d \o v, <<>>, whole, N)
      BY <1>5, <3>1, <3>2, GoesOver
    <3>4. FlattenSeq(parts') = d \o v
      BY <1>1, <1>2, <1>3, <1>4, <2>1, <3>1, FlattenAppend
    <3>5. d \o v \in Seq(Token)
      BY ConcatProperties
    <3> QED BY <3>3, <3>4, <3>5
  <2>2. CASE rows = <<>> /\ parts # <<>>
    BY <1>1, <1>4, <1>5, <2>2, TextNone
  <2>3. CASE rows = <<>> /\ parts = <<>>
    <3>1. PICK h \in Seq(Token) : h = Header(u) /\ Outside(h, N) = <<>>
      BY <1>2, <1>3, TableLeaves
    <3>2. FlattenSeq(parts') = h
      BY <1>1, <1>3, <2>3, <3>1, FlattenOne
    <3>3. d = <<>> /\ t = <<>>
      BY <1>4, <2>3, TextNone, FlattenEmpty
    <3>4. AsMuch(h, <<>>, whole, N)
      BY <1>5, <3>1, <3>3, OutsideEmpty DEF AsMuch
    <3> QED BY <3>2, <3>4
  <2> QED BY <2>1, <2>2, <2>3
<1>8. PICK s \in Seq(Token) : s = FlattenSeq(parts') /\ AsMuch(s, <<>>, whole, N)
  BY <1>7
<1>9. AsMuch(<<>>, s, whole, N)
  BY <1>8, AllOnOneSide
<1>10. HeaderLines' = N /\ Unit' = u /\ \A ms : Text(ms)' = Text(ms)
  BY <1>1, <1>3, SameTexts DEF Unit
<1>11. BoundSoFar'
  BY <1>1, <1>3, <1>5, <1>8, <1>9, <1>10, FlattenEmpty DEF BoundSoFar
<1>12. StoredSoFar'
  BY <1>1, StillStored DEF Kept
<1> QED BY <1>1, <1>11, <1>12 DEF Kept

\* The part that is bounded next, and what the others have.
LEMMA PartsAre ==
  ASSUME Inv, Kept, pc = "bound", parts # <<>>
  PROVE  \E h \in Seq(Token) : \E ps \in Seq(Seq(Token)) : \E d \in Seq(Token) : \E r \in Seq(Token) :
            /\ h = Head(parts) /\ ps = Tail(parts)
            /\ d = FlattenSeq(pieces) /\ r = FlattenSeq(ps)
            /\ AsMuch(d, h \o r, Text(Unit.lines), HeaderLines)
<1>1. parts \in Seq(Seq(Token)) /\ pieces \in Seq(Seq(Token))
  BY BodyIsText, SeqMonotonic DEF Inv, LaidOut
<1>2. PICK h \in Seq(Token), ps \in Seq(Seq(Token)) : h = Head(parts) /\ ps = Tail(parts)
  <2>1. PICK E : E = Seq(Token)
    OBVIOUS
  <2> QED BY <1>1, <2>1, HeadTailProperties
<1>3. PICK d \in Seq(Token), r \in Seq(Token) : d = FlattenSeq(pieces) /\ r = FlattenSeq(ps)
  BY <1>1, FlattenType
<1>4. FlattenSeq(parts) = h \o r
  <2>1. PICK one : one = <<h>>
    OBVIOUS
  <2>2. one \in Seq(Seq(Token)) /\ FlattenSeq(one) = h
    BY <2>1, FlattenOne
  <2>3. parts = one \o ps
    BY <1>1, <1>2, <2>1, HeadIsFirst
  <2>4. FlattenSeq(one \o ps) = FlattenSeq(one) \o FlattenSeq(ps)
    BY <2>2, FlattenConcat
  <2> QED BY <1>3, <2>2, <2>3, <2>4
<1> QED BY <1>2, <1>3, <1>4 DEF Kept, BoundSoFar

LEMMA PartFitsKept ==
  ASSUME Inv, Kept, PartFits
  PROVE  Kept'
<1>1. /\ pc = "bound" /\ pc' = "bound" /\ doc' = doc /\ sections' = sections
      /\ todo' = todo /\ nodes' = nodes /\ parts # <<>>
      /\ pieces' = Append(pieces, Head(parts)) /\ parts' = Tail(parts)
  BY DEF PartFits, reading
<1>2. PICK h \in Seq(Token), ps \in Seq(Seq(Token)), d \in Seq(Token), r \in Seq(Token) :
         /\ h = Head(parts) /\ ps = Tail(parts)
         /\ d = FlattenSeq(pieces) /\ r = FlattenSeq(ps)
         /\ AsMuch(d, h \o r, Text(Unit.lines), HeaderLines)
  BY <1>1, PartsAre
<1>3. PICK N, whole, u : N = HeaderLines /\ whole = Text(Unit.lines) /\ u = Unit
  OBVIOUS
<1>4. AsMuch(d \o h, r, whole, N)
  BY <1>2, <1>3, GoesOver
<1>5. FlattenSeq(pieces') = d \o h
  <2>1. pieces \in Seq(Seq(Token))
    BY BodyIsText, SeqMonotonic DEF Inv, LaidOut
  <2> QED BY <1>1, <1>2, <2>1, FlattenAppend
<1>6. HeaderLines' = N /\ Unit' = u /\ \A ms : Text(ms)' = Text(ms)
  BY <1>1, <1>3, SameTexts DEF Unit
<1>7. BoundSoFar'
  BY <1>1, <1>2, <1>3, <1>4, <1>5, <1>6 DEF BoundSoFar
<1>8. StoredSoFar'
  BY <1>1, StillStored DEF Kept
<1> QED BY <1>1, <1>7, <1>8 DEF Kept

LEMMA PartIsCutKept ==
  ASSUME Inv, Kept, PartIsCut
  PROVE  Kept'
<1>1. /\ pc = "bound" /\ pc' = "bound" /\ doc' = doc /\ sections' = sections
      /\ todo' = todo /\ nodes' = nodes /\ pieces' = pieces /\ parts # <<>>
      /\ parts' = Cut(Head(parts), BoundBudget(Unit)) \o Tail(parts)
  BY DEF PartIsCut, reading
<1>2. PICK h \in Seq(Token), ps \in Seq(Seq(Token)), d \in Seq(Token), r \in Seq(Token) :
         /\ h = Head(parts) /\ ps = Tail(parts)
         /\ d = FlattenSeq(pieces) /\ r = FlattenSeq(ps)
         /\ AsMuch(d, h \o r, Text(Unit.lines), HeaderLines)
  BY <1>1, PartsAre
<1>3. PICK N, whole, u : N = HeaderLines /\ whole = Text(Unit.lines) /\ u = Unit
  OBVIOUS
<1>4. doc \in Documents /\ u \in Whole
  BY <1>1, <1>3, HeadTailProperties DEF Inv, ReadIn, LaidOut, Unit
<1>5. PICK ss \in Seq(Seq(Token)) :
         ss = Cut(h, BoundBudget(u)) /\ Outside(FlattenSeq(ss), N) = Outside(h, N)
  <2>1. BoundBudget(u) \in Nat \ {0}
    BY <1>4, LimitIs
  <2> QED BY <2>1, OutsideCut
<1>6. PICK v \in Seq(Token) : v = FlattenSeq(ss)
  BY FlattenType
<1>7. AsMuch(d, v \o r, whole, N)
  BY <1>2, <1>3, <1>5, <1>6, LeftForLeft
<1>8. FlattenSeq(parts') = v \o r
  <2>1. parts' = ss \o ps
    BY <1>1, <1>2, <1>3, <1>5
  <2> QED BY <1>2, <1>6, <2>1, FlattenConcat
<1>9. HeaderLines' = N /\ Unit' = u /\ \A ms : Text(ms)' = Text(ms)
  BY <1>1, <1>3, SameTexts DEF Unit
<1>10. BoundSoFar'
  BY <1>1, <1>2, <1>3, <1>7, <1>8, <1>9 DEF BoundSoFar
<1>11. StoredSoFar'
  BY <1>1, StillStored DEF Kept
<1> QED BY <1>1, <1>10, <1>11 DEF Kept

\* The texts of a sequence's slices, each from where the one before it stops, are
\* the whole's.
Stops(at, size, n) ==
    /\ \A j \in 0..size : at[j] \in 0..n
    /\ at[0] = 0 /\ at[size] = n
    /\ \A j \in 0..size - 1 : at[j] <= at[j + 1]
Slice(ns, at, k) == SubSeq(ns, at[k - 1] + 1, at[k])

LEMMA SlicedText ==
  ASSUME doc \in Documents, NEW ns \in Seq(Worded), NEW n \in Nat, n = Len(ns),
         NEW size \in Nat, NEW at, Stops(at, size, n)
  PROVE  FlattenSeq([k \in 1..size |-> Text(Slice(ns, at, k))]) = Text(ns)
<1>0. PICK g : g = [k \in 1..size |-> Text(Slice(ns, at, k))]
  OBVIOUS
<1> DEFINE Of(j) == [k \in 1..j |-> g[k]]
           T == {j \in Nat : j <= size =>
                    Of(j) \in Seq(Seq(Token)) /\ FlattenSeq(Of(j)) = Text(SubSeq(ns, 1, at[j]))}
<1>1. PICK E : E = Seq(Token)
  OBVIOUS
<1>2. ASSUME NEW k \in 1..size PROVE g[k] \in E
  <2>1. PICK a \in 0..n, b \in 0..n : a = at[k - 1] /\ b = at[k]
    <3>1. k - 1 \in 0..size /\ k \in 0..size
      OBVIOUS
    <3> QED BY <3>1 DEF Stops
  <2>2. \A i \in a + 1..b : ns[i] \in Worded
    <3>1. \A i \in a + 1..b : i \in 1..n
      OBVIOUS
    <3> QED BY <3>1, ElementOfSeq
  <2>3. SubSeq(ns, a + 1, b) \in Seq(Worded)
    BY <2>2, SubSeqProperties
  <2> QED BY <1>0, <1>1, <2>1, <2>3, TextType DEF Slice
<1>3. 0 \in T
  <2>1. Of(0) = <<>>
    <3>1. Of(0) \in [1..0 -> {}]
      OBVIOUS
    <3> HIDE DEF Of
    <3>2. Of(0) \in Seq({}) /\ Len(Of(0)) = 0
      BY <3>1, FunctionIsSequence
    <3> QED BY <3>2, EmptySeq
  <2>2. <<>> \in Seq(Seq(Token))
    BY EmptySeq
  <2>3. SubSeq(ns, 1, at[0]) = <<>>
    <3>1. SubSeq(ns, 1, 0) = <<>>
      BY SubSeqEmpty
    <3> QED BY <3>1 DEF Stops
  <2> QED BY <2>1, <2>2, <2>3, FlattenEmpty, TextNone
<1>4. ASSUME NEW j \in Nat, j \in T PROVE j + 1 \in T
  <2>1. SUFFICES ASSUME j + 1 <= size
                 PROVE  /\ Of(j + 1) \in Seq(Seq(Token))
                        /\ FlattenSeq(Of(j + 1)) = Text(SubSeq(ns, 1, at[j + 1]))
    OBVIOUS
  <2>2. PICK a \in 0..n, b \in 0..n : a = at[j] /\ b = at[j + 1] /\ a <= b
    <3>1. j \in 0..size /\ j + 1 \in 0..size /\ j \in 0..size - 1
      BY <2>1
    <3> QED BY <3>1 DEF Stops
  <2>3. PICK f \in Seq(Seq(Token)), h \in Seq(Seq(Token)) :
           f = Of(j) /\ Len(f) = j /\ h = Of(j + 1) /\ Len(h) = j + 1
    <3>1. Of(j) \in [1..j -> E] /\ Of(j + 1) \in [1..j + 1 -> E]
      BY <1>2, <2>1
    <3> HIDE DEF Of
    <3> QED BY <1>1, <3>1, FunctionIsSequence
  <2>4. Agree(f, h, j)
    BY <2>3 DEF Agree
  <2>5. FlattenSeq(h) = FlattenSeq(f) \o h[j + 1]
    <3>1. j = Len(f) /\ Len(h) = j + 1
      BY <2>3
    <3> HIDE DEF Of, T
    <3> QED BY <2>4, <3>1, FlattenLonger
  <2>6. h[j + 1] = Text(SubSeq(ns, a + 1, b))
    <3>1. j + 1 \in 1..size /\ j + 1 \in 1..j + 1 /\ (j + 1) - 1 = j
      BY <2>1
    <3> QED BY <1>0, <2>2, <2>3, <3>1 DEF Slice
  <2>7. FlattenSeq(f) = Text(SubSeq(ns, 1, a))
    BY <1>4, <2>1, <2>2, <2>3
  <2>8. PICK s \in Seq(Worded), t \in Seq(Worded) :
           s = SubSeq(ns, 1, a) /\ t = SubSeq(ns, a + 1, b)
    <3>1. \A i \in 1..n : ns[i] \in Worded
      BY ElementOfSeq
    <3>2. SubSeq(ns, 1, a) \in Seq(Worded)
      <4>1. \A i \in 1..a : ns[i] \in Worded
        BY <3>1
      <4> QED BY <4>1, SubSeqProperties
    <3>3. SubSeq(ns, a + 1, b) \in Seq(Worded)
      <4>1. \A i \in a + 1..b : ns[i] \in Worded
        BY <3>1
      <4> QED BY <4>1, SubSeqProperties
    <3> QED BY <3>2, <3>3
  <2>9. s \o t = SubSeq(ns, 1, b)
    <3>1. /\ 1 \in 1..Len(ns) + 1 /\ a \in 1 - 1..Len(ns) /\ b \in a..Len(ns)
      BY <2>2
    <3>2. SubSeq(ns, 1, a) \o SubSeq(ns, a + 1, b) = SubSeq(ns, 1, b)
      BY <3>1, ConcatAdjacentSubSeq
    <3> QED BY <2>8, <3>2
  <2>10. Text(s \o t) = Text(s) \o Text(t)
    BY TextConcat
  <2> HIDE DEF Of
  <2> QED BY <2>2, <2>3, <2>5, <2>6, <2>7, <2>8, <2>9, <2>10
<1>5. size \in T
  <2> HIDE DEF T
  <2> QED BY <1>3, <1>4, Induction
<1>6. Of(size) = g
  BY <1>0
<1>7. SubSeq(ns, 1, n) = ns
  BY SubSeqFull
<1>8. FlattenSeq(Of(size)) = Text(SubSeq(ns, 1, at[size]))
  <2>1. size <= size
    OBVIOUS
  <2> QED BY <1>5, <2>1
<1> HIDE DEF Of, T
<1> QED BY <1>0, <1>6, <1>7, <1>8, Zenon DEF Stops

\* What a paragraph is divided into.
LEMMA DividedText ==
  ASSUME doc \in Documents, NEW ns \in Seq(Worded), NEW ends \in SUBSET DOMAIN ns,
         Len(ns) \in ends
  PROVE  LET stops == Sorted(ends)
             From(k) == IF k = 1 THEN 1 ELSE stops[k - 1] + 1
         IN FlattenSeq([k \in DOMAIN stops |-> Text(SubSeq(ns, From(k), stops[k]))]) = Text(ns)
<1> DEFINE From(k) == IF k = 1 THEN 1 ELSE Sorted(ends)[k - 1] + 1
<1>1. PICK n \in Nat : n = Len(ns) /\ DOMAIN ns = 1..n
  BY LenProperties
<1>2. ends \subseteq 1..n /\ n \in ends
  BY <1>1
<1>3. PICK size \in Nat :
         /\ size = Cardinality(ends)
         /\ DOMAIN Sorted(ends) = 1..size
         /\ \A k \in 1..size : Sorted(ends)[k] \in ends
         /\ \A k, m \in 1..size : k < m => Sorted(ends)[k] < Sorted(ends)[m]
  BY <1>2, SortedType
<1>4. PICK stops : stops = Sorted(ends)
  OBVIOUS
<1>5. /\ DOMAIN stops = 1..size
      /\ \A k \in 1..size : stops[k] \in 1..n
      /\ \A k, m \in 1..size : k < m => stops[k] < stops[m]
  BY <1>2, <1>3, <1>4
<1>6. stops[size] = n /\ size # 0
  <2>1. UpTo(ends, n) = ends
    <3>1. \A m \in ends : m <= n
      BY <1>2
    <3> QED BY <3>1, Zenon DEF UpTo
  <2>2. Sorted(ends)[Cardinality(UpTo(ends, n))] = n
    BY <1>2, SortedIs
  <2>3. size # 0
    <3>1. UpTo(ends, n) # {} /\ IsFiniteSet(UpTo(ends, n))
      <4>1. ends \in SUBSET (Nat \ {0})
        BY <1>2
      <4> QED BY <1>2, <2>1, <4>1, CountReaches
    <3> QED BY <1>3, <2>1, <3>1, FS_EmptySet
  <2> QED BY <1>3, <1>4, <2>1, <2>2, <2>3
<1>7. PICK at : at = [j \in 0..size |-> IF j = 0 THEN 0 ELSE stops[j]]
  OBVIOUS
<1>8. /\ \A j \in 0..size : at[j] \in 0..n
      /\ at[0] = 0 /\ at[size] = n
      /\ \A j \in 1..size : at[j] = stops[j]
  <2>1. \A j \in 1..size : stops[j] \in 0..n
    BY <1>5
  <2>2. \A j \in 0..size : j # 0 => j \in 1..size
    OBVIOUS
  <2> QED BY <1>6, <1>7, <2>1, <2>2
<1>9. ASSUME NEW j \in 0..size - 1 PROVE at[j] <= at[j + 1]
  <2>1. CASE j = 0
    <3>1. 0 + 1 \in 0..size
      BY <1>6
    <3>2. at[0 + 1] \in 0..n
      BY <1>8, <3>1
    <3> QED BY <1>8, <2>1, <3>2
  <2>2. CASE j # 0
    <3>1. PICK i \in 1..size, k \in 1..size : i = j /\ k = j + 1 /\ i < k
      BY <2>2
    <3>2. PICK a \in 1..n, b \in 1..n : a = stops[i] /\ b = stops[k] /\ a < b
      BY <1>5, <3>1
    <3> QED BY <1>8, <3>1, <3>2
  <2> QED BY <2>1, <2>2
<1>10. FlattenSeq([k \in 1..size |-> Text(Slice(ns, at, k))]) = Text(ns)
  <2>1. Stops(at, size, n)
    BY <1>8, <1>9 DEF Stops
  <2> QED BY <1>1, <2>1, SlicedText
<1>11. [k \in 1..size |-> Text(Slice(ns, at, k))] =
          [k \in DOMAIN stops |-> Text(SubSeq(ns, From(k), stops[k]))]
  <2>1. ASSUME NEW k \in 1..size PROVE at[k - 1] + 1 = From(k) /\ at[k] = stops[k]
    <3>1. CASE k = 1
      BY <1>8, <3>1
    <3>2. CASE k # 1
      <4>1. k - 1 \in 1..size
        BY <3>2
      <4> QED BY <1>4, <1>8, <3>2, <4>1
    <3> QED BY <3>1, <3>2
  <2> HIDE DEF From
  <2> QED BY <1>5, <2>1 DEF Slice
<1> QED BY <1>4, <1>10, <1>11

LEMMA DivideParagraphKept ==
  ASSUME Inv, Kept, NEW ends \in SUBSET DOMAIN doc, DivideParagraph(ends)
  PROVE  Kept'
<1>1. /\ pc = "units" /\ pc' = "bound" /\ todo # <<>> /\ doc' = doc /\ sections' = sections
      /\ todo' = todo /\ nodes' = nodes /\ pieces' = <<>>
      /\ ends \in SUBSET DOMAIN Unit.lines /\ Len(Unit.lines) \in ends
  BY DEF DivideParagraph, reading
<1>2. doc \in Documents /\ Unit \in Whole
  BY <1>1, HeadTailProperties DEF Inv, ReadIn, LaidOut, Unit
<1>a. PICK ls \in Seq(Worded) : ls = Unit.lines
  BY <1>2 DEF Whole
<1>b. PICK whole \in Seq(Token) : whole = Text(ls)
  BY <1>2, TextType
<1>3. PICK N, u : N = HeaderLines /\ u = Unit /\ ls = u.lines
  BY <1>a
<1>4. FlattenSeq(parts') = whole
  <2>1. parts' = LET stops == Sorted(ends)
                     From(k) == IF k = 1 THEN 1 ELSE stops[k - 1] + 1
                 IN [k \in DOMAIN stops |-> Text(SubSeq(ls, From(k), stops[k]))]
    BY <1>3 DEF DivideParagraph
  <2>2. ends \in SUBSET DOMAIN ls /\ Len(ls) \in ends
    BY <1>1, <1>3
  <2> QED BY <1>2, <1>b, <2>1, <2>2, DividedText
<1>5. AsMuch(<<>>, whole, whole, N)
  BY AllOnOneSide
<1>6. HeaderLines' = N /\ Unit' = u /\ \A ms : Text(ms)' = Text(ms)
  BY <1>1, <1>3, SameTexts DEF Unit
<1>7. BoundSoFar'
  BY <1>1, <1>3, <1>4, <1>5, <1>6, <1>b, FlattenEmpty DEF BoundSoFar
<1>8. StoredSoFar'
  BY <1>1, StillStored DEF Kept
<1> QED BY <1>1, <1>7, <1>8 DEF Kept

LEMMA SameKept ==
  ASSUME Kept, UNCHANGED vars
  PROVE  Kept'
<1>1. /\ doc' = doc /\ sections' = sections /\ todo' = todo /\ rows' = rows /\ row' = row
      /\ parts' = parts /\ pieces' = pieces /\ nodes' = nodes /\ pc' = pc
  BY DEF vars, reading, dividing
<1>2. PICK N, u, rs, k, ps : N = HeaderLines /\ u = Unit /\ rs = rows /\ k = row /\ ps = parts
  OBVIOUS
<1>3. HeaderLines' = N /\ Unit' = u /\ rows' = rs /\ row' = k /\ parts' = ps
      /\ \A ms : Text(ms)' = Text(ms)
  BY <1>1, <1>2, SameTexts DEF Unit
<1>4. RowsSoFar => RowsSoFar'
  BY <1>2, <1>3 DEF RowsSoFar
<1>5. BoundSoFar => BoundSoFar'
  BY <1>1, <1>2, <1>3 DEF BoundSoFar
<1>6. StoredSoFar => StoredSoFar'
  BY <1>1, StillStored
<1> QED BY <1>1, <1>4, <1>5, <1>6 DEF Kept

LEMMA StepKept ==
  ASSUME Inv, Disjoint, Naming, Kept, [Next]_vars
  PROVE  Kept'
<1>1. ASSUME NEW line \in DOMAIN doc, OpenSection(line) \/ EndUnit(line) \/ TakeLine(line)
      PROVE  Kept'
  <2>1. pc' = "lines"
    BY <1>1 DEF OpenSection, EndUnit, TakeLine, Reading
  <2> QED BY <2>1 DEF Kept
<1>2. ASSUME NEW ends \in SUBSET DOMAIN doc, DivideParagraph(ends)
      PROVE  Kept'
  BY <1>2, DivideParagraphKept
<1>3. CASE EndDocument \/ KeepParagraph \/ KeepTable \/ DivideTable
  BY <1>3, EndDocumentKept, KeepParagraphKept, KeepTableKept, DivideTableKept
<1>4. CASE TakeRow \/ CutRow \/ EndTable
  BY <1>4, TakeRowKept, CutRowKept, EndTableKept
<1>5. CASE PartFits \/ PartIsCut \/ UnitDone
  BY <1>5, PartFitsKept, PartIsCutKept, UnitDoneKept
<1>6. CASE SplitterRefuses \/ RecursionEnds \/ Finish \/ UNCHANGED vars
  BY <1>6, EndsKept, SameKept
<1> QED BY <1>1, <1>2, <1>3, <1>4, <1>5, <1>6 DEF Next

\* A token's line is of the unit its node is of, which is under that line's heading.
LEMMA NodesAreUnderTheirHeading ==
  ASSUME Inv, Disjoint, Naming, SectionsAreTheDocuments, pc # "lines",
         NEW node \in ToSet(nodes), NEW i \in DOMAIN node.body
  PROVE  node.heading = HeadingAbove(node.body[i].line)
<1>1. node \in Belonging
  BY SeqOfItsSet DEF Naming
<1>2. PICK u \in Laid : node.heading = u.heading /\ node.body \in Named(u)
  BY <1>1 DEF Belonging
<1>3. PICK n \in ToSet(u.lines) : n = node.body[i].line
  <2>1. PICK E, text :
           E = TokensOf(ToSet(u.lines)) /\ text = node.body /\ text \in Seq(E)
    BY <1>2 DEF Named, Owned, Filled
  <2>2. text[i] \in E
    BY <2>1, ElementOfSeq, LenProperties
  <2> QED BY <2>1, <2>2 DEF TokensOf
<1>4. u.heading = HeadingAbove(n)
  BY DEF SectionsAreTheDocuments, Laid
<1> QED BY <1>2, <1>3, <1>4

LEMMA AllIsStored ==
  ASSUME Inv, Disjoint, Naming, SectionsAreTheDocuments, Kept
  PROVE  ContentIsStored
<1> SUFFICES ASSUME pc = "done"
             PROVE  /\ FlattenSeq([k \in DOMAIN nodes |-> Outside(nodes[k].body, HeaderLines)]) =
                          Outside(Text(Sorted(Content)), HeaderLines)
                    /\ \A node \in ToSet(nodes) : \A i \in DOMAIN node.body :
                          node.heading = HeadingAbove(node.body[i].line)
  BY DEF ContentIsStored
<1>1. PICK N : N = HeaderLines
  OBVIOUS
<1>2. PICK E : E = Seq(Token)
  OBVIOUS
<1>3. PICK f \in Seq(E) : f = [k \in DOMAIN nodes |-> nodes[k].body]
  <2>1. PICK f : f = [k \in DOMAIN nodes |-> nodes[k].body]
    OBVIOUS
  <2>2. nodes \in Seq(Bodied)
    BY BodyIsText, SeqMonotonic DEF Inv, LaidOut
  <2>3. ASSUME NEW k \in DOMAIN nodes PROVE f[k] \in E
    <3>1. nodes[k] \in Bodied
      BY <2>2, ElementOfSeq, LenProperties
    <3> QED BY <1>2, <2>1, <3>1 DEF Bodied
  <2>4. f = [k \in DOMAIN nodes |-> f[k]]
    BY <2>1
  <2>5. f \in Seq(E)
    BY <2>2, <2>3, <2>4, MapIsSequence
  <2> QED BY <2>1, <2>5
<1>4. FlattenSeq(f) \in Seq(Token) /\ BodiesOf(nodes) = FlattenSeq(f)
  BY <1>2, <1>3, FlattenType DEF BodiesOf
<1>5. FlattenSeq([k \in DOMAIN nodes |-> Outside(nodes[k].body, N)]) = Outside(FlattenSeq(f), N)
  <2>1. Outside(FlattenSeq(f), N) = FlattenSeq([k \in DOMAIN f |-> Outside(f[k], N)])
    BY <1>2, OutsideFlatten
  <2>2. [k \in DOMAIN f |-> Outside(f[k], N)] = [k \in DOMAIN nodes |-> Outside(nodes[k].body, N)]
    BY <1>3
  <2> QED BY <2>1, <2>2
<1>6. AsMuch(FlattenSeq(f), <<>>, Text(Sorted(Content)), N)
  <2>1. todo = <<>> /\ StoredSoFar
    BY DEF Kept
  <2>2. Text(LinesOf(todo)) = <<>>
    BY <2>1, LinesOfNone, TextNone
  <2>3. LinesOf(AllUnits(sections)) = Sorted(Content)
    BY DEF SectionsAreTheDocuments
  <2> QED BY <1>1, <1>4, <2>1, <2>2, <2>3 DEF StoredSoFar
<1>7. Outside(FlattenSeq(f), N) = Outside(Text(Sorted(Content)), N)
  BY <1>4, <1>6, AllOnOneSide
<1>8. \A node \in ToSet(nodes) : \A i \in DOMAIN node.body :
         node.heading = HeadingAbove(node.body[i].line)
  BY NodesAreUnderTheirHeading
<1> QED BY <1>1, <1>5, <1>7, <1>8

\* Whatever the document, the tokenizer's words, the cap and the sentence splitter's
\* choices, what is laid out is stored whole and in order: the nodes' texts one behind
\* another, without the headers that are repeated, are the document's content, token by
\* token, and every node is under the heading of all that is in it.
THEOREM AllContentIsStored == Spec => []ContentIsStored
<1>1. Init => Disjoint /\ Naming
  BY NamingHoldsFirst
<1>2. Init => ReadAs /\ SectionsAreTheDocuments
  BY ReadAsFirst DEF Init, SectionsAreTheDocuments
<1>3. Inv /\ Inv' /\ (Disjoint /\ Naming) /\ [Next]_vars => (Disjoint /\ Naming)'
  BY StepNames
<1>4. Inv /\ (ReadAs /\ SectionsAreTheDocuments) /\ [Next]_vars
         => (ReadAs /\ SectionsAreTheDocuments)'
  BY StepReads
<1>5. Inv /\ (Disjoint /\ Naming) /\ Kept /\ [Next]_vars => Kept'
  BY StepKept
<1>6. Inv /\ (Disjoint /\ Naming) /\ (ReadAs /\ SectionsAreTheDocuments) /\ Kept
         => ContentIsStored
  BY AllIsStored
<1> QED BY <1>1, <1>2, <1>3, <1>4, <1>5, <1>6, KeptFirst, InvHolds, PTL DEF Spec
=============================================================================
