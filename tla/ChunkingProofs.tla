--------------------------- MODULE ChunkingProofs ---------------------------
(***************************************************************************)
(* Proofs about Chunking, for every document, cost and bound.              *)
(***************************************************************************)
EXTENDS Chunking, SequenceFacts

Parts == Headings \cup Contents

-----------------------------------------------------------------------------
(* Sizes.                                                                  *)

\* What Size folds over: the sets of places in a text, the greatest place last.
Sums(text, k, f) ==
    f = [s \in SUBSET (1..k) |->
            IF s = {} THEN Special ELSE f[s \ {Max(s)}] + Cost[text[Max(s)]]]

LEMMA SumsExist ==
  ASSUME NEW text, NEW n \in Nat
  PROVE  \E f : Sums(text, n, f)
<1> DEFINE T == {k \in Nat : \E f : Sums(text, k, f)}
<1>1. 0 \in T
  <2>1. PICK f : f = [s \in SUBSET (1..0) |-> Special]
    OBVIOUS
  <2>2. \A s \in SUBSET (1..0) : s = {}
    OBVIOUS
  <2>3. Sums(text, 0, f)
    BY <2>1, <2>2 DEF Sums
  <2> QED BY <2>3
<1>2. ASSUME NEW k \in Nat, k \in T PROVE k + 1 \in T
  <2>1. PICK f : Sums(text, k, f)
    BY <1>2
  <2>2. PICK g : g = [s \in SUBSET (1..k + 1) |->
                        IF k + 1 \in s THEN f[s \ {k + 1}] + Cost[text[k + 1]] ELSE f[s]]
    OBVIOUS
  <2>3. ASSUME NEW s \in SUBSET (1..k + 1)
        PROVE  g[s] = IF s = {} THEN Special ELSE g[s \ {Max(s)}] + Cost[text[Max(s)]]
    <3>1. CASE k + 1 \in s
      <4>1. Max(s) = k + 1
        <5>1. s \in SUBSET Int /\ \A y \in s : y <= k + 1
          OBVIOUS
        <5> QED BY <5>1, <3>1, MaxIs
      <4>2. s \ {k + 1} \in SUBSET (1..k + 1) /\ k + 1 \notin s \ {k + 1}
        OBVIOUS
      <4>3. g[s \ {k + 1}] = f[s \ {k + 1}]
        BY <2>2, <4>2
      <4>4. g[s] = f[s \ {k + 1}] + Cost[text[k + 1]]
        BY <2>2, <3>1
      <4> QED BY <3>1, <4>1, <4>3, <4>4
    <3>2. CASE k + 1 \notin s
      <4>1. s \in SUBSET (1..k)
        BY <3>2
      <4>2. g[s] = f[s]
        BY <2>2, <3>2
      <4>3. f[s] = IF s = {} THEN Special ELSE f[s \ {Max(s)}] + Cost[text[Max(s)]]
        BY <2>1, <4>1 DEF Sums
      <4>4. g[s \ {Max(s)}] = f[s \ {Max(s)}]
        <5>1. s \ {Max(s)} \in SUBSET (1..k + 1) /\ k + 1 \notin s \ {Max(s)}
          BY <3>2
        <5> QED BY <2>2, <5>1
      <4> QED BY <4>2, <4>3, <4>4
    <3> QED BY <3>1, <3>2
  <2>4. g = [s \in SUBSET (1..k + 1) |-> g[s]]
    BY <2>2
  <2>5. Sums(text, k + 1, g)
    BY <2>3, <2>4, Zenon DEF Sums
  <2> QED BY <2>5
<1> HIDE DEF T
<1>3. Nat \subseteq T
  BY <1>1, <1>2, Induction
<1> QED BY <1>3 DEF T

\* The value at a first stretch of places.
LEMMA SumsOfFirst ==
  ASSUME NEW text, NEW n \in Nat, NEW f, Sums(text, n, f)
  PROVE  /\ f[1..0] = Special
         /\ \A k \in 1..n : f[1..k] = f[1..k - 1] + Cost[text[k]]
<1>1. f[1..0] = Special
  <2>1. 1..0 = {} /\ {} \in SUBSET (1..n)
    OBVIOUS
  <2> QED BY <2>1 DEF Sums
<1>2. ASSUME NEW k \in 1..n PROVE f[1..k] = f[1..k - 1] + Cost[text[k]]
  <2>1. /\ 1..k \in SUBSET (1..n) /\ 1..k # {} /\ k \in 1..k
        /\ 1..k \in SUBSET Int /\ \A y \in 1..k : y <= k
        /\ (1..k) \ {k} = 1..k - 1
    OBVIOUS
  <2>2. Max(1..k) = k
    BY <2>1, MaxIs
  <2>3. f[1..k] = f[(1..k) \ {Max(1..k)}] + Cost[text[Max(1..k)]]
    BY <2>1 DEF Sums
  <2> QED BY <2>1, <2>2, <2>3
<1> QED BY <1>1, <1>2

LEMMA SizeIsSum ==
  ASSUME NEW text \in Text
  PROVE  \E f : Sums(text, Len(text), f) /\ Size(text) = f[1..Len(text)]
<1>1. DOMAIN text = 1..Len(text) /\ Len(text) \in Nat
  BY LenProperties DEF Text
<1>2. Size(text) = (CHOOSE f : Sums(text, Len(text), f))[1..Len(text)]
  BY <1>1 DEF Size, FoldLeft, MapThenFoldSet, Sums
<1> QED BY <1>1, <1>2, SumsExist

LEMMA SizeEmpty == Size(<<>>) = Special
<1>1. <<>> \in Text /\ Len(<<>>) = 0
  BY EmptySeq DEF Text
<1> QED BY <1>1, SizeIsSum, SumsOfFirst

LEMMA SizeAppend ==
  ASSUME NEW text \in Text, NEW part \in Parts
  PROVE  Size(Append(text, part)) = Size(text) + Cost[part]
<1>1. PICK n \in Nat : n = Len(text)
  BY LenProperties DEF Text
<1>2. PICK more \in Text : more = Append(text, part)
  BY AppendProperties DEF Text, Parts
<1>3. /\ Len(more) = n + 1 /\ more[n + 1] = part
      /\ \A i \in 1..n : more[i] = text[i]
  BY <1>1, <1>2, AppendProperties DEF Text, Parts
<1>4. PICK f : Sums(text, n, f) /\ Size(text) = f[1..n]
  BY <1>1, SizeIsSum
<1>5. PICK g : Sums(more, n + 1, g) /\ Size(more) = g[1..n + 1]
  BY <1>3, SizeIsSum
<1>6. /\ f[1..0] = Special
      /\ \A k \in 1..n : f[1..k] = f[1..k - 1] + Cost[text[k]]
  BY <1>4, SumsOfFirst
<1>7. /\ g[1..0] = Special
      /\ \A k \in 1..n + 1 : g[1..k] = g[1..k - 1] + Cost[more[k]]
  BY <1>5, SumsOfFirst
<1> DEFINE T == {k \in Nat : k \in 0..n => g[1..k] = f[1..k]}
<1>8. 0 \in T
  BY <1>6, <1>7
<1>9. ASSUME NEW k \in Nat, k \in T PROVE k + 1 \in T
  <2>1. SUFFICES ASSUME k + 1 \in 0..n PROVE g[1..k + 1] = f[1..k + 1]
    OBVIOUS
  <2>2. PICK j \in 1..n : j = k + 1
    BY <2>1
  <2>3. j - 1 = k /\ k \in 0..n /\ j \in 1..n + 1
    BY <2>2
  <2>4. f[1..j] = f[1..k] + Cost[text[j]] /\ g[1..j] = g[1..k] + Cost[more[j]]
    BY <1>6, <1>7, <2>3
  <2> QED BY <1>9, <1>3, <2>2, <2>3, <2>4
<1> HIDE DEF T
<1>10. Nat \subseteq T
  BY <1>8, <1>9, Induction
<1>11. g[1..n] = f[1..n]
  BY <1>10 DEF T
<1>12. PICK j \in 1..n + 1 : j = n + 1
  OBVIOUS
<1>13. j - 1 = n
  BY <1>12
<1>14. g[1..j] = g[1..n] + Cost[more[j]]
  BY <1>7, <1>13
<1> QED BY <1>2, <1>3, <1>4, <1>5, <1>11, <1>12, <1>14

LEMMA SizeType ==
  ASSUME NEW text \in Text
  PROVE  Size(text) \in Nat /\ Size(text) >= Special
<1> DEFINE T == {t \in Text : Size(t) \in Nat /\ Size(t) >= Special}
<1>0. Special \in Nat /\ \A part \in Parts : Cost[part] \in Nat
  BY ChunkingAssumption DEF Parts
<1>1. <<>> \in T
  BY <1>0, SizeEmpty, EmptySeq DEF Text
<1>2. ASSUME NEW t \in Seq(Parts), NEW part \in Parts, t \in T
      PROVE  Append(t, part) \in T
  BY <1>0, <1>2, SizeAppend, AppendProperties DEF Text, Parts
<1> HIDE DEF T
<1>3. Seq(Parts) \subseteq T
  BY <1>1, <1>2, SequenceInduction
<1> QED BY <1>3 DEF T, Text, Parts

\* The size of two texts put together, in which the model's tokens are once.
LEMMA SizeConcat ==
  ASSUME NEW s \in Text, NEW t \in Text
  PROVE  Size(s \o t) = Size(s) + Size(t) - Special
<1> DEFINE T == {u \in Text : Size(s \o u) = Size(s) + Size(u) - Special}
<1>0. Special \in Nat /\ \A part \in Parts : Cost[part] \in Nat
  BY ChunkingAssumption DEF Parts
<1>1. <<>> \in T
  <2>1. <<>> \in Text /\ s \o <<>> = s
    BY EmptySeq, ConcatEmptySeq DEF Text
  <2>2. Size(s) = Size(s) + Special - Special
    BY <1>0, SizeType
  <2>3. Size(s \o <<>>) = Size(s) + Size(<<>>) - Special
    BY <2>1, <2>2, SizeEmpty, Zenon
  <2> QED BY <2>1, <2>3
<1>2. ASSUME NEW u \in Seq(Parts), NEW part \in Parts, u \in T
      PROVE  Append(u, part) \in T
  <2>1. u \in Text /\ s \in Seq(Parts) /\ s \o u \in Text /\ Append(u, part) \in Text
    BY ConcatProperties, AppendProperties DEF Text, Parts
  <2>2. s \o Append(u, part) = Append(s \o u, part)
    BY <2>1, ConcatAppend
  <2>3. /\ Size(s \o u) \in Nat /\ Size(s) \in Nat /\ Size(u) \in Nat
        /\ Size(Append(s \o u, part)) = Size(s \o u) + Cost[part]
        /\ Size(Append(u, part)) = Size(u) + Cost[part]
    BY <2>1, SizeType, SizeAppend
  <2>4. Size(s \o u) = Size(s) + Size(u) - Special
    BY <1>2
  <2>5. Size(s \o u) + Cost[part] = Size(s) + (Size(u) + Cost[part]) - Special
    BY <1>0, <2>3, <2>4
  <2>6. Size(s \o Append(u, part)) = Size(s) + Size(Append(u, part)) - Special
    BY <2>2, <2>3, <2>5, Zenon
  <2> QED BY <2>1, <2>6
<1> HIDE DEF T
<1>3. Seq(Parts) \subseteq T
  BY <1>1, <1>2, SequenceInduction
<1> QED BY <1>3 DEF T, Text, Parts

-----------------------------------------------------------------------------
(* Texts put together.                                                     *)

\* A text as the loop meets it: what begins with a heading has more than it.
Proper == {t \in Text : t # <<>> /\ (Head(t) \in Headings => Len(t) > 1)}

\* What a join adds to the earlier text.
Added(earlier, later) == IF Repeats(earlier, later) THEN Tail(later) ELSE later

LEMMA LeadingIs ==
  ASSUME NEW t \in Text, t # <<>>
  PROVE  /\ Head(t) \in Headings => Leading(t) = Head(t) /\ Leading(t) # NoHeading
         /\ Head(t) \notin Headings => Leading(t) = NoHeading
  BY ChunkingAssumption DEF Leading

LEMMA HeadOfConcat ==
  ASSUME NEW S, NEW s \in Seq(S), NEW t \in Seq(S), s # <<>>
  PROVE  /\ s \o t # <<>> /\ Head(s \o t) = Head(s) /\ Len(s \o t) >= Len(s)
         /\ Tail(s \o t) = Tail(s) \o t
<1>1. PICK n \in Nat, m \in Nat : n = Len(s) /\ m = Len(t) /\ n > 0
  BY LenProperties, EmptySeq
<1>2. /\ s \o t \in Seq(S) /\ Len(s \o t) = n + m
      /\ \A i \in 1..n + m : (s \o t)[i] = IF i <= n THEN s[i] ELSE t[i - n]
  BY <1>1, ConcatProperties
<1>3. s \o t # <<>>
  BY <1>1, <1>2, EmptySeq
<1>4. Head(s \o t) = (s \o t)[1] /\ Head(s) = s[1]
  BY <1>2, <1>3
<1>5. Head(s \o t) = Head(s)
  BY <1>1, <1>2, <1>4
<1>6. /\ Tail(s) \in Seq(S) /\ Len(Tail(s)) = n - 1
      /\ \A i \in 1..n - 1 : Tail(s)[i] = s[i + 1]
  BY <1>1, HeadTailProperties
<1>7. /\ Tail(s \o t) \in Seq(S) /\ Len(Tail(s \o t)) = n + m - 1
      /\ \A i \in 1..n + m - 1 : Tail(s \o t)[i] = (s \o t)[i + 1]
  BY <1>1, <1>2, <1>3, HeadTailProperties
<1>8. PICK rest \in Seq(S) : rest = Tail(s)
  BY <1>6
<1>9. /\ rest \o t \in Seq(S) /\ Len(rest \o t) = n + m - 1
      /\ \A i \in 1..n + m - 1 :
            (rest \o t)[i] = IF i <= n - 1 THEN rest[i] ELSE t[i - (n - 1)]
  <2>1. /\ rest \o t \in Seq(S)
        /\ Len(rest \o t) = Len(rest) + Len(t)
        /\ \A i \in 1..Len(rest) + Len(t) :
              (rest \o t)[i] = IF i <= Len(rest) THEN rest[i] ELSE t[i - Len(rest)]
    BY ConcatProperties
  <2>2. Len(rest) = n - 1
    BY <1>6, <1>8
  <2>3. Len(rest) + Len(t) = n + m - 1
    BY <1>1, <2>2
  <2> QED BY ONLY <2>1, <2>2, <2>3, Zenon
<1>10. PICK left \in Seq(S) : left = Tail(s \o t)
  BY <1>7
<1>11. PICK right \in Seq(S) : right = rest \o t
  BY <1>9
<1>12. Len(left) = Len(right) /\ Len(left) = n + m - 1
  BY <1>7, <1>9, <1>10, <1>11
<1>13. ASSUME NEW i \in 1..n + m - 1 PROVE left[i] = right[i]
  <2>1. i + 1 \in 1..n + m /\ i + 1 - n = i - (n - 1) /\ (i + 1 <= n <=> i <= n - 1)
    OBVIOUS
  <2>2. left[i] = IF i + 1 <= n THEN s[i + 1] ELSE t[i + 1 - n]
    BY <1>2, <1>7, <1>10, <2>1
  <2>3. right[i] = IF i <= n - 1 THEN s[i + 1] ELSE t[i - (n - 1)]
    BY <1>6, <1>8, <1>9, <1>11
  <2> QED BY <2>1, <2>2, <2>3
<1>14. left = right
  BY <1>12, <1>13, SeqEqual
<1> QED BY <1>1, <1>2, <1>3, <1>5, <1>8, <1>10, <1>11, <1>14

LEMMA JoinIsConcat ==
  ASSUME NEW a \in Proper, NEW b \in Proper
  PROVE  /\ Added(a, b) \in Text /\ Added(a, b) # <<>>
         /\ Join(a, b) = a \o Added(a, b)
         /\ Join(a, b) \in Proper /\ Head(Join(a, b)) = Head(a)
         /\ Leading(Join(a, b)) = Leading(a)
         /\ Size(Join(a, b)) = Size(a) + Size(Added(a, b)) - Special
<1>1. a \in Text /\ b \in Text /\ a # <<>> /\ b # <<>>
  BY DEF Proper
<1>2. Added(a, b) \in Text /\ Added(a, b) # <<>>
  <2>1. CASE Repeats(a, b)
    <3>1. Tail(b) \in Text /\ Len(Tail(b)) = Len(b) - 1 /\ Len(b) \in Nat
      BY <1>1, HeadTailProperties, LenProperties DEF Text
    <3>2. Len(b) > 1
      BY <2>1 DEF Repeats
    <3>3. Tail(b) # <<>>
      BY <3>1, <3>2, EmptySeq
    <3> QED BY <2>1, <3>1, <3>3 DEF Added
  <2>2. CASE ~Repeats(a, b)
    BY <2>2, <1>1 DEF Added
  <2> QED BY <2>1, <2>2
<1>3. Join(a, b) = a \o Added(a, b)
  BY DEF Join, Added
<1>4. PICK x \in Text : x = Added(a, b)
  BY <1>2
<1>5. /\ a \o x \in Text /\ a \o x # <<>> /\ Head(a \o x) = Head(a)
      /\ Len(a \o x) >= Len(a) /\ Len(a) \in Nat /\ Len(a \o x) \in Nat
  BY <1>1, HeadOfConcat, ConcatProperties, LenProperties DEF Text
<1>6. a \o x \in Proper
  BY <1>5 DEF Proper
<1>7. Leading(a \o x) = Leading(a)
  BY <1>1, <1>5, LeadingIs
<1>8. Size(a \o x) = Size(a) + Size(x) - Special
  BY <1>1, SizeConcat
<1> QED BY <1>2, <1>3, <1>4, <1>5, <1>6, <1>7, <1>8

\* A later text that grows by what follows it adds no less to the earlier one.
LEMMA JoinGrows ==
  ASSUME NEW a \in Proper, NEW b \in Proper, NEW c \in Proper
  PROVE  Size(Join(a, Join(b, c))) >= Size(Join(a, b))
<1>1. a \in Text /\ b \in Text /\ b # <<>>
  BY DEF Proper
<1>2. PICK x \in Text : x = Added(b, c) /\ Join(b, c) = b \o x
  BY JoinIsConcat
<1>3. PICK d \in Proper : d = Join(b, c) /\ d = b \o x /\ Leading(d) = Leading(b)
  BY <1>2, JoinIsConcat
<1>4. /\ Len(d) >= Len(b) /\ Tail(d) = Tail(b) \o x /\ Len(d) \in Nat /\ Len(b) \in Nat
  BY <1>1, <1>3, HeadOfConcat, LenProperties DEF Text, Proper
<1>5. Leading(b) # NoHeading => Len(b) > 1
  BY <1>1, LeadingIs DEF Proper
<1>6. Repeats(a, d) <=> Repeats(a, b)
  BY <1>3, <1>4, <1>5 DEF Repeats
<1>7. Added(a, d) = Added(a, b) \o x
  BY <1>3, <1>4, <1>6 DEF Added
<1>8. PICK y \in Text : y = Added(a, b)
  BY JoinIsConcat
<1>9. /\ Size(Join(a, d)) = Size(a) + Size(y \o x) - Special
      /\ Size(Join(a, b)) = Size(a) + Size(y) - Special
  <2>1. Size(Join(a, d)) = Size(a) + Size(Added(a, d)) - Special
    BY JoinIsConcat
  <2>2. Size(Join(a, b)) = Size(a) + Size(Added(a, b)) - Special
    BY JoinIsConcat
  <2> QED BY <1>7, <1>8, <2>1, <2>2
<1>10. Size(y \o x) = Size(y) + Size(x) - Special
  BY SizeConcat
<1>11. /\ Size(a) \in Nat /\ Size(x) \in Nat /\ Size(y) \in Nat /\ Special \in Nat
       /\ Size(x) >= Special
  BY <1>1, SizeType, ChunkingAssumption
<1>12. Size(y \o x) >= Size(y) /\ Size(y \o x) \in Int
  BY <1>10, <1>11
<1>13. PICK u \in Int, v \in Int : u = Size(y \o x) /\ v = Size(y) /\ u >= v
  BY <1>11, <1>12
<1>14. Size(a) + u - Special >= Size(a) + v - Special
  BY <1>11, <1>13
<1> QED BY <1>3, <1>9, <1>13, <1>14

-----------------------------------------------------------------------------
(* The first nodes.                                                        *)

Narrow == {t \in Proper : Size(t) <= Cap}

\* The heading a text ends under.
Final(text) == HeadingAbove(text, Len(text) + 1)

\* The nodes a section under a heading may have.
NodesUnder(heading) == {t \in Narrow : Leading(t) = heading /\ Final(t) = heading}

LEMMA UnderIsProper ==
  ASSUME NEW heading \in Headings \cup {NoHeading}, NEW unit \in Contents
  PROVE  Under(heading, unit) \in Proper
<1>1. unit \in Parts /\ unit \notin Headings
  BY ChunkingAssumption DEF Parts
<1>2. CASE heading = NoHeading
  <2>1. /\ <<unit>> \in Text /\ <<unit>> # <<>> /\ Head(<<unit>>) = unit
    BY <1>1 DEF Text, Parts
  <2> QED BY <1>1, <1>2, <2>1 DEF Proper, Under
<1>3. CASE heading # NoHeading
  <2>1. heading \in Parts
    BY <1>3 DEF Parts
  <2>2. /\ <<heading, unit>> \in Text /\ <<heading, unit>> # <<>>
        /\ Len(<<heading, unit>>) = 2
    BY <1>1, <2>1 DEF Text, Parts
  <2> QED BY <1>3, <2>2 DEF Proper, Under
<1> QED BY <1>2, <1>3

LEMMA FinalIsLast ==
  ASSUME NEW t \in Text
  PROVE  /\ (\A j \in 1..Len(t) : t[j] \notin Headings) => Final(t) = NoHeading
         /\ \A j \in 1..Len(t) :
               t[j] \in Headings /\ (\A i \in j + 1..Len(t) : t[i] \notin Headings) => Final(t) = t[j]
<1>1. PICK n \in Nat : n = Len(t)
  BY LenProperties DEF Text
<1>a. {j \in 1..n : t[j] \in Headings} \in SUBSET Int
  OBVIOUS
<1>2. PICK above \in SUBSET Int : above = {j \in 1..n : t[j] \in Headings}
  BY <1>a
<1>3. 1..n + 1 - 1 = 1..n
  OBVIOUS
<1>4. Final(t) = IF above = {} THEN NoHeading ELSE t[Max(above)]
  BY <1>1, <1>2, <1>3 DEF Final, HeadingAbove
<1>5. ASSUME NEW j \in 1..n, t[j] \in Headings, \A i \in j + 1..n : t[i] \notin Headings
      PROVE  Final(t) = t[j]
  <2>1. j \in above /\ \A i \in above : i <= j
    BY <1>2, <1>5
  <2>2. Max(above) = j
    BY <2>1, MaxIs
  <2> QED BY <1>4, <2>1, <2>2
<1>6. (\A j \in 1..n : t[j] \notin Headings) => above = {}
  BY <1>2
<1> QED BY <1>1, <1>4, <1>5, <1>6

LEMMA UnderLeads ==
  ASSUME NEW heading \in Headings \cup {NoHeading}, NEW unit \in Contents
  PROVE  Leading(Under(heading, unit)) = heading /\ Final(Under(heading, unit)) = heading
<1>1. unit \in Parts /\ unit \notin Headings /\ NoHeading \notin Headings
  BY ChunkingAssumption DEF Parts
<1>2. CASE heading = NoHeading
  <2>0. <<unit>> \in Text
    BY <1>1 DEF Text, Parts
  <2>1. PICK t \in Text : t = <<unit>>
    BY <2>0
  <2>2. /\ t # <<>> /\ Head(t) = unit /\ Len(t) = 1 /\ t[1] = unit
    BY <2>1
  <2>3. \A j \in 1..Len(t) : t[j] \notin Headings
    BY <1>1, <2>2
  <2> QED BY <1>1, <1>2, <2>1, <2>2, <2>3, FinalIsLast, LeadingIs DEF Under
<1>3. CASE heading # NoHeading
  <2>1. heading \in Parts
    BY <1>3 DEF Parts
  <2>0. <<heading, unit>> \in Text
    BY <1>1, <2>1 DEF Text, Parts
  <2>2. PICK t \in Text : t = <<heading, unit>>
    BY <2>0
  <2>3. /\ t # <<>> /\ Head(t) = heading /\ Len(t) = 2 /\ t[1] = heading /\ t[2] = unit
    BY <2>2
  <2>4. \A i \in 1 + 1..Len(t) : t[i] \notin Headings
    BY <1>1, <2>3
  <2>5. 1 \in 1..Len(t) /\ t[1] \in Headings
    BY <1>3, <2>3
  <2>6. Final(t) = heading
    BY <2>3, <2>4, <2>5, FinalIsLast
  <2> QED BY <1>3, <2>2, <2>3, <2>6, LeadingIs DEF Under
<1> QED BY <1>2, <1>3

\* The pieces of a unit, or the unit, each within the cap.
LEMMA UnitNodesFit ==
  ASSUME NEW heading \in Headings \cup {NoHeading}, NEW unit \in Contents
  PROVE  UnitNodes(heading, unit) \in Seq(NodesUnder(heading))
<1>1. CASE Size(Under(heading, unit)) <= Cap
  <2>1. Under(heading, unit) \in NodesUnder(heading)
    BY <1>1, UnderIsProper, UnderLeads DEF Narrow, NodesUnder
  <2> QED BY <1>1, <2>1 DEF UnitNodes
<1>2. CASE ~(Size(Under(heading, unit)) <= Cap)
  <2>1. Pieces[unit] \in Seq(Contents)
    BY ChunkingAssumption
  <2>2. PICK f : f = [k \in DOMAIN Pieces[unit] |-> Under(heading, Pieces[unit][k])]
    OBVIOUS
  <2>3. ASSUME NEW k \in DOMAIN Pieces[unit] PROVE f[k] \in NodesUnder(heading)
    <3>1. Pieces[unit][k] \in Contents
      BY <2>1, ElementOfSeq, LenProperties
    <3>2. f[k] = Under(heading, Pieces[unit][k])
      BY <2>2
    <3>3. Size(Under(heading, Pieces[unit][k])) <= Cap
      BY PiecesFit
    <3> QED BY <3>1, <3>2, <3>3, UnderIsProper, UnderLeads DEF Narrow, NodesUnder
  <2>4. f = [k \in DOMAIN Pieces[unit] |-> f[k]]
    BY <2>2
  <2>5. f \in Seq(NodesUnder(heading))
    BY <2>1, <2>3, <2>4, MapIsSequence
  <2> QED BY <1>2, <2>2, <2>5 DEF UnitNodes
<1> QED BY <1>1, <1>2

\* A section as it is in a document.
SectionsOf == [heading : Headings \cup {NoHeading}, units : Seq(Contents)]

LEMMA DocumentsAreSections == Documents \subseteq Seq(SectionsOf)
<1>1. \A S : \A m \in Nat : BoundedSeq(S, m) \subseteq Seq(S)
  <2> SUFFICES ASSUME NEW S, NEW m \in Nat, NEW s \in BoundedSeq(S, m) PROVE s \in Seq(S)
    OBVIOUS
  <2>1. PICK n \in 0..m : s \in [1..n -> S]
    BY DEF BoundedSeq, SeqOf
  <2> QED BY <2>1, FunctionIsSequence
<1>2. MaxUnits \in Nat /\ MaxSections \in Nat
  BY ChunkingAssumption
<1>3. Sections \subseteq SectionsOf
  BY <1>1, <1>2 DEF Sections, SectionsOf
<1>4. Documents \subseteq Seq(Sections)
  BY <1>1, <1>2 DEF Documents
<1> QED BY <1>3, <1>4, SeqMonotonic

LEMMA SectionNodesFit ==
  ASSUME NEW s \in SectionsOf
  PROVE  SectionNodes(s) \in Seq(NodesUnder(s.heading))
<1>1. PICK us \in Seq(Contents) : us = s.units /\ s.heading \in Headings \cup {NoHeading}
  BY DEF SectionsOf
<1>2. PICK f : f = [k \in DOMAIN us |-> UnitNodes(s.heading, us[k])]
  OBVIOUS
<1>3. ASSUME NEW k \in DOMAIN us PROVE f[k] \in Seq(NodesUnder(s.heading))
  <2>1. us[k] \in Contents
    BY ElementOfSeq, LenProperties
  <2> QED BY <1>1, <1>2, <2>1, UnitNodesFit
<1>4. f = [k \in DOMAIN us |-> f[k]]
  BY <1>2
<1>5. f \in Seq(Seq(NodesUnder(s.heading)))
  BY <1>3, <1>4, MapIsSequence
<1>6. SectionNodes(s) = FlattenSeq(f)
  BY <1>1, <1>2 DEF SectionNodes
<1> QED BY <1>5, <1>6, FlattenType

LEMMA FirstNodesFit ==
  ASSUME NEW d \in Seq(SectionsOf)
  PROVE  Nodes(d) \in Seq(Narrow)
<1>1. PICK f : f = [n \in DOMAIN d |-> SectionNodes(d[n])]
  OBVIOUS
<1>2. ASSUME NEW n \in DOMAIN d PROVE f[n] \in Seq(Narrow)
  <2>1. d[n] \in SectionsOf
    BY ElementOfSeq, LenProperties
  <2>2. f[n] \in Seq(NodesUnder(d[n].heading)) /\ NodesUnder(d[n].heading) \subseteq Narrow
    BY <1>1, <2>1, SectionNodesFit DEF NodesUnder
  <2> QED BY <2>2, SeqMonotonic
<1>3. f = [n \in DOMAIN d |-> f[n]]
  BY <1>1
<1>4. f \in Seq(Seq(Narrow))
  BY <1>2, <1>3, MapIsSequence
<1> QED BY <1>1, <1>4, FlattenType DEF Nodes

\* The origins name the section each node came from, in order.
LEMMA OriginsFit ==
  ASSUME NEW d \in Seq(SectionsOf)
  PROVE  /\ Origins(d) \in Seq(DOMAIN d) /\ Len(Origins(d)) = Len(Nodes(d))
         /\ \A k \in 1..Len(Nodes(d)) :
               /\ Leading(Nodes(d)[k]) = d[Origins(d)[k]].heading
               /\ Final(Nodes(d)[k]) = d[Origins(d)[k]].heading
         /\ \A k, m \in 1..Len(Nodes(d)) : k < m => Origins(d)[k] <= Origins(d)[m]
<1>1. PICK f : f = [n \in DOMAIN d |-> SectionNodes(d[n])]
  OBVIOUS
<1>2. PICK g : g = [n \in DOMAIN d |-> [k \in DOMAIN SectionNodes(d[n]) |-> n]]
  OBVIOUS
<1>3. DOMAIN d = 1..Len(d) /\ Len(d) \in Nat
  BY LenProperties
<1> DEFINE R == {pair \in Narrow \X DOMAIN d :
                    /\ Leading(pair[1]) = d[pair[2]].heading
                    /\ Final(pair[1]) = d[pair[2]].heading}
<1>4. ASSUME NEW n \in DOMAIN d
      PROVE  /\ f[n] \in Seq(Narrow) /\ g[n] \in Seq(DOMAIN d)
             /\ Paired(f[n], g[n], R)
             /\ \A k \in 1..Len(g[n]) : g[n][k] = n
  <2>1. d[n] \in SectionsOf
    BY ElementOfSeq, <1>3
  <2>2. PICK s \in Seq(NodesUnder(d[n].heading)) : s = f[n] /\ s = SectionNodes(d[n])
    BY <1>1, <2>1, SectionNodesFit
  <2>3. NodesUnder(d[n].heading) \subseteq Narrow
    BY DEF NodesUnder
  <2>4. s \in Seq(Narrow)
    BY <2>3, SeqMonotonic
  <2>5. PICK h : h = g[n] /\ h = [k \in DOMAIN s |-> n]
    BY <1>2, <2>2
  <2>6. h = [k \in DOMAIN s |-> h[k]] /\ \A k \in DOMAIN s : h[k] \in DOMAIN d
    BY <2>5
  <2>7. h \in Seq(DOMAIN d) /\ Len(h) = Len(s) /\ DOMAIN s = 1..Len(s)
    BY <2>6, MapIsSequence, LenProperties
  <2>8. ASSUME NEW k \in 1..Len(s) PROVE <<s[k], h[k]>> \in R
    <3>1. s[k] \in NodesUnder(d[n].heading) /\ h[k] = n
      BY <2>5, <2>7, ElementOfSeq
    <3>2. s[k] \in Narrow /\ Leading(s[k]) = d[n].heading /\ Final(s[k]) = d[n].heading
      BY <3>1 DEF NodesUnder
    <3> QED BY <3>1, <3>2
  <2> HIDE DEF R
  <2>9. Paired(s, h, R)
    BY <2>7, <2>8 DEF Paired
  <2> QED BY <2>2, <2>4, <2>5, <2>7, <2>9
<1> HIDE DEF R
<1>5. f \in Seq(Seq(Narrow)) /\ Len(f) = Len(d)
  <2>1. f = [n \in DOMAIN d |-> f[n]] /\ \A n \in DOMAIN d : f[n] \in Seq(Narrow)
    BY <1>1, <1>4
  <2> QED BY <2>1, MapIsSequence
<1>6. g \in Seq(Seq(DOMAIN d)) /\ Len(g) = Len(d)
  <2>1. PICK S : S = Seq(DOMAIN d)
    OBVIOUS
  <2>2. g = [n \in DOMAIN d |-> g[n]] /\ \A n \in DOMAIN d : g[n] \in S
    BY <1>2, <1>4, <2>1
  <2>3. g \in Seq(S) /\ Len(g) = Len(d)
    BY <2>2, MapIsSequence
  <2> QED BY <2>1, <2>3
<1>7. FlattenSeq(f) = Nodes(d) /\ FlattenSeq(g) = Origins(d)
  BY <1>1, <1>2 DEF Nodes, Origins
<1>8. AllPaired(f, g, R)
  BY <1>3, <1>4, <1>5, <1>6 DEF AllPaired
<1>9. Paired(Nodes(d), Origins(d), R)
  BY <1>5, <1>6, <1>7, <1>8, FlattenPaired
<1>10. Origins(d) \in Seq(DOMAIN d)
  BY <1>6, <1>7, FlattenType
<1>11. /\ Len(Origins(d)) = Len(Nodes(d))
       /\ \A k \in 1..Len(Nodes(d)) :
               /\ Leading(Nodes(d)[k]) = d[Origins(d)[k]].heading
               /\ Final(Nodes(d)[k]) = d[Origins(d)[k]].heading
  BY <1>9 DEF Paired, R
<1>12. \A k, m \in 1..Len(Origins(d)) : k < m => Origins(d)[k] <= Origins(d)[m]
  <2>1. Seq(DOMAIN d) \subseteq Seq(Nat) 
    BY <1>3, SeqMonotonic
  <2>2. g \in Seq(Seq(Nat))
    BY <1>6, <2>1, SeqMonotonic
  <2>3. \A n \in 1..Len(g) : \A k \in 1..Len(g[n]) : g[n][k] = n
    BY <1>3, <1>4, <1>6
  <2> QED BY <1>7, <2>2, <2>3, FlattenSorted
<1> QED BY <1>10, <1>11, <1>12

-----------------------------------------------------------------------------
(* The loop.                                                               *)

Places == 1..index - 1
Fragments == {n \in Places : Small(n)}

\* What the loop is past is at the floor or cannot be merged, and the refusals are
\* the latter.
Settled ==
    pc \in {"floor", "collapse"} =>
        /\ index <= Len(texts) + 1
        /\ \A n \in Places : Small(n) => Legal(n) = {}
        /\ refusals = Cardinality(Fragments)
        /\ pc = "collapse" => Len(texts) = 1 \/ index = Len(texts) + 1

Inv == TypeOK /\ texts \in Seq(Proper) /\ WithinCeiling /\ Settled

\* Legal, of any texts.
Mergeable(ts, n, m) ==
    /\ n \in DOMAIN ts /\ m \in DOMAIN ts
    /\ Size(Join(ts[n], ts[m])) <= Ceiling
LegalIn(ts, n) == {m \in {n - 1, n + 1} : IF n < m THEN Mergeable(ts, n, m) ELSE Mergeable(ts, m, n)}

LEMMA LegalIsLegalIn ==
  ASSUME NEW n \in DOMAIN texts
  PROVE  Legal(n) = LegalIn(texts, n)
  BY DEF Legal, Joined, LegalIn, Mergeable

LEMMA LegalInIs ==
  ASSUME NEW ts, NEW n \in Int
  PROVE  \A m : m \in LegalIn(ts, n) <=>
            \/ m = n - 1 /\ Mergeable(ts, n - 1, n)
            \/ m = n + 1 /\ Mergeable(ts, n, n + 1)
<1>1. n - 1 < n /\ ~(n < n - 1) /\ n < n + 1 /\ n - 1 # n + 1
  OBVIOUS
<1> QED BY <1>1 DEF LegalIn

LEMMA ChosenIsLegal ==
  ASSUME texts \in Seq(Proper), origins \in Seq(DOMAIN doc), NEW n \in DOMAIN texts,
         Legal(n) # {}
  PROVE  Chosen(n) \in Legal(n)
<1>1. n \in Int
  BY LenProperties
<1>2. \A m \in Legal(n) : Offer(n, m) \in Int
  BY <1>1 DEF Offer
<1>3. Legal(n) \subseteq {n - 1, n + 1}
  BY DEF Legal
<1>4. \E m \in Legal(n) : \A k \in Legal(n) : Offer(n, m) <= Offer(n, k)
  <2>1. PICK o, p : o = Offer(n, n - 1) /\ p = Offer(n, n + 1)
    OBVIOUS
  <2>2. CASE n - 1 \in Legal(n) /\ n + 1 \in Legal(n)
    <3>1. o \in Int /\ p \in Int
      BY <2>1, <2>2, <1>2
    <3>2. CASE o <= p
      <4>1. \A k \in Legal(n) : o <= Offer(n, k)
        BY <1>3, <2>1, <3>1, <3>2
      <4> QED BY <2>1, <2>2, <4>1
    <3>3. CASE p <= o
      <4>1. \A k \in Legal(n) : p <= Offer(n, k)
        BY <1>3, <2>1, <3>1, <3>3
      <4> QED BY <2>1, <2>2, <4>1
    <3> QED BY <3>1, <3>2, <3>3
  <2>3. CASE ~(n - 1 \in Legal(n) /\ n + 1 \in Legal(n))
    <3>1. PICK m \in Legal(n) : TRUE
      OBVIOUS
    <3>2. \A k \in Legal(n) : k = m
      BY <1>3, <2>3
    <3>3. Offer(n, m) <= Offer(n, m)
      BY <1>2
    <3> QED BY <3>2, <3>3
  <2> QED BY <2>2, <2>3
<1> QED BY <1>4 DEF Chosen

LEMMA InitInv == ASSUME Init PROVE Inv
<1>1. doc \in Seq(SectionsOf) /\ texts = Nodes(doc)
  BY DocumentsAreSections DEF Init
<1>2. texts \in Seq(Narrow)
  BY <1>1, FirstNodesFit
<1>3. /\ texts \in Seq(Proper) /\ texts \in Seq(Text)
  <2>1. Narrow \subseteq Proper /\ Proper \subseteq Text
    BY DEF Narrow, Proper
  <2> QED BY <1>2, <2>1, SeqMonotonic
<1>4. WithinCeiling
  <2>1. SUFFICES ASSUME NEW n \in DOMAIN texts PROVE Size(texts[n]) <= Ceiling
    BY DEF WithinCeiling
  <2>2. texts[n] \in Narrow
    BY <1>2, ElementOfSeq, LenProperties
  <2>3. Size(texts[n]) <= Cap /\ Size(texts[n]) \in Nat
    BY <2>2, SizeType DEF Narrow, Proper
  <2> QED BY <2>3, ChunkingAssumption
<1>5. origins \in Seq(DOMAIN doc) /\ Len(origins) = Len(texts)
  BY <1>1, OriginsFit DEF Init
<1>6. Len(texts) \in Nat
  BY <1>2, LenProperties
<1>7. Places = {} /\ Cardinality({}) = 0
  BY FS_EmptySet DEF Init, Places
<1>8. Fragments = {}
  BY <1>7 DEF Fragments
<1> QED BY <1>3, <1>4, <1>5, <1>6, <1>7, <1>8 DEF Init, Inv, TypeOK, Settled

\* A merge.
\* Two neighbours, the later of which is at most the one the loop is at or the one
\* behind it, become one, and the loop is at that.
FoldsAt(l) ==
    /\ l \in {index - 1, index}
    /\ l = index - 1 => ~Small(l)
    /\ Size(Join(texts[l], texts[l + 1])) <= Ceiling
    /\ texts' \in Seq(Proper)
    /\ Merges(texts', texts, l, Join(texts[l], texts[l + 1]), Len(texts))
    /\ origins' \in Seq(DOMAIN doc)
    /\ Merges(origins', origins, l, origins[l], Len(texts))
    /\ index' = l
    /\ UNCHANGED <<doc, refusals, pc>>

LEMMA AtTheLoop ==
  ASSUME Inv, Merge
  PROVE  /\ texts \in Seq(Proper) /\ origins \in Seq(DOMAIN doc) /\ Len(origins) = Len(texts)
         /\ Len(texts) \in Nat /\ DOMAIN texts = 1..Len(texts) /\ pc = "floor"
         /\ index \in DOMAIN texts /\ index \in Int /\ refusals \in 0..index - 1
         /\ Small(index) /\ Legal(index) # {} /\ WithinCeiling
         /\ \A n \in Places : Small(n) => Legal(n) = {}
         /\ refusals = Cardinality(Fragments)
<1>1. texts \in Seq(Proper) /\ origins \in Seq(DOMAIN doc) /\ pc = "floor" /\ index <= Len(texts)
  BY DEF Inv, TypeOK, Merge, Looping
<1>2. Len(texts) \in Nat /\ DOMAIN texts = 1..Len(texts)
  BY <1>1, LenProperties
<1> QED BY <1>1, <1>2 DEF Inv, TypeOK, Merge, Settled

LEMMA MergeFolds == ASSUME Inv, Merge PROVE \E l \in 1..Len(texts) - 1 : FoldsAt(l)
<1> DEFINE len == Len(texts)
<1>1. /\ texts \in Seq(Proper) /\ origins \in Seq(DOMAIN doc) /\ Len(origins) = len
      /\ len \in Nat /\ DOMAIN texts = 1..len /\ pc = "floor"
      /\ index \in DOMAIN texts /\ index \in Int /\ refusals \in 0..index - 1
      /\ Small(index) /\ Legal(index) # {} /\ WithinCeiling
      /\ \A n \in Places : Small(n) => Legal(n) = {}
      /\ refusals = Cardinality(Fragments)
  BY AtTheLoop
<1>2. PICK m \in Legal(index) : m = Chosen(index)
  BY <1>1, ChosenIsLegal
<1>3. PICK l : l = Lower(index, m)
  OBVIOUS
<1>4. /\ l \in 1..len - 1 /\ l \in {index - 1, index} /\ l <= index
      /\ Joined(index, m) = Join(texts[l], texts[l + 1])
      /\ Size(Join(texts[l], texts[l + 1])) <= Ceiling
      /\ l = index - 1 => ~Small(l)
  <2>1. \/ m = index - 1 /\ Mergeable(texts, index - 1, index)
        \/ m = index + 1 /\ Mergeable(texts, index, index + 1)
    BY <1>1, <1>2, LegalIsLegalIn, LegalInIs
  <2>2. CASE m = index - 1 /\ Mergeable(texts, index - 1, index)
    <3>1. l = index - 1 /\ l + 1 = index /\ l \in 1..len - 1 /\ l \in DOMAIN texts /\ l \in Int
      BY <2>2, <1>1, <1>3 DEF Lower, Mergeable
    <3>2. Joined(index, m) = Join(texts[l], texts[l + 1])
      BY <2>2, <1>1, <3>1 DEF Joined
    <3>3. Mergeable(texts, l, l + 1)
      BY <2>2, <3>1
    <3>4. l + 1 \in Legal(l)
      BY <3>1, <3>3, LegalIsLegalIn, LegalInIs
    <3>5. ~Small(l)
      BY <1>1, <3>1, <3>4 DEF Places
    <3> QED BY <1>1, <3>1, <3>2, <3>3, <3>5 DEF Mergeable
  <2>3. CASE m = index + 1 /\ Mergeable(texts, index, index + 1)
    <3>1. l = index /\ l \in 1..len - 1 /\ l # index - 1
      BY <2>3, <1>1, <1>3 DEF Lower, Mergeable
    <3>2. Joined(index, m) = Join(texts[l], texts[l + 1])
      BY <2>3, <1>1, <3>1 DEF Joined
    <3> QED BY <1>1, <2>3, <3>1, <3>2 DEF Mergeable
  <2> QED BY <2>1, <2>2, <2>3
<1>5. PICK e \in Proper : e = Join(texts[l], texts[l + 1])
  <2>1. l \in 1..len /\ l + 1 \in 1..len
    BY <1>1, <1>4
  <2>2. PICK a \in Proper, b \in Proper : a = texts[l] /\ b = texts[l + 1]
    BY <1>1, <2>1, ElementOfSeq
  <2> QED BY <2>2, JoinIsConcat
<1>6. /\ texts' = Folded(texts, l, e) /\ origins' = RemoveAt(origins, l + 1) /\ index' = l
      /\ UNCHANGED <<doc, refusals, pc>>
  BY <1>2, <1>3, <1>4, <1>5 DEF Merge, Fold, Folded, Again
<1>7. texts' \in Seq(Proper) /\ Merges(texts', texts, l, e, len)
  BY <1>1, <1>4, <1>6, FoldedElements
<1>8. origins' \in Seq(DOMAIN doc) /\ Merges(origins', origins, l, origins[l], len)
  <2>1. RemoveAt(origins, l + 1) = Folded(origins, l, origins[l]) /\ origins[l] \in DOMAIN doc
    BY <1>1, <1>4, RemovedElements
  <2> QED BY <1>1, <1>4, <1>6, <2>1, FoldedElements
<1> QED BY <1>4, <1>5, <1>6, <1>7, <1>8 DEF FoldsAt

LEMMA MergeStep == ASSUME Inv, Merge PROVE Inv'
<1> DEFINE len == Len(texts)
<1>1. /\ texts \in Seq(Proper) /\ origins \in Seq(DOMAIN doc) /\ Len(origins) = len
      /\ len \in Nat /\ DOMAIN texts = 1..len /\ pc = "floor"
      /\ index \in DOMAIN texts /\ index \in Int /\ refusals \in 0..index - 1
      /\ Small(index) /\ Legal(index) # {} /\ WithinCeiling
      /\ \A n \in Places : Small(n) => Legal(n) = {}
      /\ refusals = Cardinality(Fragments)
  BY AtTheLoop
<1>2. PICK l \in 1..len - 1 : FoldsAt(l)
  BY MergeFolds
<1>3. /\ l \in {index - 1, index} /\ l <= index
      /\ Size(Join(texts[l], texts[l + 1])) <= Ceiling
      /\ l = index - 1 => ~Small(l)
  BY <1>1, <1>2 DEF FoldsAt
<1>4. PICK a \in Proper, b \in Proper : a = texts[l] /\ b = texts[l + 1]
  <2>1. l \in 1..len /\ l + 1 \in 1..len
    BY <1>1
  <2> QED BY <1>1, <2>1, ElementOfSeq
<1>5. PICK e \in Proper : e = Join(a, b) /\ Size(e) <= Ceiling
  BY <1>3, <1>4, JoinIsConcat
<1>6. index' = l /\ UNCHANGED <<doc, refusals, pc>>
  BY <1>2 DEF FoldsAt
<1>7. /\ texts' \in Seq(Proper) /\ Len(texts') = len - 1
      /\ \A k \in 1..l - 1 : texts'[k] = texts[k]
      /\ texts'[l] = e
      /\ \A k \in l + 1..len - 1 : texts'[k] = texts[k + 1]
  BY <1>2, <1>4, <1>5 DEF FoldsAt, Merges
<1>8. origins' \in Seq(DOMAIN doc) /\ Len(origins') = len - 1
  BY <1>2 DEF FoldsAt, Merges
<1>9. DOMAIN texts' = 1..len - 1 /\ l \in Int
  BY <1>1, <1>3, <1>7, LenProperties
<1>10. WithinCeiling'
  <2>1. SUFFICES ASSUME NEW n \in 1..len - 1 PROVE Size(texts'[n]) <= Ceiling
    BY <1>9 DEF WithinCeiling
  <2>2. CASE n < l
    <3>1. n \in 1..l - 1 /\ n \in DOMAIN texts
      BY <2>2, <1>1, <1>9
    <3>2. texts'[n] = texts[n]
      BY <3>1, <1>7
    <3>3. Size(texts[n]) <= Ceiling
      BY <3>1, <1>1 DEF WithinCeiling
    <3> QED BY <3>2, <3>3, Zenon
  <2>3. CASE n = l
    BY <2>3, <1>5, <1>7
  <2>4. CASE n > l
    <3>1. n \in l + 1..len - 1 /\ n + 1 \in DOMAIN texts
      BY <2>4, <1>1, <1>9
    <3> QED BY <3>1, <1>1, <1>7 DEF WithinCeiling
  <2> QED BY <1>9, <2>2, <2>3, <2>4
<1>11. ASSUME NEW n \in 1..l - 1, Legal(n) = {} PROVE Legal(n)' = {}
  <2>1. /\ n \in 1..len - 1 /\ n \in DOMAIN texts /\ n \in Int /\ n + 1 \in DOMAIN texts
        /\ n + 1 \in 1..len - 1
    BY <1>1, <1>3, <1>9
  <2>2. Legal(n)' = LegalIn(texts', n)
    BY <1>9, <2>1 DEF Legal, Joined, LegalIn, Mergeable
  <2>3. ~Mergeable(texts, n - 1, n) /\ ~Mergeable(texts, n, n + 1)
    <3>1. LegalIn(texts, n) = {}
      BY <1>11, <2>1, LegalIsLegalIn
    <3> QED BY <2>1, <3>1, LegalInIs
  <2>4. ~Mergeable(texts', n - 1, n)
    <3>1. SUFFICES ASSUME n - 1 \in 1..len - 1 PROVE ~(Size(Join(texts'[n - 1], texts'[n])) <= Ceiling)
      BY <1>9 DEF Mergeable
    <3>2. n - 1 \in 1..l - 1 /\ n - 1 \in DOMAIN texts
      BY <1>1, <1>9, <3>1
    <3> QED BY <1>7, <2>1, <2>3, <3>2 DEF Mergeable
  <2>5. ~Mergeable(texts', n, n + 1)
    <3>1. texts'[n] = texts[n]
      BY <1>7
    <3>2. CASE n + 1 < l
      <4>1. texts'[n + 1] = texts[n + 1]
        BY <3>2, <1>7, <1>9, <2>1
      <4> QED BY <2>1, <2>3, <3>1, <4>1 DEF Mergeable
    <3>3. CASE n + 1 = l
      <4>1. PICK c \in Proper : c = texts[n]
        BY <1>1, <2>1, ElementOfSeq
      <4>2. texts'[n + 1] = Join(a, b) /\ texts[n + 1] = a
        BY <3>3, <1>4, <1>5, <1>7
      <4>3. Size(Join(c, Join(a, b))) >= Size(Join(c, a))
        BY JoinGrows
      <4>4. /\ Size(Join(c, Join(a, b))) \in Int /\ Size(Join(c, a)) \in Int /\ Ceiling \in Int
        <5>1. Join(a, b) \in Proper /\ Proper \subseteq Text
          BY JoinIsConcat DEF Proper
        <5>2. Join(c, Join(a, b)) \in Text /\ Join(c, a) \in Text
          BY <5>1, JoinIsConcat
        <5> QED BY <5>2, SizeType, ChunkingAssumption
      <4>5. ~(Size(Join(c, a)) <= Ceiling)
        BY <2>1, <2>3, <4>1, <4>2 DEF Mergeable
      <4>6. ~(Size(Join(c, Join(a, b))) <= Ceiling)
        BY <4>3, <4>4, <4>5
      <4> QED BY <3>1, <4>1, <4>2, <4>6 DEF Mergeable
    <3> QED BY <1>9, <2>1, <3>2, <3>3
  <2> QED BY <2>1, <2>2, <2>4, <2>5, LegalInIs
<1>12. \A n \in 1..l - 1 : Small(n)' <=> Small(n)
  BY <1>7 DEF Small
<1>13. Places' = 1..l - 1 /\ 1..l - 1 \subseteq Places
  BY <1>1, <1>3, <1>6 DEF Places
<1>14. Fragments' = Fragments
  <2>1. \A n \in Places : n \in 1..l - 1 \/ (n = l /\ l = index - 1)
    BY <1>1, <1>3, <1>9 DEF Places
  <2> QED BY <1>3, <1>12, <1>13, <2>1 DEF Fragments
<1>15. refusals \in 0..l - 1
  <2>1. Fragments \subseteq 1..l - 1
    BY <1>13, <1>14 DEF Fragments
  <2>2. IsFiniteSet(1..l - 1) /\ Cardinality(1..l - 1) = l - 1
    <3>1. 1 \in Int /\ l - 1 \in Int /\ 1 <= l
      BY <1>9
    <3>2. /\ IsFiniteSet(1..l - 1)
          /\ Cardinality(1..l - 1) = IF 1 > l - 1 THEN 0 ELSE (l - 1) - 1 + 1
      BY <3>1, FS_Interval, Zenon
    <3> QED BY <3>1, <3>2, <1>9
  <2>3. refusals <= l - 1
    <3>1. Cardinality(Fragments) <= Cardinality(1..l - 1)
      BY <2>1, <2>2, FS_Subset
    <3> QED BY <1>1, <2>2, <3>1
  <2> QED BY <1>1, <1>9, <2>3
<1>16. Settled'
  <2>1. l <= len - 1 + 1
    BY <1>1, <1>3
  <2>2. \A n \in Places' : Small(n)' => Legal(n)' = {}
    BY <1>1, <1>11, <1>12, <1>13
  <2> QED BY <1>1, <1>6, <1>7, <1>14, <2>1, <2>2 DEF Settled
<1>17. TypeOK'
  <2>1. texts' \in Seq(Text)
    BY <1>7, SeqMonotonic DEF Proper
  <2>2. origins' \in Seq(DOMAIN doc') /\ Len(origins') = Len(texts')
    BY <1>1, <1>3, <1>6, <1>7, <1>8
  <2>3. index' \in Nat \ {0} /\ index' <= Len(texts') + 1 /\ refusals' \in 0..index' - 1
    BY <1>1, <1>3, <1>6, <1>7, <1>15
  <2> QED BY <1>1, <1>6, <2>1, <2>2, <2>3 DEF TypeOK
<1> QED BY <1>7, <1>10, <1>16, <1>17 DEF Inv

\* The loop goes past a text that is at the floor, or that nothing may join.
LEMMA KeepStep == ASSUME Inv, Keep PROVE Inv'
<1>1. /\ texts' = texts /\ origins' = origins /\ doc' = doc /\ pc' = pc
      /\ refusals' = refusals /\ index' = index + 1 /\ ~Small(index)
      /\ pc = "floor" /\ index <= Len(texts) /\ index \in Nat \ {0}
      /\ Len(texts) \in Nat
  <2>1. Len(texts) \in Nat
    BY LenProperties DEF Inv
  <2> QED BY <2>1 DEF Keep, Looping, Inv, TypeOK
<1>2. WithinCeiling' /\ \A n : (Small(n)' <=> Small(n)) /\ Legal(n)' = Legal(n)
  BY <1>1 DEF Inv, WithinCeiling, Small, Legal, Joined
<1>3. Places' = Places \cup {index}
  BY <1>1 DEF Places
<1>4. Fragments' = Fragments
  BY <1>1, <1>2, <1>3 DEF Fragments
<1>5. Settled'
  <2>1. /\ \A n \in Places : Small(n) => Legal(n) = {}
        /\ refusals = Cardinality(Fragments)
    BY <1>1 DEF Inv, Settled
  <2>2. \A n \in Places' : Small(n)' => Legal(n)' = {}
    BY <1>1, <1>2, <1>3, <2>1
  <2> QED BY <1>1, <1>4, <2>1, <2>2 DEF Settled
<1>6. TypeOK'
  BY <1>1 DEF Inv, TypeOK
<1> QED BY <1>1, <1>2, <1>5, <1>6 DEF Inv

LEMMA RefuseStep == ASSUME Inv, Refuse PROVE Inv'
<1>1. /\ texts' = texts /\ origins' = origins /\ doc' = doc /\ pc' = pc
      /\ refusals' = refusals + 1 /\ index' = index + 1
      /\ Small(index) /\ Legal(index) = {}
      /\ pc = "floor" /\ index <= Len(texts) /\ index \in Nat \ {0}
      /\ Len(texts) \in Nat /\ refusals \in 0..index - 1
  <2>1. Len(texts) \in Nat
    BY LenProperties DEF Inv
  <2> QED BY <2>1 DEF Refuse, Looping, Inv, TypeOK
<1>2. WithinCeiling' /\ \A n : (Small(n)' <=> Small(n)) /\ Legal(n)' = Legal(n)
  BY <1>1 DEF Inv, WithinCeiling, Small, Legal, Joined
<1>3. Places' = Places \cup {index} /\ index \notin Places
  BY <1>1 DEF Places
<1>4. Fragments' = Fragments \cup {index}
  BY <1>1, <1>2, <1>3 DEF Fragments
<1>5. IsFiniteSet(Fragments)
  <2>1. 1 \in Int /\ index - 1 \in Int
    BY <1>1
  <2>2. IsFiniteSet(Places)
    BY <2>1, FS_Interval DEF Places
  <2> QED BY <2>2, FS_Subset DEF Fragments
<1>6. Cardinality(Fragments \cup {index}) = Cardinality(Fragments) + 1
  <2>1. index \notin Fragments
    BY <1>3 DEF Fragments
  <2> QED BY <1>5, <2>1, FS_AddElement
<1>7. Settled'
  <2>1. /\ \A n \in Places : Small(n) => Legal(n) = {}
        /\ refusals = Cardinality(Fragments)
    BY <1>1 DEF Inv, Settled
  <2>2. \A n \in Places' : Small(n)' => Legal(n)' = {}
    BY <1>1, <1>2, <1>3, <2>1
  <2>3. refusals' = Cardinality(Fragments')
    BY <1>1, <1>4, <1>6, <2>1
  <2> QED BY <1>1, <2>2, <2>3 DEF Settled
<1>8. TypeOK'
  BY <1>1 DEF Inv, TypeOK
<1> QED BY <1>1, <1>2, <1>7, <1>8 DEF Inv

LEMMA StopStep == ASSUME Inv, Stop PROVE Inv'
<1>1. /\ UNCHANGED <<doc, texts, origins, index, refusals>>
      /\ pc = "floor" /\ pc' = "collapse" /\ index \in Nat \ {0}
      /\ Len(texts) \in Nat /\ index <= Len(texts) + 1
      /\ Len(texts) = 1 \/ ~(index <= Len(texts))
  <2>1. Len(texts) \in Nat
    BY LenProperties DEF Inv
  <2> QED BY <2>1 DEF Stop, Looping, Inv, TypeOK
<1>2. WithinCeiling' /\ Places' = Places /\ \A n : (Small(n)' <=> Small(n)) /\ Legal(n)' = Legal(n)
  BY <1>1 DEF Inv, WithinCeiling, Small, Legal, Joined, Places
<1>3. Fragments' = Fragments
  BY <1>2 DEF Fragments
<1>4. Settled'
  <2>1. /\ \A n \in Places : Small(n) => Legal(n) = {}
        /\ refusals = Cardinality(Fragments)
    BY <1>1 DEF Inv, Settled
  <2>2. Len(texts) = 1 \/ index = Len(texts) + 1
    BY <1>1
  <2>3. \A n \in Places' : Small(n)' => Legal(n)' = {}
    BY <1>2, <2>1
  <2> QED BY <1>1, <1>3, <2>1, <2>2, <2>3 DEF Settled
<1>5. TypeOK'
  BY <1>1 DEF Inv, TypeOK
<1> QED BY <1>1, <1>2, <1>4, <1>5 DEF Inv

-----------------------------------------------------------------------------
(* The first of equal texts.                                               *)

LEMMA CollapseStep == ASSUME Inv, Collapse PROVE Inv'
<1>1. PICK len \in Nat : len = Len(texts) /\ DOMAIN texts = 1..len
  BY LenProperties DEF Inv
<1>2. /\ UNCHANGED <<doc, origins, index, refusals>> /\ pc' = "done"
      /\ texts' = [k \in 1..Cardinality(Firsts) |->
                     texts[CHOOSE n \in Firsts : Cardinality(UpTo(Firsts, n)) = k]]
      /\ Firsts \subseteq 1..len
  BY <1>1 DEF Collapse, UpTo, Firsts
<1>3. PICK S \in SUBSET (Nat \ {0}) : S = Firsts
  BY <1>2
<1>4. UpTo(S, len) = S
  <2>1. \A m \in S : m <= len
    BY <1>2, <1>3
  <2> QED BY <2>1 DEF UpTo
<1>5. IsFiniteSet(S) /\ \A j \in 1..Cardinality(S) : \E m \in S : Cardinality(UpTo(S, m)) = j
  BY <1>4, CountReaches
<1>6. Cardinality(S) \in Nat
  BY <1>5, FS_CardinalityType
<1>7. ASSUME NEW k \in 1..Cardinality(S) PROVE \E n \in 1..len : texts'[k] = texts[n]
  <2>1. PICK n \in S : n = CHOOSE m \in S : Cardinality(UpTo(S, m)) = k
    BY <1>5
  <2>2. texts'[k] = texts[n]
    BY <1>2, <1>3, <2>1
  <2> QED BY <1>2, <1>3, <2>2
<1>8. texts' \in [1..Cardinality(S) -> Proper] /\ DOMAIN texts' = 1..Cardinality(S)
  <2>1. \A n \in 1..len : texts[n] \in Proper
    BY <1>1, ElementOfSeq DEF Inv
  <2>2. \A k \in 1..Cardinality(S) : texts'[k] \in Proper
    BY <1>7, <2>1
  <2>3. DOMAIN texts' = 1..Cardinality(S) /\ texts' = [k \in 1..Cardinality(S) |-> texts'[k]]
    BY <1>2, <1>3
  <2> QED BY <2>2, <2>3
<1>9. texts' \in Seq(Proper)
  BY <1>6, <1>8, FunctionIsSequence
<1>10. WithinCeiling'
  BY <1>1, <1>7, <1>8 DEF Inv, WithinCeiling
<1>11. texts' \in Seq(Text)
  BY <1>9, SeqMonotonic DEF Proper
<1>12. TypeOK'
  BY <1>2, <1>11 DEF Inv, TypeOK
<1> QED BY <1>2, <1>9, <1>10, <1>12 DEF Inv, Settled

LEMMA StepInv == ASSUME Inv, [Next]_vars PROVE Inv'
<1>1. CASE UNCHANGED vars
  <2>1. UNCHANGED <<doc, texts, origins, index, refusals, pc>>
    BY <1>1 DEF vars
  <2>2. Places' = Places /\ \A n : (Small(n)' <=> Small(n)) /\ Legal(n)' = Legal(n)
    BY <2>1 DEF Small, Legal, Joined, Places
  <2>3. Fragments' = Fragments
    BY <2>2 DEF Fragments
  <2>4. Settled'
    BY <2>1, <2>2, <2>3 DEF Inv, Settled
  <2> QED BY <2>1, <2>4 DEF Inv, TypeOK, WithinCeiling
<1> QED BY <1>1, KeepStep, MergeStep, RefuseStep, StopStep, CollapseStep DEF Next

-----------------------------------------------------------------------------
(* The content.                                                            *)

\* The headings before a place.
Above(text, k) == {j \in 1..k - 1 : text[j] \in Headings}

LEMMA AboveIs ==
  ASSUME NEW text, NEW k, k - 1 \in Nat
  PROVE  /\ Above(text, k) = {} => HeadingAbove(text, k) = NoHeading
         /\ Above(text, k) # {} => /\ HeadingAbove(text, k) = text[Max(Above(text, k))]
                                   /\ Max(Above(text, k)) \in Above(text, k)
         /\ HeadingAbove(text, k) \in Headings \cup {NoHeading}
<1>1. HeadingAbove(text, k) = IF Above(text, k) = {} THEN NoHeading ELSE text[Max(Above(text, k))]
  BY DEF HeadingAbove, Above
<1>2. ASSUME Above(text, k) # {} PROVE Max(Above(text, k)) \in Above(text, k)
  <2>1. Above(text, k) \subseteq 1..k - 1
    BY DEF Above
  <2>2. PICK n \in Nat : n = k - 1
    OBVIOUS
  <2> QED BY <1>2, <2>1, <2>2, MaxIsMember
<1>3. \A j \in Above(text, k) : text[j] \in Headings
  BY DEF Above
<1> QED BY <1>1, <1>2, <1>3, Zenon

\* Texts with the same headings before two places.
LEMMA SameAbove ==
  ASSUME NEW s, NEW t, NEW k, NEW m, k - 1 \in Nat, m - 1 \in Nat, Above(s, k) = Above(t, m),
         \A j \in Above(s, k) : s[j] = t[j]
  PROVE  HeadingAbove(s, k) = HeadingAbove(t, m)
<1>1. CASE Above(s, k) = {}
  BY <1>1, AboveIs, Zenon
<1>2. CASE Above(s, k) # {}
  BY <1>2, AboveIs, Zenon
<1> QED BY <1>1, <1>2

\* Another part moves no unit from below its heading.
AppendsBelow(more, t, part, n) ==
    /\ \A k \in 1..n + 1 : HeadingAbove(more, k) = HeadingAbove(t, k)
    /\ part \in Headings => HeadingAbove(more, n + 2) = part
    /\ part \notin Headings => HeadingAbove(more, n + 2) = Final(t)

LEMMA AboveOfAppend ==
  ASSUME NEW t \in Text, NEW part \in Parts, NEW n \in Nat, n = Len(t),
         NEW more, Appends(more, t, part, n)
  PROVE  AppendsBelow(more, t, part, n)
<1>1. more[n + 1] = part /\ \A i \in 1..n : t[i] = more[i]
  BY Zenon DEF Appends, Agree
<1>2. ASSUME NEW k \in 1..n + 1 PROVE HeadingAbove(more, k) = HeadingAbove(t, k)
  <2>1. k - 1 \in Nat /\ \A j \in 1..k - 1 : j \in 1..n
    OBVIOUS
  <2>2. Above(more, k) = Above(t, k) /\ \A j \in Above(more, k) : more[j] = t[j]
    BY <1>1, <2>1, Zenon DEF Above
  <2> QED BY <2>1, <2>2, SameAbove
<1>3. PICK m \in Nat : m = n + 2 /\ m - 1 = n + 1 /\ m - 1 \in Nat
  OBVIOUS
<1>4. n + 1 \in 1..m - 1 /\ \A j \in 1..m - 1 : j <= n + 1 /\ (j # n + 1 => j \in 1..n)
  BY <1>3
<1>5. CASE part \in Headings
  <2>1. n + 1 \in Above(more, m) /\ \A j \in Above(more, m) : j <= n + 1
    BY <1>1, <1>4, <1>5 DEF Above
  <2>2. Max(Above(more, m)) = n + 1
    <3>1. Above(more, m) \in SUBSET Int
      BY DEF Above
    <3> QED BY <2>1, <3>1, MaxIs, Zenon
  <2>3. HeadingAbove(more, m) = part
    BY <1>1, <1>3, <2>1, <2>2, AboveIs, Zenon
  <2> QED BY <1>2, <1>3, <1>5, <2>3 DEF AppendsBelow
<1>6. CASE part \notin Headings
  <2>1. n + 1 - 1 = n /\ n + 1 - 1 \in Nat
    OBVIOUS
  <2>2. \A j : j \in 1..m - 1 => j \in 1..n \/ j = n + 1
    BY <1>4
  <2>3. \A j \in 1..n : j \in 1..m - 1
    BY <1>3
  <2>4. Above(more, m) = Above(t, n + 1) /\ \A j \in Above(more, m) : more[j] = t[j]
    BY <1>1, <1>6, <2>1, <2>2, <2>3 DEF Above
  <2>5. HeadingAbove(more, m) = HeadingAbove(t, n + 1)
    BY <1>3, <2>1, <2>4, SameAbove
  <2> QED BY <1>2, <1>3, <1>6, <2>5 DEF Final, AppendsBelow
<1> QED BY <1>5, <1>6

LEMMA FinalOfAppend ==
  ASSUME NEW t \in Text, NEW part \in Parts
  PROVE  Final(Append(t, part)) = IF part \in Headings THEN part ELSE Final(t)
<1>1. PICK n \in Nat : n = Len(t)
  BY LenProperties DEF Text
<1>2. PICK more : more = Append(t, part)
  OBVIOUS
<1>3. Appends(more, t, part, n) /\ Len(more) = n + 1
  <2>1. Appends(more, t, part, n)
    BY <1>1, <1>2, AppendElements DEF Text, Parts
  <2> QED BY <2>1 DEF Appends
<1>4. Final(more) = HeadingAbove(more, n + 2)
  <2>1. Len(more) + 1 = n + 2
    BY <1>3
  <2> QED BY <2>1 DEF Final
<1>5. AppendsBelow(more, t, part, n)
  BY <1>1, <1>3, AboveOfAppend
<1> QED BY <1>2, <1>4, <1>5, Zenon DEF AppendsBelow

LEMMA FinalOfEmpty == Final(<<>>) = NoHeading
<1>1. <<>> \in Text /\ \A j \in 1..Len(<<>>) : <<>>[j] \notin Headings
  BY EmptySeq DEF Text
<1> QED BY <1>1, FinalIsLast

\* What a reader takes of a part of a text.
Reads == [unit : Contents, under : Headings \cup {NoHeading}]
Taken(unit, heading) == IF unit \in Contents THEN <<[unit |-> unit, under |-> heading]>> ELSE <<>>

LEMMA TakenType ==
  ASSUME NEW unit, NEW heading \in Headings \cup {NoHeading}
  PROVE  Taken(unit, heading) \in Seq(Reads)
<1>1. CASE unit \in Contents
  <2>1. [unit |-> unit, under |-> heading] \in Reads
    BY <1>1 DEF Reads
  <2>2. Taken(unit, heading) = <<[unit |-> unit, under |-> heading]>>
    BY <1>1 DEF Taken
  <2> QED BY <2>1, <2>2
<1>2. CASE unit \notin Contents
  BY <1>2, EmptySeq DEF Taken
<1> QED BY <1>1, <1>2

LEMMA ReadingIs ==
  ASSUME NEW t \in Text
  PROVE  \E f \in Seq(Seq(Reads)) :
            /\ Reading(t) = FlattenSeq(f) /\ Len(f) = Len(t)
            /\ f = [k \in DOMAIN t |-> Taken(t[k], HeadingAbove(t, k))]
<1>1. PICK f : f = [k \in DOMAIN t |-> Taken(t[k], HeadingAbove(t, k))]
  OBVIOUS
<1>2. Reading(t) = FlattenSeq(f)
  BY <1>1 DEF Reading, Taken
<1>3. ASSUME NEW k \in DOMAIN t PROVE f[k] \in Seq(Reads)
  <2>1. k - 1 \in Nat
    BY LenProperties DEF Text
  <2>2. HeadingAbove(t, k) \in Headings \cup {NoHeading}
    BY <2>1, AboveIs
  <2> QED BY <1>1, <2>2, TakenType
<1>4. f = [k \in DOMAIN t |-> f[k]]
  BY <1>1
<1>5. PICK S : S = Seq(Reads)
  OBVIOUS
<1>6. f \in Seq(S) /\ Len(f) = Len(t)
  BY <1>3, <1>4, <1>5, MapIsSequence DEF Text
<1> QED BY <1>1, <1>2, <1>5, <1>6

LEMMA ReadingOfEmpty == Reading(<<>>) = <<>>
<1>1. <<>> \in Text
  BY EmptySeq DEF Text
<1>2. PICK f \in Seq(Seq(Reads)) : Reading(<<>>) = FlattenSeq(f) /\ Len(f) = Len(<<>>)
  BY <1>1, ReadingIs
<1>3. f = <<>>
  BY <1>2, EmptySeq
<1> QED BY <1>2, <1>3, FlattenEmpty

LEMMA ReadingType == ASSUME NEW t \in Text PROVE Reading(t) \in Seq(Reads)
  BY ReadingIs, FlattenType

LEMMA ReadingOfAppend ==
  ASSUME NEW t \in Text, NEW part \in Parts
  PROVE  Reading(Append(t, part)) = Reading(t) \o Taken(part, Final(t))
<1>1. PICK n \in Nat : n = Len(t) /\ DOMAIN t = 1..n
  BY LenProperties DEF Text
<1>2. PICK more \in Text : more = Append(t, part)
  BY AppendProperties DEF Text, Parts
<1>3. Appends(more, t, part, n) /\ Len(more) = n + 1 /\ DOMAIN more = 1..n + 1
  <2>1. Appends(more, t, part, n)
    BY <1>1, <1>2, AppendElements DEF Text, Parts
  <2> QED BY <2>1, LenProperties DEF Appends, Text
<1>4. PICK f \in Seq(Seq(Reads)) :
        /\ Reading(t) = FlattenSeq(f) /\ Len(f) = n
        /\ f = [k \in DOMAIN t |-> Taken(t[k], HeadingAbove(t, k))]
  BY <1>1, ReadingIs
<1>5. PICK g \in Seq(Seq(Reads)) :
        /\ Reading(more) = FlattenSeq(g) /\ Len(g) = n + 1
        /\ g = [k \in DOMAIN more |-> Taken(more[k], HeadingAbove(more, k))]
  BY <1>3, ReadingIs
<1>6. more[n + 1] = part /\ \A i \in 1..n : t[i] = more[i]
  BY <1>3, Zenon DEF Appends, Agree
<1>7. \A k \in 1..n + 1 : HeadingAbove(more, k) = HeadingAbove(t, k)
  <2>1. AppendsBelow(more, t, part, n)
    BY <1>1, <1>3, AboveOfAppend
  <2> QED BY <2>1, Zenon DEF AppendsBelow
<1>8. n + 1 \in 1..n + 1 /\ \A i \in 1..n : i \in 1..n + 1
  OBVIOUS
<1>9. g[n + 1] = Taken(part, Final(t))
  <2>1. g[n + 1] = Taken(more[n + 1], HeadingAbove(more, n + 1))
    BY <1>3, <1>5, <1>8, Zenon
  <2> QED BY <1>1, <1>6, <1>7, <1>8, <2>1, Zenon DEF Final
<1>10. Agree(f, g, n)
  <2>1. ASSUME NEW i \in 1..n PROVE f[i] = g[i]
    <3>1. f[i] = Taken(t[i], HeadingAbove(t, i))
      BY <1>1, <1>4, Zenon
    <3>2. g[i] = Taken(more[i], HeadingAbove(more, i))
      BY <1>3, <1>5, <1>8, Zenon
    <3> QED BY <1>6, <1>7, <1>8, <3>1, <3>2, Zenon
  <2> QED BY <2>1, Zenon DEF Agree
<1>11. FlattenSeq(g) = FlattenSeq(f) \o g[n + 1]
  <2>1. n = Len(f) /\ Len(g) = n + 1
    BY <1>4, <1>5
  <2> QED BY <1>10, <2>1, FlattenLonger
<1> QED BY <1>2, <1>4, <1>5, <1>9, <1>11, Zenon

\* Where two texts end under one heading, whatever follows is read alike after
\* both.
LEMMA ReadAlike ==
  ASSUME NEW x \in Text, NEW y \in Text, Final(x) = Final(y), NEW t \in Text
  PROVE  /\ Final(x \o t) = Final(y \o t)
         /\ \E r \in Seq(Reads) : /\ Reading(x \o t) = Reading(x) \o r
                                  /\ Reading(y \o t) = Reading(y) \o r
<1> DEFINE Alike(u) == /\ Final(x \o u) = Final(y \o u)
                       /\ \E r \in Seq(Reads) : /\ Reading(x \o u) = Reading(x) \o r
                                                /\ Reading(y \o u) = Reading(y) \o r
           T == {u \in Seq(Parts) : Alike(u)}
<1>1. <<>> \in T
  <2>1. <<>> \in Seq(Parts) /\ x \o <<>> = x /\ y \o <<>> = y
    BY EmptySeq, ConcatEmptySeq DEF Text
  <2>2. Reading(x) \o <<>> = Reading(x) /\ Reading(y) \o <<>> = Reading(y) /\ <<>> \in Seq(Reads)
    BY ReadingType, EmptySeq, ConcatEmptySeq
  <2> QED BY <2>1, <2>2
<1>2. ASSUME NEW u \in Seq(Parts), NEW part \in Parts, u \in T
      PROVE  Append(u, part) \in T
  <2>1. PICK r \in Seq(Reads) : Reading(x \o u) = Reading(x) \o r /\ Reading(y \o u) = Reading(y) \o r
    BY <1>2
  <2>2. x \o u \in Text /\ y \o u \in Text /\ Append(u, part) \in Seq(Parts)
        /\ Final(x \o u) = Final(y \o u)
    BY <1>2, ConcatProperties, AppendProperties DEF Text, Parts
  <2>3. /\ x \o Append(u, part) = Append(x \o u, part)
        /\ y \o Append(u, part) = Append(y \o u, part)
    <3>1. x \in Seq(Parts) /\ y \in Seq(Parts)
      BY DEF Text, Parts
    <3>2. x \o Append(u, part) = Append(x \o u, part)
      BY <3>1, ConcatAppend
    <3>3. y \o Append(u, part) = Append(y \o u, part)
      BY <3>1, ConcatAppend
    <3> QED BY <3>2, <3>3
  <2>4. PICK e \in Seq(Reads) : e = Taken(part, Final(x \o u))
    <3>1. Final(x \o u) \in Headings \cup {NoHeading}
      <4>1. Len(x \o u) + 1 - 1 \in Nat
        BY <2>2, LenProperties DEF Text
      <4> QED BY <4>1, AboveIs DEF Final
    <3> QED BY <3>1, TakenType
  <2>5. /\ Reading(x \o Append(u, part)) = (Reading(x) \o r) \o e
        /\ Reading(y \o Append(u, part)) = (Reading(y) \o r) \o e
    BY <2>1, <2>2, <2>3, <2>4, ReadingOfAppend
  <2>6. Associate(Reading(x), r, e) /\ Associate(Reading(y), r, e) /\ r \o e \in Seq(Reads)
    BY ReadingType, ConcatAssociate, ConcatProperties
  <2>7. Final(x \o Append(u, part)) = Final(y \o Append(u, part))
    <3>1. Final(Append(x \o u, part)) = IF part \in Headings THEN part ELSE Final(x \o u)
      BY <2>2, FinalOfAppend
    <3>2. Final(Append(y \o u, part)) = IF part \in Headings THEN part ELSE Final(y \o u)
      BY <2>2, FinalOfAppend
    <3> QED BY <2>2, <2>3, <3>1, <3>2, Zenon
  <2> QED BY <2>2, <2>5, <2>6, <2>7 DEF Associate
<1> HIDE DEF T
<1>3. Seq(Parts) \subseteq T
  BY <1>1, <1>2, SequenceInduction
<1> QED BY <1>3 DEF T, Text, Parts

\* If nothing has been read of one of them, what follows is all that is read of it.
LEMMA ReadOn ==
  ASSUME NEW x \in Text, NEW y \in Text, Final(x) = Final(y), Reading(y) = <<>>, NEW t \in Text
  PROVE  /\ Reading(x \o t) = Reading(x) \o Reading(y \o t)
         /\ Final(x \o t) = Final(y \o t)
<1>1. PICK r \in Seq(Reads) : /\ Reading(x \o t) = Reading(x) \o r
                              /\ Reading(y \o t) = Reading(y) \o r
  BY ReadAlike
<1>2. <<>> \o r = r
  BY ConcatEmptySeq
<1>3. Final(x \o t) = Final(y \o t)
  BY ReadAlike
<1> QED BY <1>1, <1>2, <1>3, Zenon

\* The units of a text.
UnitOf(part) == IF part \in Contents THEN <<part>> ELSE <<>>

LEMMA UnitOfType == ASSUME NEW part PROVE UnitOf(part) \in Seq(Contents)
<1>1. CASE part \in Contents
  BY <1>1 DEF UnitOf
<1>2. CASE part \notin Contents
  BY <1>2, EmptySeq DEF UnitOf
<1> QED BY <1>1, <1>2

LEMMA UnitsOfIs ==
  ASSUME NEW t \in Text
  PROVE  \E f \in Seq(Seq(Contents)) :
            /\ UnitsOf(t) = FlattenSeq(f) /\ Len(f) = Len(t)
            /\ f = [k \in DOMAIN t |-> UnitOf(t[k])]
<1>1. PICK f : f = [k \in DOMAIN t |-> UnitOf(t[k])]
  OBVIOUS
<1>2. UnitsOf(t) = FlattenSeq(f)
  BY <1>1 DEF UnitsOf, UnitOf
<1>3. f = [k \in DOMAIN t |-> f[k]] /\ \A k \in DOMAIN t : f[k] \in Seq(Contents)
  BY <1>1, UnitOfType
<1>4. PICK S : S = Seq(Contents)
  OBVIOUS
<1>5. f \in Seq(S) /\ Len(f) = Len(t)
  BY <1>3, <1>4, MapIsSequence DEF Text
<1> QED BY <1>1, <1>2, <1>4, <1>5

LEMMA UnitsOfEmpty == UnitsOf(<<>>) = <<>>
<1>1. <<>> \in Text
  BY EmptySeq DEF Text
<1>2. PICK f \in Seq(Seq(Contents)) : UnitsOf(<<>>) = FlattenSeq(f) /\ Len(f) = Len(<<>>)
  BY <1>1, UnitsOfIs
<1>3. f = <<>>
  BY <1>2, EmptySeq
<1> QED BY <1>2, <1>3, FlattenEmpty

LEMMA UnitsOfType == ASSUME NEW t \in Text PROVE UnitsOf(t) \in Seq(Contents)
  BY UnitsOfIs, FlattenType

LEMMA UnitsOfAppend ==
  ASSUME NEW t \in Text, NEW part \in Parts
  PROVE  UnitsOf(Append(t, part)) = UnitsOf(t) \o UnitOf(part)
<1>1. PICK n \in Nat : n = Len(t) /\ DOMAIN t = 1..n
  BY LenProperties DEF Text
<1>2. PICK more \in Text : more = Append(t, part)
  BY AppendProperties DEF Text, Parts
<1>3. Appends(more, t, part, n) /\ Len(more) = n + 1 /\ DOMAIN more = 1..n + 1
  <2>1. Appends(more, t, part, n)
    BY <1>1, <1>2, AppendElements DEF Text, Parts
  <2> QED BY <2>1, LenProperties DEF Appends, Text
<1>4. PICK f \in Seq(Seq(Contents)) :
        /\ UnitsOf(t) = FlattenSeq(f) /\ Len(f) = n
        /\ f = [k \in DOMAIN t |-> UnitOf(t[k])]
  BY <1>1, UnitsOfIs
<1>5. PICK g \in Seq(Seq(Contents)) :
        /\ UnitsOf(more) = FlattenSeq(g) /\ Len(g) = n + 1
        /\ g = [k \in DOMAIN more |-> UnitOf(more[k])]
  BY <1>3, UnitsOfIs
<1>6. more[n + 1] = part /\ \A i \in 1..n : t[i] = more[i]
  BY <1>3, Zenon DEF Appends, Agree
<1>7. n + 1 \in 1..n + 1 /\ \A i \in 1..n : i \in 1..n + 1
  OBVIOUS
<1>8. g[n + 1] = UnitOf(part)
  BY <1>3, <1>5, <1>6, <1>7, Zenon
<1>9. Agree(f, g, n)
  <2>1. ASSUME NEW i \in 1..n PROVE f[i] = g[i]
    <3>1. f[i] = UnitOf(t[i])
      BY <1>1, <1>4, Zenon
    <3>2. g[i] = UnitOf(more[i])
      BY <1>3, <1>5, <1>7, Zenon
    <3> QED BY <1>6, <3>1, <3>2, Zenon
  <2> QED BY <2>1, Zenon DEF Agree
<1>10. FlattenSeq(g) = FlattenSeq(f) \o g[n + 1]
  <2>1. n = Len(f) /\ Len(g) = n + 1
    BY <1>4, <1>5
  <2> QED BY <1>9, <2>1, FlattenLonger
<1> QED BY <1>2, <1>4, <1>5, <1>8, <1>10, Zenon

LEMMA UnitsOfConcat ==
  ASSUME NEW s \in Text, NEW t \in Text
  PROVE  UnitsOf(s \o t) = UnitsOf(s) \o UnitsOf(t)
<1> DEFINE T == {u \in Seq(Parts) : UnitsOf(s \o u) = UnitsOf(s) \o UnitsOf(u)}
<1>1. <<>> \in T
  <2>1. <<>> \in Seq(Parts) /\ s \o <<>> = s
    BY EmptySeq, ConcatEmptySeq DEF Text
  <2>2. UnitsOf(s) \o <<>> = UnitsOf(s)
    BY UnitsOfType, ConcatEmptySeq
  <2> QED BY <2>1, <2>2, UnitsOfEmpty
<1>2. ASSUME NEW u \in Seq(Parts), NEW part \in Parts, u \in T
      PROVE  Append(u, part) \in T
  <2>1. u \in Text /\ s \o u \in Text /\ Append(u, part) \in Seq(Parts)
    BY ConcatProperties, AppendProperties DEF Text, Parts
  <2>2. s \o Append(u, part) = Append(s \o u, part)
    BY ConcatAppend DEF Text, Parts
  <2>3. /\ UnitsOf(Append(s \o u, part)) = (UnitsOf(s) \o UnitsOf(u)) \o UnitOf(part)
        /\ UnitsOf(Append(u, part)) = UnitsOf(u) \o UnitOf(part)
    BY <1>2, <2>1, UnitsOfAppend
  <2>4. Associate(UnitsOf(s), UnitsOf(u), UnitOf(part))
    BY <2>1, UnitsOfType, UnitOfType, ConcatAssociate
  <2> QED BY <2>1, <2>2, <2>3, <2>4 DEF Associate
<1> HIDE DEF T
<1>3. Seq(Parts) \subseteq T
  BY <1>1, <1>2, SequenceInduction
<1> QED BY <1>3 DEF T, Text, Parts

\* A text that begins with a heading.
LEMMA HeadingFirst ==
  ASSUME NEW t \in Text, t # <<>>, NEW heading \in Headings, heading = Head(t)
  PROVE  /\ <<heading>> \in Text /\ Tail(t) \in Text /\ t = <<heading>> \o Tail(t)
         /\ Final(<<heading>>) = heading /\ Reading(<<heading>>) = <<>>
         /\ UnitsOf(<<heading>>) = <<>>
<1>1. heading \in Parts /\ heading \notin Contents /\ <<>> \in Text
  BY ChunkingAssumption, EmptySeq DEF Parts, Text
<1>2. <<heading>> \in Text /\ Tail(t) \in Text /\ t = <<heading>> \o Tail(t)
  <2>1. <<heading>> \in Text
    BY <1>1 DEF Text, Parts
  <2>2. Tail(t) \in Text
    BY HeadTailProperties DEF Text
  <2> QED BY <2>1, <2>2 DEF Text
<1>3. <<heading>> = Append(<<>>, heading)
  OBVIOUS
<1>4. Final(<<heading>>) = heading
  <2>1. Final(Append(<<>>, heading)) = IF heading \in Headings THEN heading ELSE Final(<<>>)
    BY <1>1, FinalOfAppend
  <2> QED BY <1>3, <2>1
<1>5. Reading(<<heading>>) = <<>>
  <2>1. Taken(heading, Final(<<>>)) = <<>>
    BY <1>1 DEF Taken
  <2>2. <<>> \o <<>> = <<>>
    OBVIOUS
  <2> QED BY <1>1, <1>3, <2>1, <2>2, ReadingOfEmpty, ReadingOfAppend
<1>6. UnitsOf(<<heading>>) = <<>>
  <2>1. UnitOf(heading) = <<>>
    BY <1>1 DEF UnitOf
  <2>2. <<>> \o <<>> = <<>>
    OBVIOUS
  <2> QED BY <1>1, <1>3, <2>1, <2>2, UnitsOfEmpty, UnitsOfAppend
<1> QED BY <1>2, <1>4, <1>5, <1>6

\* A join loses no unit: what it drops is a heading.
LEMMA JoinKeepsUnits ==
  ASSUME NEW a \in Proper, NEW b \in Proper
  PROVE  UnitsOf(Join(a, b)) = UnitsOf(a) \o UnitsOf(b)
<1>1. a \in Text /\ b \in Text /\ b # <<>>
  BY DEF Proper
<1>2. CASE ~Repeats(a, b)
  BY <1>1, <1>2, UnitsOfConcat DEF Join
<1>3. CASE Repeats(a, b)
  <2>1. PICK heading \in Headings : heading = Head(b)
    BY <1>1, <1>3, LeadingIs DEF Repeats
  <2>2. /\ <<heading>> \in Text /\ Tail(b) \in Text /\ b = <<heading>> \o Tail(b)
        /\ UnitsOf(<<heading>>) = <<>>
    BY <1>1, <2>1, HeadingFirst
  <2>3. UnitsOf(b) = <<>> \o UnitsOf(Tail(b))
    BY <2>2, UnitsOfConcat
  <2>4. <<>> \o UnitsOf(Tail(b)) = UnitsOf(Tail(b))
    BY <2>2, UnitsOfType, ConcatEmptySeq
  <2>5. Join(a, b) = a \o Tail(b)
    BY <1>3 DEF Join
  <2> QED BY <1>1, <2>2, <2>3, <2>4, <2>5, UnitsOfConcat
<1> QED BY <1>2, <1>3

\* Nor does it move one from below its heading, if a heading it drops is the one
\* the earlier text ends under, and a text without one follows none.
LEMMA JoinKeepsReading ==
  ASSUME NEW a \in Proper, NEW b \in Proper,
         Repeats(a, b) => Final(a) = Leading(b),
         Leading(b) = NoHeading => Final(a) = NoHeading
  PROVE  /\ Reading(Join(a, b)) = Reading(a) \o Reading(b)
         /\ Final(Join(a, b)) = Final(b)
<1>1. a \in Text /\ b \in Text /\ b # <<>>
  BY DEF Proper
<1>2. CASE Head(b) \in Headings
  <2>1. PICK heading \in Headings : heading = Head(b)
    BY <1>2
  <2>2. Leading(b) = heading
    BY <1>1, <2>1, LeadingIs
  <2>3. PICK rest \in Text : rest = Tail(b)
    BY <1>1, <2>1, HeadingFirst
  <2>4. /\ <<heading>> \in Text /\ b = <<heading>> \o rest
        /\ Final(<<heading>>) = heading /\ Reading(<<heading>>) = <<>>
    BY <1>1, <2>1, <2>3, HeadingFirst
  <2>6. CASE Repeats(a, b)
    <3>1. Final(a) = Final(<<heading>>) /\ Join(a, b) = a \o rest
      BY <2>2, <2>3, <2>4, <2>6 DEF Join
    <3>2. /\ Reading(a \o rest) = Reading(a) \o Reading(<<heading>> \o rest)
          /\ Final(a \o rest) = Final(<<heading>> \o rest)
      BY <1>1, <2>4, <3>1, ReadOn
    <3> QED BY <2>4, <3>1, <3>2, Zenon
  <2>7. CASE ~Repeats(a, b)
    <3>1. heading \in Parts
      BY <2>1 DEF Parts
    <3>2. PICK x : x = Append(a, heading)
      OBVIOUS
    <3>3. x \in Text /\ x = a \o <<heading>>
      BY <1>1, <3>1, <3>2, AppendProperties, AppendIsConcat DEF Text, Parts
    <3>4. Final(x) = Final(<<heading>>) /\ Reading(x) = Reading(a)
      <4>1. heading \notin Contents
        BY <2>1, ChunkingAssumption
      <4>2. Reading(a) \o <<>> = Reading(a)
        BY <1>1, ReadingType, ConcatEmptySeq
      <4>3. Taken(heading, Final(a)) = <<>>
        BY <4>1 DEF Taken
      <4>4. Reading(x) = Reading(a) \o Taken(heading, Final(a)) /\ Final(x) = heading
        BY <1>1, <3>1, <3>2, ReadingOfAppend, FinalOfAppend
      <4> QED BY <2>4, <4>2, <4>3, <4>4
    <3>5. Join(a, b) = x \o rest
      <4>1. Associate(a, <<heading>>, rest)
        BY <1>1, <2>4, ConcatAssociate DEF Text
      <4> QED BY <2>4, <2>7, <3>3, <4>1 DEF Join, Associate
    <3>6. /\ Reading(x \o rest) = Reading(x) \o Reading(<<heading>> \o rest)
          /\ Final(x \o rest) = Final(<<heading>> \o rest)
      BY <2>4, <3>3, <3>4, ReadOn
    <3> QED BY <2>4, <3>4, <3>5, <3>6, Zenon
  <2> QED BY <2>6, <2>7
<1>3. CASE Head(b) \notin Headings
  <2>1. Leading(b) = NoHeading
    BY <1>1, <1>3, LeadingIs
  <2>2. Join(a, b) = a \o b /\ <<>> \in Text /\ Final(a) = Final(<<>>)
    BY <2>1, FinalOfEmpty, EmptySeq DEF Join, Repeats, Text
  <2>3. <<>> \o b = b
    BY <1>1, ConcatEmptySeq DEF Text
  <2>4. /\ Reading(a \o b) = Reading(a) \o Reading(<<>> \o b)
        /\ Final(a \o b) = Final(<<>> \o b)
    BY <1>1, <2>2, ReadOn, ReadingOfEmpty
  <2> QED BY <2>2, <2>3, <2>4, Zenon
<1> QED BY <1>2, <1>3

\* The whole content through a merge: what the two texts hold, the one does.
LEMMA UnitsStay ==
  ASSUME NEW ts \in Seq(Proper), NEW us \in Seq(Proper), NEW n \in Nat, n = Len(ts),
         NEW l \in 1..n - 1, Merges(us, ts, l, Join(ts[l], ts[l + 1]), n)
  PROVE  Units(us) = Units(ts)
<1>1. PICK F : F = [t \in Proper |-> UnitsOf(t)]
  OBVIOUS
<1>2. Maps(F, Proper, Contents)
  BY <1>1, UnitsOfType DEF Proper, Maps
<1>3. PICK a \in Proper, b \in Proper : a = ts[l] /\ b = ts[l + 1]
  BY ElementOfSeq
<1>4. PICK e \in Proper : e = Join(a, b)
  BY JoinIsConcat
<1>5. F[e] = F[a] \o F[b]
  BY <1>1, <1>4, JoinKeepsUnits
<1>6. \A s \in Seq(Proper) : Units(s) = FlattenSeq(Mapped(F, s))
  <2>1. SUFFICES ASSUME NEW s \in Seq(Proper)
                 PROVE  Units(s) = FlattenSeq(Mapped(F, s))
    OBVIOUS
  <2>2. \A k \in DOMAIN s : F[s[k]] = UnitsOf(s[k])
    BY <1>1, ElementOfSeq, LenProperties
  <2>3. Mapped(F, s) = [k \in DOMAIN s |-> UnitsOf(s[k])]
    BY <2>2 DEF Mapped
  <2> QED BY <2>3 DEF Units
<1>7. Merges(us, ts, l, e, n) /\ Glues(F, ts, l, e)
  BY <1>3, <1>4, <1>5 DEF Glues
<1>8. FlattenSeq(Mapped(F, us)) = FlattenSeq(Mapped(F, ts))
  BY <1>2, <1>7, MappedMerged
<1> QED BY <1>6, <1>8

\* And how a reader takes it stays, if the heading the join drops is right above.
LEMMA ReadingsStay ==
  ASSUME NEW ts \in Seq(Proper), NEW us \in Seq(Proper), NEW n \in Nat, n = Len(ts),
         NEW l \in 1..n - 1, Merges(us, ts, l, Join(ts[l], ts[l + 1]), n),
         Repeats(ts[l], ts[l + 1]) => Final(ts[l]) = Leading(ts[l + 1]),
         Leading(ts[l + 1]) = NoHeading => Final(ts[l]) = NoHeading
  PROVE  Readings(us) = Readings(ts)
<1>1. PICK F : F = [t \in Proper |-> Reading(t)]
  OBVIOUS
<1>2. Maps(F, Proper, Reads)
  BY <1>1, ReadingType DEF Proper, Maps
<1>3. PICK a \in Proper, b \in Proper : a = ts[l] /\ b = ts[l + 1]
  BY ElementOfSeq
<1>4. PICK e \in Proper : e = Join(a, b)
  BY JoinIsConcat
<1>5. F[e] = F[a] \o F[b]
  <2>1. Repeats(a, b) => Final(a) = Leading(b)
    BY <1>3
  <2>2. Leading(b) = NoHeading => Final(a) = NoHeading
    BY <1>3
  <2>3. Reading(Join(a, b)) = Reading(a) \o Reading(b)
    BY <2>1, <2>2, JoinKeepsReading
  <2> QED BY <1>1, <1>4, <2>3
<1>6. \A s \in Seq(Proper) : Readings(s) = FlattenSeq(Mapped(F, s))
  <2>1. SUFFICES ASSUME NEW s \in Seq(Proper)
                 PROVE  Readings(s) = FlattenSeq(Mapped(F, s))
    OBVIOUS
  <2>2. \A k \in DOMAIN s : F[s[k]] = Reading(s[k])
    BY <1>1, ElementOfSeq, LenProperties
  <2>3. Mapped(F, s) = [k \in DOMAIN s |-> Reading(s[k])]
    BY <2>2 DEF Mapped
  <2> QED BY <2>3 DEF Readings
<1>7. Merges(us, ts, l, e, n) /\ Glues(F, ts, l, e)
  BY <1>3, <1>4, <1>5 DEF Glues
<1>8. FlattenSeq(Mapped(F, us)) = FlattenSeq(Mapped(F, ts))
  BY <1>2, <1>7, MappedMerged
<1> QED BY <1>6, <1>8

\* A text begins under the heading of the section it came from, and ends under the
\* heading of section k, which is not before that one nor behind the later texts'.
Closes(n, k) ==
    /\ k \in DOMAIN doc
    /\ origins[n] <= k
    /\ Final(texts[n]) = doc[k].heading
    /\ \A m \in n + 1..Len(texts) : k <= origins[m]
Headed ==
    \A n \in 1..Len(texts) :
        /\ Leading(texts[n]) = doc[origins[n]].heading
        /\ \E k \in DOMAIN doc : Closes(n, k)

Faithful ==
    /\ doc \in Documents
    /\ pc \in {"floor", "collapse"} =>
          /\ ContentIsKept
          /\ pc = "floor" /\ HeadingsDiffer => Headed

LEMMA InitFaithful == ASSUME Init PROVE Faithful
<1>1. doc \in Documents /\ doc \in Seq(SectionsOf) /\ texts = Nodes(doc) /\ origins = Origins(doc)
  BY DocumentsAreSections DEF Init
<1>2. /\ origins \in Seq(DOMAIN doc) /\ Len(origins) = Len(texts)
      /\ \A k \in 1..Len(texts) :
            /\ Leading(texts[k]) = doc[origins[k]].heading
            /\ Final(texts[k]) = doc[origins[k]].heading
      /\ \A k, m \in 1..Len(texts) : k < m => origins[k] <= origins[m]
  BY <1>1, OriginsFit
<1>3. DOMAIN doc = 1..Len(doc) /\ Len(doc) \in Nat /\ Len(texts) \in Nat
  <2>1. Len(origins) \in Nat
    BY <1>2, LenProperties
  <2> QED BY <1>1, <1>2, <2>1, LenProperties
<1>4. ASSUME NEW n \in 1..Len(texts) PROVE Closes(n, origins[n]) /\ origins[n] \in DOMAIN doc
  <2>1. origins[n] \in DOMAIN doc
    BY <1>2, ElementOfSeq
  <2>2. \A m \in n + 1..Len(texts) : origins[n] <= origins[m]
    BY <1>2, <1>3
  <2> QED BY <1>2, <1>3, <2>1, <2>2 DEF Closes
<1>5. Headed
  BY <1>2, <1>4, Zenon DEF Headed
<1> QED BY <1>1, <1>5 DEF Faithful, ContentIsKept

\* What a join needs, if the headings differ.
LEMMA JoinsInPlace ==
  ASSUME doc \in Documents, HeadingsDiffer, Headed, Inv, Len(texts) \in Nat,
         NEW l \in 1..Len(texts) - 1, pc = "floor"
  PROVE  /\ Repeats(texts[l], texts[l + 1]) => Final(texts[l]) = Leading(texts[l + 1])
         /\ Leading(texts[l + 1]) = NoHeading => Final(texts[l]) = NoHeading
<1>1. l \in 1..Len(texts) /\ l + 1 \in 1..Len(texts) /\ l + 1 \in l + 1..Len(texts)
  OBVIOUS
<1>2. PICK k \in DOMAIN doc : Closes(l, k)
  BY <1>1 DEF Headed
<1>3. /\ Leading(texts[l]) = doc[origins[l]].heading
      /\ Leading(texts[l + 1]) = doc[origins[l + 1]].heading
  BY <1>1 DEF Headed
<1>4. origins \in Seq(DOMAIN doc) /\ Len(origins) = Len(texts)
  BY DEF Inv, TypeOK
<1>5. PICK o \in DOMAIN doc, p \in DOMAIN doc : o = origins[l] /\ p = origins[l + 1]
  BY <1>1, <1>4, ElementOfSeq
<1>6. DOMAIN doc = 1..Len(doc) /\ Len(doc) \in Nat
  BY DocumentsAreSections, LenProperties
<1>7. o <= k /\ k <= p /\ o \in Nat /\ k \in Nat /\ p \in Nat /\ 1 <= o
      /\ Final(texts[l]) = doc[k].heading
  BY <1>1, <1>2, <1>5, <1>6 DEF Closes
<1>8. ASSUME Repeats(texts[l], texts[l + 1]) PROVE Final(texts[l]) = Leading(texts[l + 1])
  <2>1. doc[p].heading = doc[o].heading
    BY <1>3, <1>5, <1>8 DEF Repeats
  <2>2. p = o
    BY <2>1 DEF HeadingsDiffer
  <2>3. k = p
    BY <1>7, <2>2
  <2> QED BY <1>3, <1>5, <1>7, <2>3
<1>9. ASSUME Leading(texts[l + 1]) = NoHeading PROVE Final(texts[l]) = NoHeading
  <2>1. doc[p].heading = NoHeading
    BY <1>3, <1>5, <1>9
  <2>2. p = 1
    BY <2>1 DEF Documents
  <2>3. k = p
    BY <1>7, <2>2
  <2> QED BY <1>7, <2>1, <2>3
<1> QED BY <1>8, <1>9

LEMMA MergeKeepsContent ==
  ASSUME Inv, Faithful, NEW l \in 1..Len(texts) - 1, FoldsAt(l), pc = "floor"
  PROVE  ContentIsKept'
<1>1. /\ texts \in Seq(Proper) /\ texts' \in Seq(Proper) /\ Len(texts) \in Nat
      /\ Merges(texts', texts, l, Join(texts[l], texts[l + 1]), Len(texts))
      /\ doc' = doc /\ pc' = pc
  BY LenProperties DEF Inv, FoldsAt
<1>2. doc \in Documents /\ (HeadingsDiffer => Headed)
  BY DEF Faithful
<1>3. Units(texts) = Units(Nodes(doc)) /\ (HeadingsDiffer => Readings(texts) = Readings(Nodes(doc)))
  BY DEF Faithful, ContentIsKept
<1>4. Units(texts') = Units(texts)
  BY <1>1, UnitsStay
<1>5. ASSUME HeadingsDiffer PROVE Readings(texts') = Readings(texts)
  <2>1. /\ Repeats(texts[l], texts[l + 1]) => Final(texts[l]) = Leading(texts[l + 1])
        /\ Leading(texts[l + 1]) = NoHeading => Final(texts[l]) = NoHeading
    BY <1>1, <1>2, <1>5, JoinsInPlace
  <2> QED BY <1>1, <2>1, ReadingsStay
<1>6. HeadingsDiffer' <=> HeadingsDiffer
  BY <1>1 DEF HeadingsDiffer
<1> QED BY <1>1, <1>3, <1>4, <1>5, <1>6 DEF ContentIsKept

\* The merged text begins as the earlier one did and ends as the later one did.
LEMMA MergeKeepsHeads ==
  ASSUME Inv, Headed, doc \in Documents, HeadingsDiffer,
         NEW l \in 1..Len(texts) - 1, FoldsAt(l), pc = "floor"
  PROVE  Headed'
<1> DEFINE len == Len(texts)
           Begun(n) == IF n <= l THEN n ELSE n + 1
           Ended(n) == IF n < l THEN n ELSE n + 1
<1>1. /\ texts \in Seq(Proper) /\ len \in Nat /\ doc' = doc
      /\ origins \in Seq(DOMAIN doc) /\ Len(origins) = len
  BY LenProperties DEF Inv, TypeOK, FoldsAt
<1>2. Len(texts') = len - 1 /\ texts'[l] = Join(texts[l], texts[l + 1])
  BY DEF FoldsAt, Merges
<1>3. ASSUME NEW n \in 1..len - 1
      PROVE  /\ Begun(n) \in 1..len /\ Ended(n) \in 1..len
             /\ origins'[n] = origins[Begun(n)]
             /\ n # l => texts'[n] = texts[Begun(n)] /\ Begun(n) = Ended(n)
  <2>1. /\ \A k \in 1..l - 1 : texts'[k] = texts[k] /\ origins'[k] = origins[k]
        /\ \A k \in l + 1..len - 1 : texts'[k] = texts[k + 1] /\ origins'[k] = origins[k + 1]
        /\ origins'[l] = origins[l]
    BY Zenon DEF FoldsAt, Merges
  <2>2. CASE n \in 1..l - 1
    BY <1>1, <2>1, <2>2
  <2>3. CASE n \in l + 1..len - 1
    BY <1>1, <2>1, <2>3
  <2>4. CASE n = l
    BY <1>1, <2>1, <2>4
  <2> QED BY <1>1, <2>2, <2>3, <2>4
<1>4. \A m \in 1..len : origins[m] \in DOMAIN doc /\ origins[m] \in Nat
  <2>1. DOMAIN doc \subseteq Nat
    BY DocumentsAreSections, LenProperties
  <2> QED BY <1>1, <2>1, ElementOfSeq
<1>5. l \in 1..len /\ l + 1 \in 1..len /\ l + 1 \in l + 1..len /\ Begun(l) = l /\ Ended(l) = l + 1
  BY <1>1
<1>6. /\ Leading(texts'[l]) = Leading(texts[l])
      /\ Final(texts'[l]) = Final(texts[l + 1])
  <2>1. PICK a \in Proper, b \in Proper : a = texts[l] /\ b = texts[l + 1]
    BY <1>1, <1>5, ElementOfSeq
  <2>2. Leading(Join(a, b)) = Leading(a)
    BY JoinIsConcat
  <2>3. /\ Repeats(a, b) => Final(a) = Leading(b)
        /\ Leading(b) = NoHeading => Final(a) = NoHeading
    BY <1>1, <2>1, JoinsInPlace
  <2>4. Final(Join(a, b)) = Final(b)
    BY <2>3, JoinKeepsReading
  <2> QED BY <1>2, <2>1, <2>2, <2>4
<1>7. origins[l] <= origins[l + 1]
  <2>1. PICK k \in DOMAIN doc : Closes(l, k)
    BY <1>5 DEF Headed
  <2>2. origins[l] <= k /\ k <= origins[l + 1] /\ k \in Nat
    <3>1. DOMAIN doc \subseteq Nat
      BY DocumentsAreSections, LenProperties
    <3> QED BY <1>5, <2>1, <3>1 DEF Closes
  <2> QED BY <1>4, <1>5, <2>2
<1>8. ASSUME NEW n \in 1..len - 1
      PROVE  /\ Leading(texts'[n]) = doc[origins'[n]].heading
             /\ \E k \in DOMAIN doc : Closes(n, k)'
  <2>1. /\ Leading(texts'[n]) = Leading(texts[Begun(n)])
        /\ Final(texts'[n]) = Final(texts[Ended(n)])
        /\ origins[Begun(n)] <= origins[Ended(n)]
    <3>1. CASE n = l
      BY <1>5, <1>6, <1>7, <3>1
    <3>2. CASE n # l
      BY <1>3, <1>4, <3>2
    <3> QED BY <3>1, <3>2
  <2>2. Leading(texts'[n]) = doc[origins'[n]].heading
    BY <1>3, <2>1 DEF Headed
  <2>3. PICK o \in 1..len : o = Ended(n)
    BY <1>3
  <2>4. PICK k \in DOMAIN doc : Closes(o, k)
    BY DEF Headed
  <2>5. /\ origins[o] <= k /\ Final(texts[o]) = doc[k].heading
        /\ \A m \in o + 1..len : k <= origins[m]
    BY <2>4 DEF Closes
  <2>6. origins'[n] <= k
    <3>1. k \in Nat
      BY DocumentsAreSections, LenProperties
    <3>2. origins[Begun(n)] \in Nat /\ origins[o] \in Nat
      BY <1>3, <1>4
    <3> QED BY <1>3, <2>1, <2>3, <2>5, <3>1, <3>2
  <2>7. ASSUME NEW m \in n + 1..len - 1 PROVE k <= origins'[m]
    <3>1. m \in 1..len - 1 /\ Begun(m) \in o + 1..len
      BY <1>1, <2>3
    <3> QED BY <1>3, <2>5, <3>1
  <2>8. Closes(n, k)'
    BY <1>1, <1>2, <2>1, <2>3, <2>5, <2>6, <2>7 DEF Closes
  <2> QED BY <2>2, <2>8
<1> QED BY <1>1, <1>2, <1>8 DEF Headed

LEMMA StepFaithful == ASSUME Inv, Faithful, [Next]_vars PROVE Faithful'
<1>1. CASE Merge
  <2>1. PICK l \in 1..Len(texts) - 1 : FoldsAt(l)
    BY <1>1, MergeFolds
  <2>2. pc = "floor" /\ doc' = doc /\ pc' = pc
    BY <1>1, <2>1 DEF Merge, Looping, FoldsAt
  <2>3. ContentIsKept'
    BY <2>1, <2>2, MergeKeepsContent
  <2>4. ASSUME HeadingsDiffer' PROVE Headed'
    <3>1. HeadingsDiffer
      BY <2>2, <2>4 DEF HeadingsDiffer
    <3>2. Headed /\ doc \in Documents
      BY <2>2, <3>1 DEF Faithful
    <3> QED BY <2>1, <2>2, <3>1, <3>2, MergeKeepsHeads
  <2> QED BY <2>2, <2>3, <2>4 DEF Faithful
<1>2. CASE Keep \/ Refuse \/ Stop \/ UNCHANGED vars
  <2>1. /\ UNCHANGED <<doc, texts, origins>>
        /\ pc' \in {"floor", "collapse"} => pc \in {"floor", "collapse"}
        /\ pc' = "floor" => pc = "floor"
    BY <1>2 DEF Keep, Refuse, Stop, Looping, vars
  <2>2. Units(texts') = Units(texts) /\ Readings(texts') = Readings(texts)
    BY <2>1
  <2>3. (HeadingsDiffer' <=> HeadingsDiffer) /\ (Headed' <=> Headed)
    BY <2>1 DEF HeadingsDiffer, Headed, Closes
  <2> QED BY <2>1, <2>2, <2>3 DEF Faithful, ContentIsKept
<1>3. CASE Collapse
  BY <1>3 DEF Collapse, Faithful
<1> QED BY <1>1, <1>2, <1>3 DEF Next

-----------------------------------------------------------------------------
(* What is proved.                                                         *)

\* The inductive invariant holds in every state, of any document (pipeline.py
\* _merge_below_floor, _dedupe_texts).
THEOREM InvAlways == Spec => []Inv
  BY InitInv, StepInv, PTL DEF Spec

\* The loop's state is always of its type (pipeline.py _merge_below_floor): the
\* place it is at is one of the texts' or the one behind them, though it steps
\* back, and no more is refused than it is past.
THEOREM TypeCorrect == Spec => []TypeOK
<1>1. Inv => TypeOK
  BY DEF Inv
<1> QED BY <1>1, InvAlways, PTL

\* No node is ever longer than the model reads (pipeline.py _merge_below_floor,
\* "legal"), if what the splitter divides fits the cap.
THEOREM NodesAreWithinCeiling == Spec => []WithinCeiling
<1>1. Inv => WithinCeiling
  BY DEF Inv
<1> QED BY <1>1, InvAlways, PTL

\* When the loop ends no text below the floor can be merged with a neighbour,
\* though texts grew after they were passed, and the refusals counted are exactly
\* those texts (pipeline.py _merge_below_floor).
THEOREM FloorIsAFixpoint == Spec => []FloorIsReached
<1>1. ASSUME Inv PROVE FloorIsReached
  <2>1. SUFFICES ASSUME pc = "collapse", Len(texts) > 1
                 PROVE  /\ \A n \in DOMAIN texts : Small(n) => Legal(n) = {}
                        /\ refusals = Cardinality({n \in DOMAIN texts : Small(n)})
    BY DEF FloorIsReached
  <2>2. Len(texts) \in Nat /\ DOMAIN texts = 1..Len(texts)
    BY <1>1, LenProperties DEF Inv
  <2>3. Len(texts) = 1 \/ index = Len(texts) + 1
    BY <1>1, <2>1, Zenon DEF Inv, Settled
  <2>4. index = Len(texts) + 1
    BY <2>1, <2>2, <2>3
  <2>5. Places = DOMAIN texts
    BY <2>2, <2>4 DEF Places
  <2> QED BY <1>1, <2>1, <2>5 DEF Inv, Settled, Fragments
<1> QED BY <1>1, InvAlways, PTL

\* The floor loses and reorders no unit of any document, and where no heading
\* repeats it leaves each unit below the heading it was written under, though a
\* join drops a heading that repeats (pipeline.py _merge_below_floor,
\* _without_repeated_heading).
THEOREM ContentStays == Spec => []ContentIsKept
<1>1. Init => Inv /\ Faithful
  BY InitInv, InitFaithful
<1>2. Inv /\ Faithful /\ [Next]_vars => (Inv /\ Faithful)'
  BY StepInv, StepFaithful
<1>3. Faithful => ContentIsKept
  BY DEF Faithful, ContentIsKept
<1> QED BY <1>1, <1>2, <1>3, PTL DEF Spec
=============================================================================
