---------------------------- MODULE SequenceFacts ----------------------------
(***************************************************************************)
(* What the proofs about texts need of the operators of the community      *)
(* modules: the greatest and the first of numbers, the concatenation of a  *)
(* sequence of sequences, and induction.                                   *)
(* An induction is over a set of numbers or of sequences, the members that *)
(* have the property to be shown.                                          *)
(***************************************************************************)
EXTENDS Integers, Sequences, FiniteSets, SequencesExt, FiniteSetsExt,
        SequenceTheorems, FiniteSetTheorems, WellFoundedInduction, TLAPS

-----------------------------------------------------------------------------
(* Induction.                                                              *)

Less == {pair \in Nat \X Nat : pair[1] < pair[2]}

LEMMA LessIsWellFounded == IsWellFoundedOn(Less, Nat)
  BY NatLessThanWellFounded DEF Less, OpToRel

\* A set of numbers that is not empty has a least.
LEMMA LeastNumber ==
  ASSUME NEW T, T \subseteq Nat, T # {}
  PROVE  \E x \in T : \A y \in T : x <= y
<1>1. PICK x \in T : \A y \in T : ~ (<<y, x>> \in Less)
  BY LessIsWellFounded, WFMin
<1>2. ASSUME NEW y \in T PROVE x <= y
  <2>1. x \in Nat /\ y \in Nat
    BY <1>1
  <2>2. y < x => <<y, x>> \in Less
    BY <2>1 DEF Less
  <2> QED BY <1>1, <2>1, <2>2
<1> QED BY <1>1, <1>2

\* Numbers up to a bound have a greatest.
LEMMA GreatestNumber ==
  ASSUME NEW n \in Nat, NEW T, T \subseteq 1..n, T # {}
  PROVE  \E x \in T : \A y \in T : y <= x
<1> DEFINE Bounds == {m \in Nat : \A y \in T : y <= m}
<1>1. n \in Bounds /\ Bounds \subseteq Nat
  OBVIOUS
<1>2. PICK x \in Bounds : \A m \in Bounds : x <= m
  BY <1>1, LeastNumber, Zenon
<1>3. x \in T
  <2>1. SUFFICES ASSUME x \notin T PROVE FALSE
    OBVIOUS
  <2>2. PICK z \in T : TRUE
    OBVIOUS
  <2>3. z >= 1 /\ z <= x /\ x \in Nat
    BY <1>2
  <2>4. x - 1 \in Nat
    BY <2>3
  <2>5. \A y \in T : y <= x - 1
    BY <1>2, <2>1, <2>3
  <2>6. x <= x - 1
    BY <1>2, <2>4, <2>5
  <2> QED BY <2>3, <2>6
<1> QED BY <1>2, <1>3

\* Max is it.
LEMMA MaxIs ==
  ASSUME NEW s \in SUBSET Int, NEW x \in s, \A y \in s : y <= x
  PROVE  Max(s) = x
<1>1. x \in s /\ \A y \in s : x >= y
  OBVIOUS
<1>2. ASSUME NEW z \in s, \A y \in s : z >= y PROVE z = x
  <2>1. z >= x /\ x >= z /\ z \in Int /\ x \in Int
    BY <1>1, <1>2
  <2> QED BY <2>1
<1> QED BY <1>1, <1>2 DEF Max

LEMMA MaxIsMember ==
  ASSUME NEW n \in Nat, NEW s, s \subseteq 1..n, s # {}
  PROVE  Max(s) \in s
<1>1. PICK x \in s : \A y \in s : y <= x
  BY GreatestNumber, Zenon
<1>2. s \in SUBSET Int
  OBVIOUS
<1>3. Max(s) = x
  BY <1>1, <1>2, MaxIs, Zenon
<1> QED BY <1>1, <1>3

\* A set that has 0, and with every number the next, has every number.
LEMMA Induction ==
  ASSUME NEW T, 0 \in T, \A n \in Nat : n \in T => n + 1 \in T
  PROVE  Nat \subseteq T
<1> SUFFICES ASSUME Nat \ T # {} PROVE FALSE
  OBVIOUS
<1>1. PICK x \in Nat \ T : \A y \in Nat \ T : x <= y
  BY LeastNumber
<1>2. x # 0 /\ x - 1 \in Nat
  BY <1>1
<1>3. x - 1 \in T
  BY <1>1, <1>2
<1> QED BY <1>1, <1>2, <1>3

\* The same from the end: a sequence is empty or one with an element appended.
LEMMA SequenceInduction ==
  ASSUME NEW S, NEW T, <<>> \in T,
         \A s \in Seq(S) : \A e \in S : s \in T => Append(s, e) \in T
  PROVE  Seq(S) \subseteq T
<1> DEFINE Lengths == {n \in Nat : \A s \in Seq(S) : Len(s) = n => s \in T}
<1>1. 0 \in Lengths
  BY EmptySeq
<1>2. ASSUME NEW n \in Nat, n \in Lengths PROVE n + 1 \in Lengths
  <2>1. ASSUME NEW s \in Seq(S), Len(s) = n + 1 PROVE s \in T
    <3>1. s # <<>>
      BY <2>1, EmptySeq
    <3>2. PICK front \in Seq(S), e \in S : s = Append(front, e)
      BY <3>1, SequenceEmptyOrAppend
    <3>3. Len(front) = n
      BY <2>1, <3>2, AppendProperties, LenProperties
    <3> QED BY <3>2, <3>3, <1>2
  <2> QED BY <2>1
<1> HIDE DEF Lengths
<1>3. Nat \subseteq Lengths
  BY <1>1, <1>2, Induction
<1> QED BY <1>3, LenProperties DEF Lengths

-----------------------------------------------------------------------------
(* Counting.                                                               *)

\* A set of places up to a place has as many members more as it goes on.
UpTo(S, k) == {m \in S : m <= k}

LEMMA CountGoesOn ==
  ASSUME NEW S \in SUBSET Nat, NEW k \in Nat, IsFiniteSet(UpTo(S, k))
  PROVE  /\ IsFiniteSet(UpTo(S, k + 1))
         /\ k + 1 \in S => Cardinality(UpTo(S, k + 1)) = Cardinality(UpTo(S, k)) + 1
         /\ k + 1 \notin S => UpTo(S, k + 1) = UpTo(S, k)
<1>0. \A m \in S : m \in Nat /\ (m <= k + 1 <=> m <= k \/ m = k + 1) /\ (m <= k => m # k + 1)
  OBVIOUS
<1>1. CASE k + 1 \in S
  <2>1. UpTo(S, k + 1) = UpTo(S, k) \cup {k + 1} /\ k + 1 \notin UpTo(S, k)
    BY <1>0, <1>1 DEF UpTo
  <2>2. /\ IsFiniteSet(UpTo(S, k) \cup {k + 1})
        /\ Cardinality(UpTo(S, k) \cup {k + 1}) = Cardinality(UpTo(S, k)) + 1
    BY <2>1, FS_AddElement
  <2> QED BY <1>1, <2>1, <2>2
<1>2. CASE k + 1 \notin S
  <2>1. UpTo(S, k + 1) = UpTo(S, k)
    BY <1>0, <1>2 DEF UpTo
  <2> QED BY <1>2, <2>1
<1> QED BY <1>1, <1>2

\* Each number up to that of a set's members is how many of them some member has up
\* to it.
LEMMA CountReaches ==
  ASSUME NEW S \in SUBSET (Nat \ {0}), NEW n \in Nat
  PROVE  /\ IsFiniteSet(UpTo(S, n))
         /\ \A j \in 1..Cardinality(UpTo(S, n)) :
               \E m \in UpTo(S, n) : Cardinality(UpTo(S, m)) = j
<1> DEFINE Reaches(k) == /\ IsFiniteSet(UpTo(S, k))
                         /\ \A j \in 1..Cardinality(UpTo(S, k)) :
                               \E m \in UpTo(S, k) : Cardinality(UpTo(S, m)) = j
           T == {k \in Nat : Reaches(k)}
<1>1. 0 \in T
  <2>1. \A m \in S : ~(m <= 0)
    OBVIOUS
  <2>2. UpTo(S, 0) = {}
    BY <2>1 DEF UpTo
  <2>3. IsFiniteSet({}) /\ Cardinality({}) = 0 /\ 1..0 = {}
    BY FS_EmptySet
  <2> QED BY <2>2, <2>3
<1>2. ASSUME NEW k \in Nat, k \in T PROVE k + 1 \in T
  <2>0. /\ IsFiniteSet(UpTo(S, k))
        /\ \A j \in 1..Cardinality(UpTo(S, k)) :
               \E m \in UpTo(S, k) : Cardinality(UpTo(S, m)) = j
    BY <1>2
  <2>1. /\ IsFiniteSet(UpTo(S, k + 1))
        /\ k + 1 \in S => Cardinality(UpTo(S, k + 1)) = Cardinality(UpTo(S, k)) + 1
        /\ k + 1 \notin S => UpTo(S, k + 1) = UpTo(S, k)
    BY <2>0, CountGoesOn
  <2>2. PICK c \in Nat : c = Cardinality(UpTo(S, k))
    BY <2>0, FS_CardinalityType
  <2>3. CASE k + 1 \notin S
    BY <2>0, <2>1, <2>3
  <2>4. CASE k + 1 \in S
    <3>1. ASSUME NEW j \in 1..c + 1
          PROVE  \E m \in UpTo(S, k + 1) : Cardinality(UpTo(S, m)) = j
      <4>1. CASE j = c + 1
        <5>1. k + 1 \in UpTo(S, k + 1)
          BY <2>4 DEF UpTo
        <5> QED BY <2>1, <2>2, <2>4, <4>1, <5>1
      <4>2. CASE j # c + 1
        <5>1. PICK m \in UpTo(S, k) : Cardinality(UpTo(S, m)) = j
          BY <2>0, <2>2, <4>2
        <5>2. m \in UpTo(S, k + 1)
          BY DEF UpTo
        <5> QED BY <5>1, <5>2
      <4> QED BY <4>1, <4>2
    <3> QED BY <2>1, <2>2, <2>4, <3>1
  <2> QED BY <2>3, <2>4
<1> HIDE DEF T
<1>3. Nat \subseteq T
  BY <1>1, <1>2, Induction
<1> QED BY <1>3 DEF T

\* Of two members the greater has more of them up to it.
LEMMA CountIsPlace ==
  ASSUME NEW S \in SUBSET (Nat \ {0}), NEW x \in S, NEW y \in S, x < y
  PROVE  /\ Cardinality(UpTo(S, x)) \in Nat /\ Cardinality(UpTo(S, y)) \in Nat
         /\ Cardinality(UpTo(S, x)) < Cardinality(UpTo(S, y))
<1>1. x \in Nat /\ y \in Nat
  OBVIOUS
<1>2. IsFiniteSet(UpTo(S, y))
  BY <1>1, CountReaches
<1>3. UpTo(S, x) \in SUBSET UpTo(S, y)
  <2>1. \A z \in S : z <= x => z <= y
    BY <1>1
  <2> QED BY <2>1, Zenon DEF UpTo
<1>4. y \in UpTo(S, y) /\ y \notin UpTo(S, x)
  BY <1>1 DEF UpTo
<1>5. /\ IsFiniteSet(UpTo(S, x)) /\ Cardinality(UpTo(S, x)) <= Cardinality(UpTo(S, y))
      /\ Cardinality(UpTo(S, x)) # Cardinality(UpTo(S, y))
  BY <1>2, <1>3, <1>4, FS_Subset
<1>6. Cardinality(UpTo(S, x)) \in Nat /\ Cardinality(UpTo(S, y)) \in Nat
  BY <1>2, <1>5, FS_CardinalityType
<1> QED BY <1>5, <1>6

-----------------------------------------------------------------------------
(* FlattenSeq.                                                             *)

\* f holds what the first 1, 2 ... n of the sequences concatenate to.
Runs(seqs, n, f) ==
    f = [i \in 1..n |-> IF i = 1 THEN seqs[i] ELSE f[i - 1] \o seqs[i]]

LEMMA RunsExist ==
  ASSUME NEW seqs, NEW n \in Nat
  PROVE  \E f : Runs(seqs, n, f)
<1> DEFINE T == {m \in Nat : \E f : Runs(seqs, m, f)}
<1>1. 0 \in T
  <2>1. Runs(seqs, 0, [i \in 1..0 |-> 0])
    BY DEF Runs
  <2> QED BY <2>1
<1>2. ASSUME NEW m \in Nat, m \in T PROVE m + 1 \in T
  <2>1. PICK f : Runs(seqs, m, f)
    BY <1>2
  <2>a. PICK last : last = IF m = 0 THEN seqs[1] ELSE f[m] \o seqs[m + 1]
    OBVIOUS
  <2>b. PICK g : g = [i \in 1..m + 1 |-> IF i = m + 1 THEN last ELSE f[i]]
    OBVIOUS
  <2>2. g[m + 1] = last /\ \A i \in 1..m : g[i] = f[i]
    BY <2>b
  <2>3. \A i \in 1..m : f[i] = IF i = 1 THEN seqs[i] ELSE f[i - 1] \o seqs[i]
    BY <2>1 DEF Runs
  <2>4. ASSUME NEW i \in 1..m + 1
        PROVE  g[i] = IF i = 1 THEN seqs[i] ELSE g[i - 1] \o seqs[i]
    <3>1. CASE i = m + 1
      <4>1. (i = 1 <=> m = 0) /\ i - 1 = m /\ (m # 0 => m \in 1..m)
        BY <3>1
      <4> QED BY <3>1, <4>1, <2>2, <2>a
    <3>2. CASE i # m + 1
      <4>1. i \in 1..m /\ (i # 1 => i - 1 \in 1..m)
        BY <3>2
      <4> QED BY <4>1, <2>2, <2>3
    <3> QED BY <3>1, <3>2
  <2>5. g = [i \in 1..m + 1 |-> g[i]]
    BY <2>b
  <2>6. Runs(seqs, m + 1, g)
    BY <2>4, <2>5 DEF Runs
  <2> QED BY <2>6
<1> HIDE DEF T
<1>3. Nat \subseteq T
  BY <1>1, <1>2, Induction
<1> QED BY <1>3 DEF T

Agree(s, t, k) == \A i \in 1..k : s[i] = t[i]

LEMMA RunsAgree ==
  ASSUME NEW s, NEW t, NEW n \in Nat, NEW m \in Nat, NEW k \in Nat, NEW f, NEW g,
         Runs(s, n, f), Runs(t, m, g), k <= n, k <= m, Agree(s, t, k)
  PROVE  Agree(f, g, k)
<1> DEFINE T == {j \in Nat : j \in 1..k => f[j] = g[j]}
<1>1. 0 \in T
  OBVIOUS
<1>2. ASSUME NEW j \in Nat, j \in T PROVE j + 1 \in T
  <2>1. SUFFICES ASSUME j + 1 \in 1..k PROVE f[j + 1] = g[j + 1]
    OBVIOUS
  <2>2. j + 1 \in 1..n /\ j + 1 \in 1..m /\ s[j + 1] = t[j + 1]
    BY <2>1 DEF Agree
  <2>3. /\ f[j + 1] = IF j + 1 = 1 THEN s[j + 1] ELSE f[(j + 1) - 1] \o s[j + 1]
        /\ g[j + 1] = IF j + 1 = 1 THEN t[j + 1] ELSE g[(j + 1) - 1] \o t[j + 1]
    BY <2>2 DEF Runs
  <2>4. (j + 1) - 1 = j /\ (j + 1 # 1 => j \in 1..k)
    BY <2>1
  <2> QED BY <1>2, <2>2, <2>3, <2>4
<1> HIDE DEF T
<1>3. Nat \subseteq T
  BY <1>1, <1>2, Induction
<1> QED BY <1>3 DEF T, Agree

LEMMA FlattenIsRun ==
  ASSUME NEW seqs, Len(seqs) \in Nat \ {0}
  PROVE  \E f : Runs(seqs, Len(seqs), f) /\ FlattenSeq(seqs) = f[Len(seqs)]
<1>1. FlattenSeq(seqs) = (CHOOSE f : Runs(seqs, Len(seqs), f))[Len(seqs)]
  BY DEF FlattenSeq, Runs
<1>2. \E f : Runs(seqs, Len(seqs), f)
  BY RunsExist
<1> QED BY <1>1, <1>2

\* What FlattenSeq makes of no sequence, and of one more.
LEMMA FlattenEmpty == FlattenSeq(<<>>) = <<>>
<1>1. Len(<<>>) = 0
  OBVIOUS
<1> QED BY <1>1 DEF FlattenSeq

LEMMA FlattenAppend ==
  ASSUME NEW E, NEW seqs \in Seq(Seq(E)), NEW s \in Seq(E)
  PROVE  FlattenSeq(Append(seqs, s)) = FlattenSeq(seqs) \o s
<1>a. PICK n \in Nat : n = Len(seqs)
  BY LenProperties
<1>b. PICK more : more = Append(seqs, s)
  OBVIOUS
<1>1. /\ Len(more) = n + 1 /\ more[n + 1] = s
      /\ \A i \in 1..n : more[i] = seqs[i]
  BY <1>a, <1>b, AppendProperties
<1>2. PICK f : Runs(more, n + 1, f) /\ FlattenSeq(more) = f[n + 1]
  BY <1>1, FlattenIsRun
<1>3. /\ n = 0 => f[n + 1] = more[n + 1]
      /\ n # 0 => f[n + 1] = f[n] \o more[n + 1]
  <2>1. \A i \in 1..n + 1 : f[i] = IF i = 1 THEN more[i] ELSE f[i - 1] \o more[i]
    BY <1>2 DEF Runs
  <2>2. PICK k \in 1..n + 1 : k = n + 1
    OBVIOUS
  <2>3. k - 1 = n /\ (k = 1 <=> n = 0)
    BY <2>2
  <2> QED BY <2>1, <2>2, <2>3
<1>4. CASE n = 0
  <2>1. seqs = <<>>
    BY <1>4, <1>a, EmptySeq
  <2>2. FlattenSeq(more) = s /\ FlattenSeq(seqs) = <<>>
    BY <1>1, <1>2, <1>3, <1>4, <2>1, FlattenEmpty
  <2>3. <<>> \o s = s
    BY ConcatEmptySeq
  <2> QED BY <2>2, <2>3, <1>b
<1>5. CASE n # 0
  <2>1. PICK g : Runs(seqs, n, g) /\ FlattenSeq(seqs) = g[n]
    BY <1>a, <1>5, FlattenIsRun
  <2>2. /\ n + 1 \in Nat /\ n <= n + 1 /\ n <= n
        /\ Agree(seqs, more, n)
    BY <1>1 DEF Agree
  <2>3. Agree(g, f, n)
    BY <1>2, <2>1, <2>2, RunsAgree
  <2>4. n \in 1..n
    BY <1>5
  <2>5. FlattenSeq(more) = f[n] \o s
    BY <1>1, <1>2, <1>3, <1>5
  <2> QED BY <2>1, <2>3, <2>4, <2>5, <1>b DEF Agree
<1> QED BY <1>4, <1>5

\* What every element has, every element of the concatenation has.
LEMMA FlattenType ==
  ASSUME NEW E, NEW seqs \in Seq(Seq(E))
  PROVE  FlattenSeq(seqs) \in Seq(E)
<1> DEFINE T == {ss \in Seq(Seq(E)) : FlattenSeq(ss) \in Seq(E)}
<1>1. <<>> \in T
  BY FlattenEmpty, EmptySeq
<1>2. ASSUME NEW ss \in Seq(Seq(E)), NEW s \in Seq(E), ss \in T
      PROVE  Append(ss, s) \in T
  BY <1>2, FlattenAppend, AppendProperties, ConcatProperties
<1> HIDE DEF T
<1>3. Seq(Seq(E)) \subseteq T
  BY <1>1, <1>2, SequenceInduction
<1> QED BY <1>3 DEF T

LEMMA FlattenOne ==
  ASSUME NEW E, NEW s \in Seq(E)
  PROVE  FlattenSeq(<<s>>) = s
<1>1. <<>> \in Seq(Seq(E)) /\ Append(<<>>, s) = <<s>>
  OBVIOUS
<1>2. FlattenSeq(Append(<<>>, s)) = FlattenSeq(<<>>) \o s
  BY <1>1, FlattenAppend
<1>3. <<>> \o s = s
  BY ConcatEmptySeq
<1> QED BY <1>1, <1>2, <1>3, FlattenEmpty

Associate(s, t, u) == (s \o t) \o u = s \o (t \o u)

LEMMA ConcatAssociate ==
  ASSUME NEW S, NEW s \in Seq(S), NEW t \in Seq(S), NEW u \in Seq(S)
  PROVE  Associate(s, t, u)
  BY ConcatAssociative DEF Associate

\* An element appended to the right is appended to the whole.
LEMMA ConcatAppend ==
  ASSUME NEW S, NEW s \in Seq(S), NEW t \in Seq(S), NEW e \in S
  PROVE  s \o Append(t, e) = Append(s \o t, e)
<1>1. /\ Append(t, e) = t \o <<e>> /\ Append(s \o t, e) = (s \o t) \o <<e>>
      /\ <<e>> \in Seq(S)
  BY AppendIsConcat, ConcatProperties
<1>2. Associate(s, t, <<e>>)
  BY <1>1, ConcatAssociate
<1> QED BY <1>1, <1>2, Zenon DEF Associate

LEMMA FlattenConcat ==
  ASSUME NEW E, NEW left \in Seq(Seq(E)), NEW right \in Seq(Seq(E))
  PROVE  FlattenSeq(left \o right) = FlattenSeq(left) \o FlattenSeq(right)
<1> DEFINE T == {ss \in Seq(Seq(E)) :
                    FlattenSeq(left \o ss) = FlattenSeq(left) \o FlattenSeq(ss)}
<1>1. <<>> \in T
  BY FlattenEmpty, FlattenType, EmptySeq, ConcatEmptySeq
<1>2. ASSUME NEW ss \in Seq(Seq(E)), NEW s \in Seq(E), ss \in T
      PROVE  Append(ss, s) \in T
  <2>1. left \o Append(ss, s) = Append(left \o ss, s)
    BY ConcatAppend
  <2>2. FlattenSeq(left \o Append(ss, s)) = FlattenSeq(left \o ss) \o s
    <3>1. left \o ss \in Seq(Seq(E))
      BY ConcatProperties
    <3> QED BY <2>1, <3>1, FlattenAppend
  <2>3. (FlattenSeq(left) \o FlattenSeq(ss)) \o s = FlattenSeq(left) \o (FlattenSeq(ss) \o s)
    <3>1. PICK x \in Seq(E), y \in Seq(E) : x = FlattenSeq(left) /\ y = FlattenSeq(ss)
      BY FlattenType
    <3>2. Associate(x, y, s)
      BY ConcatAssociate
    <3> QED BY <3>1, <3>2, Zenon DEF Associate
  <2>4. FlattenSeq(Append(ss, s)) = FlattenSeq(ss) \o s /\ Append(ss, s) \in Seq(Seq(E))
    BY FlattenAppend, AppendProperties
  <2> QED BY <2>2, <2>3, <2>4, <1>2
<1> HIDE DEF T
<1>3. Seq(Seq(E)) \subseteq T
  BY <1>1, <1>2, SequenceInduction
<1> QED BY <1>3 DEF T

-----------------------------------------------------------------------------
(* An element and the next become one.                                     *)

Folded(s, l, e) == RemoveAt(ReplaceAt(s, l, e), l + 1)

\* r is s, of n elements, with e in the place of the two at l.
Merges(r, s, l, e, n) ==
    /\ Len(r) = n - 1
    /\ \A k \in 1..l - 1 : r[k] = s[k]
    /\ r[l] = e
    /\ \A k \in l + 1..n - 1 : r[k] = s[k + 1]

LEMMA FoldedElements ==
  ASSUME NEW S, NEW s \in Seq(S), NEW n \in Nat, n = Len(s), NEW l \in 1..n - 1, NEW e \in S
  PROVE  Folded(s, l, e) \in Seq(S) /\ Merges(Folded(s, l, e), s, l, e, n)
<1>a. n \in Nat /\ n = Len(s)
  OBVIOUS
<1>b. l \in 1..n - 1 /\ l \in 1..Len(s) /\ l \in Int /\ n \in Int
  BY <1>a
<1>1. PICK r \in Seq(S) : /\ r = ReplaceAt(s, l, e) /\ Len(r) = n
                          /\ \A j \in 1..n : r[j] = IF j = l THEN e ELSE s[j]
  <2>1. ReplaceAt(s, l, e) = [s EXCEPT ![l] = e]
    BY DEF ReplaceAt
  <2>2. /\ [s EXCEPT ![l] = e] \in Seq(S) /\ Len([s EXCEPT ![l] = e]) = n
        /\ \A j \in 1..n : [s EXCEPT ![l] = e][j] = IF j = l THEN e ELSE s[j]
    BY <1>a, <1>b, ExceptSeq
  <2> QED BY <2>1, <2>2
<1>2. \A j \in 1..n : r[j] \in S
  BY <1>1, ElementOfSeq
<1>3. PICK left \in Seq(S) : /\ left = SubSeq(r, 1, l) /\ Len(left) = l
                             /\ \A i \in 1..l : left[i] = r[i]
  <2>1. \A i \in 1..l : r[i] \in S
    BY <1>2, <1>b
  <2>2. SubSeq(r, 1, l) \in Seq(S) /\ Len(SubSeq(r, 1, l)) = l
        /\ \A i \in 1..l : SubSeq(r, 1, l)[i] = r[i]
    BY <1>1, <1>b, <2>1
  <2> QED BY <2>2
<1>4. PICK right \in Seq(S) : /\ right = SubSeq(r, l + 2, n) /\ Len(right) = n - l - 1
                              /\ \A i \in 1..n - l - 1 : right[i] = r[l + 1 + i]
  <2>1. \A i \in l + 2..n : r[i] \in S
    BY <1>2, <1>b
  <2>2. SubSeq(r, l + 2, n) \in Seq(S) /\ Len(SubSeq(r, l + 2, n)) = n - l - 1
        /\ \A i \in 1..n - l - 1 : SubSeq(r, l + 2, n)[i] = r[l + 1 + i]
    BY <1>1, <1>b, <2>1
  <2> QED BY <2>2
<1>5. Folded(s, l, e) = left \o right
  <2>1. (l + 1) - 1 = l /\ (l + 1) + 1 = l + 2
    BY <1>b
  <2>2. Folded(s, l, e) = SubSeq(r, 1, (l + 1) - 1) \o SubSeq(r, (l + 1) + 1, Len(r))
    BY <1>1 DEF Folded, RemoveAt
  <2>3. Folded(s, l, e) = SubSeq(r, 1, l) \o SubSeq(r, l + 2, n)
    BY ONLY <1>1, <2>1, <2>2, Zenon
  <2> QED BY <1>3, <1>4, <2>3
<1>6. PICK f \in Seq(S) : /\ f = left \o right /\ Len(f) = n - 1
                          /\ \A i \in 1..n - 1 : f[i] = IF i <= l THEN left[i] ELSE right[i - l]
  <2>1. /\ left \o right \in Seq(S)
        /\ Len(left \o right) = Len(left) + Len(right)
        /\ \A i \in 1..Len(left) + Len(right) :
              (left \o right)[i] = IF i <= Len(left) THEN left[i] ELSE right[i - Len(left)]
    BY ConcatProperties
  <2>2. Len(left) + Len(right) = n - 1
    BY <1>3, <1>4, <1>b
  <2>3. Len(left) = l
    BY <1>3
  <2> QED BY ONLY <2>1, <2>2, <2>3, Zenon
<1>7. \A k \in 1..l - 1 : f[k] = s[k]
  BY <1>1, <1>3, <1>6, <1>b
<1>8. f[l] = e
  BY <1>1, <1>3, <1>6, <1>b
<1>9. \A k \in l + 1..n - 1 : f[k] = s[k + 1]
  <2>1. SUFFICES ASSUME NEW k \in l + 1..n - 1 PROVE f[k] = s[k + 1]
    OBVIOUS
  <2>2. PICK i \in 1..n - l - 1 : i = k - l
    BY <1>b
  <2>3. f[k] = right[i]
    BY <1>6, <1>b, <2>2
  <2>4. right[i] = r[k + 1]
    <3>1. l + 1 + i = k + 1
      BY <1>b, <2>2
    <3> QED BY <1>4, <3>1
  <2>5. r[k + 1] = s[k + 1]
    <3>1. k + 1 \in 1..n /\ k + 1 # l
      BY <1>b
    <3> QED BY <3>1, <1>1
  <2> QED BY <2>3, <2>4, <2>5
<1> QED BY <1>5, <1>6, <1>7, <1>8, <1>9 DEF Merges

-----------------------------------------------------------------------------
(* Functions that are sequences.                                           *)

LEMMA FunctionIsSequence ==
  ASSUME NEW S, NEW n \in Nat, NEW f \in [1..n -> S]
  PROVE  f \in Seq(S) /\ Len(f) = n /\ DOMAIN f = 1..n
<1>1. f \in Seq(S)
  BY SeqDef
<1>2. DOMAIN f = 1..n /\ DOMAIN f = 1..Len(f) /\ Len(f) \in Nat
  BY <1>1, LenProperties
<1>3. Len(f) = n
  BY <1>2
<1> QED BY <1>1, <1>2, <1>3

\* One element for each of a sequence's.
LEMMA MapIsSequence ==
  ASSUME NEW E, NEW S, NEW s \in Seq(E), NEW f, f = [k \in DOMAIN s |-> f[k]],
         \A k \in DOMAIN s : f[k] \in S
  PROVE  f \in Seq(S) /\ Len(f) = Len(s) /\ DOMAIN f = DOMAIN s
<1>1. DOMAIN s = 1..Len(s) /\ Len(s) \in Nat
  BY LenProperties
<1>2. f \in [1..Len(s) -> S]
  BY <1>1
<1> QED BY <1>1, <1>2, FunctionIsSequence

-----------------------------------------------------------------------------
(* Two sequences of sequences of one shape.                                *)

\* r is s, of n elements, with t, of m, behind it.
Concats(r, s, t, n, m) ==
    /\ Len(r) = n + m
    /\ \A i \in 1..n + m : r[i] = IF i <= n THEN s[i] ELSE t[i - n]

LEMMA ConcatElements ==
  ASSUME NEW S, NEW s \in Seq(S), NEW t \in Seq(S), NEW n, NEW m, n = Len(s), m = Len(t)
  PROVE  s \o t \in Seq(S) /\ Concats(s \o t, s, t, n, m)
  BY ConcatProperties, Zenon DEF Concats

\* r is s, of n elements, with e behind it.
Appends(r, s, e, n) == Len(r) = n + 1 /\ r[n + 1] = e /\ Agree(s, r, n)

LEMMA AppendElements ==
  ASSUME NEW S, NEW s \in Seq(S), NEW e \in S, NEW n, n = Len(s)
  PROVE  Append(s, e) \in Seq(S) /\ Appends(Append(s, e), s, e, n)
<1>1. /\ Append(s, e) \in Seq(S) /\ Len(Append(s, e)) = Len(s) + 1
      /\ \A i \in 1..Len(s) : Append(s, e)[i] = s[i]
      /\ Append(s, e)[Len(s) + 1] = e
  BY AppendProperties
<1> QED BY <1>1, Zenon DEF Appends, Agree

\* Where the two become their concatenation, the whole concatenates to the same.
LEMMA FlattenMerged ==
  ASSUME NEW E, NEW s \in Seq(Seq(E)), NEW r \in Seq(Seq(E)), NEW n \in Nat, n = Len(s),
         NEW l \in 1..n - 1, Merges(r, s, l, s[l] \o s[l + 1], n)
  PROVE  FlattenSeq(r) = FlattenSeq(s)
<1>a. n \in Int /\ l \in 1..n - 1
  OBVIOUS
<1>b. n - 1 \in Nat \ {0} /\ n \in Nat \ {0} /\ l \in Nat /\ 1 <= l /\ l <= n - 1
  BY ONLY <1>a
<1>c. Len(r) = n - 1
  BY Zenon DEF Merges
<1>1. /\ Len(r) = n - 1 /\ n - 1 \in Nat \ {0} /\ n \in Nat \ {0} /\ n = Len(s)
      /\ l \in Nat /\ 1 <= l /\ l <= n - 1
  BY <1>b, <1>c, Zenon
<1>2. PICK f : Runs(s, n, f) /\ FlattenSeq(s) = f[n]
  BY <1>1, FlattenIsRun
<1>3. PICK g : Runs(r, n - 1, g) /\ FlattenSeq(r) = g[n - 1]
  BY <1>1, FlattenIsRun
<1>4. /\ \A i \in 1..n : s[i] \in Seq(E)
      /\ \A i \in 1..n : f[i] = IF i = 1 THEN s[i] ELSE f[i - 1] \o s[i]
      /\ \A i \in 1..n - 1 : g[i] = IF i = 1 THEN r[i] ELSE g[i - 1] \o r[i]
  <2>1. \A i \in 1..n : s[i] \in Seq(E)
    BY <1>1, ElementOfSeq
  <2>2. \A i \in 1..n : f[i] = IF i = 1 THEN s[i] ELSE f[i - 1] \o s[i]
    BY <1>2 DEF Runs
  <2>3. \A i \in 1..n - 1 : g[i] = IF i = 1 THEN r[i] ELSE g[i - 1] \o r[i]
    BY <1>3 DEF Runs
  <2> QED BY <2>1, <2>2, <2>3, Zenon
<1>5. \A i \in 1..n : f[i] \in Seq(E)
  <2> DEFINE T == {k \in Nat : k \in 1..n => f[k] \in Seq(E)}
  <2>1. 0 \in T
    OBVIOUS
  <2>2. ASSUME NEW k \in Nat, k \in T PROVE k + 1 \in T
    <3>1. SUFFICES ASSUME k + 1 \in 1..n PROVE f[k + 1] \in Seq(E)
      OBVIOUS
    <3>2. PICK j \in 1..n : j = k + 1
      BY <3>1
    <3>3. f[j] = (IF j = 1 THEN s[j] ELSE f[k] \o s[j]) /\ s[j] \in Seq(E)
      <4>1. j - 1 = k
        BY <3>2
      <4> QED BY <4>1, <1>4
    <3>4. j # 1 => f[k] \in Seq(E)
      BY <2>2, <3>2
    <3> QED BY <3>2, <3>3, <3>4, ConcatProperties
  <2> HIDE DEF T
  <2>3. Nat \subseteq T
    BY <2>1, <2>2, Induction
  <2> QED BY <2>3 DEF T
<1>6. Agree(f, g, l - 1)
  <2>1. /\ l - 1 \in Nat /\ n \in Nat /\ n - 1 \in Nat /\ l - 1 <= n /\ l - 1 <= n - 1
    BY ONLY <1>b
  <2>2. \A k \in 1..l - 1 : r[k] = s[k]
    BY Zenon DEF Merges
  <2>3. Agree(s, r, l - 1)
    BY <2>2, Zenon DEF Agree
  <2> QED BY <1>2, <1>3, <2>1, <2>3, RunsAgree
<1>7. g[l] = f[l + 1]
  <2>1. PICK x \in Seq(E), y \in Seq(E) : x = s[l] /\ y = s[l + 1]
    <3>1. l \in 1..n /\ l + 1 \in 1..n
      BY ONLY <1>a
    <3> QED BY <1>4, <3>1, Zenon
  <2>2. r[l] = x \o y
    BY <2>1 DEF Merges
  <2>3. f[l + 1] = f[l] \o y
    <3>1. PICK i \in 1..n : i = l + 1
      BY <1>1
    <3>2. i # 1 /\ i - 1 = l
      BY <1>1, <3>1
    <3>3. f[i] = f[i - 1] \o s[i]
      BY <1>4, <3>2
    <3> QED BY <2>1, <3>1, <3>2, <3>3
  <2>4. CASE l = 1
    <3>1. l \in 1..n /\ l \in 1..n - 1
      BY <1>1
    <3>2. f[l] = s[l] /\ g[l] = r[l]
      BY <1>4, <2>4, <3>1, Zenon
    <3>3. f[l] = x /\ g[l] = x \o y
      BY <2>1, <2>2, <3>2, Zenon
    <3> QED BY <2>3, <3>3, Zenon
  <2>5. CASE l # 1
    <3>1. l \in 1..n /\ l \in 1..n - 1 /\ l - 1 \in 1..l - 1 /\ l - 1 \in 1..n
      BY ONLY <1>a, <2>5
    <3>2. PICK z \in Seq(E) : z = f[l - 1]
      BY <1>5, <3>1
    <3>3. f[l] = z \o x
      BY <1>4, <2>1, <2>5, <3>1, <3>2
    <3>4. g[l] = z \o (x \o y)
      <4>1. g[l - 1] = z
        BY <1>6, <3>1, <3>2 DEF Agree
      <4> QED BY <1>4, <2>2, <2>5, <3>1, <4>1
    <3>5. Associate(z, x, y)
      BY ConcatAssociate
    <3> QED BY <2>3, <3>3, <3>4, <3>5 DEF Associate
  <2> QED BY <2>4, <2>5
<1>8. \A k \in l..n - 1 : g[k] = f[k + 1]
  <2> DEFINE T == {k \in Nat : k \in l..n - 1 => g[k] = f[k + 1]}
  <2>1. 0 \in T
    BY <1>1
  <2>2. ASSUME NEW k \in Nat, k \in T PROVE k + 1 \in T
    <3>1. SUFFICES ASSUME k + 1 \in l..n - 1 PROVE g[k + 1] = f[(k + 1) + 1]
      OBVIOUS
    <3>2. CASE k + 1 = l
      BY <1>7, <3>2
    <3>3. CASE k + 1 # l
      <4>1. PICK j \in l + 1..n - 1 : j = k + 1
        BY <3>1, <3>3, <1>1
      <4>2. PICK i \in 1..n : i = j + 1
        BY <1>1, <4>1
      <4>3. j \in 1..n - 1 /\ j # 1 /\ j - 1 = k /\ i # 1 /\ i - 1 = j /\ k \in l..n - 1
        BY ONLY <1>a, <4>1, <4>2
      <4>4. r[j] = s[i]
        <5>1. \A m \in l + 1..n - 1 : r[m] = s[m + 1]
          BY Zenon DEF Merges
        <5> QED BY <4>1, <4>2, <5>1, Zenon
      <4>5. g[j] = g[j - 1] \o r[j] /\ f[i] = f[i - 1] \o s[i]
        BY <1>4, <4>3
      <4>6. g[k] = f[j]
        BY <2>2, <4>1, <4>3
      <4> QED BY <4>1, <4>2, <4>3, <4>4, <4>5, <4>6
    <3> QED BY <3>2, <3>3
  <2> HIDE DEF T
  <2>3. Nat \subseteq T
    BY <2>1, <2>2, Induction
  <2> QED BY <1>1, <2>3 DEF T
<1>9. n - 1 \in l..n - 1 /\ (n - 1) + 1 = n
  BY <1>1
<1> QED BY <1>2, <1>3, <1>8, <1>9

\* F maps an element of P to a sequence over E.
Maps(F, P, E) == \A p \in P : F[p] \in Seq(E)
\* And e to what it maps the elements at l and behind it to.
Glues(F, ts, l, e) == F[e] = F[ts[l]] \o F[ts[l + 1]]
Mapped(F, ts) == [k \in DOMAIN ts |-> F[ts[k]]]

\* A sequence's elements are each mapped to a sequence, and two neighbours replaced
\* by one that maps to what theirs make: the whole is the same.
LEMMA MappedMerged ==
  ASSUME NEW P, NEW E, NEW F, Maps(F, P, E), NEW ts \in Seq(P), NEW us \in Seq(P),
         NEW n \in Nat, n = Len(ts), NEW l \in 1..n - 1, NEW e \in P, Merges(us, ts, l, e, n),
         Glues(F, ts, l, e)
  PROVE  FlattenSeq(Mapped(F, us)) = FlattenSeq(Mapped(F, ts))
<1>1. PICK S : S = Seq(E)
  OBVIOUS
<1>2. DOMAIN ts = 1..n /\ DOMAIN us = 1..n - 1 /\ Len(us) = n - 1
  BY LenProperties DEF Merges
<1>3. PICK s : s = [k \in DOMAIN ts |-> F[ts[k]]]
  OBVIOUS
<1>4. PICK r : r = [k \in DOMAIN us |-> F[us[k]]]
  OBVIOUS
<1>5. s \in Seq(S) /\ Len(s) = n
  <2>1. s = [k \in DOMAIN ts |-> s[k]] /\ \A k \in DOMAIN ts : s[k] \in S
    BY <1>1, <1>2, <1>3, ElementOfSeq DEF Maps
  <2>2. s \in Seq(S) /\ Len(s) = Len(ts)
    BY <1>2, <2>1, MapIsSequence
  <2> QED BY <2>2
<1>6. r \in Seq(S) /\ Len(r) = n - 1
  <2>1. r = [k \in DOMAIN us |-> r[k]] /\ \A k \in DOMAIN us : r[k] \in S
    BY <1>1, <1>2, <1>4, ElementOfSeq DEF Maps
  <2> QED BY <1>2, <2>1, MapIsSequence
<1>7. \A k \in 1..n : s[k] = F[ts[k]]
  BY <1>2, <1>3, Zenon
<1>8. \A k \in 1..n - 1 : r[k] = F[us[k]]
  BY <1>2, <1>4, Zenon
<1>9. l \in 1..n /\ l + 1 \in 1..n /\ \A k \in 1..l - 1 : k \in 1..n - 1 /\ k \in 1..n
  OBVIOUS
<1>10. \A k \in l + 1..n - 1 : k \in 1..n - 1 /\ k + 1 \in 1..n
  OBVIOUS
<1>0. /\ us[l] = e /\ \A k \in 1..l - 1 : us[k] = ts[k]
      /\ \A k \in l + 1..n - 1 : us[k] = ts[k + 1]
  BY Zenon DEF Merges
<1>11. r[l] = s[l] \o s[l + 1]
  <2>1. r[l] = F[e] /\ s[l] = F[ts[l]] /\ s[l + 1] = F[ts[l + 1]]
    BY <1>7, <1>8, <1>9, <1>0, Zenon
  <2> QED BY <2>1 DEF Glues
<1>12. \A k \in 1..l - 1 : r[k] = s[k]
  <2>1. SUFFICES ASSUME NEW k \in 1..l - 1 PROVE r[k] = s[k]
    OBVIOUS
  <2>2. r[k] = F[us[k]] /\ s[k] = F[ts[k]] /\ us[k] = ts[k]
    BY <1>7, <1>8, <1>9, <1>0
  <2> QED BY <2>2
<1>13. \A k \in l + 1..n - 1 : r[k] = s[k + 1]
  <2>1. SUFFICES ASSUME NEW k \in l + 1..n - 1 PROVE r[k] = s[k + 1]
    OBVIOUS
  <2>2. r[k] = F[us[k]] /\ s[k + 1] = F[ts[k + 1]] /\ us[k] = ts[k + 1]
    BY <1>7, <1>8, <1>10, <1>0
  <2> QED BY <2>2
<1>14. Merges(r, s, l, s[l] \o s[l + 1], n)
  BY <1>6, <1>11, <1>12, <1>13, Zenon DEF Merges
<1>15. FlattenSeq(r) = FlattenSeq(s)
  BY <1>1, <1>5, <1>6, <1>14, FlattenMerged
<1> QED BY <1>3, <1>4, <1>15 DEF Mapped

\* Sequences of one length whose elements, place by place, are pairs of R.
Paired(s, t, R) == Len(s) = Len(t) /\ \A k \in 1..Len(s) : <<s[k], t[k]>> \in R

LEMMA PairedConcat ==
  ASSUME NEW E, NEW F, NEW R, NEW s \in Seq(E), NEW t \in Seq(F), NEW u \in Seq(E), NEW v \in Seq(F),
         Paired(s, t, R), Paired(u, v, R)
  PROVE  Paired(s \o u, t \o v, R)
<1>1. PICK n \in Nat, m \in Nat : n = Len(s) /\ n = Len(t) /\ m = Len(u) /\ m = Len(v)
  BY LenProperties DEF Paired
<1>2. /\ Len(s \o u) = n + m
      /\ \A i \in 1..n + m : (s \o u)[i] = IF i <= n THEN s[i] ELSE u[i - n]
  <2>1. Concats(s \o u, s, u, n, m)
    BY <1>1, ConcatElements
  <2> QED BY <2>1 DEF Concats
<1>3. /\ Len(t \o v) = n + m
      /\ \A i \in 1..n + m : (t \o v)[i] = IF i <= n THEN t[i] ELSE v[i - n]
  <2>1. Concats(t \o v, t, v, n, m)
    BY <1>1, ConcatElements
  <2> QED BY <2>1 DEF Concats
<1>4. \A i \in 1..n : <<s[i], t[i]>> \in R
  BY <1>1, Zenon DEF Paired
<1>5. \A i \in 1..m : <<u[i], v[i]>> \in R
  BY <1>1 DEF Paired
<1>6. ASSUME NEW i \in 1..n + m PROVE <<(s \o u)[i], (t \o v)[i]>> \in R
  <2>1. CASE i <= n
    <3>1. i \in 1..n /\ (s \o u)[i] = s[i] /\ (t \o v)[i] = t[i]
      BY <2>1, <1>2, <1>3
    <3> QED BY <3>1, <1>4, Zenon
  <2>2. CASE ~(i <= n)
    <3>1. i - n \in 1..m
      BY <2>2
    <3> QED BY <2>2, <3>1, <1>2, <1>3, <1>5
  <2> QED BY <2>1, <2>2
<1> QED BY <1>2, <1>3, <1>6 DEF Paired

\* A sequence that goes one element further than another.
LEMMA FlattenLonger ==
  ASSUME NEW E, NEW f \in Seq(Seq(E)), NEW g \in Seq(Seq(E)), NEW n \in Nat, n = Len(f),
         Len(g) = n + 1, Agree(f, g, n)
  PROVE  FlattenSeq(g) = FlattenSeq(f) \o g[n + 1]
<1>0. g = [k \in 1..n + 1 |-> g[k]]
  BY LenProperties
<1>1. PICK e \in Seq(E) : e = g[n + 1]
  BY ElementOfSeq
<1>2. PICK more \in Seq(Seq(E)) : more = Append(f, e) /\ Appends(more, f, e, n)
  BY <1>1, AppendElements
<1>3. more = [k \in 1..n + 1 |-> more[k]]
  <2>1. Len(more) = n + 1
    BY <1>2 DEF Appends
  <2> QED BY <1>2, <2>1, LenProperties
<1>4. ASSUME NEW k \in 1..n + 1 PROVE more[k] = g[k]
  <2>1. k \in 1..n \/ k = n + 1
    BY <1>4
  <2> QED BY <1>1, <1>2, <2>1, Zenon DEF Appends, Agree
<1>5. g = more
  BY <1>0, <1>3, <1>4, Zenon
<1> QED BY <1>1, <1>2, <1>5, FlattenAppend

AllPaired(ss, tt, R) == Len(ss) = Len(tt) /\ \A n \in 1..Len(ss) : Paired(ss[n], tt[n], R)

LEMMA FlattenPaired ==
  ASSUME NEW E, NEW F, NEW R, NEW ss \in Seq(Seq(E)), NEW tt \in Seq(Seq(F)),
         AllPaired(ss, tt, R)
  PROVE  Paired(FlattenSeq(ss), FlattenSeq(tt), R)
<1> DEFINE T == {s \in Seq(Seq(E)) :
                    \A t \in Seq(Seq(F)) :
                        AllPaired(s, t, R) => Paired(FlattenSeq(s), FlattenSeq(t), R)}
<1>1. <<>> \in T
  <2>1. ASSUME NEW t \in Seq(Seq(F)), AllPaired(<<>>, t, R)
        PROVE  Paired(FlattenSeq(<<>>), FlattenSeq(t), R)
    <3>1. t = <<>>
      BY <2>1, EmptySeq DEF AllPaired
    <3> QED BY <3>1, FlattenEmpty DEF Paired
  <2> QED BY <2>1, EmptySeq
<1>2. ASSUME NEW s \in Seq(Seq(E)), NEW e \in Seq(E), s \in T
      PROVE  Append(s, e) \in T
  <2>1. ASSUME NEW t \in Seq(Seq(F)), AllPaired(Append(s, e), t, R)
        PROVE  Paired(FlattenSeq(Append(s, e)), FlattenSeq(t), R)
    <3>1. PICK n \in Nat : n = Len(s)
      BY LenProperties
    <3>a. PICK more : more = Append(s, e)
      OBVIOUS
    <3>2. Len(more) = n + 1 /\ more[n + 1] = e /\ \A i \in 1..n : more[i] = s[i]
      <4>1. Appends(more, s, e, n)
        BY <3>1, <3>a, AppendElements
      <4> QED BY <4>1 DEF Appends, Agree
    <3>b. AllPaired(more, t, R)
      BY <2>1, <3>a
    <3>3. Len(t) = n + 1 /\ t # <<>>
      <4>1. Len(t) = n + 1
        BY <3>b, <3>2, Zenon DEF AllPaired
      <4> QED BY <4>1
    <3>4. PICK front \in Seq(Seq(F)), f \in Seq(F) : t = Append(front, f)
      BY <3>3, SequenceEmptyOrAppend
    <3>5. /\ Len(front) = n /\ t[n + 1] = f
          /\ \A i \in 1..n : t[i] = front[i]
      <4>1. Appends(t, front, f, Len(front)) /\ Len(front) \in Nat
        BY <3>4, AppendElements, LenProperties
      <4>2. Len(front) = n
        BY <3>3, <4>1 DEF Appends
      <4> QED BY <4>1, <4>2 DEF Appends, Agree
    <3>6. \A i \in 1..n + 1 : Paired(more[i], t[i], R)
      BY <3>b, <3>2 DEF AllPaired
    <3>7. Paired(e, f, R)
      BY <3>2, <3>5, <3>6
    <3>8. AllPaired(s, front, R)
      <4>1. \A i \in 1..n : Paired(s[i], front[i], R)
        <5>1. SUFFICES ASSUME NEW i \in 1..n PROVE Paired(s[i], front[i], R)
          OBVIOUS
        <5>2. i \in 1..n + 1
          OBVIOUS
        <5> QED BY <3>2, <3>5, <3>6, <5>2, Zenon
      <4> QED BY <3>1, <3>5, <4>1, Zenon DEF AllPaired
    <3>9. Paired(FlattenSeq(s), FlattenSeq(front), R)
      BY <1>2, <3>8
    <3>10. FlattenSeq(s) \in Seq(E) /\ FlattenSeq(front) \in Seq(F)
      BY FlattenType
    <3>11. Paired(FlattenSeq(s) \o e, FlattenSeq(front) \o f, R)
      BY <3>7, <3>9, <3>10, PairedConcat
    <3> QED BY <3>4, <3>11, FlattenAppend
  <2> QED BY <2>1, AppendProperties
<1> HIDE DEF T
<1>3. Seq(Seq(E)) \subseteq T
  BY <1>1, <1>2, SequenceInduction
<1> QED BY <1>3 DEF T

\* The numbers of the sequences, each as often as its sequence has elements, do not
\* go down.
LEMMA FlattenSorted ==
  ASSUME NEW ss \in Seq(Seq(Nat)), \A n \in 1..Len(ss) : \A k \in 1..Len(ss[n]) : ss[n][k] = n
  PROVE  /\ \A k \in 1..Len(FlattenSeq(ss)) : FlattenSeq(ss)[k] \in 1..Len(ss)
         /\ \A k, m \in 1..Len(FlattenSeq(ss)) : k < m => FlattenSeq(ss)[k] <= FlattenSeq(ss)[m]
<1> DEFINE InOrder(s, n) == /\ \A k \in 1..Len(s) : s[k] \in 1..n
                            /\ \A k, m \in 1..Len(s) : k < m => s[k] <= s[m]
           Numbered(s) == \A i \in 1..Len(s) : \A k \in 1..Len(s[i]) : s[i][k] = i
           T == {s \in Seq(Seq(Nat)) : Numbered(s) => InOrder(FlattenSeq(s), Len(s))}
<1>1. <<>> \in T
  BY FlattenEmpty, EmptySeq
<1>2. ASSUME NEW s \in Seq(Seq(Nat)), NEW e \in Seq(Nat), s \in T
      PROVE  Append(s, e) \in T
  <2>1. ASSUME Numbered(Append(s, e)) PROVE InOrder(FlattenSeq(Append(s, e)), Len(Append(s, e)))
    <3>1. PICK n \in Nat, m \in Nat : n = Len(s) /\ m = Len(e)
      BY LenProperties
    <3>b. PICK more : more = Append(s, e)
      OBVIOUS
    <3>2. Len(more) = n + 1 /\ more[n + 1] = e /\ \A i \in 1..n : more[i] = s[i]
      <4>1. Appends(more, s, e, n)
        BY <3>1, <3>b, AppendElements
      <4> QED BY <4>1 DEF Appends, Agree
    <3>a. \A i \in 1..n + 1 : \A k \in 1..Len(more[i]) : more[i][k] = i
      BY <2>1, <3>b, <3>2, Zenon
    <3>3. \A k \in 1..m : e[k] = n + 1
      <4>1. PICK i \in 1..n + 1 : i = n + 1
        OBVIOUS
      <4>2. more[i] = e
        BY <3>2, <4>1
      <4> QED BY <3>a, <3>1, <4>1, <4>2, Zenon
    <3>4. Numbered(s)
      <4>1. SUFFICES ASSUME NEW i \in 1..n, NEW k \in 1..Len(s[i]) PROVE s[i][k] = i
        BY <3>1
      <4>2. more[i] = s[i] /\ i \in 1..n + 1
        BY <3>2
      <4> QED BY <3>a, <4>2
    <3> HIDE DEF Numbered
    <3>5. PICK f \in Seq(Nat) : f = FlattenSeq(s) /\ InOrder(f, n)
      BY <1>2, <3>1, <3>4, FlattenType
    <3>6. PICK j \in Nat : j = Len(f)
      BY LenProperties
    <3>7. PICK g \in Seq(Nat) :
             /\ g = f \o e /\ Len(g) = j + m
             /\ \A i \in 1..j + m : g[i] = IF i <= j THEN f[i] ELSE e[i - j]
      <4>1. f \o e \in Seq(Nat) /\ Concats(f \o e, f, e, j, m)
        BY <3>1, <3>6, ConcatElements
      <4> QED BY <4>1 DEF Concats
    <3>8. \A i \in 1..j : f[i] \in 1..n
      BY <3>5, <3>6
    <3>9. ASSUME NEW i \in 1..j + m
          PROVE  /\ i <= j => g[i] = f[i] /\ g[i] \in 1..n
                 /\ ~(i <= j) => g[i] = n + 1
      <4>1. CASE i <= j
        <5>1. i \in 1..j /\ g[i] = f[i]
          BY <4>1, <3>7
        <5> QED BY <4>1, <5>1, <3>8, Zenon
      <4>2. CASE ~(i <= j)
        <5>1. i - j \in 1..m
          BY <4>2
        <5>2. g[i] = e[i - j]
          BY <4>2, <3>7
        <5> QED BY <4>2, <5>1, <5>2, <3>3, Zenon
      <4> QED BY <4>1, <4>2
    <3>10. \A k \in 1..j + m : g[k] \in 1..n + 1
      <4>1. ASSUME NEW k \in 1..j + m PROVE g[k] \in 1..n + 1
        <5>1. PICK v : v = g[k]
          OBVIOUS
        <5>2. v \in 1..n \/ v = n + 1
          BY <3>9, <5>1, Zenon
        <5>3. n \in Int
          BY <3>b
        <5>4. v \in 1..n + 1
          BY ONLY <5>2, <5>3
        <5> QED BY <5>1, <5>4
      <4> QED BY <4>1, Zenon
    <3>11. ASSUME NEW k \in 1..j + m, NEW i \in 1..j + m, k < i PROVE g[k] <= g[i]
      <4>1. CASE i <= j
        <5>1. k \in 1..j /\ i \in 1..j
          BY <4>1, <3>11
        <5>2. f[k] <= f[i]
          BY <5>1, <3>5, <3>6, <3>11
        <5> QED BY <5>1, <5>2, <3>9, <4>1
      <4>2. CASE ~(i <= j)
        BY <4>2, <3>9, <3>10
      <4> QED BY <4>1, <4>2
    <3>12. FlattenSeq(Append(s, e)) = g
      BY <3>5, <3>7, FlattenAppend
    <3> QED BY <3>b, <3>2, <3>7, <3>10, <3>11, <3>12
  <2> QED BY <2>1, AppendProperties
<1> HIDE DEF T
<1>3. Seq(Seq(Nat)) \subseteq T
  BY <1>1, <1>2, SequenceInduction
<1> QED BY <1>3 DEF T

LEMMA RemovedElements ==
  ASSUME NEW S, NEW s \in Seq(S), NEW n \in Nat, n = Len(s), NEW l \in 1..n - 1
  PROVE  /\ RemoveAt(s, l + 1) = Folded(s, l, s[l])
         /\ s[l] \in S
<1>1. l \in 1..Len(s) /\ DOMAIN s = 1..Len(s)
  BY LenProperties
<1>2. [s EXCEPT ![l] = s[l]] = s
  BY <1>1
<1>3. ReplaceAt(s, l, s[l]) = s
  BY <1>2 DEF ReplaceAt
<1> QED BY <1>1, <1>3, ElementOfSeq DEF Folded

\* Sequences over E, the empty one only where V allows it.
Filled(E, V) == {s \in Seq(E) : V \/ s # <<>>}

LEMMA ConcatFilled ==
  ASSUME NEW E, NEW V, NEW s \in Seq(E), NEW t \in Filled(E, V)
  PROVE  s \o t \in Filled(E, V) /\ t \o s \in Filled(E, V)
<1>1. t \in Seq(E) /\ (V \/ t # <<>>)
  BY DEF Filled
<1>2. PICK n \in Nat, m \in Nat : n = Len(s) /\ m = Len(t) /\ (t # <<>> => m > 0)
  BY <1>1, LenProperties, EmptySeq
<1>3. s \o t \in Seq(E) /\ t \o s \in Seq(E) /\ Len(s \o t) = n + m /\ Len(t \o s) = m + n
  BY <1>1, <1>2, ConcatProperties
<1>4. t # <<>> => s \o t # <<>> /\ t \o s # <<>>
  <2>1. n + m > 0 /\ m + n > 0 <=> n + m # 0
    BY <1>2
  <2> QED BY <1>2, <1>3, EmptySeq
<1> QED BY <1>1, <1>3, <1>4 DEF Filled

LEMMA FlattenFilled ==
  ASSUME NEW E, NEW V, NEW seqs \in Seq(Filled(E, V)), seqs # <<>>
  PROVE  FlattenSeq(seqs) \in Filled(E, V)
<1> DEFINE T == {s \in Seq(Filled(E, V)) : s # <<>> => FlattenSeq(s) \in Filled(E, V)}
<1>1. <<>> \in T
  BY EmptySeq
<1>2. ASSUME NEW s \in Seq(Filled(E, V)), NEW e \in Filled(E, V), s \in T
      PROVE  Append(s, e) \in T
  <2>1. Append(s, e) \in Seq(Filled(E, V)) /\ e \in Seq(E)
    BY AppendProperties DEF Filled
  <2>2. s \in Seq(Seq(E))
    <3>1. Filled(E, V) \subseteq Seq(E)
      BY DEF Filled
    <3> QED BY <3>1, SeqMonotonic
  <2>3. FlattenSeq(Append(s, e)) = FlattenSeq(s) \o e /\ FlattenSeq(s) \in Seq(E)
    BY <2>1, <2>2, FlattenAppend, FlattenType
  <2>4. FlattenSeq(s) \o e \in Filled(E, V)
    BY <2>3, ConcatFilled
  <2> QED BY <2>1, <2>3, <2>4
<1> HIDE DEF T
<1>3. Seq(Filled(E, V)) \subseteq T
  BY <1>1, <1>2, SequenceInduction
<1> QED BY <1>3 DEF T

\* From each place a piece, and on behind it, until all n places are passed.
Walks(piece, last, n, from, f) ==
    f = [j \in from..n + 1 |-> IF j > n THEN <<>> ELSE <<piece[j]>> \o f[last[j] + 1]]

LEMMA WalkExists ==
  ASSUME NEW piece, NEW last, NEW n \in Nat, \A j \in 1..n : last[j] \in j..n
  PROVE  \E f : Walks(piece, last, n, 1, f)
<1> DEFINE T == {i \in Nat : i <= n => \E f : Walks(piece, last, n, n + 1 - i, f)}
<1>1. 0 \in T
  <2>1. PICK f : f = [j \in n + 1..n + 1 |-> <<>>]
    OBVIOUS
  <2>2. Walks(piece, last, n, n + 1, f)
    BY <2>1 DEF Walks
  <2>3. n + 1 - 0 = n + 1
    OBVIOUS
  <2> QED BY <2>2, <2>3
<1>2. ASSUME NEW i \in Nat, i \in T PROVE i + 1 \in T
  <2>1. SUFFICES ASSUME i + 1 <= n PROVE \E g : Walks(piece, last, n, n + 1 - (i + 1), g)
    OBVIOUS
  <2>2. PICK from \in 1..n : from = n + 1 - (i + 1) /\ n + 1 - i = from + 1
    BY <2>1
  <2>3. PICK f : Walks(piece, last, n, from + 1, f)
    BY <1>2, <2>1, <2>2
  <2>4. PICK first : first = <<piece[from]>> \o f[last[from] + 1]
    OBVIOUS
  <2>5. PICK g : g = [j \in from..n + 1 |-> IF j = from THEN first ELSE f[j]]
    OBVIOUS
  <2>6. /\ g[from] = first
        /\ \A j \in from + 1..n + 1 : g[j] = f[j]
    BY <2>5
  <2>7. \A j \in from + 1..n + 1 : f[j] = IF j > n THEN <<>> ELSE <<piece[j]>> \o f[last[j] + 1]
    BY <2>3, Zenon DEF Walks
  <2>8. ASSUME NEW j \in from..n + 1
        PROVE  g[j] = IF j > n THEN <<>> ELSE <<piece[j]>> \o g[last[j] + 1]
    <3>1. CASE j = from
      <4>1. last[from] + 1 \in from + 1..n + 1 /\ ~(from > n)
        OBVIOUS
      <4>2. g[last[from] + 1] = f[last[from] + 1]
        BY <2>6, <4>1, Zenon
      <4> QED BY <2>4, <2>6, <3>1, <4>1, <4>2, Zenon
    <3>2. CASE j # from /\ j > n
      <4>1. j \in from + 1..n + 1
        BY <3>2
      <4> QED BY <2>6, <2>7, <3>2, <4>1, Zenon
    <3>3. CASE j # from /\ ~(j > n)
      <4>1. j \in from + 1..n + 1 /\ j \in 1..n
        BY <3>3
      <4>2. last[j] + 1 \in from + 1..n + 1
        BY <3>3, <4>1
      <4>3. g[last[j] + 1] = f[last[j] + 1]
        BY <2>6, <4>2, Zenon
      <4>4. f[j] = <<piece[j]>> \o f[last[j] + 1]
        BY <2>7, <3>3, <4>1, Zenon
      <4> QED BY <2>6, <3>3, <4>1, <4>3, <4>4, Zenon
    <3> QED BY <3>1, <3>2, <3>3
  <2>9. g = [j \in from..n + 1 |-> g[j]]
    BY <2>5
  <2>10. Walks(piece, last, n, from, g)
    BY <2>8, <2>9 DEF Walks
  <2> QED BY <2>2, <2>10
<1> HIDE DEF T
<1>3. Nat \subseteq T
  BY <1>1, <1>2, Induction
<1>4. n \in T /\ n + 1 - n = 1
  BY <1>3
<1> QED BY <1>4 DEF T

LEMMA WalkType ==
  ASSUME NEW E, NEW piece, NEW last, NEW n \in Nat, NEW f, Walks(piece, last, n, 1, f),
         \A j \in 1..n : last[j] \in j..n, \A j \in 1..n : piece[j] \in E
  PROVE  (\A j \in 1..n + 1 : f[j] \in Seq(E)) /\ (n > 0 => f[1] # <<>>)
<1>1. \A j \in 1..n + 1 : f[j] = IF j > n THEN <<>> ELSE <<piece[j]>> \o f[last[j] + 1]
  BY Zenon DEF Walks
<1> DEFINE T == {i \in Nat : \A j \in 1..n + 1 : n + 1 - j <= i => f[j] \in Seq(E)}
<1>2. ASSUME NEW j \in 1..n, f[last[j] + 1] \in Seq(E)
      PROVE  f[j] \in Seq(E) /\ f[j] # <<>>
  <2>1. f[j] = <<piece[j]>> \o f[last[j] + 1]
    <3>1. j \in 1..n + 1 /\ ~(j > n)
      OBVIOUS
    <3> QED BY <1>1, <3>1, Zenon
  <2>2. PICK e \in E : e = piece[j]
    OBVIOUS
  <2>3. PICK rest \in Seq(E) : rest = f[last[j] + 1]
    BY <1>2
  <2>4. <<e>> \in Seq(E) /\ <<e>> # <<>>
    OBVIOUS
  <2>5. <<e>> \o rest \in Seq(E) /\ <<e>> \o rest # <<>>
    BY <2>4, ConcatFilled DEF Filled
  <2> QED BY <2>1, <2>2, <2>3, <2>5
<1>3. 0 \in T
  <2>1. ASSUME NEW j \in 1..n + 1, n + 1 - j <= 0 PROVE f[j] \in Seq(E)
    <3>1. j > n
      BY <2>1
    <3> QED BY <1>1, <3>1, EmptySeq
  <2> QED BY <2>1
<1>4. ASSUME NEW i \in Nat, i \in T PROVE i + 1 \in T
  <2>1. SUFFICES ASSUME NEW j \in 1..n + 1, n + 1 - j <= i + 1 PROVE f[j] \in Seq(E)
    OBVIOUS
  <2>2. CASE j > n
    BY <1>1, <2>2, EmptySeq
  <2>3. CASE ~(j > n)
    <3>1. j \in 1..n /\ last[j] + 1 \in 1..n + 1 /\ n + 1 - (last[j] + 1) <= i
      BY <2>1, <2>3
    <3>2. f[last[j] + 1] \in Seq(E)
      BY <1>4, <3>1
    <3> QED BY <1>2, <3>1, <3>2
  <2> QED BY <2>2, <2>3
<1> HIDE DEF T
<1>5. Nat \subseteq T
  BY <1>3, <1>4, Induction
<1>6. \A j \in 1..n + 1 : f[j] \in Seq(E)
  <2>1. n + 1 \in T
    BY <1>5
  <2> QED BY <2>1 DEF T
<1>7. n > 0 => f[1] # <<>>
  <2>1. SUFFICES ASSUME n > 0 PROVE f[1] # <<>>
    OBVIOUS
  <2>2. 1 \in 1..n /\ last[1] + 1 \in 1..n + 1
    BY <2>1
  <2> QED BY <1>2, <1>6, <2>2
<1> QED BY <1>6, <1>7

-----------------------------------------------------------------------------
(* Each element spread into a sequence, and the sequences concatenated.    *)

Spread(F, s) == FlattenSeq(Mapped(F, s))

LEMMA MappedType ==
  ASSUME NEW P, NEW E, NEW F, Maps(F, P, E), NEW s \in Seq(P)
  PROVE  /\ Mapped(F, s) \in Seq(Seq(E)) /\ Len(Mapped(F, s)) = Len(s)
         /\ \A k \in 1..Len(s) : Mapped(F, s)[k] = F[s[k]]
         /\ Spread(F, s) \in Seq(E)
<1>1. PICK S : S = Seq(E)
  OBVIOUS
<1>2. PICK f : f = Mapped(F, s)
  OBVIOUS
<1>3. DOMAIN s = 1..Len(s) /\ \A k \in DOMAIN s : s[k] \in P
  BY LenProperties, ElementOfSeq
<1>4. f = [k \in DOMAIN s |-> f[k]] /\ \A k \in DOMAIN s : f[k] = F[s[k]]
  BY <1>2 DEF Mapped
<1>5. \A k \in DOMAIN s : f[k] \in S
  BY <1>1, <1>3, <1>4 DEF Maps
<1>6. f \in Seq(S) /\ Len(f) = Len(s)
  BY <1>4, <1>5, MapIsSequence
<1>7. FlattenSeq(f) \in Seq(E)
  BY <1>1, <1>6, FlattenType
<1> QED BY <1>1, <1>2, <1>3, <1>4, <1>6, <1>7 DEF Spread

LEMMA SpreadEmpty == ASSUME NEW F PROVE Spread(F, <<>>) = <<>>
<1>1. Mapped(F, <<>>) = <<>>
  BY DEF Mapped
<1> QED BY <1>1, FlattenEmpty DEF Spread

LEMMA SpreadAppend ==
  ASSUME NEW P, NEW E, NEW F, Maps(F, P, E), NEW s \in Seq(P), NEW e \in P
  PROVE  Spread(F, Append(s, e)) = Spread(F, s) \o F[e]
<1>a. PICK n \in Nat : n = Len(s)
  BY LenProperties
<1>1. PICK more \in Seq(P) : more = Append(s, e) /\ Appends(more, s, e, n)
  BY <1>a, AppendElements
<1>2. PICK f, g : f = Mapped(F, s) /\ g = Mapped(F, more)
  OBVIOUS
<1>3. /\ f \in Seq(Seq(E)) /\ Len(f) = n /\ \A k \in 1..n : f[k] = F[s[k]]
  BY <1>a, <1>2, MappedType
<1>4. /\ g \in Seq(Seq(E)) /\ Len(g) = n + 1 /\ \A k \in 1..n + 1 : g[k] = F[more[k]]
  <2>1. Len(more) = n + 1
    BY <1>1 DEF Appends
  <2>2. /\ g \in Seq(Seq(E)) /\ Len(g) = Len(more)
        /\ \A k \in 1..Len(more) : g[k] = F[more[k]]
    BY <1>2, MappedType
  <2> QED BY <2>1, <2>2, Zenon
<1>5. Agree(f, g, n)
  <2>1. SUFFICES ASSUME NEW k \in 1..n PROVE f[k] = g[k]
    BY DEF Agree
  <2>2. k \in 1..n + 1
    OBVIOUS
  <2>3. more[k] = s[k]
    BY <1>1 DEF Appends, Agree
  <2> QED BY <1>3, <1>4, <2>2, <2>3, Zenon
<1>6. g[n + 1] = F[e]
  <2>1. n + 1 \in 1..n + 1 /\ more[n + 1] = e
    BY <1>1 DEF Appends
  <2> QED BY <1>4, <2>1
<1>7. FlattenSeq(g) = FlattenSeq(f) \o g[n + 1]
  <2>1. f \in Seq(Seq(E)) /\ n = Len(f) /\ g \in Seq(Seq(E)) /\ Len(g) = n + 1
    BY <1>3, <1>4, Zenon
  <2> QED BY <1>5, <2>1, FlattenLonger
<1> QED BY <1>1, <1>2, <1>6, <1>7 DEF Spread

LEMMA SpreadOne ==
  ASSUME NEW P, NEW E, NEW F, Maps(F, P, E), NEW e \in P
  PROVE  Spread(F, <<e>>) = F[e]
<1>1. <<>> \in Seq(P) /\ Append(<<>>, e) = <<e>>
  OBVIOUS
<1>2. Spread(F, Append(<<>>, e)) = Spread(F, <<>>) \o F[e]
  BY <1>1, SpreadAppend
<1>3. <<>> \o F[e] = F[e]
  BY ConcatEmptySeq DEF Maps
<1> QED BY <1>1, <1>2, <1>3, SpreadEmpty

LEMMA SpreadConcat ==
  ASSUME NEW P, NEW E, NEW F, Maps(F, P, E), NEW s \in Seq(P), NEW t \in Seq(P)
  PROVE  s \o t \in Seq(P) /\ Spread(F, s \o t) = Spread(F, s) \o Spread(F, t)
<1> DEFINE T == {u \in Seq(P) : Spread(F, s \o u) = Spread(F, s) \o Spread(F, u)}
<1>1. <<>> \in T
  <2>1. Spread(F, s) \in Seq(E)
    BY MappedType
  <2>2. s \o <<>> = s /\ Spread(F, s) \o <<>> = Spread(F, s)
    BY <2>1, ConcatEmptySeq
  <2> QED BY <2>2, SpreadEmpty, EmptySeq
<1>2. ASSUME NEW u \in Seq(P), NEW e \in P, u \in T PROVE Append(u, e) \in T
  <2>1. PICK x \in Seq(E), y \in Seq(E), z \in Seq(E) :
           x = Spread(F, s) /\ y = Spread(F, u) /\ z = F[e]
    BY MappedType DEF Maps
  <2>2. Spread(F, s \o u) = x \o y
    BY <1>2, <2>1
  <2> HIDE DEF T
  <2>a. Spread(F, Append(u, e)) = Spread(F, u) \o F[e]
    BY SpreadAppend
  <2>3. Spread(F, Append(u, e)) = y \o z
    BY <2>1, <2>a
  <2>4. Spread(F, s \o Append(u, e)) = (x \o y) \o z
    <3>1. s \o Append(u, e) = Append(s \o u, e) /\ s \o u \in Seq(P)
      BY ConcatAppend, ConcatProperties
    <3>a. PICK both \in Seq(P) : both = s \o u
      BY <3>1
    <3>2. Spread(F, Append(both, e)) = Spread(F, both) \o F[e]
      BY SpreadAppend
    <3> QED BY <2>1, <2>2, <3>1, <3>a, <3>2, Zenon
  <2>5. Associate(x, y, z)
    BY ConcatAssociate
  <2>6. Append(u, e) \in Seq(P)
    BY AppendProperties
  <2> QED BY <2>1, <2>3, <2>4, <2>5, <2>6, Zenon DEF Associate, T
<1> HIDE DEF T
<1>3. Seq(P) \subseteq T
  BY <1>1, <1>2, SequenceInduction
<1> QED BY <1>3, ConcatProperties DEF T

\* A concatenation is spread as what is concatenated.
LEMMA SpreadFlatten ==
  ASSUME NEW P, NEW E, NEW F, Maps(F, P, E), NEW ss \in Seq(Seq(P))
  PROVE  /\ FlattenSeq(ss) \in Seq(P)
         /\ Spread(F, FlattenSeq(ss)) = FlattenSeq([k \in DOMAIN ss |-> Spread(F, ss[k])])
<1>1. PICK S : S = Seq(P)
  OBVIOUS
<1>2. PICK G : G = [s \in S |-> Spread(F, s)]
  OBVIOUS
<1>3. Maps(G, S, E)
  BY <1>1, <1>2, MappedType DEF Maps
<1>4. \A s \in S : G[s] = Spread(F, s)
  BY <1>2
<1> DEFINE T == {us \in Seq(S) : Spread(F, FlattenSeq(us)) = Spread(G, us)}
<1>5. <<>> \in T
  BY SpreadEmpty, FlattenEmpty, EmptySeq
<1>6. ASSUME NEW us \in Seq(S), NEW s \in S, us \in T PROVE Append(us, s) \in T
  <2>1. FlattenSeq(Append(us, s)) = FlattenSeq(us) \o s /\ FlattenSeq(us) \in Seq(P)
    BY <1>1, FlattenAppend, FlattenType
  <2>2. Spread(F, FlattenSeq(us) \o s) = Spread(F, FlattenSeq(us)) \o Spread(F, s)
    BY <1>1, <2>1, SpreadConcat
  <2>3. Spread(G, Append(us, s)) = Spread(G, us) \o G[s]
    BY <1>3, SpreadAppend
  <2>4. Append(us, s) \in Seq(S)
    BY AppendProperties
  <2> QED BY <1>4, <1>6, <2>1, <2>2, <2>3, <2>4, Zenon
<1> HIDE DEF T
<1>7. Seq(S) \subseteq T
  BY <1>5, <1>6, SequenceInduction
<1>8. Spread(F, FlattenSeq(ss)) = Spread(G, ss)
  BY <1>1, <1>7 DEF T
<1>9. Mapped(G, ss) = [k \in DOMAIN ss |-> Spread(F, ss[k])]
  <2>1. ASSUME NEW k \in DOMAIN ss PROVE G[ss[k]] = Spread(F, ss[k])
    <3>1. ss[k] \in S
      BY <1>1, ElementOfSeq, LenProperties
    <3> QED BY <1>4, <3>1
  <2> QED BY <2>1 DEF Mapped
<1> QED BY <1>8, <1>9, FlattenType DEF Spread

\* What maps to nothing leaves nothing.
LEMMA SpreadNothing ==
  ASSUME NEW Q, NEW F, \A q \in Q : F[q] = <<>>, NEW s \in Seq(Q)
  PROVE  Spread(F, s) = <<>>
<1> DEFINE T == {u \in Seq(Q) : Spread(F, u) = <<>>}
<1>0. Maps(F, Q, {}) /\ <<>> \in Seq({})
  BY EmptySeq DEF Maps
<1>1. <<>> \in T
  BY SpreadEmpty, EmptySeq
<1>2. ASSUME NEW u \in Seq(Q), NEW e \in Q, u \in T PROVE Append(u, e) \in T
  <2>1. Spread(F, Append(u, e)) = Spread(F, u) \o F[e]
    BY <1>0, SpreadAppend
  <2>2. <<>> \o <<>> = <<>>
    BY <1>0, ConcatEmptySeq
  <2> QED BY <1>2, <2>1, <2>2, AppendProperties
<1> HIDE DEF T
<1>3. Seq(Q) \subseteq T
  BY <1>1, <1>2, SequenceInduction
<1> QED BY <1>3 DEF T

\* A walk's pieces spread to what its first place has, if each place has what its piece
\* spreads to, and behind it what the place has that is next.
Carries(has, G, P, piece, last, n) ==
    /\ \A j \in 1..n : last[j] \in j..n
    /\ \A j \in 1..n : piece[j] \in P
    /\ \A j \in 1..n : has[j] = G[piece[j]] \o has[last[j] + 1]
    /\ has[n + 1] = <<>>

LEMMA WalkSpread ==
  ASSUME NEW P, NEW E, NEW G, Maps(G, P, E), NEW piece, NEW last, NEW n \in Nat,
         NEW f, Walks(piece, last, n, 1, f), NEW has, Carries(has, G, P, piece, last, n)
  PROVE  f[1] \in Seq(P) /\ Spread(G, f[1]) = has[1]
<1>a. \A j \in 1..n : last[j] \in j..n /\ last[j] + 1 \in 1..n + 1
  BY DEF Carries
<1>b. \A j \in 1..n : piece[j] \in P
  BY DEF Carries
<1>c. \A j \in 1..n : has[j] = G[piece[j]] \o has[last[j] + 1]
  BY Zenon DEF Carries
<1>d. has[n + 1] = <<>>
  BY DEF Carries
<1>1. \A j \in 1..n + 1 : f[j] = IF j > n THEN <<>> ELSE <<piece[j]>> \o f[last[j] + 1]
  BY Zenon DEF Walks
<1>2. \A j \in 1..n + 1 : f[j] \in Seq(P)
  <2>1. \A j \in 1..n : last[j] \in j..n
    BY <1>a
  <2> QED BY <1>b, <2>1, WalkType
<1> DEFINE T == {i \in Nat : \A j \in 1..n + 1 : n + 1 - j <= i => Spread(G, f[j]) = has[j]}
<1>3. ASSUME NEW j \in 1..n + 1, j > n PROVE Spread(G, f[j]) = has[j]
  <2>1. j = n + 1
    BY <1>3
  <2>2. f[j] = <<>>
    BY <1>1, <1>3, Zenon
  <2> QED BY <1>d, <2>1, <2>2, SpreadEmpty
<1>4. ASSUME NEW j \in 1..n, Spread(G, f[last[j] + 1]) = has[last[j] + 1]
      PROVE  Spread(G, f[j]) = has[j]
  <2>1. f[j] = <<piece[j]>> \o f[last[j] + 1]
    <3>1. j \in 1..n + 1 /\ ~(j > n)
      OBVIOUS
    <3> QED BY <1>1, <3>1, Zenon
  <2>2. PICK e \in P : e = piece[j]
    BY <1>b
  <2>3. PICK rest \in Seq(P) : rest = f[last[j] + 1]
    <3>1. last[j] + 1 \in 1..n + 1
      BY <1>a
    <3> QED BY <1>2, <3>1
  <2>a. <<e>> \in Seq(P)
    OBVIOUS
  <2>4. PICK one \in Seq(P) : one = <<e>>
    BY <2>a
  <2>5. Spread(G, one \o rest) = Spread(G, one) \o Spread(G, rest)
    BY SpreadConcat
  <2>6. Spread(G, one) = G[e]
    BY <2>4, SpreadOne
  <2> QED BY <1>4, <1>c, <2>1, <2>2, <2>3, <2>4, <2>5, <2>6, Zenon
<1>5. 0 \in T
  <2>1. ASSUME NEW j \in 1..n + 1, n + 1 - j <= 0 PROVE j > n
    BY <2>1
  <2> QED BY <1>3, <2>1
<1>6. ASSUME NEW i \in Nat, i \in T PROVE i + 1 \in T
  <2>1. SUFFICES ASSUME NEW j \in 1..n + 1, n + 1 - j <= i + 1 PROVE Spread(G, f[j]) = has[j]
    OBVIOUS
  <2>2. CASE ~(j > n)
    <3>1. j \in 1..n /\ last[j] + 1 \in 1..n + 1 /\ n + 1 - (last[j] + 1) <= i
      BY <1>a, <2>1, <2>2
    <3>2. Spread(G, f[last[j] + 1]) = has[last[j] + 1]
      BY <1>6, <3>1
    <3> QED BY <1>4, <3>1, <3>2
  <2> QED BY <1>3, <2>2
<1> HIDE DEF T
<1>7. Nat \subseteq T
  BY <1>5, <1>6, Induction
<1>8. Spread(G, f[1]) = has[1]
  <2>1. n \in T /\ 1 \in 1..n + 1 /\ n + 1 - 1 <= n
    BY <1>7
  <2> QED BY <2>1 DEF T
<1>9. 1 \in 1..n + 1
  OBVIOUS
<1> QED BY <1>2, <1>8, <1>9

LEMMA PairIs ==
  ASSUME NEW P, NEW a \in P, NEW b \in P
  PROVE  /\ <<a, b>> \in Seq(P) /\ <<a>> \in Seq(P)
         /\ Append(<<a>>, b) = <<a, b>> /\ <<a>> \o <<b>> = <<a, b>>
<1>1. <<a>> \in Seq(P) /\ Len(<<a>>) = 1 /\ <<a>>[1] = a
  OBVIOUS
<1>2. <<a, b>> \in Seq(P) /\ Len(<<a, b>>) = 2 /\ <<a, b>>[1] = a /\ <<a, b>>[2] = b
  OBVIOUS
<1>3. PICK one \in Seq(P) : one = <<a>> /\ Len(one) = 1 /\ one[1] = a
  BY <1>1
<1>4. PICK pair \in Seq(P) : pair = <<a, b>> /\ Len(pair) = 2 /\ pair[1] = a /\ pair[2] = b
  BY <1>2
<1>5. PICK more \in Seq(P) : more = Append(one, b) /\ Appends(more, one, b, 1)
  BY <1>3, AppendElements
<1>6. Len(more) = 2 /\ more[1] = a /\ more[2] = b
  BY <1>3, <1>5 DEF Appends, Agree
<1>7. more = pair
  <2>1. \A i \in 1..2 : more[i] = pair[i]
    <3>1. \A i \in 1..2 : i = 1 \/ i = 2
      OBVIOUS
    <3> QED BY <1>4, <1>6, <3>1, Zenon
  <2> QED BY <1>4, <1>6, <2>1, SeqEqual
<1>8. Append(one, b) = one \o <<b>>
  BY AppendIsConcat
<1> QED BY <1>1, <1>2, <1>3, <1>4, <1>5, <1>7, <1>8, Zenon

\* whole is left and right behind it.
Joins(whole, left, right) == whole = left \o right

LEMMA SpreadTwo ==
  ASSUME NEW P, NEW E, NEW F, Maps(F, P, E), NEW a \in P, NEW b \in P, NEW two, two = <<a, b>>
  PROVE  two \in Seq(P) /\ Joins(Spread(F, two), F[a], F[b])
<1>1. PICK one \in Seq(P) : one = <<a>>
  BY PairIs
<1>2. Append(one, b) = <<a, b>> /\ Append(one, b) \in Seq(P)
  BY <1>1, PairIs
<1>3. Spread(F, Append(one, b)) = Spread(F, one) \o F[b]
  BY SpreadAppend
<1>4. Spread(F, one) = F[a]
  BY <1>1, SpreadOne
<1> QED BY <1>2, <1>3, <1>4, Zenon DEF Joins

-----------------------------------------------------------------------------
(* A sequence's parts.                                                     *)

LEMMA HeadIsFirst ==
  ASSUME NEW E, NEW s \in Seq(E), s # <<>>
  PROVE  s = <<Head(s)>> \o Tail(s)
<1>1. PICK n \in Nat : n = Len(s) /\ 1 \in 1..n
  <2>1. Len(s) \in Nat \ {0}
    BY EmptySeq
  <2> QED BY <2>1
<1>2. SubSeq(s, 1, n) = <<s[1]>> \o SubSeq(s, 2, n)
  BY <1>1, SubSeqRecursiveFirst
<1>3. SubSeq(s, 1, n) = s
  BY <1>1, SubSeqFull
<1>4. Tail(s) = SubSeq(s, 2, n)
  BY <1>1, TailIsSubSeq
<1>5. Head(s) = s[1]
  OBVIOUS
<1> QED BY <1>2, <1>3, <1>4, <1>5

\* m and k are places of n, and what is from m to k is none of it or more.
FromTo(m, k, n) == n \in Nat /\ m \in 1..n + 1 /\ k \in m - 1..n
LEMMA SubSeqParts ==
  ASSUME NEW E, NEW s \in Seq(E), NEW m, NEW k, NEW n, n = Len(s), FromTo(m, k, n)
  PROVE  /\ SubSeq(s, m, k) \in Seq(E) /\ SubSeq(s, k + 1, n) \in Seq(E)
         /\ Joins(SubSeq(s, m, n), SubSeq(s, m, k), SubSeq(s, k + 1, n))
<1>0. n \in Nat /\ m \in 1..n + 1 /\ k \in m - 1..n
  BY DEF FromTo
<1>1. \A i \in 1..n : s[i] \in E
  BY ElementOfSeq
<1>2. \A i \in m..k : s[i] \in E
  BY <1>0, <1>1
<1>3. \A i \in k + 1..n : s[i] \in E
  BY <1>0, <1>1
<1>4. SubSeq(s, m, k) \in Seq(E)
  BY <1>0, <1>2, SubSeqProperties
<1>5. SubSeq(s, k + 1, n) \in Seq(E)
  BY <1>0, <1>3, SubSeqProperties
<1>6. m \in 1..Len(s) + 1 /\ k \in m - 1..Len(s) /\ n \in k..Len(s)
  BY <1>0
<1>7. SubSeq(s, m, k) \o SubSeq(s, k + 1, n) = SubSeq(s, m, n)
  BY <1>6, ConcatAdjacentSubSeq
<1> QED BY <1>4, <1>5, <1>7 DEF Joins
=============================================================================
