--------------------------- MODULE SequenceLemmas ---------------------------
(***************************************************************************)
(* Induction on a set of numbers, which has a least element, and lemmas    *)
(* about FlattenSeq, which the models build their sequences with: it is a  *)
(* recursive function, so each of them is such an induction.               *)
(***************************************************************************)
EXTENDS Integers, SequencesExt, SequenceTheorems, WellFoundedInduction, TLAPS

\* A set of naturals that is not empty has a least element.
LEMMA LeastNatural ==
  ASSUME NEW T, T \subseteq Nat, T # {}
  PROVE  \E n \in T : \A m \in T : n <= m
<1>1. IsWellFoundedOn(OpToRel(<, Nat), Nat)
  BY NatLessThanWellFounded
<1>2. PICK n \in T : \A m \in T : ~(<<m, n>> \in OpToRel(<, Nat))
  BY <1>1, WFMin
<1>3. ASSUME NEW m \in T PROVE n <= m
  <2>1. m \in Nat /\ n \in Nat
    OBVIOUS
  <2>2. ~(m < n)
    BY <1>2, <2>1 DEF OpToRel
  <2> QED
    BY <2>1, <2>2
<1> QED
  BY <1>3

\* Induction up to n.
LEMMA UpTo ==
  ASSUME NEW T, NEW n \in Nat, 0 \in T, \A i \in 0..n - 1 : i \in T => i + 1 \in T
  PROVE  \A i \in 0..n : i \in T
<1> DEFINE Missed == 0..n \ T
<1> SUFFICES ASSUME Missed # {} PROVE FALSE
  OBVIOUS
<1>1. Missed \subseteq Nat
  OBVIOUS
<1>2. PICK m \in Missed : \A k \in Missed : m <= k
  <2> HIDE DEF Missed
  <2> QED
    BY <1>1, LeastNatural
<1>3. m - 1 \in 0..n - 1
  BY <1>2
<1>4. m - 1 \in T
  BY <1>2, <1>3
<1> QED
  BY <1>2, <1>3, <1>4

\* Induction up to n, each number from all those below it.
LEMMA FromBelow ==
  ASSUME NEW T, NEW n \in Nat, \A i \in 0..n : (\A j \in 0..i - 1 : j \in T) => i \in T
  PROVE  \A i \in 0..n : i \in T
<1> DEFINE Missed == 0..n \ T
<1> SUFFICES ASSUME Missed # {} PROVE FALSE
  OBVIOUS
<1>1. Missed \subseteq Nat
  OBVIOUS
<1>2. PICK m \in Missed : \A k \in Missed : m <= k
  <2> HIDE DEF Missed
  <2> QED
    BY <1>1, LeastNatural
<1>3. \A j \in 0..m - 1 : j \in T
  <2> SUFFICES ASSUME NEW j \in 0..m - 1, j \notin T PROVE FALSE
    OBVIOUS
  <2>1. j \in Missed
    BY <1>2
  <2> QED
    BY <1>2, <2>1
<1> QED
  BY <1>2, <1>3

-----------------------------------------------------------------------------
\* acc[i] is the concatenation of the first i sequences.
Accumulates(acc, seqs, S) ==
  /\ acc \in [0..Len(seqs) -> Seq(S)]
  /\ acc[0] = <<>>
  /\ \A i \in 1..Len(seqs) : acc[i] = acc[i - 1] \o seqs[i]

LEMMA AccumulatorExists ==
  ASSUME NEW S, NEW seqs \in Seq(Seq(S))
  PROVE  \E acc : Accumulates(acc, seqs, S)
<1> DEFINE n == Len(seqs)
           Good(k, f) == /\ f \in [0..k -> Seq(S)]
                         /\ f[0] = <<>>
                         /\ \A i \in 1..k : f[i] = f[i - 1] \o seqs[i]
           T == {k \in 0..n : \E f : Good(k, f)}
<1>1. n \in Nat /\ \A i \in 1..n : seqs[i] \in Seq(S)
  OBVIOUS
<1>2. 0 \in T
  <2>1. Good(0, [i \in 0..0 |-> <<>>])
    OBVIOUS
  <2>2. 0 \in 0..n
    BY <1>1
  <2> HIDE DEF Good
  <2> QED
    BY <2>1, <2>2
<1>3. ASSUME NEW k \in 0..n - 1, k \in T PROVE k + 1 \in T
  <2> DEFINE j == k + 1
  <2>1. PICK f : Good(k, f)
    BY <1>3
  <2> DEFINE g == [i \in 0..j |-> IF i = j THEN f[k] \o seqs[j] ELSE f[i]]
  <2>2. j \in 1..n /\ k \in 0..k /\ k = j - 1 /\ k \in Nat
    BY <1>1
  <2>3. f[k] \o seqs[j] \in Seq(S)
    <3>1. f[k] \in Seq(S) /\ seqs[j] \in Seq(S)
      BY <1>1, <2>1, <2>2
    <3> HIDE DEF j
    <3> QED
      BY <3>1, ConcatProperties
  <2>4. \A i \in 0..k : f[i] \in Seq(S) /\ i # j
    BY <2>1, <2>2
  <2>5. g \in [0..j -> Seq(S)] /\ g[0] = <<>>
    BY <2>1, <2>2, <2>3, <2>4
  <2>6. ASSUME NEW i \in 1..j PROVE g[i] = g[i - 1] \o seqs[i]
    <3>0. i \in 0..j /\ i - 1 \in 0..j /\ i - 1 # j /\ i - 1 \in 0..k
      BY <2>2
    <3>1. CASE i = j
      BY <2>2, <3>0, <3>1
    <3>2. CASE i # j
      <4>1. i \in 1..k
        BY <2>2, <3>2
      <4>2. g[i] = f[i] /\ g[i - 1] = f[i - 1]
        BY <3>0, <3>2
      <4>3. f[i] = f[i - 1] \o seqs[i]
        BY <2>1, <4>1
      <4> QED
        BY <4>2, <4>3
    <3> QED
      BY <3>1, <3>2
  <2>7. Good(j, g)
    BY <2>5, <2>6
  <2>8. j \in 0..n
    BY <2>2
  <2>9. j \in T
    <3> HIDE DEF Good, g, j
    <3> QED
      BY <2>7, <2>8
  <2> QED
    BY <2>9
<1>4. n \in T
  <2> HIDE DEF T
  <2>1. \A i \in 0..n : i \in T
    BY <1>1, <1>2, <1>3, UpTo
  <2> QED
    BY <1>1, <2>1
<1> QED
  BY <1>4 DEF Accumulates

LEMMA FirstPiece ==
  ASSUME NEW S, NEW seqs \in Seq(Seq(S)), NEW acc, Accumulates(acc, seqs, S), 1 \in 1..Len(seqs)
  PROVE  acc[1] = <<>> \o seqs[1]
<1>1. acc[1] = acc[1 - 1] \o seqs[1]
  BY DEF Accumulates
<1>2. 1 - 1 = 0
  OBVIOUS
<1> QED
  BY <1>1, <1>2 DEF Accumulates

LEMMA FlattenAccumulates ==
  ASSUME NEW S, NEW seqs \in Seq(Seq(S))
  PROVE  \E acc : Accumulates(acc, seqs, S) /\ FlattenSeq(seqs) = acc[Len(seqs)]
<1> DEFINE n == Len(seqs)
           Flatten(f) == [i \in 1..n |-> IF i = 1 THEN seqs[i] ELSE f[i - 1] \o seqs[i]]
<1>1. PICK acc : Accumulates(acc, seqs, S)
  BY AccumulatorExists
<1>2. n \in Nat /\ \A i \in 1..n : seqs[i] \in Seq(S)
  OBVIOUS
<1>3. CASE n = 0
  <2>1. seqs = <<>>
    BY <1>3, EmptySeq
  <2> QED
    BY <1>1, <1>3, <2>1 DEF Accumulates, FlattenSeq
<1>4. CASE n # 0
  <2> DEFINE g == CHOOSE f : f = Flatten(f)
             h == [i \in 1..n |-> acc[i]]
  <2>1. h = Flatten(h)
    <3>1. ASSUME NEW i \in 1..n
          PROVE  h[i] = IF i = 1 THEN seqs[i] ELSE h[i - 1] \o seqs[i]
      <4>1. CASE i = 1
        <5>1. acc[1] = <<>> \o seqs[1]
          BY <1>1, <4>1, FirstPiece
        <5>2. <<>> \o seqs[1] = seqs[1]
          BY <1>2, <4>1, ConcatEmptySeq
        <5> QED
          BY <4>1, <5>1, <5>2
      <4>2. CASE i # 1
        <5>1. i - 1 \in 1..n
          BY <1>2, <4>2
        <5> QED
          BY <1>1, <4>2, <5>1 DEF Accumulates
      <4> QED
        BY <4>1, <4>2
    <3> QED
      BY <3>1
  <2>2. g = Flatten(g)
    <3> HIDE DEF h
    <3> QED
      BY <2>1
  <2> HIDE DEF g
  <2>3. g \in [1..n -> {g[i] : i \in 1..n}]
    BY <2>2
  <2>4. \A i \in 1..n : g[i] = IF i = 1 THEN seqs[i] ELSE g[i - 1] \o seqs[i]
    BY <2>2
  <2> DEFINE T == {i \in 0..n : i = 0 \/ g[i] = acc[i]}
  <2>5. 0 \in T
    BY <1>2
  <2>6. ASSUME NEW k \in 0..n - 1, k \in T PROVE k + 1 \in T
    <3>1. k + 1 \in 1..n
      BY <1>2
    <3>2. CASE k = 0
      <4>0. k + 1 = 1 /\ 1 \in 1..n
        BY <3>1, <3>2
      <4>1. g[1] = seqs[1]
        BY <2>4, <4>0
      <4>2. acc[1] = <<>> \o seqs[1]
        BY <1>1, <4>0, FirstPiece
      <4>3. <<>> \o seqs[1] = seqs[1]
        BY <1>2, <4>0, ConcatEmptySeq
      <4>4. g[1] = acc[1]
        BY <4>1, <4>2, <4>3
      <4>5. 1 \in T
        BY <4>0, <4>4
      <4> QED
        BY <4>0, <4>5
    <3>3. CASE k # 0
      <4>1. k + 1 # 1 /\ (k + 1) - 1 = k /\ g[k] = acc[k]
        BY <1>2, <2>6, <3>3
      <4>2. g[k + 1] = g[k] \o seqs[k + 1]
        BY <2>4, <3>1, <4>1
      <4>3. acc[k + 1] = acc[k] \o seqs[k + 1]
        BY <1>1, <3>1, <4>1 DEF Accumulates
      <4>4. k + 1 \in 0..n /\ g[k + 1] = acc[k + 1]
        BY <3>1, <4>1, <4>2, <4>3
      <4> QED
        BY <4>4
    <3> QED
      BY <3>2, <3>3
  <2>7. n \in T
    <3> HIDE DEF T
    <3>1. \A i \in 0..n : i \in T
      BY <1>2, <2>5, <2>6, UpTo
    <3> QED
      BY <1>2, <3>1
  <2>8. FlattenSeq(seqs) = g[n]
    BY <1>4 DEF g, FlattenSeq
  <2> QED
    BY <1>1, <1>4, <2>7, <2>8
<1> QED
  BY <1>3, <1>4
-----------------------------------------------------------------------------
\* What FlattenSeq returns is a sequence of the elements of its sequences.
LEMMA ConcatElements ==
  ASSUME NEW S, NEW a \in Seq(S), NEW b \in Seq(S)
  PROVE  ToSet(a \o b) = ToSet(a) \cup ToSet(b)
<1>1. /\ a \o b \in Seq(S)
      /\ Len(a \o b) = Len(a) + Len(b)
      /\ \A i \in 1..Len(a) + Len(b) : (a \o b)[i] = IF i <= Len(a) THEN a[i] ELSE b[i - Len(a)]
  BY ConcatProperties
<1>2. ASSUME NEW x \in ToSet(a) PROVE x \in ToSet(a \o b)
  <2>1. PICK i \in 1..Len(a) : a[i] = x
    BY DEF ToSet
  <2>2. i \in 1..Len(a \o b) /\ (a \o b)[i] = x
    BY <1>1, <2>1
  <2> QED
    BY <1>1, <2>2 DEF ToSet
<1>3. ASSUME NEW x \in ToSet(b) PROVE x \in ToSet(a \o b)
  <2>1. PICK i \in 1..Len(b) : b[i] = x
    BY DEF ToSet
  <2>2. i + Len(a) \in 1..Len(a \o b) /\ (a \o b)[i + Len(a)] = x
    BY <1>1, <2>1
  <2> QED
    BY <1>1, <2>2 DEF ToSet
<1>4. ASSUME NEW x \in ToSet(a \o b) PROVE x \in ToSet(a) \cup ToSet(b)
  <2>1. PICK i \in 1..Len(a) + Len(b) : (a \o b)[i] = x
    BY <1>1 DEF ToSet
  <2>2. CASE i <= Len(a)
    BY <1>1, <2>1, <2>2 DEF ToSet
  <2>3. CASE ~(i <= Len(a))
    <3>1. i - Len(a) \in 1..Len(b) /\ b[i - Len(a)] = x
      BY <1>1, <2>1, <2>3
    <3> QED
      BY <3>1 DEF ToSet
  <2> QED
    BY <2>2, <2>3
<1> QED
  BY <1>2, <1>3, <1>4

LEMMA FlattenElements ==
  ASSUME NEW S, NEW seqs \in Seq(Seq(S))
  PROVE  /\ FlattenSeq(seqs) \in Seq(S)
         /\ ToSet(FlattenSeq(seqs)) = UNION {ToSet(seqs[i]) : i \in 1..Len(seqs)}
<1> DEFINE n == Len(seqs)
           Upto(k) == UNION {ToSet(seqs[i]) : i \in 1..k}
<1>1. PICK acc : Accumulates(acc, seqs, S) /\ FlattenSeq(seqs) = acc[n]
  BY FlattenAccumulates
<1>2. n \in Nat /\ \A i \in 1..n : seqs[i] \in Seq(S)
  OBVIOUS
<1>3. \A k \in 0..n : acc[k] \in Seq(S)
  BY <1>1 DEF Accumulates
<1> DEFINE T == {k \in 0..n : ToSet(acc[k]) = Upto(k)}
<1>4. 0 \in T
  <2>1. acc[0] = <<>> /\ 0 \in 0..n
    BY <1>1, <1>2 DEF Accumulates
  <2>2. ToSet(<<>>) = {} /\ Upto(0) = {}
    BY DEF ToSet
  <2> QED
    BY <2>1, <2>2
<1>5. ASSUME NEW k \in 0..n - 1, k \in T PROVE k + 1 \in T
  <2> DEFINE j == k + 1
  <2>1. j \in 1..n /\ k \in 0..n /\ j \in 0..n /\ j - 1 = k
    BY <1>2
  <2>2. acc[j] = acc[k] \o seqs[j]
    <3>1. acc[j] = acc[j - 1] \o seqs[j]
      BY <1>1, <2>1 DEF Accumulates
    <3> QED
      BY <2>1, <3>1
  <2>3. ToSet(acc[j]) = ToSet(acc[k]) \cup ToSet(seqs[j])
    <3>1. acc[k] \in Seq(S) /\ seqs[j] \in Seq(S)
      BY <1>2, <1>3, <2>1
    <3> QED
      BY <2>2, <3>1, ConcatElements
  <2>4. 1..j = (1..k) \cup {j}
    BY <2>1
  <2>5. Upto(j) = Upto(k) \cup ToSet(seqs[j])
    <3> HIDE DEF j
    <3> QED
      BY <2>4
  <2>6. j \in T
    <3> HIDE DEF j, Upto
    <3> QED
      BY <1>5, <2>1, <2>3, <2>5
  <2> QED
    BY <2>6
<1>6. n \in T
  <2> HIDE DEF T
  <2>1. \A i \in 0..n : i \in T
    BY <1>2, <1>4, <1>5, UpTo
  <2> QED
    BY <1>2, <2>1
<1> QED
  BY <1>1, <1>2, <1>3, <1>6

\* What is left of a sequence once its head is gone.
LEMMA TailElements ==
  ASSUME NEW S, NEW s \in Seq(S), s # <<>>
  PROVE  /\ Tail(s) \in Seq(S)
         /\ Len(Tail(s)) = Len(s) - 1
         /\ \A i \in 1..Len(s) - 1 : Tail(s)[i] = s[i + 1]
         /\ ToSet(s) = {Head(s)} \cup ToSet(Tail(s))
<1>1. Len(s) \in Nat /\ Len(s) >= 1 /\ Head(s) = s[1]
  BY EmptySeq
<1>2. /\ Tail(s) \in Seq(S)
      /\ Len(Tail(s)) = Len(s) - 1
      /\ \A i \in 1..Len(s) - 1 : Tail(s)[i] = s[i + 1]
  BY HeadTailProperties
<1>3. ASSUME NEW x \in ToSet(s) PROVE x \in {Head(s)} \cup ToSet(Tail(s))
  <2>1. PICK i \in 1..Len(s) : s[i] = x
    BY DEF ToSet
  <2>2. CASE i = 1
    BY <1>1, <2>1, <2>2
  <2>3. CASE i # 1
    <3>1. i - 1 \in 1..Len(Tail(s)) /\ i - 1 \in 1..Len(s) - 1 /\ (i - 1) + 1 = i
      BY <1>1, <1>2, <2>1, <2>3
    <3>2. Tail(s)[i - 1] = s[(i - 1) + 1]
      BY <1>2, <3>1
    <3>3. Tail(s)[i - 1] = x
      BY <2>1, <3>1, <3>2
    <3>4. i - 1 \in DOMAIN Tail(s)
      BY <1>2, <3>1
    <3> QED
      BY <3>3, <3>4 DEF ToSet
  <2> QED
    BY <2>2, <2>3
<1>4. ASSUME NEW x \in ToSet(Tail(s)) PROVE x \in ToSet(s)
  <2>1. PICK i \in 1..Len(Tail(s)) : Tail(s)[i] = x
    BY <1>2 DEF ToSet
  <2>2. i + 1 \in 1..Len(s) /\ s[i + 1] = x
    BY <1>1, <1>2, <2>1
  <2> QED
    BY <2>2 DEF ToSet
<1>5. Head(s) \in ToSet(s)
  BY <1>1 DEF ToSet
<1> QED
  BY <1>2, <1>3, <1>4, <1>5

-----------------------------------------------------------------------------
\* The part of s from a + 1 to b, put together from one sequence per element.
LEMMA FlattenWindow ==
  ASSUME NEW S, NEW s \in Seq(S), NEW pieces \in Seq(Seq(S)), Len(pieces) = Len(s),
         NEW a \in 0..Len(s), NEW b \in a..Len(s),
         \A i \in 1..Len(s) : pieces[i] = IF a < i /\ i <= b THEN <<s[i]>> ELSE <<>>
  PROVE  FlattenSeq(pieces) = SubSeq(s, a + 1, b)
<1> DEFINE n == Len(s)
           Least(k) == IF k < b THEN k ELSE b
           Window(k) == SubSeq(s, a + 1, Least(k))
<1>1. PICK acc : Accumulates(acc, pieces, S) /\ FlattenSeq(pieces) = acc[n]
  BY FlattenAccumulates
<1>2. n \in Nat /\ a \in Nat /\ b \in Nat /\ a <= b /\ b <= n /\ \A i \in 1..n : s[i] \in S
  OBVIOUS
<1> DEFINE T == {k \in 0..n : acc[k] = Window(k)}
<1>3. 0 \in T
  <2>1. acc[0] = <<>> /\ 0 \in 0..n
    BY <1>1, <1>2 DEF Accumulates
  <2>2. Least(0) < a + 1 /\ Least(0) \in Int /\ a + 1 \in Int
    <3>1. Least(0) = 0
      BY <1>2
    <3> QED
      BY <1>2, <3>1
  <2>3. Window(0) = <<>>
    <3> HIDE DEF Least
    <3> QED
      BY <2>2, SubSeqEmpty
  <2> QED
    BY <2>1, <2>3
<1>4. ASSUME NEW k \in 0..n - 1, k \in T PROVE k + 1 \in T
  <2> DEFINE j == k + 1
  <2>1. j \in 1..n /\ j \in 0..n /\ k \in Nat /\ j - 1 = k
    BY <1>2
  <2>2. acc[j] = acc[k] \o pieces[j]
    <3>1. acc[j] = acc[j - 1] \o pieces[j]
      BY <1>1, <2>1 DEF Accumulates
    <3> QED
      BY <2>1, <3>1
  <2>3. acc[k] = Window(k)
    BY <1>4
  <2>4. pieces[j] = IF a < j /\ j <= b THEN <<s[j]>> ELSE <<>>
    BY <2>1
  <2>5. CASE a < j /\ j <= b
    <3>1. Least(k) = k /\ Least(j) = j
      BY <1>2, <2>1, <2>5
    <3>2. acc[j] = SubSeq(s, a + 1, k) \o <<s[j]>>
      BY <2>2, <2>3, <2>4, <2>5, <3>1
    <3>3. a + 1 \in 1..Len(s) /\ j \in a + 1..Len(s)
      BY <1>2, <2>1, <2>5
    <3>4. SubSeq(s, a + 1, j) = SubSeq(s, a + 1, j - 1) \o <<s[j]>>
      <4> HIDE DEF j
      <4> QED
        BY <3>3, SubSeqRecursiveSecond
    <3>5. SubSeq(s, a + 1, j - 1) = SubSeq(s, a + 1, k)
      BY <2>1
    <3>6. acc[j] = Window(j)
      BY <3>1, <3>2, <3>4, <3>5
    <3> QED
      BY <2>1, <3>6
  <2>6. CASE ~(a < j /\ j <= b)
    <3>1. acc[k] \in Seq(S)
      <4>1. k \in 0..Len(pieces)
        BY <1>2, <2>1
      <4> QED
        BY <1>1, <4>1 DEF Accumulates
    <3>2. acc[j] = Window(k)
      <4>1. acc[k] \o <<>> = acc[k]
        BY <3>1, ConcatEmptySeq
      <4> QED
        BY <2>2, <2>3, <2>4, <2>6, <4>1
    <3>3. Window(k) = Window(j)
      <4>1. CASE j <= a
        <5>1. Least(k) < a + 1 /\ Least(j) < a + 1 /\ a + 1 \in Int /\ Least(k) \in Int /\ Least(j) \in Int
          BY <1>2, <2>1, <4>1
        <5> HIDE DEF Least, j
        <5>2. SubSeq(s, a + 1, Least(k)) = <<>> /\ SubSeq(s, a + 1, Least(j)) = <<>>
          BY <5>1, SubSeqEmpty
        <5> QED
          BY <5>2
      <4>2. CASE ~(j <= a)
        BY <1>2, <2>1, <2>6, <4>2
      <4> QED
        BY <4>1, <4>2
    <3>4. acc[j] = Window(j)
      BY <3>2, <3>3
    <3> QED
      BY <2>1, <3>4
  <2> QED
    BY <2>5, <2>6
<1>5. n \in T
  <2> HIDE DEF T
  <2>1. \A i \in 0..n : i \in T
    BY <1>2, <1>3, <1>4, UpTo
  <2> QED
    BY <1>2, <2>1
<1>6. Least(n) = b
  BY <1>2
<1> QED
  BY <1>1, <1>5, <1>6

=============================================================================
