---------------------------- MODULE SequenceLemmas ----------------------------
(***************************************************************************)
(* Facts about sequences whose elements are of no particular set: frames   *)
(* of several kinds, samples that hold whatever an adapter reports.        *)
(***************************************************************************)
EXTENDS Integers, Sequences, Functions, Places, FiniteSetTheorems, TLAPS

IsSequence(s) == s \in Seq(Range(s))

\* The empty sequence is one.
LEMMA EmptySequence == IsSequence(<<>>)
BY DEF IsSequence, Range

\* A sequence over any set is one over its own range.
LEMMA RangeSequence ==
  ASSUME NEW S, NEW q \in Seq(S)
  PROVE  IsSequence(q)
<1>1. q \in [1..Len(q) -> S] /\ Len(q) \in Nat /\ DOMAIN q = 1..Len(q)
  OBVIOUS
<1>2. q \in [1..Len(q) -> Range(q)]
  BY <1>1 DEF Range
<1> QED BY <1>1, <1>2 DEF IsSequence

\* What an Append is.
LEMMA AppendSequence ==
  ASSUME NEW s, IsSequence(s), NEW x
  PROVE  /\ IsSequence(Append(s, x)) /\ Append(s, x) # <<>>
         /\ Len(s) \in Nat /\ Len(Append(s, x)) = Len(s) + 1
         /\ Append(s, x)[Len(s) + 1] = x
         /\ \A i \in 1..Len(s) : Append(s, x)[i] = s[i]
<1> DEFINE S == Range(s) \cup {x}
           q == Append(s, x)
<1>1. s \in Seq(S)
  BY DEF IsSequence
<1>2. q \in Seq(S) /\ Len(q) = Len(s) + 1 /\ q # <<>> /\ Len(s) \in Nat
  BY <1>1
<1>3. q[Len(s) + 1] = x /\ \A i \in 1..Len(s) : q[i] = s[i]
  BY <1>1
<1>4. IsSequence(q)
  BY <1>2, RangeSequence
<1> QED BY <1>2, <1>3, <1>4

\* What a concatenation is.
LEMMA ConcatSequence ==
  ASSUME NEW s, IsSequence(s), NEW r, IsSequence(r)
  PROVE  /\ IsSequence(s \o r) /\ Len(s) \in Nat /\ Len(r) \in Nat
         /\ Len(s \o r) = Len(s) + Len(r)
         /\ \A i \in 1..Len(s) : (s \o r)[i] = s[i]
         /\ \A i \in 1..Len(r) : (s \o r)[Len(s) + i] = r[i]
<1> DEFINE S == Range(s) \cup Range(r)
           q == s \o r
<1>1. s \in Seq(S) /\ r \in Seq(S)
  BY DEF IsSequence
<1>2. q \in Seq(S) /\ Len(q) = Len(s) + Len(r) /\ Len(s) \in Nat /\ Len(r) \in Nat
  BY <1>1
<1>3. \A i \in 1..Len(s) : q[i] = s[i]
  BY <1>1
<1>4. \A i \in 1..Len(r) : q[Len(s) + i] = r[i]
  BY <1>1, <1>2
<1>5. IsSequence(q)
  BY <1>2, RangeSequence
<1> QED BY <1>2, <1>3, <1>4, <1>5

\* q is s and two more elements.
TwoMore(q, s, x, y) ==
  /\ IsSequence(q) /\ Len(s) \in Nat /\ Len(q) = Len(s) + 2
  /\ \A i \in 1..Len(s) : q[i] = s[i]
  /\ q[Len(s) + 1] = x /\ q[Len(s) + 2] = y

\* A function on the places of a sequence is a sequence.
LEMMA MappedSequence ==
  ASSUME NEW s, IsSequence(s), NEW q, q = [i \in DOMAIN s |-> q[i]]
  PROVE  IsSequence(q) /\ DOMAIN q = DOMAIN s
<1>1. PICK n \in Nat : DOMAIN s = 1..n
  BY DEF IsSequence
<1>2. DOMAIN q = 1..n
  BY <1>1
<1>3. q \in [1..n -> Range(q)]
  BY <1>1, <1>2 DEF Range
<1> QED BY <1>1, <1>2, <1>3 DEF IsSequence

\* What is in a concatenation is in one of its parts.
LEMMA ConcatRange ==
  ASSUME NEW s, IsSequence(s), NEW r, IsSequence(r)
  PROVE  Range(s \o r) = Range(s) \cup Range(r)
<1> DEFINE q == s \o r
<1>1. /\ DOMAIN s = 1..Len(s) /\ DOMAIN r = 1..Len(r) /\ DOMAIN q = 1..Len(q)
      /\ IsSequence(q) /\ Len(s) \in Nat /\ Len(r) \in Nat /\ Len(q) = Len(s) + Len(r)
      /\ \A i \in 1..Len(s) : q[i] = s[i]
      /\ \A i \in 1..Len(r) : q[Len(s) + i] = r[i]
  BY ConcatSequence DEF IsSequence
<1> HIDE DEF q
<1>2. \A i \in 1..Len(s) : i \in 1..Len(q)
  BY <1>1
<1>3. \A i \in 1..Len(r) : Len(s) + i \in 1..Len(q)
  BY <1>1
<1>4. \A i \in 1..Len(q) : i \in 1..Len(s) \/ (i - Len(s) \in 1..Len(r) /\ i = Len(s) + (i - Len(s)))
  BY <1>1
<1>5. Range(s) \subseteq Range(q)
  BY <1>1, <1>2 DEF Range
<1>6. Range(r) \subseteq Range(q)
  BY <1>1, <1>3 DEF Range
<1>7. Range(q) \subseteq Range(s) \cup Range(r)
  <2> SUFFICES ASSUME NEW i \in 1..Len(q) PROVE q[i] \in Range(s) \cup Range(r)
    BY <1>1 DEF Range
  <2>1. CASE i \in 1..Len(s)
    BY <2>1, <1>1 DEF Range
  <2>2. CASE i \notin 1..Len(s)
    <3>1. PICK k : k = i - Len(s) /\ k \in 1..Len(r) /\ i = Len(s) + k
      BY <2>2, <1>4
    <3> QED BY <3>1, <1>1 DEF Range
  <2> QED BY <2>1, <2>2
<1> QED BY <1>5, <1>6, <1>7 DEF q

\* What a concatenation with two elements is.
LEMMA AppendTwo ==
  ASSUME NEW s, IsSequence(s), NEW x, NEW y, NEW q, q = s \o <<x, y>>
  PROVE  TwoMore(q, s, x, y)
<1> DEFINE S == Range(s) \cup {x, y}
<1>1. s \in Seq(S) /\ <<x, y>> \in Seq(S)
  BY DEF IsSequence
<1>2. q \in Seq(S) /\ Len(q) = Len(s) + 2 /\ Len(s) \in Nat
  BY <1>1
<1>3. /\ q[Len(s) + 1] = x /\ q[Len(s) + 2] = y
      /\ \A i \in 1..Len(s) : q[i] = s[i]
  BY <1>1
<1>4. IsSequence(q)
  BY <1>2, RangeSequence
<1> QED BY <1>2, <1>3, <1>4 DEF TwoMore

\* q is s and three more elements.
ThreeMore(q, s, x, y, z) ==
  /\ IsSequence(q) /\ Len(s) \in Nat /\ Len(q) = Len(s) + 3
  /\ \A i \in 1..Len(s) : q[i] = s[i]
  /\ q[Len(s) + 1] = x /\ q[Len(s) + 2] = y /\ q[Len(s) + 3] = z

\* What a concatenation with three elements is.
LEMMA AppendThree ==
  ASSUME NEW s, IsSequence(s), NEW x, NEW y, NEW z, NEW q, q = s \o <<x, y, z>>
  PROVE  ThreeMore(q, s, x, y, z)
<1> DEFINE S == Range(s) \cup {x, y, z}
<1>1. s \in Seq(S) /\ <<x, y, z>> \in Seq(S)
  BY DEF IsSequence
<1>2. q \in Seq(S) /\ Len(q) = Len(s) + 3 /\ Len(s) \in Nat
  BY <1>1
<1>3. /\ q[Len(s) + 1] = x /\ q[Len(s) + 2] = y /\ q[Len(s) + 3] = z
      /\ \A i \in 1..Len(s) : q[i] = s[i]
  BY <1>1
<1>4. IsSequence(q)
  BY <1>2, RangeSequence
<1> QED BY <1>2, <1>3, <1>4 DEF ThreeMore

\* What is left of a sequence without its head.
LEMMA TailSequence ==
  ASSUME NEW s, IsSequence(s), s # <<>>
  PROVE  /\ IsSequence(Tail(s)) /\ Len(s) \in Nat \ {0} /\ Len(Tail(s)) = Len(s) - 1
         /\ Head(s) = s[1]
         /\ \A i \in 1..(Len(s) - 1) : Tail(s)[i] = s[i + 1]
<1> DEFINE S == Range(s)
<1>1. s \in Seq(S) /\ Len(s) \in Nat \ {0}
  BY DEF IsSequence
<1>2. Tail(s) \in Seq(S) /\ Len(Tail(s)) = Len(s) - 1 /\ Head(s) = s[1]
  BY <1>1
<1>3. \A i \in 1..(Len(s) - 1) : Tail(s)[i] = s[i + 1]
  BY <1>1
<1> QED BY <1>1, <1>2, <1>3, RangeSequence

-----------------------------------------------------------------------------
(* Numbers. *)

\* s grows.
Grows(s) == \A i, j \in DOMAIN s : i < j => s[i] < s[j]

\* A sequence of numbers has finitely many elements, all of them numbers.
LEMMA FiniteRange ==
  ASSUME NEW s \in Seq(Nat)
  PROVE  Range(s) \in SUBSET Nat /\ IsFiniteSet(Range(s))
<1>1. s \in [1..Len(s) -> Nat] /\ Len(s) \in Nat
  OBVIOUS
<1>2. s \in Surjection(1..Len(s), Range(s))
  BY <1>1 DEF Surjection, Range
<1>3. ExistsSurjection(1..Len(s), Range(s))
  BY <1>2 DEF ExistsSurjection
<1> QED BY <1>1, <1>3, FS_NatSurjection DEF Range

\* The larger of two elements of a set of numbers has the more below it.
LEMMA RankGrows ==
  ASSUME NEW S \in SUBSET Nat, IsFiniteSet(S), NEW x \in S, NEW z \in S, x < z
  PROVE  /\ Cardinality({y \in S : y < x}) \in Nat
         /\ Cardinality({y \in S : y < z}) \in Nat
         /\ Cardinality({y \in S : y < x}) < Cardinality({y \in S : y < z})
<1> DEFINE below(v) == {y \in S : y < v}
<1>1. IsFiniteSet(below(x)) /\ IsFiniteSet(below(z))
  BY FS_Subset
<1>2. Cardinality(below(x)) \in Nat /\ Cardinality(below(z)) \in Nat
  BY <1>1, FS_CardinalityType
<1>3. below(x) \in SUBSET below(z) /\ below(x) # below(z)
  <2>1. \A y \in S : y \in Nat /\ (y < x => y < z) /\ ~(x < x)
    OBVIOUS
  <2>2. x \in below(z) /\ x \notin below(x)
    BY <2>1
  <2> QED BY <2>1, <2>2
<1>4. /\ Cardinality(below(x)) <= Cardinality(below(z))
      /\ Cardinality(below(x)) # Cardinality(below(z))
  BY <1>1, <1>3, FS_Subset
<1> QED BY <1>2, <1>4

\* Ranked(S) is an enumeration of S that grows, each element at its rank.
LEMMA RankedSet ==
  ASSUME NEW S \in SUBSET Nat, IsFiniteSet(S)
  PROVE  /\ Ranked(S) \in Seq(Nat) /\ Range(Ranked(S)) = S
         /\ Len(Ranked(S)) = Cardinality(S)
         /\ Grows(Ranked(S))
         /\ \A i \in 1..Cardinality(S) :
              /\ Ranked(S)[i] \in S
              /\ Cardinality({y \in S : y < Ranked(S)[i]}) = i - 1
<1> DEFINE n == Cardinality(S)
           rank == [x \in S |-> Cardinality({y \in S : y < x})]
           q == Ranked(S)
<1>1. n \in Nat
  BY FS_CardinalityType
<1>2. ASSUME NEW x \in S
      PROVE  rank[x] \in 0..(n - 1)
  <2>1. /\ IsFiniteSet(S \ {x}) /\ Cardinality(S \ {x}) = n - 1
        /\ {y \in S : y < x} \in SUBSET (S \ {x})
    BY FS_RemoveElement
  <2>2. /\ IsFiniteSet({y \in S : y < x})
        /\ Cardinality({y \in S : y < x}) <= n - 1
    BY <2>1, FS_Subset
  <2>3. Cardinality({y \in S : y < x}) \in Nat
    BY <2>2, FS_CardinalityType
  <2> QED BY <1>1, <2>2, <2>3
<1>3. \A x, z \in S : x < z => rank[x] < rank[z]
  BY RankGrows
<1>4. rank \in Injection(S, 0..(n - 1))
  <2>1. rank \in [S -> 0..(n - 1)]
    BY <1>2
  <2>2. \A x, z \in S : rank[x] = rank[z] => x = z
    <3>1. \A x, z \in S : x < z \/ z < x \/ x = z
      OBVIOUS
    <3>2. \A x \in S : rank[x] \in Int
      BY <1>1, <1>2
    <3> QED BY <1>3, <3>1, <3>2
  <2> QED BY <2>1, <2>2 DEF Injection, IsInjective
<1>5. IsFiniteSet(0..(n - 1)) /\ Cardinality(0..(n - 1)) = n
  <2> HIDE DEF n
  <2>1. 0 \in Int /\ n - 1 \in Int /\ (0 > n - 1 => n = 0)
    BY <1>1
  <2> QED BY <1>1, <2>1, FS_Interval
<1>6. rank \in Surjection(S, 0..(n - 1))
  BY <1>4, <1>5, FS_Injection
<1>7. ASSUME NEW i \in 1..n
      PROVE  q[i] \in S /\ rank[q[i]] = i - 1
  <2>1. i - 1 \in 0..(n - 1)
    BY <1>1
  <2>2. PICK x \in S : rank[x] = i - 1
    BY <1>6, <2>1 DEF Surjection
  <2>3. q[i] = CHOOSE v \in S : Cardinality({y \in S : y < v}) = i - 1
    BY DEF Ranked
  <2>4. q[i] \in S /\ Cardinality({y \in S : y < q[i]}) = i - 1
    BY <2>2, <2>3
  <2> QED BY <2>4
<1>12. \A i \in 1..n : q[i] \in S /\ Cardinality({y \in S : y < q[i]}) = i - 1
  BY <1>7
<1> HIDE DEF rank
<1>8. q \in Seq(Nat) /\ Len(q) = n /\ DOMAIN q = 1..n
  <2>1. q \in [1..n -> Nat]
    BY <1>7 DEF Ranked
  <2> HIDE DEF q, n
  <2> QED BY <1>1, <2>1
<1> HIDE DEF q
<1>9. Range(q) = S
  <2>1. ASSUME NEW x \in S PROVE \E i \in 1..n : q[i] = x
    <3>1. rank[x] + 1 \in 1..n /\ rank[x] \in Int
      BY <1>1, <1>2
    <3>2. rank[q[rank[x] + 1]] = rank[x] /\ q[rank[x] + 1] \in S
      BY <1>7, <3>1
    <3>3. q[rank[x] + 1] = x
      BY <1>4, <3>2 DEF Injection, IsInjective
    <3> QED BY <3>1, <3>3
  <2> QED BY <1>7, <1>8, <2>1 DEF Range
<1>10. \A x, z \in S : rank[x] < rank[z] => x < z
  <2> SUFFICES ASSUME NEW x \in S, NEW z \in S, rank[x] < rank[z]
               PROVE  x < z
    OBVIOUS
  <2>1. rank[x] \in Int /\ rank[z] \in Int /\ x \in Nat /\ z \in Nat
    BY <1>1, <1>2
  <2>2. ~(rank[z] < rank[x]) /\ rank[x] # rank[z]
    BY <2>1
  <2>3. ~(z < x) /\ x # z
    BY <1>3, <2>2
  <2> QED BY <2>1, <2>3
<1>11. ASSUME NEW i \in DOMAIN q, NEW j \in DOMAIN q, i < j
       PROVE  q[i] < q[j]
  <2>1. i \in 1..n /\ j \in 1..n
    BY <1>8
  <2>2. i \in Int /\ j \in Int
    BY <1>1, <2>1
  <2>3. i - 1 < j - 1
    BY <1>11, <2>2
  <2>4. q[i] \in S /\ q[j] \in S /\ rank[q[i]] < rank[q[j]]
    BY <1>7, <2>1, <2>3
  <2> QED BY <1>10, <2>4
<1> QED BY <1>8, <1>9, <1>11, <1>12 DEF q, Grows

\* The end of a sequence of numbers that grows does, and is a part of it.
LEMMA LastGrows ==
  ASSUME NEW s \in Seq(Nat), Grows(s), NEW n \in Nat, Len(s) > n
  PROVE  LET q == SubSeq(s, Len(s) - n + 1, Len(s))
         IN  q \in Seq(Nat) /\ Grows(q) /\ Range(q) \subseteq Range(s) /\ Len(q) = n
<1> DEFINE q == SubSeq(s, Len(s) - n + 1, Len(s))
<1>1. Len(s) \in Nat /\ DOMAIN s = 1..Len(s)
  OBVIOUS
<1>2. q \in Seq(Nat) /\ Len(q) = n
  OBVIOUS
<1>3. \A i \in 1..n : q[i] = s[Len(s) - n + i] /\ Len(s) - n + i \in 1..Len(s)
  BY <1>1
<1> HIDE DEF q
<1>4. DOMAIN q = 1..n
  BY <1>2
<1>5. ASSUME NEW i \in DOMAIN q, NEW j \in DOMAIN q, i < j
      PROVE  q[i] < q[j]
  <2>1. Len(s) - n + i < Len(s) - n + j
    BY <1>1, <1>4, <1>5
  <2> QED BY <1>1, <1>3, <1>4, <2>1 DEF Grows
<1>6. Range(q) \subseteq Range(s)
  BY <1>1, <1>3, <1>4 DEF Range
<1> QED BY <1>2, <1>5, <1>6 DEF q, Grows

\* Two growing sequences one after the other grow, if the second begins above
\* where the first ends.
LEMMA ConcatGrows ==
  ASSUME NEW s \in Seq(Nat), Grows(s), s # <<>>, NEW r \in Seq(Nat), Grows(r),
         \A j \in DOMAIN r : r[j] > s[Len(s)]
  PROVE  s \o r \in Seq(Nat) /\ Grows(s \o r)
<1> DEFINE q == s \o r
<1>1. /\ Len(s) \in Nat \ {0} /\ DOMAIN s = 1..Len(s)
      /\ Len(r) \in Nat /\ DOMAIN r = 1..Len(r)
  OBVIOUS
<1>2. q \in Seq(Nat) /\ Len(q) = Len(s) + Len(r)
  OBVIOUS
<1>3. /\ \A i \in 1..Len(s) : q[i] = s[i]
      /\ \A i \in 1..Len(r) : q[Len(s) + i] = r[i]
  BY <1>1
<1> HIDE DEF q
<1>4. DOMAIN q = 1..(Len(s) + Len(r))
  BY <1>2
<1>5. \A i \in 1..Len(s) : s[i] \in Nat /\ s[i] <= s[Len(s)]
  BY <1>1 DEF Grows
<1>6. ASSUME NEW i \in 1..(Len(s) + Len(r)), NEW j \in 1..(Len(s) + Len(r)), i < j
      PROVE  q[i] < q[j]
  <2> DEFINE m == Len(s)
             n == Len(r)
  <2>0. m \in Nat /\ n \in Nat /\ i \in Int /\ j \in Int
    BY <1>1
  <2> HIDE DEF m, n
  <2>1. CASE j <= m
    <3>1. i \in 1..m /\ j \in 1..m
      BY <1>6, <2>0, <2>1 DEF m, n
    <3>2. s[i] < s[j]
      BY <1>1, <1>6, <3>1 DEF m, Grows
    <3> QED BY <1>3, <3>1, <3>2 DEF m
  <2>2. CASE i > m
    <3>1. /\ i - m \in 1..n /\ j - m \in 1..n /\ i - m < j - m
          /\ i = m + (i - m) /\ j = m + (j - m)
      BY <1>6, <2>0, <2>2 DEF m, n
    <3>2. r[i - m] < r[j - m]
      BY <1>1, <3>1 DEF n, Grows
    <3>3. q[m + (i - m)] = r[i - m] /\ q[m + (j - m)] = r[j - m]
      BY <1>3, <3>1 DEF m, n
    <3> QED BY <3>1, <3>2, <3>3
  <2>3. CASE i <= m /\ j > m
    <3>1. i \in 1..m /\ j - m \in 1..n /\ j = m + (j - m)
      BY <1>6, <2>0, <2>3 DEF m, n
    <3>2. r[j - m] \in Nat /\ r[j - m] > s[m]
      <4>1. DOMAIN r = 1..n
        BY <1>1 DEF n
      <4>2. r[j - m] > s[m]
        BY <3>1, <4>1 DEF m
      <4>3. r \in [1..n -> Nat]
        BY <1>1 DEF n
      <4> QED BY <3>1, <4>2, <4>3
    <3>3. s[m] \in Nat
      BY <1>1 DEF m
    <3>4. q[m + (j - m)] = r[j - m] /\ q[i] = s[i] /\ s[i] \in Nat /\ s[i] <= s[m]
      BY <1>3, <1>5, <3>1 DEF m, n
    <3> QED BY <3>1, <3>2, <3>3, <3>4
  <2> QED BY <2>0, <2>1, <2>2, <2>3
<1> QED BY <1>2, <1>4, <1>6 DEF q, Grows

\* What is left of a sequence that grows without its head grows, and is above it.
LEMMA TailGrows ==
  ASSUME NEW s \in Seq(Nat), Grows(s), s # <<>>
  PROVE  /\ Tail(s) \in Seq(Nat) /\ Grows(Tail(s))
         /\ 1 \in DOMAIN s /\ Head(s) = s[1] /\ DOMAIN Tail(s) = 1..(Len(s) - 1)
         /\ \A m \in DOMAIN Tail(s) :
              m + 1 \in DOMAIN s /\ Tail(s)[m] = s[m + 1] /\ Head(s) < Tail(s)[m]
<1>1. Len(s) \in Nat \ {0} /\ DOMAIN s = 1..Len(s) /\ Head(s) = s[1]
  OBVIOUS
<1>2. /\ Tail(s) \in Seq(Nat) /\ DOMAIN Tail(s) = 1..(Len(s) - 1)
      /\ \A m \in 1..(Len(s) - 1) : Tail(s)[m] = s[m + 1]
  BY <1>1
<1>3. 1 \in DOMAIN s
  BY <1>1
<1>4. ASSUME NEW m \in 1..(Len(s) - 1)
      PROVE  m + 1 \in 1..Len(s) /\ 1 < m + 1
  BY <1>1
<1>5. \A i, j \in 1..(Len(s) - 1) : i < j => i + 1 < j + 1
  BY <1>1
<1>6. Grows(Tail(s))
  BY <1>1, <1>2, <1>4, <1>5 DEF Grows
<1>7. \A m \in 1..(Len(s) - 1) : s[1] < s[m + 1]
  BY <1>1, <1>3, <1>4 DEF Grows
<1> QED BY <1>1, <1>2, <1>3, <1>4, <1>6, <1>7

\* A sequence that grows does so with a larger element at its end.
LEMMA AppendGrows ==
  ASSUME NEW s \in Seq(Nat), Grows(s), NEW x \in Nat, \A i \in DOMAIN s : s[i] < x
  PROVE  /\ Append(s, x) \in Seq(Nat) /\ Grows(Append(s, x))
         /\ \A m \in DOMAIN Append(s, x) :
              (m \in DOMAIN s /\ Append(s, x)[m] = s[m]) \/ Append(s, x)[m] = x
<1> DEFINE q == Append(s, x)
<1>1. Len(s) \in Nat /\ DOMAIN s = 1..Len(s)
  OBVIOUS
<1>2. q \in Seq(Nat) /\ DOMAIN q = 1..(Len(s) + 1) /\ q[Len(s) + 1] = x
  OBVIOUS
<1>3. \A m \in 1..Len(s) : q[m] = s[m]
  BY <1>1
<1>4. \A m \in 1..(Len(s) + 1) : m \in 1..Len(s) \/ m = Len(s) + 1
  BY <1>1
<1> HIDE DEF q
<1>5. ASSUME NEW i \in DOMAIN q, NEW j \in DOMAIN q, i < j
      PROVE  q[i] < q[j]
  <2>1. i \in 1..Len(s)
    BY <1>1, <1>2, <1>5
  <2>2. CASE j \in 1..Len(s)
    BY <1>1, <1>3, <1>5, <2>1, <2>2 DEF Grows
  <2>3. CASE j = Len(s) + 1
    BY <1>1, <1>2, <1>3, <2>1, <2>3
  <2> QED BY <1>2, <1>4, <2>2, <2>3
<1> QED BY <1>1, <1>2, <1>3, <1>4, <1>5 DEF q, Grows
\* Some numbers have a least.
LEMMA LeastNumber ==
  ASSUME NEW S \in SUBSET Nat, NEW x \in S
  PROVE  \E m \in S : \A k \in S : m <= k
<1> DEFINE T == {y \in S : y <= x}
           q == Ranked(T)
<1>1. T \in SUBSET Nat /\ IsFiniteSet(T) /\ x \in T
  <2>1. x \in Nat /\ 0 \in Int /\ x \in Int
    OBVIOUS
  <2>2. \A y \in T : y \in 0..x
    BY <2>1
  <2>3. IsFiniteSet(0..x)
    BY <2>1, FS_Interval
  <2> HIDE DEF T
  <2>4. T \subseteq 0..x
    BY <2>2
  <2>5. IsFiniteSet(T)
    BY <2>3, <2>4, FS_Subset
  <2>6. T \subseteq Nat
    BY <2>2
  <2>7. x <= x
    BY <2>1
  <2>8. x \in T
    BY <2>7 DEF T
  <2> QED BY <2>5, <2>6, <2>8
<1>2. /\ q \in Seq(Nat) /\ Range(q) = T /\ Grows(q)
  BY <1>1, RankedSet
<1> HIDE DEF q
<1>3. Len(q) \in Nat /\ DOMAIN q = 1..Len(q)
  BY <1>2
<1>4. \A k \in T : \E i \in 1..Len(q) : q[i] = k
  BY <1>2, <1>3 DEF Range
<1>5. 1 \in DOMAIN q
  BY <1>1, <1>3, <1>4
<1>6. q[1] \in T
  BY <1>2, <1>5 DEF Range
<1>7. \A k \in T : q[1] <= k
  <2> TAKE k \in T
  <2>1. PICK i \in 1..Len(q) : q[i] = k
    BY <1>4
  <2>2. i = 1 \/ 1 < i
    BY <1>3
  <2>3. q[1] = k \/ q[1] < k
    BY <1>2, <1>3, <1>5, <2>1, <2>2 DEF Grows
  <2>4. q[1] \in Nat /\ k \in Nat
    BY <1>1, <1>6
  <2> QED BY <2>3, <2>4
<1>8. \A k \in S : q[1] <= k
  <2> TAKE k \in S
  <2>1. CASE k <= x
    BY <1>7, <2>1
  <2>2. CASE ~(k <= x)
    BY <1>1, <1>6, <2>2
  <2> QED BY <2>1, <2>2
<1> QED BY <1>6, <1>8

\* What holds of 0 and goes on from each number to the next holds up to any number:
\* here of the numbers in a set.
LEMMA Induction ==
  ASSUME NEW N \in Nat, NEW S, 0 \in S, \A n \in 0..(N - 1) : n \in S => n + 1 \in S
  PROVE  \A n \in 0..N : n \in S
<1> SUFFICES ASSUME NEW x \in 0..N, x \notin S PROVE FALSE
  OBVIOUS
<1> DEFINE T == {n \in 0..N : n \notin S}
<1>1. T \in SUBSET Nat /\ x \in T
  OBVIOUS
<1>2. PICK m \in T : \A k \in T : m <= k
  <2> HIDE DEF T
  <2> QED BY <1>1, LeastNumber
<1>3. m \in 0..N /\ m # 0 /\ m \notin S
  BY <1>2
<1>4. m - 1 \in 0..(N - 1) /\ m - 1 + 1 = m /\ m - 1 \in 0..N /\ ~(m <= m - 1)
  BY <1>3
<1>5. m - 1 \in S
  BY <1>2, <1>4
<1> QED BY <1>3, <1>4, <1>5

-----------------------------------------------------------------------------
(* Parts and rearrangements. *)

\* The elements at some places of a sequence, in their order.
LEMMA Selection ==
  ASSUME NEW s, IsSequence(s), NEW places \in SUBSET DOMAIN s
  PROVE  LET q == ElementsAt(s, places)
         IN  /\ IsSequence(q) /\ Len(q) = Cardinality(places)
             /\ Range(q) = {s[k] : k \in places}
             /\ \A i, j \in DOMAIN q : i < j =>
                  \E k, l \in places : k < l /\ q[i] = s[k] /\ q[j] = s[l]
<1> DEFINE q == ElementsAt(s, places)
           r == Ranked(places)
<1>1. Len(s) \in Nat /\ DOMAIN s = 1..Len(s)
  BY DEF IsSequence
<1>2. places \in SUBSET Nat /\ IsFiniteSet(places)
  <2>1. IsFiniteSet(1..Len(s))
    BY <1>1, FS_Interval
  <2> QED BY <1>1, <2>1, FS_Subset
<1>3. /\ r \in Seq(Nat) /\ Range(r) = places /\ Len(r) = Cardinality(places) /\ Grows(r)
      /\ Cardinality(places) \in Nat
  BY <1>2, RankedSet, FS_CardinalityType
<1>4. q = [n \in 1..Cardinality(places) |-> s[r[n]]]
  BY DEF ElementsAt
<1> HIDE DEF r, q
<1>5. PICK n \in Nat : n = Cardinality(places)
  BY <1>3
<1>6. DOMAIN r = 1..n /\ DOMAIN q = 1..n /\ \A i \in 1..n : r[i] \in places /\ q[i] = s[r[i]]
  BY <1>3, <1>4, <1>5 DEF Range
<1>7. IsSequence(q) /\ Len(q) = n
  <2>1. q \in [1..n -> Range(q)]
    BY <1>4, <1>5, <1>6 DEF Range
  <2> QED BY <2>1, <1>6 DEF IsSequence
<1>8. Range(q) = {s[k] : k \in places}
  BY <1>3, <1>6 DEF Range
<1>9. ASSUME NEW i \in DOMAIN q, NEW j \in DOMAIN q, i < j
      PROVE  \E k, l \in places : k < l /\ q[i] = s[k] /\ q[j] = s[l]
  BY <1>3, <1>6, <1>9 DEF Grows
<1> QED BY <1>5, <1>7, <1>8, <1>9 DEF q

\* What is added to a sequence does not touch the elements at the places before.
LEMMA SelectionStays ==
  ASSUME NEW s, IsSequence(s), NEW r, \A i \in DOMAIN s : r[i] = s[i],
         NEW places \in SUBSET DOMAIN s
  PROVE  ElementsAt(r, places) = ElementsAt(s, places)
<1>1. places \in SUBSET Nat /\ IsFiniteSet(places)
  <2>1. Len(s) \in Nat /\ DOMAIN s = 1..Len(s)
    BY DEF IsSequence
  <2>2. IsFiniteSet(1..Len(s))
    BY <2>1, FS_Interval
  <2> QED BY <2>1, <2>2, FS_Subset
<1>2. \A n \in 1..Cardinality(places) : Ranked(places)[n] \in places
  BY <1>1, RankedSet
<1>3. \A n \in 1..Cardinality(places) : r[Ranked(places)[n]] = s[Ranked(places)[n]]
  BY <1>2
<1> QED BY <1>3 DEF ElementsAt

\* The elements of r at some places and one more are those of s there and one more.
OneMore(r, s, places, k) == ElementsAt(r, places \cup {k}) = Append(ElementsAt(s, places), r[k])

\* One more place, behind all others, adds its element at the end.
LEMMA SelectionAppends ==
  ASSUME NEW s, IsSequence(s), NEW r, IsSequence(r), \A i \in DOMAIN s : i \in DOMAIN r /\ r[i] = s[i],
         NEW places \in SUBSET DOMAIN s, NEW k \in DOMAIN r, k \notin DOMAIN s
  PROVE  OneMore(r, s, places, k)
<1> DEFINE P == places \cup {k}
           N == Cardinality(places)
           a == Ranked(places)
           b == Ranked(P)
           q == ElementsAt(s, places)
           z == Append(q, r[k])
<1>1. /\ Len(s) \in Nat /\ DOMAIN s = 1..Len(s) /\ Len(r) \in Nat /\ DOMAIN r = 1..Len(r)
      /\ k \in Nat /\ \A i \in places : i \in Nat /\ i < k
  BY DEF IsSequence
<1>2. /\ places \in SUBSET Nat /\ IsFiniteSet(places) /\ k \notin places
      /\ P \in SUBSET Nat /\ IsFiniteSet(P) /\ N \in Nat /\ Cardinality(P) = N + 1
  <2>1. IsFiniteSet(1..Len(s))
    BY <1>1, FS_Interval
  <2>2. places \in SUBSET Nat /\ IsFiniteSet(places) /\ k \notin places
    BY <1>1, <2>1, FS_Subset
  <2>3. IsFiniteSet(P) /\ N \in Nat /\ Cardinality(P) = N + 1
    BY <2>2, FS_AddElement, FS_CardinalityType
  <2> QED BY <1>1, <2>2, <2>3
<1>3. \A i \in 1..N : a[i] \in places /\ Cardinality({y \in places : y < a[i]}) = i - 1
  BY <1>2, RankedSet
<1>4. \A i \in 1..(N + 1) : b[i] \in P /\ Cardinality({y \in P : y < b[i]}) = i - 1
  <2> HIDE DEF P
  <2> QED BY <1>2, RankedSet
<1> HIDE DEF a, b
<1>5. \A x, y \in P : Cardinality({w \in P : w < x}) = Cardinality({w \in P : w < y}) => x = y
  <2> HIDE DEF P
  <2>1. ASSUME NEW x \in P, NEW y \in P, x < y
        PROVE  Cardinality({w \in P : w < x}) # Cardinality({w \in P : w < y})
    <3>1. /\ Cardinality({w \in P : w < x}) \in Nat
          /\ Cardinality({w \in P : w < x}) < Cardinality({w \in P : w < y})
      BY <1>2, <2>1, RankGrows
    <3> QED BY <3>1
  <2>2. \A x, y \in P : x < y \/ y < x \/ x = y
    BY <1>2
  <2> QED BY <2>1, <2>2
<1>6. ASSUME NEW i \in 1..N PROVE b[i] = a[i]
  <2>1. {y \in P : y < a[i]} = {y \in places : y < a[i]}
    <3>1. PICK x \in places : x = a[i]
      BY <1>3
    <3>2. x \in Nat /\ x < k /\ k \in Nat
      BY <1>1
    <3>3. ~(k < x)
      BY <3>2
    <3> QED BY <3>1, <3>3
  <2>2. i \in 1..(N + 1)
    BY <1>2
  <2> QED BY <1>3, <1>4, <1>5, <2>1, <2>2
<1>7. b[N + 1] = k
  <2>1. {y \in P : y < k} = places
    BY <1>1
  <2>2. N + 1 \in 1..(N + 1) /\ (N + 1) - 1 = N /\ k \in P
    BY <1>2
  <2> QED BY <1>4, <1>5, <2>1, <2>2
<1>8. ElementsAt(r, P) = [n \in 1..(N + 1) |-> r[b[n]]]
  BY <1>2 DEF ElementsAt, b
<1>9. q = [n \in 1..N |-> s[a[n]]]
  BY DEF ElementsAt, a
<1>10. IsSequence(q) /\ Len(q) = N
  BY Selection
<1> HIDE DEF q, P, N
<1>11. /\ IsSequence(z) /\ DOMAIN z = 1..(N + 1) /\ z[N + 1] = r[k]
       /\ \A i \in 1..N : z[i] = q[i]
  BY <1>2, <1>10, AppendSequence DEF IsSequence
<1>12. z = [n \in 1..(N + 1) |-> z[n]]
  <2> HIDE DEF z
  <2> QED BY <1>11, <1>2 DEF IsSequence
<1> HIDE DEF z
<1>13. ASSUME NEW n \in 1..(N + 1) PROVE z[n] = r[b[n]]
  <2>1. CASE n \in 1..N
    <3>1. a[n] \in DOMAIN s
      BY <1>3, <2>1
    <3> QED BY <1>6, <1>9, <1>11, <2>1, <3>1
  <2>2. CASE n = N + 1
    BY <1>7, <1>11, <2>2
  <2> QED BY <1>2, <2>1, <2>2
<1>14. ElementsAt(r, P) = z
  BY <1>8, <1>12, <1>13
<1> QED BY <1>14 DEF P, q, z, OneMore

\* A sequence that is arranged by a strict total order on its places has the same
\* elements, each as often.
LEMMA Arrangement ==
  ASSUME NEW s, IsSequence(s), NEW before,
         \A i \in DOMAIN s : <<i, i>> \notin before,
         \A i, j, k \in DOMAIN s : <<i, j>> \in before /\ <<j, k>> \in before => <<i, k>> \in before,
         \A i, j \in DOMAIN s : i # j => <<i, j>> \in before \/ <<j, i>> \in before
  PROVE  LET q == Arranged(s, before)
         IN  /\ IsSequence(q) /\ Len(q) = Len(s)
             /\ Range(q) = Range(s)
             /\ \A i, j \in DOMAIN q : i # j =>
                  \E k, l \in DOMAIN s : k # l /\ q[i] = s[k] /\ q[j] = s[l]
<1> DEFINE S    == DOMAIN s
           n    == Len(s)
           q    == Arranged(s, before)
           below(x) == {j \in S : <<j, x>> \in before}
           rank == [x \in S |-> Cardinality(below(x))]
           at   == [m \in S |-> CHOOSE i \in S : Cardinality(below(i)) = m - 1]
<1>1. n \in Nat /\ S = 1..n
  BY DEF IsSequence
<1>2. IsFiniteSet(S) /\ Cardinality(S) = n
  <2> HIDE DEF n
  <2>1. 1 \in Int /\ n \in Int /\ (1 > n => n = 0) /\ n - 1 + 1 = n
    BY <1>1
  <2>2. IsFiniteSet(1..n) /\ Cardinality(1..n) = n
    BY <2>1, <1>1, FS_Interval
  <2> QED BY <1>1, <2>2
<1>3. \A x \in S : IsFiniteSet(below(x)) /\ Cardinality(below(x)) \in 0..(n - 1)
  <2> TAKE x \in S
  <2>1. below(x) \in SUBSET (S \ {x})
    OBVIOUS
  <2>2. IsFiniteSet(S \ {x}) /\ Cardinality(S \ {x}) = n - 1
    BY <1>2, FS_RemoveElement
  <2> HIDE DEF below
  <2>3. IsFiniteSet(below(x)) /\ Cardinality(below(x)) <= n - 1
    BY <2>1, <2>2, FS_Subset
  <2>4. Cardinality(below(x)) \in Nat
    BY <2>3, FS_CardinalityType
  <2> QED BY <1>1, <2>3, <2>4
<1>4. \A x, z \in S : <<x, z>> \in before => rank[x] < rank[z]
  <2> SUFFICES ASSUME NEW x \in S, NEW z \in S, <<x, z>> \in before
               PROVE  Cardinality(below(x)) < Cardinality(below(z))
    OBVIOUS
  <2>1. below(x) \in SUBSET below(z) /\ x \in below(z) /\ x \notin below(x)
    OBVIOUS
  <2>2. /\ Cardinality(below(x)) <= Cardinality(below(z))
        /\ Cardinality(below(x)) # Cardinality(below(z))
    <3>1. IsFiniteSet(below(z)) /\ below(x) # below(z)
      BY <2>1, <1>3
    <3> HIDE DEF below
    <3> QED BY <3>1, <2>1, FS_Subset
  <2> HIDE DEF below
  <2> QED BY <2>2, <1>3
<1> HIDE DEF below
<1>5. \A x, z \in S : rank[x] = rank[z] => x = z
  <2> SUFFICES ASSUME NEW x \in S, NEW z \in S, rank[x] = rank[z], x # z
               PROVE  FALSE
    OBVIOUS
  <2>1. rank[x] < rank[z] \/ rank[z] < rank[x]
    BY <1>4
  <2>2. rank[x] \in Int /\ rank[z] \in Int
    BY <1>1, <1>3
  <2> QED BY <2>1, <2>2
<1>6. rank \in Injection(S, 0..(n - 1))
  BY <1>3, <1>5 DEF Injection, IsInjective
<1>7. IsFiniteSet(0..(n - 1)) /\ Cardinality(0..(n - 1)) = n
  <2> HIDE DEF n
  <2>1. 0 \in Int /\ n - 1 \in Int /\ (0 > n - 1 => n = 0)
    BY <1>1
  <2> QED BY <1>1, <2>1, FS_Interval
<1>8. rank \in Surjection(S, 0..(n - 1))
  BY <1>2, <1>6, <1>7, FS_Injection
<1>9. ASSUME NEW m \in S
      PROVE  at[m] \in S /\ rank[at[m]] = m - 1
  <2>1. m - 1 \in 0..(n - 1)
    BY <1>1
  <2>2. PICK x \in S : rank[x] = m - 1
    BY <1>8, <2>1 DEF Surjection
  <2>3. \E y \in S : Cardinality(below(y)) = m - 1
    BY <2>2
  <2>4. at[m] = CHOOSE i \in S : Cardinality(below(i)) = m - 1
    OBVIOUS
  <2>5. at[m] \in S /\ Cardinality(below(at[m])) = m - 1
    BY <2>3, <2>4
  <2> QED BY <2>5
<1>10. q = [m \in S |-> s[at[m]]]
  BY DEF Arranged, below
<1> HIDE DEF at, rank
<1>11. ASSUME NEW x \in S PROVE \E m \in S : at[m] = x
  <2>0. rank[x] \in 0..(n - 1)
    BY <1>3 DEF rank
  <2>1. rank[x] + 1 \in S /\ rank[x] \in Int
    BY <1>1, <2>0
  <2>2. rank[at[rank[x] + 1]] = rank[x] /\ at[rank[x] + 1] \in S
    BY <1>9, <2>1
  <2>3. at[rank[x] + 1] = x
    BY <1>5, <2>2
  <2> QED BY <2>1, <2>3
<1> HIDE DEF q
<1>12. DOMAIN q = S /\ \A m \in S : at[m] \in S /\ q[m] = s[at[m]]
  BY <1>9, <1>10
<1>13. IsSequence(q) /\ Len(q) = n
  <2> HIDE DEF n
  <2>1. q \in [1..n -> Range(q)]
    BY <1>1, <1>10, <1>12 DEF Range
  <2> QED BY <2>1, <1>1, <1>12 DEF IsSequence
<1>14. Range(q) = Range(s)
  BY <1>11, <1>12 DEF Range
<1>15. ASSUME NEW i \in S, NEW j \in S, i # j
       PROVE  at[i] # at[j]
  <2>1. i \in Int /\ j \in Int
    BY <1>1
  <2>2. i - 1 # j - 1
    BY <1>15, <2>1
  <2> QED BY <1>9, <2>2
<1> HIDE DEF n
<1> QED BY <1>12, <1>13, <1>14, <1>15 DEF q, n
=============================================================================
