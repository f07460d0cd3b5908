--------------------------- MODULE DataLemmas -----------------------------
(***************************************************************************)
(* Facts about data that the proofs of several modules use: sequences,     *)
(* induction, and sums.                                                    *)
(***************************************************************************)
EXTENDS Integers, Sequences, SequencesExt, FiniteSets, SequenceTheorems,
        FiniteSetTheorems, WellFoundedInduction, Lists, TLAPS

LEMMA AppendType ==
    ASSUME NEW S, NEW l \in Seq(S), NEW x \in S
    PROVE  /\ Append(l, x) \in Seq(S) /\ Len(Append(l, x)) = Len(l) + 1
           /\ \A i \in 1 .. Len(l) : Append(l, x)[i] = l[i]
           /\ Append(l, x)[Len(l) + 1] = x
OBVIOUS

LEMMA ConcatFacts ==
    ASSUME NEW S, NEW a \in Seq(S), NEW b \in Seq(S)
    PROVE  /\ a \o b \in Seq(S) /\ Len(a \o b) = Len(a) + Len(b)
           /\ \A i \in 1 .. Len(a) : (a \o b)[i] = a[i]
           /\ \A i \in 1 .. Len(b) : (a \o b)[Len(a) + i] = b[i]
OBVIOUS

LEMMA TailType ==
    ASSUME NEW S, NEW l \in Seq(S), l # <<>>
    PROVE  /\ Head(l) \in S /\ Head(l) = l[1]
           /\ Tail(l) \in Seq(S) /\ Len(Tail(l)) = Len(l) - 1 /\ Len(l) > 0
           /\ \A i \in 1 .. Len(l) - 1 : Tail(l)[i] = l[i + 1]
OBVIOUS

\* The elements of a list after the one at position p was removed.
LEMMA RemoveAtElements ==
    ASSUME NEW S, NEW l \in Seq(S), NEW p \in 1 .. Len(l)
    PROVE  /\ RemoveAt(l, p) \in Seq(S)
           /\ Len(RemoveAt(l, p)) = Len(l) - 1
           /\ \A i \in 1 .. Len(l) - 1 : RemoveAt(l, p)[i] = IF i < p THEN l[i] ELSE l[i + 1]
<1> DEFINE a == SubSeq(l, 1, p - 1)
           b == SubSeq(l, p + 1, Len(l))
           w == RemoveAt(l, p)
<1>1. /\ a \in Seq(S)
      /\ Len(a) = p - 1
      /\ \A i \in 1 .. p - 1 : a[i] = l[i]
  BY SubSeqProperties
<1>2. /\ b \in Seq(S)
      /\ Len(b) = Len(l) - p
      /\ \A i \in 1 .. Len(l) - p : b[i] = l[p + i]
  BY SubSeqProperties
<1>3. w = a \o b
  BY DEF RemoveAt
<1> HIDE DEF a, b, w
<1>4. /\ w \in Seq(S)
      /\ Len(w) = Len(a) + Len(b)
      /\ \A i \in 1 .. Len(a) + Len(b) : w[i] = IF i <= Len(a) THEN a[i] ELSE b[i - Len(a)]
  BY <1>1, <1>2, <1>3, ConcatProperties
<1>5. Len(w) = Len(l) - 1
  BY <1>1, <1>2, <1>4
<1>6. ASSUME NEW i \in 1 .. Len(l) - 1 PROVE w[i] = IF i < p THEN l[i] ELSE l[i + 1]
  <2>1. CASE i < p
    <3>1. i \in 1 .. p - 1 /\ i \in 1 .. Len(a) + Len(b) /\ i <= Len(a)
      BY <1>1, <1>2, <2>1
    <3>2. w[i] = a[i] /\ a[i] = l[i]
      BY <1>1, <1>4, <3>1
    <3>3. QED
      BY <2>1, <3>2
  <2>2. CASE i >= p
    <3>0. i - (p - 1) \in 1 .. Len(l) - p /\ i \in 1 .. Len(a) + Len(b) /\ ~(i <= Len(a))
      BY <1>1, <1>2, <2>2
    <3>1. w[i] = b[i - (p - 1)]
      BY <1>1, <1>4, <3>0
    <3>2. b[i - (p - 1)] = l[p + (i - (p - 1))] /\ p + (i - (p - 1)) = i + 1
      BY <1>2, <3>0
    <3>3. QED
      BY <2>2, <3>1, <3>2
  <2>3. QED
    BY <2>1, <2>2
<1>7. QED
  BY <1>4, <1>5, <1>6 DEF w

Injective(l) == \A i, j \in 1 .. Len(l) : l[i] = l[j] => i = j

Holds(l, m) == \E i \in 1 .. Len(l) : l[i] = m

LEMMA WithoutType ==
    ASSUME NEW S, NEW l \in Seq(S), NEW m
    PROVE  Without(l, m) \in Seq(S)
<1>1. CASE \E i \in 1 .. Len(l) : l[i] = m
  <2> DEFINE p == CHOOSE i \in 1 .. Len(l) : l[i] = m
  <2>1. p \in 1 .. Len(l)
    BY <1>1
  <2>2. QED
    BY <1>1, <2>1, RemoveAtElements DEF Without
<1>2. QED
  BY <1>1 DEF Without

\* Removing an element from a list that holds it at most once.
LEMMA WithoutFacts ==
    ASSUME NEW S, NEW l \in Seq(S), NEW m, Injective(l)
    PROVE  /\ Without(l, m) \in Seq(S)
           /\ Injective(Without(l, m))
           /\ \A x : Holds(Without(l, m), x) <=> Holds(l, x) /\ x # m
           /\ Len(Without(l, m)) = IF Holds(l, m) THEN Len(l) - 1 ELSE Len(l)
<1>1. CASE ~Holds(l, m)
  BY <1>1 DEF Holds, Without
<1>2. CASE Holds(l, m)
  <2> DEFINE p == CHOOSE i \in 1 .. Len(l) : l[i] = m
             w == Without(l, m)
  <2>1. p \in 1 .. Len(l) /\ l[p] = m
    BY <1>2 DEF Holds
  <2>2. w = RemoveAt(l, p)
    BY <1>2 DEF Holds, Without
  <2> HIDE DEF p, w
  <2>3. /\ w \in Seq(S)
        /\ Len(w) = Len(l) - 1
        /\ \A i \in 1 .. Len(w) : w[i] = IF i < p THEN l[i] ELSE l[i + 1]
    BY <2>1, <2>2, RemoveAtElements
  <2>4. ASSUME NEW i \in 1 .. Len(w), NEW j \in 1 .. Len(w), w[i] = w[j] PROVE i = j
    <3> DEFINE at(k) == IF k < p THEN k ELSE k + 1
    <3>1. /\ at(i) \in 1 .. Len(l) /\ w[i] = l[at(i)]
          /\ at(j) \in 1 .. Len(l) /\ w[j] = l[at(j)]
      BY <2>1, <2>3
    <3>2. at(i) = at(j)
      BY <2>4, <3>1 DEF Injective
    <3>3. QED
      BY <2>1, <3>2
  <2>5. ASSUME NEW x, Holds(w, x) PROVE Holds(l, x) /\ x # m
    <3>1. PICK i \in 1 .. Len(w) : w[i] = x
      BY <2>5 DEF Holds
    <3>2. PICK k \in 1 .. Len(l) : k # p /\ l[k] = x
      BY <2>1, <2>3, <3>1
    <3>3. QED
      BY <2>1, <3>2 DEF Injective, Holds
  <2>6. ASSUME NEW x, Holds(l, x), x # m PROVE Holds(w, x)
    <3>1. PICK i \in 1 .. Len(l) : l[i] = x
      BY <2>6 DEF Holds
    <3>2. CASE i < p
      BY <2>1, <2>3, <3>1, <3>2 DEF Holds
    <3>3. CASE i > p
      <4>1. i - 1 \in 1 .. Len(w) /\ w[i - 1] = x
        BY <2>1, <2>3, <3>1, <3>3
      <4>2. QED
        BY <4>1 DEF Holds
    <3>4. QED
      BY <2>1, <2>6, <3>1, <3>2, <3>3
  <2>7. QED
    BY <1>2, <2>3, <2>4, <2>5, <2>6 DEF w, Injective
<1>3. QED
  BY <1>1, <1>2

\* A set of natural numbers has a least element.
LEMMA NatMin ==
    ASSUME NEW T \in SUBSET Nat, T # {}
    PROVE  \E x \in T : \A y \in T : x <= y
<1> DEFINE R == OpToRel(<, Nat)
<1>1. IsWellFoundedOn(R, Nat)
  BY NatLessThanWellFounded
<1>2. \E x \in T : \A y \in T : ~(<<y, x>> \in R)
  <2> HIDE DEF R
  <2> QED
    BY <1>1, WFMin
<1>3. \A x, y \in Nat : x < y => <<x, y>> \in R
  BY DEF OpToRel
<1>4. PICK x \in T : \A y \in T : ~(<<y, x>> \in R)
  BY <1>2
<1> HIDE DEF R
<1>5. \A y \in T : ~(y < x)
  BY <1>3, <1>4
<1>6. \A y \in T : x <= y
  BY <1>5
<1>7. QED
  BY <1>6

\* A finite set of numbers has, for every smaller number k than its elements
\* are, an element that k others are less than: the least m such that more than
\* k elements are at most m.
LEMMA NthFacts ==
    ASSUME NEW n \in Nat, NEW I \in SUBSET (1 .. n), NEW k \in Nat, k < Cardinality(I)
    PROVE  /\ Nth(I, k) \in I
           /\ Cardinality({j \in I : j < Nth(I, k)}) = k
<1> DEFINE upTo(m) == {j \in I : j <= m}
           T == {m \in Nat : Cardinality(upTo(m)) > k}
<1>0. IsFiniteSet(I)
  <2>1. IsFiniteSet(1 .. n)
    BY FS_Interval
  <2>2. QED
    BY <2>1, FS_Subset
<1>13. \A j \in I : j \in Nat /\ j >= 1 /\ j <= n
  OBVIOUS
<1>1. \A m : IsFiniteSet(upTo(m)) /\ Cardinality(upTo(m)) \in Nat
  BY <1>0, FS_Subset, FS_CardinalityType
<1>2. n \in T
  <2>1. upTo(n) = I
    BY <1>13
  <2>2. QED
    BY <2>1
<1>3. PICK m \in T : \A y \in T : m <= y
  BY <1>2, NatMin
<1>4. m # 0
  <2>1. upTo(0) = {}
    <3>1. ASSUME NEW j \in I PROVE ~(j <= 0)
      BY <1>13
    <3>2. QED
      BY <3>1
  <2>2. Cardinality(upTo(0)) = 0
    BY <2>1, FS_EmptySet
  <2>3. QED
    BY <2>2, <1>3
<1>14. m \in Nat
  BY <1>3
<1>5. m - 1 \in Nat /\ m - 1 \notin T
  <2>1. m - 1 \in Nat /\ ~(m <= m - 1)
    BY <1>4, <1>14
  <2> HIDE DEF T
  <2>2. QED
    BY <1>3, <2>1
<1>6. Cardinality(upTo(m - 1)) <= k
  <2> HIDE DEF upTo
  <2>1. Cardinality(upTo(m - 1)) \in Nat
    BY <1>1
  <2>2. ~(Cardinality(upTo(m - 1)) > k)
    BY <1>5
  <2>3. QED
    BY <2>1, <2>2
<1>7. m \in I
  <2> SUFFICES ASSUME m \notin I PROVE FALSE
    OBVIOUS
  <2>1. upTo(m) = upTo(m - 1)
    <3>1. ASSUME NEW j \in I PROVE j <= m <=> j <= m - 1
      <4>1. j \in Nat /\ j # m
        BY <1>13
      <4>2. QED
        BY <1>14, <4>1
    <3>2. QED
      BY <3>1
  <2>2. Cardinality(upTo(m)) > k
    BY <1>3
  <2>3. QED
    BY <1>1, <1>6, <2>1, <2>2
<1>8. Cardinality(upTo(m)) = Cardinality(upTo(m - 1)) + 1
  <2>1. upTo(m) = upTo(m - 1) \cup {m} /\ m \notin upTo(m - 1)
    <3>1. ASSUME NEW j \in I PROVE j <= m <=> (j <= m - 1 \/ j = m)
      <4>1. j \in Nat
        BY <1>13
      <4>2. QED
        BY <1>14, <4>1
    <3>2. ~(m <= m - 1)
      BY <1>14
    <3>3. QED
      BY <1>7, <3>1, <3>2
  <2>2. IsFiniteSet(upTo(m - 1))
    BY <1>1
  <2> HIDE DEF upTo
  <2>3. QED
    BY <2>1, <2>2, FS_AddElement
<1>9. Cardinality(upTo(m - 1)) = k
  <2>1. Cardinality(upTo(m)) > k
    BY <1>3
  <2> HIDE DEF upTo
  <2>2. QED
    BY <1>1, <1>6, <1>8, <2>1
<1>10. {j \in I : j < m} = upTo(m - 1)
  <2>1. ASSUME NEW j \in I PROVE j < m <=> j <= m - 1
    <3>1. j \in Nat
      BY <1>13
    <3>2. QED
      BY <1>14, <3>1
  <2>2. QED
    BY <2>1
<1>11. \E i \in I : Cardinality({j \in I : j < i}) = k
  BY <1>7, <1>9, <1>10
<1>12. QED
  BY <1>11 DEF Nth

\* What Vec::retain leaves: elements of the list that are not in the set, and
\* the whole list if its length is the same.
LEMMA RetainedFacts ==
    ASSUME NEW S, NEW l \in Seq(S), NEW gone
    PROVE  /\ Retained(l, gone) \in Seq(S)
           /\ \A i \in 1 .. Len(Retained(l, gone)) :
                \E j \in 1 .. Len(l) : Retained(l, gone)[i] = l[j] /\ l[j] \notin gone
           /\ Len(Retained(l, gone)) = Len(l) => Retained(l, gone) = l
<1> DEFINE kept == {i \in 1 .. Len(l) : l[i] \notin gone}
           c == Cardinality(kept)
           w == [i \in 1 .. c |-> l[Nth(kept, i - 1)]]
<1>0. Retained(l, gone) = w
  BY DEF Retained
<1>1. Len(l) \in Nat /\ kept \in SUBSET (1 .. Len(l))
  OBVIOUS
<1>2. IsFiniteSet(kept) /\ c \in Nat
  <2>1. IsFiniteSet(1 .. Len(l))
    BY <1>1, FS_Interval
  <2> HIDE DEF kept
  <2>2. IsFiniteSet(kept)
    BY <1>1, <2>1, FS_Subset
  <2>3. QED
    BY <2>2, FS_CardinalityType
<1> HIDE DEF c
<1>3. ASSUME NEW i \in 1 .. c
      PROVE  /\ Nth(kept, i - 1) \in kept
             /\ Cardinality({j \in kept : j < Nth(kept, i - 1)}) = i - 1
  <2>1. i - 1 \in Nat /\ i - 1 < Cardinality(kept)
    BY <1>2 DEF c
  <2> HIDE DEF kept
  <2>2. QED
    BY <1>1, <2>1, NthFacts
<1>4. w \in Seq(S) /\ Len(w) = c
  <2>1. \A i \in 1 .. c : Nth(kept, i - 1) \in 1 .. Len(l)
    BY <1>3
  <2> HIDE DEF kept
  <2>2. QED
    BY <1>2, <2>1
<1>5. ASSUME NEW i \in 1 .. c PROVE w[i] = l[Nth(kept, i - 1)] /\ l[Nth(kept, i - 1)] \notin gone
  BY <1>3
<1>6. ASSUME c = Len(l) PROVE w = l
  <2>1. kept = 1 .. Len(l)
    <3>0. 1 \in Int /\ Len(l) \in Int /\ Len(l) >= 0
      BY <1>1
    <3>1. Cardinality(1 .. Len(l)) = Len(l) /\ IsFiniteSet(1 .. Len(l))
      <4>1. Cardinality(1 .. Len(l)) = IF 1 > Len(l) THEN 0 ELSE Len(l) - 1 + 1
        BY <3>0, FS_Interval
      <4>2. IsFiniteSet(1 .. Len(l))
        BY <3>0, FS_Interval
      <4>3. QED
        BY <3>0, <4>1, <4>2
    <3>2. Cardinality(kept) = Len(l)
      BY <1>6 DEF c
    <3> HIDE DEF kept
    <3>3. QED
      BY <1>1, <3>1, <3>2, FS_Subset
  <2>2. ASSUME NEW i \in 1 .. Len(l) PROVE Nth(kept, i - 1) = i
    <3> DEFINE p == Nth(kept, i - 1)
    <3>1. p \in 1 .. Len(l) /\ Cardinality({j \in kept : j < p}) = i - 1
      BY <1>3, <1>6, <2>1
    <3> HIDE DEF p
    <3>2. {j \in kept : j < p} = 1 .. (p - 1)
      BY <2>1, <3>1
    <3>3. Cardinality(1 .. (p - 1)) = p - 1
      <4>1. 1 \in Int /\ p - 1 \in Int /\ p - 1 >= 0
        BY <3>1
      <4>2. Cardinality(1 .. (p - 1)) = IF 1 > p - 1 THEN 0 ELSE (p - 1) - 1 + 1
        BY <4>1, FS_Interval
      <4>3. QED
        BY <4>1, <4>2
    <3>4. p = i
      <4>1. p \in Int /\ i \in Int
        BY <1>1, <2>2, <3>1
      <4>2. p - 1 = i - 1
        BY <3>1, <3>2, <3>3
      <4>3. QED
        BY <4>1, <4>2
    <3>5. QED
      BY <3>4 DEF p
  <2>3. \A i \in 1 .. Len(l) : w[i] = l[i]
    BY <1>6, <2>2
  <2> HIDE DEF w
  <2>4. QED
    BY <1>4, <1>6, <2>3, SeqEqual
<1> HIDE DEF w
<1>7. QED
  BY <1>0, <1>1, <1>3, <1>4, <1>5, <1>6

----------------------------------------------------------------------------
(* What Vec::retain leaves of a list: the elements that are not gone, in the   *)
(* order of their places.  Nothing else is it, so lists that are built in      *)
(* other ways can be shown to be what is retained of another.                 *)

\* How many elements of a set of numbers are less than x.
Below(I, x) == Cardinality({j \in I : j < x})

LEMMA BelowFacts ==
    ASSUME NEW n \in Nat, NEW I \in SUBSET (1 .. n), NEW x \in I
    PROVE  /\ IsFiniteSet(I) /\ Cardinality(I) \in Nat
           /\ Below(I, x) \in Nat /\ Below(I, x) < Cardinality(I)
           /\ \A y \in I : y < x => Below(I, y) < Below(I, x)
<1> DEFINE L(y) == {j \in I : j < y}
<1>1. IsFiniteSet(I)
  <2>1. IsFiniteSet(1 .. n)
    BY FS_Interval
  <2>2. QED
    BY <2>1, FS_Subset
<1>2. ASSUME NEW y
      PROVE  /\ IsFiniteSet(L(y)) /\ Cardinality(L(y)) \in Nat
             /\ IsFiniteSet(L(y) \cup {y})
             /\ Cardinality(L(y) \cup {y}) = IF y \in L(y) THEN Cardinality(L(y)) ELSE Cardinality(L(y)) + 1
  <2>1. L(y) \in SUBSET I
    OBVIOUS
  <2> HIDE DEF L
  <2>2. QED
    BY <1>1, <2>1, FS_Subset, FS_AddElement, FS_CardinalityType
<1>3. ASSUME NEW y \in I PROVE y \in Nat /\ y \notin L(y) /\ L(y) \cup {y} \in SUBSET I
  OBVIOUS
<1>4. ASSUME NEW y \in I, y < x PROVE L(y) \cup {y} \in SUBSET L(x)
  <2>1. \A j \in I : j \in Nat
    OBVIOUS
  <2>2. \A j \in I : j < y => j < x
    BY <1>4, <2>1
  <2>3. QED
    BY <1>4, <2>2
<1>5. Cardinality(I) \in Nat
  BY <1>1, FS_CardinalityType
<1>6. \A y : Below(I, y) = Cardinality(L(y))
  BY DEF Below
<1> HIDE DEF L
<1>7. Cardinality(L(x)) + 1 <= Cardinality(I)
  <2>1. Cardinality(L(x) \cup {x}) <= Cardinality(I)
    BY <1>1, <1>3, FS_Subset
  <2>2. QED
    BY <1>2, <1>3, <2>1
<1>8. ASSUME NEW y \in I, y < x PROVE Cardinality(L(y)) + 1 <= Cardinality(L(x))
  <2>1. Cardinality(L(y) \cup {y}) <= Cardinality(L(x))
    BY <1>2, <1>4, <1>8, FS_Subset
  <2>2. QED
    BY <1>2, <1>3, <2>1
<1>9. ASSUME NEW y \in I, y < x PROVE Cardinality(L(y)) < Cardinality(L(x))
  <2>1. Cardinality(L(y)) \in Nat /\ Cardinality(L(x)) \in Nat
    BY <1>2
  <2>2. QED
    BY <1>8, <1>9, <2>1
<1>10. Cardinality(L(x)) \in Nat /\ Cardinality(L(x)) < Cardinality(I)
  <2>1. Cardinality(L(x)) \in Nat
    BY <1>2
  <2>2. QED
    BY <1>5, <1>7, <2>1
<1>11. QED
  BY <1>1, <1>5, <1>6, <1>9, <1>10

LEMMA NthUnique ==
    ASSUME NEW n \in Nat, NEW I \in SUBSET (1 .. n), NEW x \in I
    PROVE  Nth(I, Below(I, x)) = x
<1> DEFINE k == Below(I, x)
           y == Nth(I, k)
<1>1. k \in Nat /\ k < Cardinality(I)
  BY BelowFacts
<1>2. y \in I /\ Cardinality({j \in I : j < y}) = k
  <2> HIDE DEF k
  <2>1. QED
    BY <1>1, NthFacts
<1>3. Below(I, y) = k
  BY <1>2 DEF Below
<1> HIDE DEF y
<1>4. x \in Nat /\ y \in Nat
  BY <1>2
<1>5. ~(x < y) /\ ~(y < x)
  <2>1. ~(k < k)
    BY <1>1
  <2>2. QED
    BY <1>2, <1>3, <2>1, BelowFacts
<1>6. QED
  BY <1>4, <1>5 DEF y

\* Nth enumerates a finite set of numbers in their order,
LEMMA NthOrder ==
    ASSUME NEW n \in Nat, NEW I \in SUBSET (1 .. n)
    PROVE  /\ \A i \in 1 .. Cardinality(I) : Nth(I, i - 1) \in I /\ Below(I, Nth(I, i - 1)) = i - 1
           /\ \A i, j \in 1 .. Cardinality(I) : i < j => Nth(I, i - 1) < Nth(I, j - 1)
           /\ \A x \in I : \E i \in 1 .. Cardinality(I) : Nth(I, i - 1) = x
<1>1. Cardinality(I) \in Nat
  <2>1. IsFiniteSet(1 .. n)
    BY FS_Interval
  <2>2. QED
    BY <2>1, FS_Subset, FS_CardinalityType
<1>2. ASSUME NEW i \in 1 .. Cardinality(I)
      PROVE  Nth(I, i - 1) \in I /\ Below(I, Nth(I, i - 1)) = i - 1
  <2>1. i - 1 \in Nat /\ i - 1 < Cardinality(I)
    BY <1>1
  <2>2. QED
    BY <2>1, NthFacts DEF Below
<1>3. ASSUME NEW i \in 1 .. Cardinality(I), NEW j \in 1 .. Cardinality(I), i < j
      PROVE  Nth(I, i - 1) < Nth(I, j - 1)
  <2> DEFINE a == Nth(I, i - 1)
             b == Nth(I, j - 1)
  <2>1. a \in I /\ b \in I /\ Below(I, a) = i - 1 /\ Below(I, b) = j - 1
    BY <1>2
  <2> HIDE DEF a, b
  <2>2. a \in Nat /\ b \in Nat
    BY <2>1
  <2>3. ~(j - 1 < i - 1) /\ i - 1 # j - 1
    BY <1>3
  <2>4. ~(b < a) /\ a # b
    BY <2>1, <2>3, BelowFacts
  <2>5. a < b
    BY <2>2, <2>4
  <2>6. QED
    BY <2>5 DEF a, b
<1>4. ASSUME NEW x \in I PROVE \E i \in 1 .. Cardinality(I) : Nth(I, i - 1) = x
  <2> DEFINE k == Below(I, x)
  <2>1. k \in Nat /\ k < Cardinality(I) /\ Nth(I, k) = x
    BY BelowFacts, NthUnique
  <2> HIDE DEF k
  <2>2. k + 1 \in 1 .. Cardinality(I) /\ (k + 1) - 1 = k
    BY <1>1, <2>1
  <2>3. QED
    BY <2>1, <2>2
<1>5. QED
  BY <1>2, <1>3, <1>4

\* and nothing else does.
LEMMA OnlyNth ==
    ASSUME NEW n \in Nat, NEW I \in SUBSET (1 .. n), NEW m \in Nat, NEW p \in [1 .. m -> I],
           \A i, j \in 1 .. m : i < j => p[i] < p[j],
           \A x \in I : \E i \in 1 .. m : p[i] = x
    PROVE  m = Cardinality(I) /\ \A i \in 1 .. m : p[i] = Nth(I, i - 1)
<1>0. \A i \in 1 .. m : p[i] \in I /\ p[i] \in Nat
  <2>1. \A x \in I : x \in Nat
    OBVIOUS
  <2>2. QED
    BY <2>1
<1>1. ASSUME NEW i \in 1 .. m, NEW j \in 1 .. m, p[i] = p[j] PROVE i = j
  <2>1. ~(p[i] < p[j]) /\ ~(p[j] < p[i])
    BY <1>0, <1>1
  <2>2. ~(i < j) /\ ~(j < i)
    BY <2>1
  <2>3. QED
    BY <2>2
<1>2. ASSUME NEW i \in 1 .. m PROVE Below(I, p[i]) = i - 1
  <2> DEFINE T == {j \in I : j < p[i]}
             q == [k \in 1 .. (i - 1) |-> p[k]]
  <2>1. ASSUME NEW k \in 1 .. (i - 1) PROVE k \in 1 .. m /\ q[k] = p[k] /\ q[k] \in T
    <3>1. k \in 1 .. m /\ k < i
      OBVIOUS
    <3>2. p[k] < p[i]
      BY <3>1
    <3>3. QED
      BY <1>0, <3>1, <3>2
  <2>2. ASSUME NEW t \in T PROVE \E k \in 1 .. (i - 1) : q[k] = t
    <3>1. PICK k \in 1 .. m : p[k] = t
      OBVIOUS
    <3>2. p[k] < p[i]
      BY <3>1
    <3>3. ~(p[i] < p[k]) /\ p[k] # p[i]
      BY <1>0, <3>2
    <3>4. ~(i < k) /\ k # i
      BY <3>3
    <3>5. k \in 1 .. (i - 1)
      BY <3>4
    <3>6. QED
      BY <3>1, <3>5
  <2>3. q \in [1 .. (i - 1) -> T]
    BY <2>1
  <2>4. \A k, l \in 1 .. (i - 1) : q[k] = q[l] => k = l
    BY <1>1, <2>1
  <2> HIDE DEF q, T
  <2>5. ExistsBijection(1 .. (i - 1), T)
    BY <2>2, <2>3, <2>4, Zenon DEF ExistsBijection, Bijection, Injection, Surjection, IsInjective
  <2>6. IsFiniteSet(1 .. (i - 1)) /\ Cardinality(1 .. (i - 1)) = i - 1
    <3>1. 1 \in Int /\ i - 1 \in Int /\ (1 > i - 1 => i - 1 = 0)
      OBVIOUS
    <3>2. Cardinality(1 .. (i - 1)) = IF 1 > i - 1 THEN 0 ELSE (i - 1) - 1 + 1
      BY <3>1, FS_Interval
    <3>3. QED
      BY <3>1, <3>2, FS_Interval
  <2>7. Cardinality(T) = i - 1
    BY <2>5, <2>6, FS_Bijection
  <2>8. QED
    BY <2>7 DEF T, Below
<1>3. \A i \in 1 .. m : p[i] = Nth(I, i - 1)
  BY <1>0, <1>2, NthUnique
<1>4. m = Cardinality(I)
  <2>1. \A i, j \in 1 .. m : p[i] = p[j] => i = j
    BY <1>1
  <2>2. ExistsBijection(1 .. m, I)
    BY <2>1, Zenon DEF ExistsBijection, Bijection, Injection, Surjection, IsInjective
  <2>3. IsFiniteSet(1 .. m) /\ Cardinality(1 .. m) = m
    <3>1. 1 \in Int /\ m \in Int /\ (1 > m => m = 0)
      OBVIOUS
    <3>2. Cardinality(1 .. m) = IF 1 > m THEN 0 ELSE m - 1 + 1
      BY <3>1, FS_Interval
    <3>3. QED
      BY <3>1, <3>2, FS_Interval
  <2>4. QED
    BY <2>2, <2>3, FS_Bijection
<1>5. QED
  BY <1>3, <1>4

\* w holds the elements of l at the places p, which are those of the elements that
\* are not gone, in their order.
Picked(w, l, gone, p) ==
    /\ p \in [1 .. Len(w) -> 1 .. Len(l)]
    /\ \A i \in 1 .. Len(w) : w[i] = l[p[i]] /\ w[i] \notin gone
    /\ \A i, j \in 1 .. Len(w) : i < j => p[i] < p[j]
    /\ \A x \in 1 .. Len(l) : l[x] \notin gone => \E i \in 1 .. Len(w) : p[i] = x

LEMMA RetainedPicks ==
    ASSUME NEW S, NEW l \in Seq(S), NEW gone
    PROVE  /\ Retained(l, gone) \in Seq(S)
           /\ \E p : Picked(Retained(l, gone), l, gone, p)
<1> DEFINE I == {i \in 1 .. Len(l) : l[i] \notin gone}
           c == Cardinality(I)
           p == [i \in 1 .. c |-> Nth(I, i - 1)]
           w == Retained(l, gone)
<1>1. Len(l) \in Nat /\ I \in SUBSET (1 .. Len(l))
  OBVIOUS
<1>2. c \in Nat
  <2>1. IsFiniteSet(1 .. Len(l))
    BY <1>1, FS_Interval
  <2> HIDE DEF I
  <2>2. QED
    BY <1>1, <2>1, FS_Subset, FS_CardinalityType
<1>3. /\ \A i \in 1 .. c : p[i] = Nth(I, i - 1) /\ p[i] \in I
      /\ \A i, j \in 1 .. c : i < j => p[i] < p[j]
      /\ \A x \in I : \E i \in 1 .. c : p[i] = x
  <2> HIDE DEF I
  <2>1. QED
    BY <1>1, NthOrder
<1>4. w = [i \in 1 .. c |-> l[Nth(I, i - 1)]]
  BY DEF Retained
<1>5. \A x \in I : x \in 1 .. Len(l) /\ l[x] \notin gone
  OBVIOUS
<1>6. \A i \in 1 .. c : w[i] = l[p[i]] /\ w[i] \in S /\ w[i] \notin gone /\ p[i] \in 1 .. Len(l)
  <2> HIDE DEF I, c, p, w
  <2>1. QED
    BY <1>3, <1>4, <1>5
<1>7. w \in Seq(S) /\ Len(w) = c
  <2> HIDE DEF I, c, p, w
  <2>1. w = [i \in 1 .. c |-> w[i]]
    BY <1>4
  <2>2. QED
    BY <1>2, <1>6, <2>1
<1>8. \A x \in 1 .. Len(l) : l[x] \notin gone => x \in I
  OBVIOUS
<1>9. p \in [1 .. c -> 1 .. Len(l)]
  BY <1>6
<1> HIDE DEF I, c, p, w
<1>10. Picked(w, l, gone, p)
  BY <1>3, <1>6, <1>7, <1>8, <1>9 DEF Picked
<1>11. QED
  BY <1>7, <1>10 DEF w

LEMMA PickedIsRetained ==
    ASSUME NEW S, NEW l \in Seq(S), NEW gone, NEW w \in Seq(S), NEW p, Picked(w, l, gone, p)
    PROVE  w = Retained(l, gone)
<1> DEFINE I == {i \in 1 .. Len(l) : l[i] \notin gone}
<1>1. Len(l) \in Nat /\ Len(w) \in Nat /\ I \in SUBSET (1 .. Len(l))
  OBVIOUS
<1>2. /\ p \in [1 .. Len(w) -> I]
      /\ \A i, j \in 1 .. Len(w) : i < j => p[i] < p[j]
      /\ \A x \in I : \E i \in 1 .. Len(w) : p[i] = x
  BY DEF Picked
<1>3. \A i \in 1 .. Len(w) : w[i] = l[p[i]]
  BY DEF Picked
<1>4. Retained(l, gone) = [i \in 1 .. Cardinality(I) |-> l[Nth(I, i - 1)]]
  BY DEF Retained
<1> HIDE DEF I
<1>5. Len(w) = Cardinality(I) /\ \A i \in 1 .. Len(w) : p[i] = Nth(I, i - 1)
  BY <1>1, <1>2, OnlyNth
<1>6. w = [i \in 1 .. Len(w) |-> w[i]]
  OBVIOUS
<1>7. QED
  BY <1>3, <1>4, <1>5, <1>6

\* Only what is in the list matters of what is gone.
LEMMA RetainedAgree ==
    ASSUME NEW S, NEW l \in Seq(S), NEW g, NEW h, \A i \in 1 .. Len(l) : l[i] \in g <=> l[i] \in h
    PROVE  Retained(l, g) = Retained(l, h)
<1>1. {i \in 1 .. Len(l) : l[i] \notin g} = {i \in 1 .. Len(l) : l[i] \notin h}
  OBVIOUS
<1>2. QED
  BY <1>1 DEF Retained

LEMMA RetainedTwice ==
    ASSUME NEW S, NEW l \in Seq(S), NEW g, NEW h
    PROVE  Retained(Retained(l, g), h) = Retained(l, g \cup h)
<1> DEFINE v == Retained(l, g)
           w == Retained(v, h)
<1>1. v \in Seq(S) /\ \E p : Picked(v, l, g, p)
  BY RetainedPicks
<1>2. PICK p : Picked(v, l, g, p)
  BY <1>1
<1>3. w \in Seq(S) /\ \E q : Picked(w, v, h, q)
  <2> HIDE DEF v
  <2>1. QED
    BY <1>1, RetainedPicks
<1>4. PICK q : Picked(w, v, h, q)
  BY <1>3
<1> DEFINE r == [i \in 1 .. Len(w) |-> p[q[i]]]
<1> HIDE DEF v, w
<1>5. /\ p \in [1 .. Len(v) -> 1 .. Len(l)] /\ q \in [1 .. Len(w) -> 1 .. Len(v)]
      /\ \A i \in 1 .. Len(v) : v[i] = l[p[i]] /\ v[i] \notin g
      /\ \A i \in 1 .. Len(w) : w[i] = v[q[i]] /\ w[i] \notin h
  BY <1>2, <1>4 DEF Picked
<1>6. r \in [1 .. Len(w) -> 1 .. Len(l)]
  BY <1>5
<1>7. \A i \in 1 .. Len(w) : w[i] = l[r[i]] /\ w[i] \notin g \cup h
  BY <1>5
<1>8. ASSUME NEW i \in 1 .. Len(w), NEW j \in 1 .. Len(w), i < j PROVE r[i] < r[j]
  <2>1. q[i] < q[j] /\ q[i] \in 1 .. Len(v) /\ q[j] \in 1 .. Len(v)
    BY <1>4, <1>5, <1>8 DEF Picked
  <2>2. p[q[i]] < p[q[j]]
    BY <1>2, <2>1 DEF Picked
  <2>3. QED
    BY <2>2
<1>9. ASSUME NEW x \in 1 .. Len(l), l[x] \notin g \cup h PROVE \E i \in 1 .. Len(w) : r[i] = x
  <2>1. PICK y \in 1 .. Len(v) : p[y] = x
    BY <1>2, <1>9 DEF Picked
  <2>2. v[y] \notin h
    BY <1>5, <1>9, <2>1
  <2>3. PICK i \in 1 .. Len(w) : q[i] = y
    BY <1>4, <2>2 DEF Picked
  <2>4. QED
    BY <2>1, <2>3
<1> HIDE DEF r
<1>10. Picked(w, l, g \cup h, r)
  BY <1>6, <1>7, <1>8, <1>9 DEF Picked
<1>11. w = Retained(l, g \cup h)
  BY <1>3, <1>10, PickedIsRetained
<1>12. QED
  BY <1>11 DEF v, w

LEMMA WithoutRetains ==
    ASSUME NEW S, NEW l \in Seq(S), Injective(l), NEW m
    PROVE  Without(l, m) = Retained(l, {m})
<1>1. CASE ~Holds(l, m)
  <2> DEFINE p == [i \in 1 .. Len(l) |-> i]
  <2>1. Picked(l, l, {m}, p)
    BY <1>1 DEF Picked, Holds
  <2>2. Without(l, m) = l
    BY <1>1 DEF Without, Holds
  <2> HIDE DEF p
  <2>3. QED
    BY <2>1, <2>2, PickedIsRetained
<1>2. CASE Holds(l, m)
  <2> DEFINE k == CHOOSE i \in 1 .. Len(l) : l[i] = m
             w == Without(l, m)
             p == [i \in 1 .. Len(w) |-> IF i < k THEN i ELSE i + 1]
  <2>1. k \in 1 .. Len(l) /\ l[k] = m /\ w = RemoveAt(l, k)
    BY <1>2 DEF Holds, Without
  <2> HIDE DEF k, w
  <2>11. /\ RemoveAt(l, k) \in Seq(S) /\ Len(RemoveAt(l, k)) = Len(l) - 1
         /\ \A i \in 1 .. Len(l) - 1 : RemoveAt(l, k)[i] = IF i < k THEN l[i] ELSE l[i + 1]
    BY <2>1, RemoveAtElements
  <2>12. Len(l) \in Nat
    OBVIOUS
  <2>2. /\ w \in Seq(S) /\ Len(w) = Len(l) - 1 /\ Len(l) \in Nat
        /\ \A i \in 1 .. Len(l) - 1 : w[i] = IF i < k THEN l[i] ELSE l[i + 1]
    BY <2>1, <2>11, <2>12
  <2>3. \A i \in 1 .. Len(w) : p[i] = IF i < k THEN i ELSE i + 1
    OBVIOUS
  <2>4. p \in [1 .. Len(w) -> 1 .. Len(l)]
    BY <2>1, <2>2
  <2> HIDE DEF p
  <2>5. ASSUME NEW i \in 1 .. Len(w) PROVE w[i] = l[p[i]] /\ w[i] \notin {m}
    <3>1. w[i] = l[p[i]] /\ p[i] # k /\ p[i] \in 1 .. Len(l)
      BY <2>1, <2>2, <2>3, <2>4
    <3>2. QED
      BY <2>1, <3>1 DEF Injective
  <2>6. ASSUME NEW i \in 1 .. Len(w), NEW j \in 1 .. Len(w), i < j PROVE p[i] < p[j]
    BY <2>1, <2>2, <2>3, <2>6
  <2>7. ASSUME NEW x \in 1 .. Len(l), l[x] \notin {m} PROVE \E i \in 1 .. Len(w) : p[i] = x
    <3>1. CASE x < k
      <4>1. x \in 1 .. Len(w) /\ p[x] = x
        BY <2>1, <2>2, <2>3, <3>1
      <4>2. QED
        BY <4>1
    <3>2. CASE x > k
      <4>1. x - 1 \in 1 .. Len(w) /\ p[x - 1] = x
        BY <2>1, <2>2, <2>3, <3>2
      <4>2. QED
        BY <4>1
    <3>3. x # k
      BY <2>1, <2>7
    <3>4. QED
      BY <2>1, <2>2, <3>1, <3>2, <3>3
  <2>8. Picked(w, l, {m}, p)
    BY <2>4, <2>5, <2>6, <2>7 DEF Picked
  <2>9. w = Retained(l, {m})
    BY <2>2, <2>8, PickedIsRetained
  <2>10. QED
    BY <2>9 DEF w
<1>3. QED
  BY <1>1, <1>2

LEMMA PrefixRetains ==
    ASSUME NEW S, NEW l \in Seq(S), Injective(l), NEW n \in 0 .. Len(l)
    PROVE  SubSeq(l, 1, n) = Retained(l, {l[i] : i \in (n + 1) .. Len(l)})
<1> DEFINE w == SubSeq(l, 1, n)
           gone == {l[i] : i \in (n + 1) .. Len(l)}
           p == [i \in 1 .. Len(w) |-> i]
<1>1. Len(l) \in Nat /\ n \in Nat /\ n <= Len(l)
  OBVIOUS
<1>2. w \in Seq(S) /\ Len(w) = n /\ \A i \in 1 .. n : w[i] = l[i]
  BY <1>1, SubSeqProperties
<1> HIDE DEF w
<1>3. p \in [1 .. Len(w) -> 1 .. Len(l)]
  BY <1>1, <1>2
<1>4. ASSUME NEW i \in 1 .. Len(w) PROVE w[i] = l[p[i]] /\ w[i] \notin gone
  BY <1>1, <1>2 DEF Injective
<1>5. \A i, j \in 1 .. Len(w) : i < j => p[i] < p[j]
  OBVIOUS
<1>6. ASSUME NEW x \in 1 .. Len(l), l[x] \notin gone PROVE \E i \in 1 .. Len(w) : p[i] = x
  BY <1>1, <1>2, <1>6
<1> HIDE DEF p, gone
<1>7. Picked(w, l, gone, p)
  BY <1>3, <1>4, <1>5, <1>6 DEF Picked
<1>8. QED
  BY <1>2, <1>7, PickedIsRetained DEF w, gone

LEMMA PrependRetains ==
    ASSUME NEW S, NEW l \in Seq(S), NEW x \in S, NEW gone, x \notin gone
    PROVE  Retained(<<x>> \o l, gone) = <<x>> \o Retained(l, gone)
<1> DEFINE k == <<x>> \o l
           v == Retained(l, gone)
           w == <<x>> \o v
<1>1. v \in Seq(S) /\ \E q : Picked(v, l, gone, q)
  BY RetainedPicks
<1>2. PICK q : Picked(v, l, gone, q)
  BY <1>1
<1> DEFINE p == [i \in 1 .. Len(w) |-> IF i = 1 THEN 1 ELSE q[i - 1] + 1]
<1> HIDE DEF v
<1>3. /\ k \in Seq(S) /\ Len(k) = Len(l) + 1 /\ k[1] = x
      /\ \A i \in 1 .. Len(l) : k[i + 1] = l[i]
      /\ w \in Seq(S) /\ Len(w) = Len(v) + 1 /\ w[1] = x
      /\ \A i \in 1 .. Len(v) : w[i + 1] = v[i]
  BY <1>1
<1>4. /\ q \in [1 .. Len(v) -> 1 .. Len(l)]
      /\ \A i \in 1 .. Len(v) : v[i] = l[q[i]] /\ v[i] \notin gone
  BY <1>2 DEF Picked
<1>5. Len(l) \in Nat /\ Len(v) \in Nat
  BY <1>1
<1> HIDE DEF k, w
<1>6. p[1] = 1 /\ \A i \in 1 .. Len(v) : p[i + 1] = q[i] + 1
  BY <1>3, <1>5
<1>7. ASSUME NEW i \in 1 .. Len(w)
      PROVE  i = 1 \/ (i - 1 \in 1 .. Len(v) /\ p[i] = q[i - 1] + 1 /\ w[i] = v[i - 1])
  <2>1. CASE i # 1
    <3>1. i - 1 \in 1 .. Len(v) /\ (i - 1) + 1 = i
      BY <1>3, <1>5, <2>1
    <3>2. QED
      BY <1>3, <1>6, <3>1
  <2>2. QED
    BY <2>1
<1>8. ASSUME NEW i \in 1 .. Len(w) PROVE p[i] \in 1 .. Len(k)
  <2>1. CASE i = 1
    BY <1>3, <1>5, <1>6, <2>1
  <2>2. CASE i # 1
    <3>1. q[i - 1] \in 1 .. Len(l) /\ p[i] = q[i - 1] + 1
      BY <1>4, <1>7, <2>2
    <3>2. QED
      BY <1>3, <1>5, <3>1
  <2>3. QED
    BY <2>1, <2>2
<1>9. p \in [1 .. Len(w) -> 1 .. Len(k)]
  BY <1>8
<1> HIDE DEF p
<1>10. ASSUME NEW i \in 1 .. Len(w) PROVE w[i] = k[p[i]] /\ w[i] \notin gone
  <2>1. CASE i = 1
    BY <1>3, <1>6, <2>1
  <2>2. CASE i # 1
    <3>1. /\ i - 1 \in 1 .. Len(v) /\ p[i] = q[i - 1] + 1 /\ w[i] = v[i - 1]
      BY <1>7, <2>2
    <3>2. v[i - 1] = l[q[i - 1]] /\ v[i - 1] \notin gone /\ q[i - 1] \in 1 .. Len(l)
      BY <1>4, <3>1
    <3>3. k[q[i - 1] + 1] = l[q[i - 1]]
      BY <1>3, <3>2
    <3>4. QED
      BY <3>1, <3>2, <3>3
  <2>3. QED
    BY <2>1, <2>2
<1>11. ASSUME NEW i \in 1 .. Len(w), NEW j \in 1 .. Len(w), i < j PROVE p[i] < p[j]
  <2>0. j # 1
    BY <1>3, <1>5, <1>11
  <2>1. j # 1 /\ j - 1 \in 1 .. Len(v) /\ p[j] = q[j - 1] + 1 /\ q[j - 1] \in 1 .. Len(l)
    BY <1>4, <1>7, <2>0
  <2>2. CASE i = 1
    BY <1>6, <2>1, <2>2
  <2>3. CASE i # 1
    <3>1. i - 1 \in 1 .. Len(v) /\ p[i] = q[i - 1] + 1 /\ q[i - 1] \in 1 .. Len(l)
      BY <1>4, <1>7, <2>3
    <3>2. i - 1 < j - 1
      BY <1>3, <1>5, <1>11
    <3>3. q[i - 1] < q[j - 1]
      BY <1>2, <2>1, <3>1, <3>2 DEF Picked
    <3>4. QED
      BY <2>1, <3>1, <3>3
  <2>4. QED
    BY <2>2, <2>3
<1>12. ASSUME NEW y \in 1 .. Len(k), k[y] \notin gone PROVE \E i \in 1 .. Len(w) : p[i] = y
  <2>1. CASE y = 1
    <3>1. 1 \in 1 .. Len(w)
      BY <1>3, <1>5
    <3>2. QED
      BY <1>6, <2>1, <3>1
  <2>2. CASE y # 1
    <3>1. y - 1 \in 1 .. Len(l) /\ (y - 1) + 1 = y
      BY <1>3, <1>5, <2>2
    <3>2. l[y - 1] \notin gone
      BY <1>3, <1>12, <3>1
    <3>3. PICK i \in 1 .. Len(v) : q[i] = y - 1
      BY <1>2, <3>1, <3>2 DEF Picked
    <3>6. p[i + 1] = q[i] + 1
      BY <1>6
    <3>7. i + 1 \in 1 .. Len(w)
      BY <1>3, <1>5
    <3>4. p[i + 1] = y /\ i + 1 \in 1 .. Len(w)
      BY <3>1, <3>3, <3>6, <3>7
    <3>5. QED
      BY <3>4
  <2>3. QED
    BY <2>1, <2>2
<1>13. Picked(w, k, gone, p)
  BY <1>9, <1>10, <1>11, <1>12 DEF Picked
<1>14. w = Retained(k, gone)
  BY <1>3, <1>13, PickedIsRetained
<1>15. QED
  BY <1>14 DEF k, v, w

----------------------------------------------------------------------------
(* Induction.  The library's induction theorems take a predicate; these take a *)
(* set, and follow from what it says of well-founded relations.               *)

NaturalOrder == {p \in Nat \X Nat : p[1] < p[2]}

LEMMA LeastNumber ==
    ASSUME NEW T \in SUBSET Nat, T # {}
    PROVE  \E m \in T : \A n \in T : m <= n
<1>1. IsWellFoundedOn(NaturalOrder, Nat)
  BY NatLessThanWellFounded, Zenon DEF OpToRel, NaturalOrder
<1>2. PICK m \in T : \A n \in T : <<n, m>> \notin NaturalOrder
  BY <1>1, WFMin, Zenon
<1>3. ASSUME NEW n \in T PROVE m <= n
  <2>1. m \in Nat /\ n \in Nat
    OBVIOUS
  <2>2. n < m => <<n, m>> \in NaturalOrder
    BY <2>1 DEF NaturalOrder
  <2>3. QED
    BY <1>2, <2>1, <2>2
<1>4. QED
  BY <1>3

LEMMA Induction ==
    ASSUME NEW T, 0 \in T, \A n \in Nat : n \in T => n + 1 \in T
    PROVE  \A n \in Nat : n \in T
<1> SUFFICES ASSUME Nat \ T # {} PROVE FALSE
  OBVIOUS
<1>1. PICK m \in Nat \ T : \A n \in Nat \ T : m <= n
  BY LeastNumber
<1>2. m # 0 /\ m - 1 \in Nat
  OBVIOUS
<1>3. m - 1 \in T
  BY <1>1, <1>2
<1>4. m - 1 + 1 = m
  OBVIOUS
<1>5. QED
  BY <1>2, <1>3, <1>4

----------------------------------------------------------------------------
(* SumsOver.  A sum is a fold, a recursion over the subsets of what is summed: that *)
(* there is such a function is proved for the subsets of at most n elements.   *)

AnyOf(s) == CHOOSE x \in s : TRUE

\* g sums w over the subsets in D.
SumsOver(g, w, D) ==
    g = [s \in D |-> IF s = {} THEN 0 ELSE w[AnyOf(s)] + g[s \ {AnyOf(s)}]]

SmallSubsets(S, n) == {s \in SUBSET S : Cardinality(s) <= n}

LEMMA AnyOfIn == ASSUME NEW s, s # {} PROVE AnyOf(s) \in s
BY DEF AnyOf

LEMMA SumsExist ==
    ASSUME NEW S, IsFiniteSet(S), NEW w \in [S -> Nat]
    PROVE  \E g : SumsOver(g, w, SUBSET S)
<1> DEFINE Good == {n \in Nat : \E g : SumsOver(g, w, SmallSubsets(S, n))}
<1>0. \A s \in SUBSET S : IsFiniteSet(s) /\ Cardinality(s) \in Nat /\ Cardinality(s) <= Cardinality(S)
  BY FS_Subset, FS_CardinalityType
<1>1. 0 \in Good
  <2>1. \A s \in SmallSubsets(S, 0) : s = {}
    BY <1>0, FS_EmptySet DEF SmallSubsets
  <2>2. SumsOver([s \in SmallSubsets(S, 0) |-> 0], w, SmallSubsets(S, 0))
    BY <2>1 DEF SumsOver
  <2>3. QED
    BY <2>2
<1>2. ASSUME NEW n \in Nat, n \in Good PROVE n + 1 \in Good
  <2>1. PICK g : SumsOver(g, w, SmallSubsets(S, n))
    BY <1>2
  <2> DEFINE h == [s \in SmallSubsets(S, n + 1) |->
                      IF s = {} THEN 0 ELSE w[AnyOf(s)] + g[s \ {AnyOf(s)}]]
  <2>2. ASSUME NEW s \in SmallSubsets(S, n + 1), s # {} PROVE s \ {AnyOf(s)} \in SmallSubsets(S, n)
    <3>1. AnyOf(s) \in s
      BY <2>2, AnyOfIn
    <3>2. Cardinality(s \ {AnyOf(s)}) = Cardinality(s) - 1
      BY <1>0, <3>1, FS_RemoveElement DEF SmallSubsets
    <3>3. QED
      BY <1>0, <3>2 DEF SmallSubsets
  <2>3. ASSUME NEW s \in SmallSubsets(S, n) PROVE s \in SmallSubsets(S, n + 1) /\ h[s] = g[s]
    <3>1. s \in SmallSubsets(S, n + 1)
      BY <1>0 DEF SmallSubsets
    <3>2. QED
      BY <3>1, <2>1 DEF SumsOver
  <2>4. SumsOver(h, w, SmallSubsets(S, n + 1))
    <3>1. \A s \in SmallSubsets(S, n + 1) : s # {} => h[s \ {AnyOf(s)}] = g[s \ {AnyOf(s)}]
      BY <2>2, <2>3
    <3>2. QED
      BY <3>1 DEF SumsOver
  <2>5. QED
    BY <2>4
<1>3. Cardinality(S) \in Good
  <2>1. \A n \in Nat : n \in Good
    <3> HIDE DEF Good
    <3>1. QED
      BY <1>1, <1>2, Induction
  <2>2. QED
    BY <2>1, <1>0
<1>4. SmallSubsets(S, Cardinality(S)) = SUBSET S
  BY <1>0 DEF SmallSubsets
<1>5. QED
  BY <1>3, <1>4

\* A property that holds for a finite set when it holds for its smaller subsets.
LEMMA SubsetInduction ==
    ASSUME NEW S, IsFiniteSet(S), NEW P \in SUBSET SUBSET S,
           \A s \in SUBSET S : (\A x \in s : s \ {x} \in P) => s \in P
    PROVE  \A s \in SUBSET S : s \in P
<1> DEFINE Good == {n \in Nat : \A s \in SUBSET S : Cardinality(s) = n => s \in P}
<1>0. \A s \in SUBSET S : IsFiniteSet(s) /\ Cardinality(s) \in Nat
  BY FS_Subset, FS_CardinalityType
<1>1. 0 \in Good
  BY <1>0, FS_EmptySet
<1>2. ASSUME NEW n \in Nat, n \in Good PROVE n + 1 \in Good
  <2>1. ASSUME NEW s \in SUBSET S, Cardinality(s) = n + 1 PROVE s \in P
    <3>1. ASSUME NEW x \in s PROVE Cardinality(s \ {x}) = n
      <4>1. Cardinality(s \ {x}) = Cardinality(s) - 1
        BY <1>0, FS_RemoveElement
      <4>2. QED
        BY <2>1, <4>1
    <3>2. QED
      BY <1>2, <3>1
  <2>2. QED
    BY <2>1
<1>3. \A n \in Nat : n \in Good
  <2> HIDE DEF Good
  <2>1. QED
    BY <1>1, <1>2, Induction
<1>4. QED
  BY <1>0, <1>3

LEMMA SumsType ==
    ASSUME NEW S, IsFiniteSet(S), NEW w \in [S -> Nat], NEW g, SumsOver(g, w, SUBSET S)
    PROVE  \A s \in SUBSET S : g[s] \in Nat
<1> DEFINE P == {s \in SUBSET S : g[s] \in Nat}
<1>1. ASSUME NEW s \in SUBSET S, \A x \in s : s \ {x} \in P PROVE s \in P
  <2>1. CASE s = {}
    BY <2>1 DEF SumsOver
  <2>2. CASE s # {}
    <3>1. AnyOf(s) \in s
      BY <2>2, AnyOfIn
    <3>2. g[s \ {AnyOf(s)}] \in Nat /\ w[AnyOf(s)] \in Nat
      BY <1>1, <3>1
    <3>3. g[s] = w[AnyOf(s)] + g[s \ {AnyOf(s)}]
      BY <2>2 DEF SumsOver
    <3>4. g[s] \in Nat
      BY <3>2, <3>3
    <3>5. QED
      BY <3>4
  <2>3. QED
    BY <2>1, <2>2
<1>2. \A s \in SUBSET S : s \in P
  <2> HIDE DEF P
  <2>1. P \in SUBSET SUBSET S
    BY DEF P
  <2>2. QED
    BY <1>1, <2>1, SubsetInduction
<1>3. QED
  BY <1>2

\* Whatever element comes first, a sum is that element and the sum of the others.
SplitsAnyhow(g, w, S) ==
    \A s \in SUBSET S : g[s] \in Nat /\ \A x \in s : g[s] = w[x] + g[s \ {x}]

LEMMA SumsSplit ==
    ASSUME NEW S, IsFiniteSet(S), NEW w \in [S -> Nat], NEW g, SumsOver(g, w, SUBSET S)
    PROVE  SplitsAnyhow(g, w, S)
<1> DEFINE P == {s \in SUBSET S : \A x \in s : g[s] = w[x] + g[s \ {x}]}
<1>1. ASSUME NEW s \in SUBSET S, \A x \in s : s \ {x} \in P PROVE s \in P
  <2> DEFINE y == AnyOf(s)
  <2>1. ASSUME s # {} PROVE y \in s /\ g[s] = w[y] + g[s \ {y}]
    BY <2>1, AnyOfIn DEF SumsOver
  <2> HIDE DEF y
  <2>2. ASSUME NEW x \in s, x # y PROVE g[s] = w[x] + g[s \ {x}]
    <3>1. y \in s /\ g[s] = w[y] + g[s \ {y}]
      BY <2>1
    <3> DEFINE r == s \ {x, y}
    <3>2. r \in SUBSET S /\ (s \ {y}) \ {x} = r /\ (s \ {x}) \ {y} = r
      OBVIOUS
    <3> HIDE DEF r
    <3>3. g[s \ {y}] = w[x] + g[r] /\ g[s \ {x}] = w[y] + g[r]
      BY <1>1, <2>2, <3>1, <3>2
    <3>4. g[r] \in Nat /\ w[x] \in Nat /\ w[y] \in Nat
      BY <3>1, <3>2, SumsType
    <3>5. w[y] + (w[x] + g[r]) = w[x] + (w[y] + g[r])
      BY <3>4
    <3>6. QED
      BY <3>1, <3>3, <3>5
  <2>3. QED
    BY <2>1, <2>2
<1>2. \A s \in SUBSET S : s \in P
  <2> HIDE DEF P
  <2>1. P \in SUBSET SUBSET S
    BY DEF P
  <2>2. QED
    BY <1>1, <2>1, SubsetInduction
<1>3. QED
  BY <1>2, SumsType DEF SplitsAnyhow

LEMMA SumIsSums ==
    ASSUME NEW S, IsFiniteSet(S), NEW w \in [S -> Nat]
    PROVE  \E g : SumsOver(g, w, SUBSET S) /\ SumFunction(w) = g[S]
<1> DEFINE g == CHOOSE f : SumsOver(f, w, SUBSET S)
<1>1. SumsOver(g, w, SUBSET S)
  BY SumsExist
<1>2. SumFunction(w) = g[S]
  <2>1. DOMAIN w = S
    OBVIOUS
  <2>2. QED
    BY <2>1 DEF SumFunction, SumFunctionOnSet, FoldFunctionOnSet, MapThenFoldSet, SumsOver, AnyOf
<1>3. QED
  BY <1>1, <1>2

LEMMA SumsAgree ==
    ASSUME NEW S, IsFiniteSet(S), NEW w, NEW v, NEW g, NEW h,
           SplitsAnyhow(g, w, S), SplitsAnyhow(h, v, S), g[{}] = h[{}],
           NEW R \in SUBSET S, \A x \in R : w[x] = v[x]
    PROVE  g[R] = h[R]
<1> DEFINE P == {s \in SUBSET R : g[s] = h[s]}
<1>1. ASSUME NEW s \in SUBSET R, \A y \in s : s \ {y} \in P PROVE s \in P
  <2>1. CASE s = {}
    BY <2>1
  <2>2. CASE s # {}
    <3>1. PICK y \in s : TRUE
      BY <2>2
    <3>2. g[s \ {y}] = h[s \ {y}]
      BY <1>1
    <3>3. s \in SUBSET S /\ w[y] = v[y]
      OBVIOUS
    <3>4. g[s] = w[y] + g[s \ {y}] 
      BY <3>3 DEF SplitsAnyhow
    <3>5. h[s] = v[y] + h[s \ {y}]
      BY <3>3 DEF SplitsAnyhow
    <3>6. QED
      BY <3>2, <3>3, <3>4, <3>5
  <2>3. QED
    BY <2>1, <2>2
<1>2. IsFiniteSet(R) /\ P \in SUBSET SUBSET R
  BY FS_Subset
<1>3. ASSUME NEW s \in SUBSET R PROVE s \in P
  <2> HIDE DEF P
  <2>1. QED
    BY <1>1, <1>2, SubsetInduction
<1>4. QED
  BY <1>3

\* What a sum is, and how it changes with one of its terms.
LEMMA SumFacts ==
    ASSUME NEW S, IsFiniteSet(S), NEW w \in [S -> Nat], NEW e \in S, NEW n \in Nat
    PROVE  /\ SumFunction(w) \in Nat
           /\ w[e] <= SumFunction(w)
           /\ SumFunction([w EXCEPT ![e] = n]) = (SumFunction(w) - w[e]) + n
<1> DEFINE v == [w EXCEPT ![e] = n]
<1>1. v \in [S -> Nat] /\ v[e] = n /\ \A y \in S \ {e} : v[y] = w[y]
  OBVIOUS
<1>2. PICK g : SumsOver(g, w, SUBSET S) /\ SumFunction(w) = g[S]
  BY SumIsSums
<1> HIDE DEF v
<1>3. PICK h : SumsOver(h, v, SUBSET S) /\ SumFunction(v) = h[S]
  BY <1>1, SumIsSums
<1>4. SplitsAnyhow(g, w, S) /\ g[{}] = 0
  <2>1. SplitsAnyhow(g, w, S)
    BY <1>2, SumsSplit
  <2>2. QED
    BY <1>2, <2>1 DEF SumsOver
<1>5. SplitsAnyhow(h, v, S) /\ h[{}] = 0
  <2>1. SplitsAnyhow(h, v, S)
    BY <1>1, <1>3, SumsSplit
  <2>2. QED
    BY <1>3, <2>1 DEF SumsOver
<1>6. g[S \ {e}] = h[S \ {e}]
  BY <1>1, <1>4, <1>5, SumsAgree
<1>7. g[S] \in Nat /\ g[S \ {e}] \in Nat /\ w[e] \in Nat
  BY <1>4 DEF SplitsAnyhow
<1>8. g[S] = w[e] + g[S \ {e}]
  BY <1>4 DEF SplitsAnyhow
<1>9. h[S] = n + h[S \ {e}]
  BY <1>1, <1>5 DEF SplitsAnyhow
<1>10. w[e] <= g[S] /\ h[S] = (g[S] - w[e]) + n
  BY <1>6, <1>7, <1>8, <1>9
<1>11. QED
  BY <1>2, <1>3, <1>7, <1>10 DEF v

LEMMA SumOfZeros ==
    ASSUME NEW S, IsFiniteSet(S)
    PROVE  SumFunction([x \in S |-> 0]) = 0
<1> DEFINE w == [x \in S |-> 0]
<1>1. w \in [S -> Nat] /\ \A x \in S : w[x] = 0
  OBVIOUS
<1> HIDE DEF w
<1>2. PICK g : SumsOver(g, w, SUBSET S) /\ SumFunction(w) = g[S]
  BY <1>1, SumIsSums
<1> DEFINE P == {s \in SUBSET S : g[s] = 0}
<1>3. ASSUME NEW s \in SUBSET S, \A y \in s : s \ {y} \in P PROVE s \in P
  <2>1. CASE s = {}
    BY <1>2, <2>1 DEF SumsOver
  <2>2. CASE s # {}
    <3>1. AnyOf(s) \in s
      BY <2>2, AnyOfIn
    <3>2. g[s \ {AnyOf(s)}] = 0 /\ w[AnyOf(s)] = 0
      BY <1>1, <1>3, <3>1
    <3>3. g[s] = w[AnyOf(s)] + g[s \ {AnyOf(s)}]
      BY <1>2, <2>2 DEF SumsOver
    <3>4. g[s] = 0
      BY <3>2, <3>3
    <3>5. QED
      BY <3>4
  <2>3. QED
    BY <2>1, <2>2
<1>4. S \in P
  <2> HIDE DEF P
  <2>1. P \in SUBSET SUBSET S
    BY DEF P
  <2>2. QED
    BY <1>3, <2>1, SubsetInduction
<1>5. QED
  BY <1>2, <1>4 DEF w

----------------------------------------------------------------------------
(* Remainders *)

LEMMA DivFacts ==
    ASSUME NEW n \in Nat, NEW k \in Nat \ {0}
    PROVE  n % k \in 0 .. k - 1 /\ n \div k \in Nat /\ n = k * (n \div k) + (n % k)
OBVIOUS
LEMMA UniqueRemainder ==
    ASSUME NEW k \in Nat \ {0}, NEW p \in Nat, NEW q \in Nat, NEW r \in 0 .. k - 1, NEW s \in 0 .. k - 1,
           k * p + r = k * q + s
    PROVE r = s
<1>1. ASSUME NEW a \in Nat, NEW b \in Nat, a > b PROVE k * a >= k * b + k
  <2>1. PICK c \in Nat : a = b + 1 + c
    <3>1. a - b - 1 \in Nat /\ a = b + 1 + (a - b - 1)
      BY <1>1
    <3>2. QED
      BY <3>1
  <2>2. k * a = k * b + k + k * c /\ k * c \in Nat
    BY <2>1
  <2>3. k * b \in Nat /\ k * a \in Nat
    OBVIOUS
  <2>4. QED
    BY <2>2, <2>3
<1>2. k * p \in Nat /\ k * q \in Nat
  OBVIOUS
<1>3. ~ (p > q)
  <2>1. p > q => k * p >= k * q + k
    BY <1>1
  <2>2. QED
    BY <1>2, <2>1
<1>4. ~ (q > p)
  <2>1. q > p => k * q >= k * p + k
    BY <1>1
  <2>2. QED
    BY <1>2, <2>1
<1>5. p = q
  BY <1>3, <1>4
<1>6. QED
  BY <1>2, <1>5
\* A counter modulo k goes through the numbers below k in turn.
LEMMA NextRemainder ==
    ASSUME NEW n \in Nat, NEW k \in Nat \ {0}
    PROVE  /\ n % k \in 0 .. k - 1
           /\ (n + 1) % k = IF n % k = k - 1 THEN 0 ELSE (n % k) + 1
<1> DEFINE p == n \div k
           r == n % k
           q == (n + 1) \div k
           s == (n + 1) % k
<1>1. r \in 0 .. k - 1 /\ p \in Nat /\ n = k * p + r
  BY DivFacts
<1>2. s \in 0 .. k - 1 /\ q \in Nat /\ n + 1 = k * q + s
  <2>1. n + 1 \in Nat
    OBVIOUS
  <2>2. QED
    BY <2>1, DivFacts
<1> HIDE DEF p, q, r, s
<1>3. CASE r = k - 1
  <2>1. k * (p + 1) = k * p + k
    BY <1>1
  <2>2. k * (p + 1) + 0 = k * q + s
    BY <1>1, <1>2, <1>3, <2>1
  <2>3. 0 \in 0 .. k - 1 /\ p + 1 \in Nat
    BY <1>1
  <2>4. s = 0
    BY <1>2, <2>2, <2>3, UniqueRemainder
  <2>5. QED
    BY <1>1, <1>3, <2>4 DEF r, s
<1>4. CASE r # k - 1
  <2>1. r + 1 \in 0 .. k - 1 /\ k * p + (r + 1) = k * q + s
    BY <1>1, <1>2, <1>4
  <2>2. s = r + 1
    BY <1>1, <1>2, <2>1, UniqueRemainder
  <2>3. QED
    BY <1>1, <1>4, <2>2 DEF r, s
<1>5. QED
  BY <1>3, <1>4


----------------------------------------------------------------------------
(* Places in a strict order: how many elements are ahead *)

\* A strict total order of S, as the set of its pairs.
StrictOrder(R, S) ==
    /\ \A x \in S : <<x, x>> \notin R
    /\ \A x, y \in S : x = y \/ <<x, y>> \in R \/ <<y, x>> \in R
    /\ \A x, y, z \in S : <<x, y>> \in R /\ <<y, z>> \in R => <<x, z>> \in R

Ahead(R, S, x) == {y \in S : <<y, x>> \in R}

\* Of the elements of a finite set exactly one has k others ahead of it, for each k
\* less than there are elements.
LEMMA PlacesInOrder ==
    ASSUME NEW S, IsFiniteSet(S), NEW R, StrictOrder(R, S)
    PROVE  /\ Cardinality(S) \in Nat
           /\ \A x \in S : Cardinality(Ahead(R, S, x)) \in 0 .. (Cardinality(S) - 1)
           /\ \A x, y \in S : <<x, y>> \in R =>
                 Cardinality(Ahead(R, S, x)) < Cardinality(Ahead(R, S, y))
           /\ \A x, y \in S :
                 Cardinality(Ahead(R, S, x)) = Cardinality(Ahead(R, S, y)) => x = y
           /\ \A k \in 0 .. (Cardinality(S) - 1) :
                 \E x \in S : Cardinality(Ahead(R, S, x)) = k
<1> DEFINE A(x) == Ahead(R, S, x)
           n == Cardinality(S)
<1>1. n \in Nat
  BY FS_CardinalityType
<1>2. ASSUME NEW x \in S
      PROVE  /\ A(x) \in SUBSET S /\ x \notin A(x)
             /\ IsFiniteSet(A(x)) /\ Cardinality(A(x)) \in Nat
             /\ IsFiniteSet(A(x) \cup {x}) /\ Cardinality(A(x) \cup {x}) = Cardinality(A(x)) + 1
  <2>1. A(x) \in SUBSET S /\ x \notin A(x)
    BY DEF Ahead, StrictOrder
  <2> HIDE DEF A
  <2>2. IsFiniteSet(A(x))
    BY <2>1, FS_Subset
  <2>3. QED
    BY <2>1, <2>2, FS_CardinalityType, FS_AddElement
<1>3. ASSUME NEW x \in S, NEW y \in S, <<x, y>> \in R PROVE A(x) \cup {x} \in SUBSET A(y)
  BY <1>3 DEF Ahead, StrictOrder
<1> HIDE DEF A
<1>4. ASSUME NEW x \in S, NEW y \in S, <<x, y>> \in R PROVE Cardinality(A(x)) < Cardinality(A(y))
  <2>1. Cardinality(A(x) \cup {x}) <= Cardinality(A(y))
    BY <1>2, <1>3, <1>4, FS_Subset
  <2>2. Cardinality(A(x)) \in Nat /\ Cardinality(A(y)) \in Nat
    BY <1>2
  <2>3. Cardinality(A(x) \cup {x}) = Cardinality(A(x)) + 1
    BY <1>2
  <2>4. QED
    BY <2>1, <2>2, <2>3
<1>5. ASSUME NEW x \in S PROVE Cardinality(A(x)) \in 0 .. (n - 1)
  <2>1. A(x) \cup {x} \in SUBSET S
    BY <1>2
  <2>2. Cardinality(A(x) \cup {x}) <= n
    BY <2>1, FS_Subset
  <2>3. Cardinality(A(x)) \in Nat /\ Cardinality(A(x) \cup {x}) = Cardinality(A(x)) + 1
    BY <1>2
  <2> HIDE DEF n
  <2>4. QED
    BY <1>1, <2>2, <2>3
<1>6. ASSUME NEW x \in S, NEW y \in S, Cardinality(A(x)) = Cardinality(A(y)) PROVE x = y
  <2>1. Cardinality(A(x)) \in Nat
    BY <1>2
  <2>2. ~(Cardinality(A(x)) < Cardinality(A(y))) /\ ~(Cardinality(A(y)) < Cardinality(A(x)))
    BY <1>6, <2>1
  <2>3. <<x, y>> \notin R /\ <<y, x>> \notin R
    BY <1>4, <2>2
  <2>4. QED
    BY <2>3 DEF StrictOrder
<1>7. ASSUME NEW k \in 0 .. (n - 1) PROVE \E x \in S : Cardinality(A(x)) = k
  <2> DEFINE T == 0 .. (n - 1)
             p == [x \in S |-> Cardinality(A(x))]
  <2>1. p \in [S -> T]
    BY <1>5
  <2>2. \A x, y \in S : p[x] = p[y] => x = y
    BY <1>6
  <2>3. IsFiniteSet(T) /\ Cardinality(T) = n
    <3>1. 0 \in Int /\ n - 1 \in Int /\ (0 > n - 1 => n = 0) /\ (n - 1) - 0 + 1 = n
      BY <1>1
    <3>2. /\ IsFiniteSet(0 .. (n - 1))
          /\ Cardinality(0 .. (n - 1)) = IF 0 > n - 1 THEN 0 ELSE (n - 1) - 0 + 1
      BY <3>1, FS_Interval
    <3> HIDE DEF n
    <3>3. QED
      BY <3>1, <3>2
  <2>4. p \in Injection(S, T)
    <3> HIDE DEF p, T
    <3>1. QED
      BY <2>1, <2>2 DEF Injection, IsInjective
  <2> HIDE DEF p
  <2>5. p \in Surjection(S, T)
    <3> HIDE DEF T
    <3>1. QED
      BY <2>3, <2>4, FS_Injection
  <2>6. k \in T
    OBVIOUS
  <2>7. PICK x \in S : p[x] = k
    <3> HIDE DEF T
    <3>1. QED
      BY <2>5, <2>6 DEF Surjection
  <2>8. QED
    BY <2>7 DEF p
<1>8. QED
  BY <1>1, <1>4, <1>5, <1>6, <1>7 DEF A

----------------------------------------------------------------------------
(* Functions that are defined by steps *)

\* f begins with b and goes on with step.
StepsFrom(f, b, step, n) ==
    f = [k \in 0 .. n |-> IF k = 0 THEN b ELSE step[<<k, f[k - 1]>>]]

StepsIn(step, n, B) == step \in [(1 .. n) \X B -> B]

ByStepsIn(f, b, step, n, B) ==
    /\ f \in [0 .. n -> B] /\ f[0] = b
    /\ \A k \in 1 .. n : f[k] = step[<<k, f[k - 1]>>]

LEMMA StepsExist ==
    ASSUME NEW B, NEW b \in B, NEW n \in Nat, NEW step, StepsIn(step, n, B)
    PROVE  \E f : ByStepsIn(f, b, step, n, B)
<1> USE DEF StepsIn
<1>1. ASSUME NEW f, StepsFrom(f, b, step, n)
      PROVE  /\ f \in [0 .. n -> B] /\ f[0] = b
             /\ \A k \in 1 .. n : f[k] = step[<<k, f[k - 1]>>]
  <2>1. \A k \in 0 .. n : f[k] = IF k = 0 THEN b ELSE step[<<k, f[k - 1]>>]
    BY <1>1 DEF StepsFrom
  <2>2. f = [k \in 0 .. n |-> f[k]]
    BY <1>1 DEF StepsFrom
  <2>3. f[0] = b /\ \A k \in 1 .. n : f[k] = step[<<k, f[k - 1]>>]
    <3>1. 0 \in 0 .. n /\ \A k \in 1 .. n : k \in 0 .. n /\ k # 0
      OBVIOUS
    <3>2. f[0] = b
      BY <2>1, <3>1
    <3>3. ASSUME NEW k \in 1 .. n PROVE f[k] = step[<<k, f[k - 1]>>]
      BY <2>1, <3>1
    <3>4. QED
      BY <3>2, <3>3
  <2> DEFINE T == {k \in Nat : k <= n => f[k] \in B}
  <2>4. 0 \in T
    BY <2>3
  <2>5. ASSUME NEW k \in Nat, k \in T PROVE k + 1 \in T
    <3>1. ASSUME k + 1 <= n PROVE f[k + 1] \in B
      <4>1. k + 1 \in 1 .. n /\ (k + 1) - 1 = k /\ k <= n
        BY <3>1
      <4>2. f[k] \in B /\ f[k + 1] = step[<<k + 1, f[k]>>]
        BY <2>3, <2>5, <4>1
      <4>3. QED
        BY <4>1, <4>2
    <3>2. QED
      BY <3>1
  <2>6. \A k \in Nat : k \in T
    <3> HIDE DEF T
    <3>1. QED
      BY <2>4, <2>5, Induction
  <2>7. \A k \in 0 .. n : f[k] \in B
    BY <2>6
  <2>8. QED
    BY <2>2, <2>3, <2>7
<1>2. \E f : StepsFrom(f, b, step, n)
  <2> DEFINE T == {m \in Nat : m <= n => \E f : StepsFrom(f, b, step, m)}
  <2>1. 0 \in T
    <3>1. StepsFrom([k \in 0 .. 0 |-> b], b, step, 0)
      BY DEF StepsFrom
    <3>2. QED
      BY <3>1
  <2>2. ASSUME NEW m \in Nat, m \in T PROVE m + 1 \in T
    <3>1. ASSUME m + 1 <= n PROVE \E f : StepsFrom(f, b, step, m + 1)
      <4>1. PICK f : StepsFrom(f, b, step, m)
        BY <2>2, <3>1
      <4> DEFINE h == [k \in 0 .. m + 1 |-> IF k = 0 THEN b ELSE step[<<k, f[k - 1]>>]]
      <4>2. ASSUME NEW k \in 0 .. m PROVE h[k] = f[k]
        <5>1. k \in 0 .. m + 1
          OBVIOUS
        <5>2. f[k] = IF k = 0 THEN b ELSE step[<<k, f[k - 1]>>]
          BY <4>1 DEF StepsFrom
        <5>3. QED
          BY <5>1, <5>2
      <4>3. \A k \in 0 .. m + 1 : k # 0 => k - 1 \in 0 .. m
        OBVIOUS
      <4>4. h = [k \in 0 .. m + 1 |-> IF k = 0 THEN b ELSE step[<<k, h[k - 1]>>]]
        BY <4>2, <4>3
      <4>5. StepsFrom(h, b, step, m + 1)
        BY <4>4 DEF StepsFrom
      <4>6. QED
        BY <4>5
    <3>2. QED
      BY <3>1
  <2>3. n \in T
    <3> HIDE DEF T
    <3>1. QED
      BY <2>1, <2>2, Induction
  <2>4. QED
    BY <2>3
<1>3. QED
  BY <1>1, <1>2 DEF ByStepsIn

----------------------------------------------------------------------------
(* The best of a set by a score that no two of its elements share *)

Scored(S, score) ==
    /\ IsFiniteSet(S)
    /\ \A x \in S : score[x] \in Int
    /\ \A x, y \in S : score[x] = score[y] => x = y

Better(S, score, x) == {y \in S : score[y] > score[x]}

Downward(S, score) == {p \in S \X S : score[p[1]] > score[p[2]]}

LEMMA ScoreOrder ==
    ASSUME NEW S, NEW score, Scored(S, score)
    PROVE  /\ Cardinality(S) \in Nat
           /\ \A x \in S : Cardinality(Better(S, score, x)) \in 0 .. (Cardinality(S) - 1)
           /\ \A x, y \in S : score[x] > score[y] =>
                 Cardinality(Better(S, score, x)) < Cardinality(Better(S, score, y))
           /\ \A x, y \in S :
                 Cardinality(Better(S, score, x)) = Cardinality(Better(S, score, y)) => x = y
           /\ \A k \in 0 .. (Cardinality(S) - 1) :
                 \E x \in S : Cardinality(Better(S, score, x)) = k
<1> DEFINE R == Downward(S, score)
<1>1. ASSUME NEW x \in S, NEW y \in S PROVE <<x, y>> \in R <=> score[x] > score[y]
  BY DEF Downward
<1>2. \A x \in S : Better(S, score, x) = Ahead(R, S, x)
  BY <1>1 DEF Better, Ahead
<1>3. \A x \in S : score[x] \in Int
  BY DEF Scored
<1> HIDE DEF R
<1>4. \A x \in S : <<x, x>> \notin R
  BY <1>1, <1>3
<1>5. ASSUME NEW x \in S, NEW y \in S PROVE x = y \/ <<x, y>> \in R \/ <<y, x>> \in R
  BY <1>1, <1>3 DEF Scored
<1>6. ASSUME NEW x \in S, NEW y \in S, NEW z \in S, <<x, y>> \in R, <<y, z>> \in R
      PROVE  <<x, z>> \in R
  <2>1. score[x] > score[y] /\ score[y] > score[z]
    BY <1>1, <1>6
  <2>2. score[x] > score[z]
    BY <1>3, <2>1
  <2>3. QED
    BY <1>1, <2>2
<1>7. StrictOrder(R, S)
  BY <1>4, <1>5, <1>6 DEF StrictOrder
<1>8. IsFiniteSet(S)
  BY DEF Scored
<1>9. /\ Cardinality(S) \in Nat
      /\ \A x \in S : Cardinality(Ahead(R, S, x)) \in 0 .. (Cardinality(S) - 1)
      /\ \A x, y \in S : <<x, y>> \in R =>
            Cardinality(Ahead(R, S, x)) < Cardinality(Ahead(R, S, y))
      /\ \A x, y \in S :
            Cardinality(Ahead(R, S, x)) = Cardinality(Ahead(R, S, y)) => x = y
      /\ \A k \in 0 .. (Cardinality(S) - 1) :
            \E x \in S : Cardinality(Ahead(R, S, x)) = k
  BY <1>7, <1>8, PlacesInOrder
<1>10. QED
  BY <1>1, <1>2, <1>9

\* A score is greatest somewhere.
LEMMA GreatestScore ==
    ASSUME NEW S, NEW score, Scored(S, score), S # {}
    PROVE  \E x \in S : \A y \in S : score[y] <= score[x]
<1>1. Cardinality(S) \in Nat /\ Cardinality(S) # 0
  BY ScoreOrder, FS_EmptySet DEF Scored
<1>2. 0 \in 0 .. (Cardinality(S) - 1)
  BY <1>1
<1>3. PICK x \in S : Cardinality(Better(S, score, x)) = 0
  BY <1>2, ScoreOrder
<1>4. ASSUME NEW y \in S PROVE score[y] <= score[x]
  <2>1. Cardinality(Better(S, score, y)) \in 0 .. (Cardinality(S) - 1)
    BY ScoreOrder
  <2>2. ~(Cardinality(Better(S, score, y)) < 0)
    BY <2>1
  <2>3. ~(score[y] > score[x])
    BY <1>3, <2>2, ScoreOrder
  <2>4. score[x] \in Int /\ score[y] \in Int
    BY DEF Scored
  <2>5. QED
    BY <2>3, <2>4
<1>5. QED
  BY <1>4

\* The k best are k, or all.
LEMMA BestCount ==
    ASSUME NEW S, NEW score, Scored(S, score), NEW k \in Nat
    PROVE  LET best == {x \in S : Cardinality(Better(S, score, x)) < k} IN
           /\ IsFiniteSet(best) /\ Cardinality(best) \in Nat
           /\ Cardinality(best) = IF Cardinality(S) <= k THEN Cardinality(S) ELSE k
           /\ Cardinality(S) <= k => best = S
<1> DEFINE best == {x \in S : Cardinality(Better(S, score, x)) < k}
           n == Cardinality(S)
           place == [x \in best |-> Cardinality(Better(S, score, x))]
           T == 0 .. (k - 1)
<1>1. IsFiniteSet(S) /\ IsFiniteSet(best) /\ Cardinality(best) \in Nat /\ n \in Nat
  <2>1. best \in SUBSET S
    OBVIOUS
  <2> HIDE DEF best
  <2>2. QED
    BY <2>1, FS_Subset, FS_CardinalityType DEF Scored
<1>2. ASSUME n <= k PROVE best = S
  <2>1. ASSUME NEW x \in S PROVE Cardinality(Better(S, score, x)) < k
    <3>1. Cardinality(Better(S, score, x)) \in 0 .. (n - 1)
      BY ScoreOrder
    <3> HIDE DEF n
    <3>2. QED
      BY <1>1, <1>2, <3>1
  <2>2. QED
    BY <2>1
<1>3. ASSUME ~(n <= k) PROVE Cardinality(best) = k
  <2>1. ASSUME NEW x \in best PROVE place[x] \in T
    <3>1. Cardinality(Better(S, score, x)) \in 0 .. (n - 1) /\ Cardinality(Better(S, score, x)) < k
      BY ScoreOrder
    <3>2. QED
      BY <3>1
  <2>2. \A x, y \in best : place[x] = place[y] => x = y
    BY ScoreOrder
  <2>3. ASSUME NEW t \in T PROVE \E x \in best : place[x] = t
    <3>1. t \in 0 .. (n - 1) /\ t < k
      BY <1>1, <1>3
    <3>2. PICK x \in S : Cardinality(Better(S, score, x)) = t
      BY <3>1, ScoreOrder
    <3>3. QED
      BY <3>1, <3>2
  <2>4. place \in [best -> T]
    BY <2>1
  <2> HIDE DEF place, best, T
  <2>5. ExistsBijection(best, T)
    BY <2>2, <2>3, <2>4, Zenon
    DEF ExistsBijection, Bijection, Injection, Surjection, IsInjective
  <2>6. Cardinality(T) = Cardinality(best)
    BY <1>1, <2>5, FS_Bijection
  <2>7. Cardinality(T) = k
    <3>1. 0 \in Int /\ k - 1 \in Int /\ (0 > k - 1 => k = 0) /\ (k - 1) - 0 + 1 = k
      OBVIOUS
    <3>2. Cardinality(0 .. (k - 1)) = IF 0 > k - 1 THEN 0 ELSE (k - 1) - 0 + 1
      BY <3>1, FS_Interval
    <3>3. QED
      BY <3>1, <3>2 DEF T
  <2>8. QED
    BY <2>6, <2>7
<1>4. QED
  BY <1>1, <1>2, <1>3
=============================================================================
