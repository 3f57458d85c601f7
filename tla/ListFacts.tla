------------------------------ MODULE ListFacts ------------------------------
(* Facts about the operators the models' lists are built from, for the       *)
(* proofs of every module: removing an entry, putting one at the head or at  *)
(* the end, and taking a least number.                                       *)
EXTENDS SequencesExt, SequenceTheorems, FiniteSetTheorems, TLAPS

(* A nonempty set of naturals has its minimum in it.                         *)
LEMMA MinIsMember ==
  ASSUME NEW S, S \subseteq Nat, S # {}
  PROVE  Min(S) \in S
<1>1. PICK x \in S : \A y \in S : ~ (<<y, x>> \in OpToRel(<, Nat))
  BY NatLessThanWellFounded, WFMin
<1>2. \A y \in S : ~ (y < x)
  BY <1>1, Zenon DEF OpToRel
<1>3. \A y \in S : x <= y
  BY <1>2
<1> QED BY <1>3 DEF Min

-----------------------------------------------------------------------------
(* The positions of a list.                                                  *)

(* Removing an entry of a list shifts the ones behind it.                    *)
LEMMA RemoveAtSeq ==
  ASSUME NEW S, NEW s \in Seq(S), NEW i \in 1..Len(s)
  PROVE  /\ RemoveAt(s, i) \in Seq(S)
         /\ Len(RemoveAt(s, i)) = Len(s) - 1
         /\ \A j \in 1..(Len(s) - 1) : RemoveAt(s, i)[j] = IF j < i THEN s[j] ELSE s[j + 1]
<1>1. Len(s) \in Nat /\ \A j \in 1..Len(s) : s[j] \in S
  BY LenProperties, ElementOfSeq
<1> DEFINE front == SubSeq(s, 1, i - 1)
           back == SubSeq(s, i + 1, Len(s))
<1>2. /\ front \in Seq(S) /\ Len(front) = i - 1
      /\ \A j \in 1..(i - 1) : front[j] = s[j]
  <2>1. 1 \in Int /\ i - 1 \in Int /\ \A j \in 1..(i - 1) : s[j] \in S
    BY <1>1
  <2>2. /\ front \in Seq(S)
        /\ Len(front) = IF 1 <= i - 1 THEN (i - 1) - 1 + 1 ELSE 0
        /\ \A j \in 1..((i - 1) - 1 + 1) : front[j] = s[1 + j - 1]
    BY <2>1, SubSeqProperties
  <2> QED BY <2>2
<1>3. /\ back \in Seq(S) /\ Len(back) = Len(s) - i
      /\ \A j \in 1..(Len(s) - i) : back[j] = s[i + j]
  <2>1. i + 1 \in Int /\ Len(s) \in Int /\ \A j \in (i + 1)..Len(s) : s[j] \in S
    BY <1>1
  <2>2. /\ back \in Seq(S)
        /\ Len(back) = IF i + 1 <= Len(s) THEN Len(s) - (i + 1) + 1 ELSE 0
        /\ \A j \in 1..(Len(s) - (i + 1) + 1) : back[j] = s[(i + 1) + j - 1]
    BY <2>1, SubSeqProperties
  <2> QED BY <1>1, <2>2
<1>4. RemoveAt(s, i) = front \o back
  BY DEF RemoveAt
<1> HIDE DEF front, back
<1>5. /\ front \o back \in Seq(S) /\ Len(front \o back) = Len(front) + Len(back)
      /\ \A j \in 1..(Len(front) + Len(back)) :
           (front \o back)[j] = IF j <= Len(front) THEN front[j] ELSE back[j - Len(front)]
  BY <1>2, <1>3, ConcatProperties
<1>6. ASSUME NEW j \in 1..(Len(s) - 1)
      PROVE  (front \o back)[j] = IF j < i THEN s[j] ELSE s[j + 1]
  <2>1. CASE j < i
    BY <2>1, <1>1, <1>2, <1>3, <1>5
  <2>2. CASE ~ (j < i)
    <3>1. j - (i - 1) \in 1..(Len(s) - i) /\ i + (j - (i - 1)) = j + 1
      BY <2>2, <1>1
    <3>2. (front \o back)[j] = back[j - (i - 1)]
      BY <2>2, <1>1, <1>2, <1>3, <1>5
    <3> QED BY <2>2, <3>1, <3>2, <1>3
  <2> QED BY <2>1, <2>2
<1> QED BY <1>1, <1>2, <1>3, <1>4, <1>5, <1>6

(* Putting an entry at the head shifts them all.                             *)
LEMMA PrependSeq ==
  ASSUME NEW S, NEW s \in Seq(S), NEW e \in S
  PROVE  /\ <<e>> \o s \in Seq(S)
         /\ Len(<<e>> \o s) = Len(s) + 1
         /\ (<<e>> \o s)[1] = e
         /\ \A j \in 2..(Len(s) + 1) : (<<e>> \o s)[j] = s[j - 1]
<1>1. <<e>> \in Seq(S) /\ Len(<<e>>) = 1 /\ <<e>>[1] = e /\ Len(s) \in Nat
  BY LenProperties
<1>2. /\ <<e>> \o s \in Seq(S) /\ Len(<<e>> \o s) = Len(<<e>>) + Len(s)
      /\ \A j \in 1..(Len(<<e>>) + Len(s)) :
           (<<e>> \o s)[j] = IF j <= Len(<<e>>) THEN <<e>>[j] ELSE s[j - Len(<<e>>)]
  BY <1>1, ConcatProperties
<1> QED BY <1>1, <1>2

-----------------------------------------------------------------------------
(* The elements of a list.                                                   *)

(* Prepending to a list: its elements, and that they stay distinct.         *)
LEMMA ConsSet ==
  ASSUME NEW S, NEW s \in Seq(S), NEW e \in S
  PROVE  /\ <<e>> \o s \in Seq(S)
         /\ ToSet(<<e>> \o s) = {e} \cup ToSet(s)
         /\ IsInjective(s) /\ e \notin ToSet(s) => IsInjective(<<e>> \o s)
<1> DEFINE r == <<e>> \o s
<1>1. /\ r \in Seq(S)
      /\ Len(r) = Len(s) + 1
      /\ r[1] = e
      /\ \A i \in 1..Len(s) : r[i + 1] = s[i]
      /\ \A i \in 1..Len(r) : i = 1 \/ (i - 1 \in 1..Len(s) /\ r[i] = s[i - 1])
  OBVIOUS
<1> HIDE DEF r
<1>2. DOMAIN r = 1..Len(r) /\ DOMAIN s = 1..Len(s) /\ Len(s) \in Nat
  BY <1>1
<1>3. ToSet(r) = {e} \cup ToSet(s)
  <2>1. ASSUME NEW x \in ToSet(s)
        PROVE  x \in ToSet(r)
    <3>1. PICK i \in 1..Len(s) : s[i] = x
      BY <1>2 DEF ToSet
    <3>2. i + 1 \in DOMAIN r /\ r[i + 1] = x
      BY <1>1, <1>2, <3>1
    <3> QED BY <3>2 DEF ToSet
  <2>2. e \in ToSet(r)
    BY <1>1, <1>2 DEF ToSet
  <2>3. ASSUME NEW x \in ToSet(r)
        PROVE  x = e \/ x \in ToSet(s)
    <3>1. PICK i \in 1..Len(r) : r[i] = x
      BY <1>2 DEF ToSet
    <3>2. i = 1 \/ (i - 1 \in DOMAIN s /\ s[i - 1] = x)
      BY <1>1, <1>2, <3>1
    <3>3. CASE i = 1
      BY <1>1, <3>1, <3>3
    <3>4. CASE i - 1 \in DOMAIN s /\ s[i - 1] = x
      BY <3>4 DEF ToSet
    <3> QED BY <3>2, <3>3, <3>4
  <2> QED BY <2>1, <2>2, <2>3
<1>4. ASSUME IsInjective(s), e \notin ToSet(s)
      PROVE  IsInjective(r)
  <2> SUFFICES ASSUME NEW i \in 1..Len(r), NEW j \in 1..Len(r), r[i] = r[j]
               PROVE  i = j
    BY <1>2 DEF IsInjective
  <2>1. \A k \in 1..Len(s) : s[k] # e
    BY <1>2, <1>4 DEF ToSet
  <2>2. \A k, m \in 1..Len(s) : s[k] = s[m] => k = m
    BY <1>2, <1>4 DEF IsInjective
  <2> QED BY <1>1, <1>2, <2>1, <2>2
<1> QED BY <1>1, <1>3, <1>4 DEF r

(* Unlinking position k of a list without repetitions removes exactly the   *)
(* element there.                                                            *)
LEMMA RemoveAtSet ==
  ASSUME NEW S, NEW s \in Seq(S), IsInjective(s), NEW k \in DOMAIN s
  PROVE  /\ RemoveAt(s, k) \in Seq(S)
         /\ ToSet(RemoveAt(s, k)) = ToSet(s) \ {s[k]}
         /\ IsInjective(RemoveAt(s, k))
<1> DEFINE r == RemoveAt(s, k)
<1>1. Len(s) \in Nat /\ DOMAIN s = 1..Len(s) /\ k \in 1..Len(s)
  OBVIOUS
<1>2. r \in Seq(S) /\ Len(r) = Len(s) - 1
  BY <1>1, RemoveAtSeq
<1>3. \A i \in 1..Len(r) : r[i] = IF i < k THEN s[i] ELSE s[i + 1]
  BY <1>1, RemoveAtSeq
<1> HIDE DEF r
<1>4. DOMAIN r = 1..Len(r)
  BY <1>2
<1>5. \A i, j \in 1..Len(s) : s[i] = s[j] => i = j
  BY <1>1 DEF IsInjective
<1>6. ToSet(r) = ToSet(s) \ {s[k]}
  <2>1. ASSUME NEW x \in ToSet(r)
        PROVE  x \in ToSet(s) /\ x # s[k]
    <3>1. PICK i \in 1..Len(r) : r[i] = x
      BY <1>4 DEF ToSet
    <3>2. CASE i < k
      <4>1. i \in 1..Len(s) /\ i # k /\ x = s[i]
        BY <3>1, <3>2, <1>1, <1>2, <1>3
      <4> QED BY <4>1, <1>1, <1>5 DEF ToSet
    <3>3. CASE i >= k
      <4>1. i + 1 \in 1..Len(s) /\ i + 1 # k /\ x = s[i + 1]
        BY <3>1, <3>3, <1>1, <1>2, <1>3
      <4> QED BY <4>1, <1>1, <1>5 DEF ToSet
    <3> QED BY <3>2, <3>3, <1>1, <1>2
  <2>2. ASSUME NEW x \in ToSet(s), x # s[k]
        PROVE  x \in ToSet(r)
    <3>1. PICK i \in 1..Len(s) : s[i] = x
      BY <1>1 DEF ToSet
    <3>2. CASE i < k
      <4>1. i \in 1..Len(r) /\ r[i] = x
        BY <3>1, <3>2, <1>1, <1>2, <1>3
      <4> QED BY <4>1, <1>4 DEF ToSet
    <3>3. CASE i > k
      <4>1. i - 1 \in 1..Len(r) /\ (i - 1) + 1 = i /\ ~(i - 1 < k)
        BY <3>3, <1>1, <1>2
      <4>2. r[i - 1] = x
        BY <4>1, <3>1, <1>3
      <4> QED BY <4>1, <4>2, <1>4 DEF ToSet
    <3> QED BY <2>2, <3>1, <3>2, <3>3, <1>1
  <2> QED BY <2>1, <2>2
<1>7. IsInjective(r)
  <2> SUFFICES ASSUME NEW i \in 1..Len(r), NEW j \in 1..Len(r), r[i] = r[j]
               PROVE  i = j
    BY <1>4 DEF IsInjective
  <2> DEFINE at(m) == IF m < k THEN m ELSE m + 1
  <2>1. at(i) \in 1..Len(s) /\ at(j) \in 1..Len(s)
    BY <1>1, <1>2
  <2>2. s[at(i)] = s[at(j)]
    BY <1>3
  <2>3. at(i) = at(j)
    BY <2>1, <2>2, <1>5
  <2> QED BY <2>3, <1>1, <1>2
<1> QED BY <1>2, <1>6, <1>7 DEF r

(* Appending to a list: its elements, and that they stay distinct.           *)
LEMMA AppendSet ==
  ASSUME NEW S, NEW s \in Seq(S), NEW e \in S
  PROVE  /\ Append(s, e) \in Seq(S)
         /\ Len(Append(s, e)) = Len(s) + 1
         /\ \A i \in 1..(Len(s) + 1) : Append(s, e)[i] = IF i = Len(s) + 1 THEN e ELSE s[i]
         /\ ToSet(Append(s, e)) = ToSet(s) \cup {e}
         /\ IsInjective(s) /\ e \notin ToSet(s) => IsInjective(Append(s, e))
<1> DEFINE r == Append(s, e)
<1>1. Len(s) \in Nat /\ DOMAIN s = 1..Len(s)
  OBVIOUS
<1>2. /\ r \in Seq(S) /\ Len(r) = Len(s) + 1
      /\ \A i \in 1..(Len(s) + 1) : r[i] = IF i = Len(s) + 1 THEN e ELSE s[i]
  BY AppendProperties, <1>1
<1> HIDE DEF r
<1>3. DOMAIN r = 1..(Len(s) + 1)
  BY <1>2
<1>4. ToSet(r) = ToSet(s) \cup {e}
  <2>1. ASSUME NEW x \in ToSet(r)
        PROVE  x \in ToSet(s) \cup {e}
    <3>1. PICK i \in 1..(Len(s) + 1) : r[i] = x
      BY <1>3 DEF ToSet
    <3>2. i = Len(s) + 1 \/ i \in DOMAIN s
      BY <1>1
    <3> QED BY <3>1, <3>2, <1>1, <1>2 DEF ToSet
  <2>2. ASSUME NEW x \in ToSet(s)
        PROVE  x \in ToSet(r)
    <3>1. PICK i \in 1..Len(s) : s[i] = x
      BY <1>1 DEF ToSet
    <3>2. i \in DOMAIN r /\ r[i] = x
      BY <3>1, <1>1, <1>2, <1>3
    <3> QED BY <3>2 DEF ToSet
  <2>3. e \in ToSet(r)
    <3>1. Len(s) + 1 \in DOMAIN r /\ r[Len(s) + 1] = e
      BY <1>1, <1>2, <1>3
    <3> QED BY <3>1 DEF ToSet
  <2> QED BY <2>1, <2>2, <2>3
<1>5. ASSUME IsInjective(s), e \notin ToSet(s)
      PROVE  IsInjective(r)
  <2> SUFFICES ASSUME NEW i \in 1..(Len(s) + 1), NEW j \in 1..(Len(s) + 1), r[i] = r[j]
               PROVE  i = j
    BY <1>3 DEF IsInjective
  <2>1. \A k \in 1..Len(s) : s[k] # e
    BY <1>1, <1>5 DEF ToSet
  <2>2. \A k, m \in 1..Len(s) : s[k] = s[m] => k = m
    BY <1>1, <1>5 DEF IsInjective
  <2> QED BY <1>1, <1>2, <2>1, <2>2
<1> QED BY <1>2, <1>4, <1>5 DEF r

(* RemoveFirst removes the position of an element that occurs once.          *)
LEMMA RemoveFirstAt ==
  ASSUME NEW S, NEW s \in Seq(S), IsInjective(s), NEW k \in DOMAIN s
  PROVE  RemoveFirst(s, s[k]) = RemoveAt(s, k)
<1> DEFINE I == {i \in 1..Len(s) : s[i] = s[k]}
<1>1. Len(s) \in Nat /\ DOMAIN s = 1..Len(s)
  OBVIOUS
<1>2. I = {k}
  BY <1>1 DEF IsInjective
<1>3. I \subseteq Nat /\ I # {}
  BY <1>1, <1>2
<1>4. Min(I) = k
  <2>1. Min(I) \in I
    BY <1>3, MinIsMember
  <2> QED BY <2>1, <1>2
<1>5. SelectInSeq(s, LAMBDA v : v = s[k]) = k
  BY <1>3, <1>4 DEF SelectInSeq
<1> QED BY <1>1, <1>5 DEF RemoveFirst

(* RemoveFirst of a list without repetitions, whether it has the element or  *)
(* not.                                                                      *)
LEMMA RemoveFirstSet ==
  ASSUME NEW S, NEW s \in Seq(S), IsInjective(s), NEW e
  PROVE  /\ RemoveFirst(s, e) \in Seq(S)
         /\ ToSet(RemoveFirst(s, e)) = ToSet(s) \ {e}
         /\ IsInjective(RemoveFirst(s, e))
<1>1. CASE e \in ToSet(s)
  <2>1. PICK k \in DOMAIN s : s[k] = e
    BY <1>1 DEF ToSet
  <2>2. RemoveFirst(s, e) = RemoveAt(s, k)
    BY <2>1, RemoveFirstAt
  <2> QED BY <2>1, <2>2, RemoveAtSet
<1>2. CASE e \notin ToSet(s)
  <2>1. ~ \E i \in 1..Len(s) : s[i] = e
    BY <1>2 DEF ToSet
  <2>2. RemoveFirst(s, e) = s
    BY <2>1 DEF RemoveFirst
  <2> QED BY <1>2, <2>2
<1> QED BY <1>1, <1>2

(* A list has finitely many elements.                                        *)
LEMMA ToSetFinite ==
  ASSUME NEW S, NEW s \in Seq(S)
  PROVE  ToSet(s) \subseteq S /\ IsFiniteSet(ToSet(s))
<1>1. Len(s) \in Nat /\ DOMAIN s = 1..Len(s) /\ \A i \in 1..Len(s) : s[i] \in S
  OBVIOUS
<1>2. s \in [1..Len(s) -> ToSet(s)]
  BY <1>1 DEF ToSet
<1>3. IsFiniteSet(1..Len(s))
  BY <1>1, FS_Interval
<1>4. s \in Surjection(1..Len(s), ToSet(s))
  BY <1>1, <1>2 DEF ToSet, Surjection
<1>5. IsFiniteSet(ToSet(s))
  BY <1>3, <1>4, FS_Surjection
<1>6. ToSet(s) \subseteq S
  BY <1>1 DEF ToSet
<1> QED BY <1>5, <1>6

(* Removing the head of a list leaves its tail.                              *)
LEMMA RemoveHead ==
  ASSUME NEW S, NEW s \in Seq(S), s # << >>
  PROVE  RemoveAt(s, 1) = Tail(s)
<1>1. Len(s) \in Nat /\ 1 \in 1..Len(s)
  BY EmptySeq, LenProperties
<1>2. /\ Tail(s) \in Seq(S) /\ Len(Tail(s)) = Len(s) - 1
      /\ \A i \in 1..Len(Tail(s)) : Tail(s)[i] = s[i + 1]
  BY HeadTailProperties
<1>3. /\ RemoveAt(s, 1) \in Seq(S) /\ Len(RemoveAt(s, 1)) = Len(s) - 1
      /\ \A i \in 1..(Len(s) - 1) : RemoveAt(s, 1)[i] = IF i < 1 THEN s[i] ELSE s[i + 1]
  BY <1>1, RemoveAtSeq
<1>4. \A i \in 1..(Len(s) - 1) : RemoveAt(s, 1)[i] = Tail(s)[i]
  BY <1>1, <1>2, <1>3
<1> QED BY <1>2, <1>3, <1>4, SeqEqual

(* The list of the elements of a set of at most one.                         *)
LEMMA SetToSeqSmall ==
  /\ SetToSeq({}) = << >>
  /\ \A x : SetToSeq({x}) = <<x>>
<1>1. SetToSeq({}) = << >>
  <2>1. Cardinality({}) = 0
    BY FS_EmptySet
  <2>2. << >> \in [1..0 -> {}] /\ IsInjective(<< >>)
    BY DEF IsInjective
  <2>3. \A f \in [1..0 -> {}] : f = << >>
    OBVIOUS
  <2> QED BY <2>1, <2>2, <2>3 DEF SetToSeq
<1>2. ASSUME NEW x
      PROVE  SetToSeq({x}) = <<x>>
  <2>1. Cardinality({x}) = 1
    BY FS_Singleton
  <2>2. <<x>> \in [1..1 -> {x}] /\ IsInjective(<<x>>)
    BY DEF IsInjective
  <2>3. \A f \in [1..1 -> {x}] : f = <<x>>
    OBVIOUS
  <2> QED BY <2>1, <2>2, <2>3 DEF SetToSeq
<1> QED BY <1>1, <1>2

-----------------------------------------------------------------------------
(* Sums over finite sets.  g gives every subset of S the sum of the weights  *)
(* of its elements, in whatever order they are added up.                     *)
Sums(g, S, w) ==
  /\ g \in [SUBSET S -> Nat]
  /\ g[{}] = 0
  /\ \A s \in SUBSET S : \A x \in s : g[s] = g[s \ {x}] + w[x]

(* f adds the weights up in one order, c[s] the last of a subset s.          *)
AddsUp(f, c, S, w) ==
  \A s \in SUBSET S :
    /\ s # {} => c[s] \in s
    /\ f[s] = IF s = {} THEN 0 ELSE f[s \ {c[s]}] + w[c[s]]

(* A nonempty set of naturals has a least element.                           *)
LEMMA LeastExists ==
  ASSUME NEW B, B \subseteq Nat, B # {}
  PROVE  \E n \in B : \A m \in B : n <= m
<1>1. PICK x \in B : \A y \in B : ~ (<<y, x>> \in OpToRel(<, Nat))
  BY NatLessThanWellFounded, WFMin
<1>2. \A y \in B : ~ (y < x)
  BY <1>1, Zenon DEF OpToRel
<1> QED BY <1>2

(* A finite nonempty set of numbers has its maximum in it.                   *)
LEMMA MaxIsMember ==
  ASSUME NEW n \in Nat, NEW B \in SUBSET (1..n), B # {}
  PROVE  Max(B) \in B
<1> DEFINE C == {n - x : x \in B}
<1>1. C \subseteq Nat /\ C # {}
  <2>1. \A x \in B : n - x \in Nat
    OBVIOUS
  <2> QED BY <2>1
<1>2. PICK m \in C : \A k \in C : m <= k
  BY <1>1, LeastExists
<1>3. PICK x \in B : m = n - x
  OBVIOUS
<1>4. ASSUME NEW y \in B
      PROVE  x >= y
  <2>1. n - x <= n - y
    BY <1>2, <1>3
  <2>2. x \in Int /\ y \in Int
    OBVIOUS
  <2> HIDE DEF C
  <2> QED BY <2>1, <2>2
<1> QED BY <1>4 DEF Max

(* There are such sums.                                                      *)
LEMMA SumsExist ==
  ASSUME NEW S, IsFiniteSet(S), NEW w, \A x \in S : w[x] \in Nat
  PROVE  \E g : Sums(g, S, w)
<1> DEFINE Bad == {n \in Nat : \E T \in SUBSET S :
                     Cardinality(T) = n /\ ~ \E g : Sums(g, T, w)}
<1>1. \A T \in SUBSET S : IsFiniteSet(T) /\ Cardinality(T) \in Nat
  BY FS_Subset, FS_CardinalityType
<1>2. SUFFICES ASSUME Bad # {} PROVE FALSE
  BY <1>1
<1>3. PICK n \in Bad : \A m \in Bad : n <= m
  BY <1>2, LeastExists
<1>4. PICK T \in SUBSET S : Cardinality(T) = n /\ ~ \E g : Sums(g, T, w)
  OBVIOUS
<1>5. T # {}
  <2>1. Sums([s \in {{}} |-> 0], {}, w)
    BY DEF Sums
  <2> QED BY <2>1, <1>4
<1>6. PICK a \in T : TRUE
  BY <1>5
<1>7. Cardinality(T \ {a}) = n - 1 /\ n \in Nat
  BY <1>1, <1>4, <1>6, FS_RemoveElement
<1>8. n - 1 \in Nat /\ n - 1 \notin Bad
  BY <1>1, <1>3, <1>7
<1>9. PICK h : Sums(h, T \ {a}, w)
  BY <1>7, <1>8
<1> DEFINE g == [s \in SUBSET T |-> IF a \in s THEN h[s \ {a}] + w[a] ELSE h[s]]
<1>10. w[a] \in Nat /\ \A s \in SUBSET (T \ {a}) : h[s] \in Nat
  BY <1>6, <1>9 DEF Sums
<1>11. g \in [SUBSET T -> Nat]
  <2> SUFFICES ASSUME NEW s \in SUBSET T
               PROVE  (IF a \in s THEN h[s \ {a}] + w[a] ELSE h[s]) \in Nat
    OBVIOUS
  <2>1. s \ {a} \in SUBSET (T \ {a}) /\ (a \notin s => s \in SUBSET (T \ {a}))
    OBVIOUS
  <2> QED BY <2>1, <1>10
<1>12. g[{}] = 0
  BY <1>9 DEF Sums
<1>13. ASSUME NEW s \in SUBSET T, NEW x \in s
       PROVE  g[s] = g[s \ {x}] + w[x]
  <2>1. CASE x = a
    BY <2>1
  <2>2. CASE a \notin s
    BY <2>2, <1>9 DEF Sums
  <2>3. CASE x # a /\ a \in s
    <3>1. s \ {a} \in SUBSET (T \ {a}) /\ x \in s \ {a} /\ (s \ {a}) \ {x} = (s \ {x}) \ {a}
          /\ (s \ {x}) \ {a} \in SUBSET (T \ {a})
      BY <2>3
    <3>2. h[s \ {a}] = h[(s \ {x}) \ {a}] + w[x]
      BY <3>1, <1>9 DEF Sums
    <3>3. g[s] = h[s \ {a}] + w[a] /\ g[s \ {x}] = h[(s \ {x}) \ {a}] + w[a]
      BY <2>3
    <3>4. w[x] \in Nat /\ h[(s \ {x}) \ {a}] \in Nat
      BY <3>1, <1>10
    <3> HIDE DEF g
    <3> QED BY <3>2, <3>3, <3>4, <1>10
  <2> QED BY <2>1, <2>2, <2>3
<1> HIDE DEF g
<1>14. Sums(g, T, w)
  BY <1>11, <1>12, <1>13 DEF Sums
<1> QED BY <1>14, <1>4

(* Adding the weights up in one order gives the sums.                        *)
LEMMA SumsUnique ==
  ASSUME NEW S, IsFiniteSet(S), NEW w, NEW g, Sums(g, S, w), NEW f, NEW c,
         AddsUp(f, c, S, w)
  PROVE  f[S] = g[S]
<1> DEFINE Bad == {n \in Nat : \E T \in SUBSET S : Cardinality(T) = n /\ f[T] # g[T]}
<1>1. \A T \in SUBSET S : IsFiniteSet(T) /\ Cardinality(T) \in Nat
  BY FS_Subset, FS_CardinalityType
<1>2. SUFFICES ASSUME Bad # {} PROVE FALSE
  BY <1>1
<1>3. PICK n \in Bad : \A m \in Bad : n <= m
  BY <1>2, LeastExists
<1>4. PICK T \in SUBSET S : Cardinality(T) = n /\ f[T] # g[T]
  OBVIOUS
<1>5. T # {}
  BY <1>4 DEF Sums, AddsUp
<1>6. c[T] \in T /\ f[T] = f[T \ {c[T]}] + w[c[T]]
  BY <1>5 DEF AddsUp
<1>7. Cardinality(T \ {c[T]}) = n - 1 /\ n \in Nat
  BY <1>1, <1>4, <1>6, FS_RemoveElement
<1>8. n - 1 \in Nat /\ n - 1 \notin Bad
  BY <1>1, <1>3, <1>7
<1>9. f[T \ {c[T]}] = g[T \ {c[T]}]
  BY <1>7, <1>8
<1>10. g[T] = g[T \ {c[T]}] + w[c[T]]
  BY <1>6 DEF Sums
<1> QED BY <1>4, <1>6, <1>9, <1>10

(* Sums of the elements of a smaller set.                                    *)
LEMMA SumsRestrict ==
  ASSUME NEW S, NEW w, NEW g, Sums(g, S, w), NEW T \in SUBSET S
  PROVE  Sums([s \in SUBSET T |-> g[s]], T, w)
BY DEF Sums

(* Sums of the entries of a list of distinct elements, by position.          *)
LEMMA SumsOfList ==
  ASSUME NEW S, NEW q \in Seq(S), IsInjective(q), NEW w, NEW v, NEW g,
         Sums(g, ToSet(q), w), \A i \in DOMAIN q : v[i] = w[q[i]]
  PROVE  \E h : Sums(h, DOMAIN q, v) /\ h[DOMAIN q] = g[ToSet(q)]
<1> DEFINE At(p) == {q[i] : i \in p}
           h == [p \in SUBSET (DOMAIN q) |-> g[At(p)]]
<1>1. \A p \in SUBSET (DOMAIN q) : At(p) \in SUBSET ToSet(q)
  BY DEF ToSet
<1>2. ASSUME NEW p \in SUBSET (DOMAIN q), NEW i \in p
      PROVE  q[i] \in At(p) /\ At(p \ {i}) = At(p) \ {q[i]}
  BY DEF IsInjective
<1>3. At({}) = {} /\ At(DOMAIN q) = ToSet(q)
  BY DEF ToSet
<1> HIDE DEF At
<1>4. h \in [SUBSET (DOMAIN q) -> Nat]
  BY <1>1 DEF Sums
<1>5. h[{}] = 0 /\ h[DOMAIN q] = g[ToSet(q)]
  BY <1>3 DEF Sums
<1>6. ASSUME NEW p \in SUBSET (DOMAIN q), NEW i \in p
      PROVE  h[p] = h[p \ {i}] + v[i]
  <2>1. g[At(p)] = g[At(p) \ {q[i]}] + w[q[i]]
    BY <1>1, <1>2 DEF Sums
  <2>2. v[i] = w[q[i]] /\ p \ {i} \in SUBSET (DOMAIN q)
    OBVIOUS
  <2> QED BY <2>1, <2>2, <1>2
<1> QED BY <1>4, <1>5, <1>6 DEF Sums
=============================================================================
