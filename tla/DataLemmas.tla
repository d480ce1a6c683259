----------------------------- MODULE DataLemmas -----------------------------
(***************************************************************************)
(* Lemmas about data that the proofs of several components need: what is   *)
(* in a queue after it grows or shrinks, induction over naturals and       *)
(* finite sets, what SelectIn selects, and what a sum over a set is.       *)
(***************************************************************************)
EXTENDS Select, Functions, SequenceTheorems, FiniteSetTheorems, WellFoundedInduction, TLAPS

-----------------------------------------------------------------------------
(***************************************************************************)
(* What is in a queue.                                                     *)
(***************************************************************************)
\* The range of a sequence is what its indices give.
LEMMA InRange ==
  ASSUME NEW S, NEW q \in Seq(S), NEW e
  PROVE  e \in Range(q) <=> \E i \in 1..Len(q) : e = q[i]
  BY RangeEquality

LEMMA RangeEmpty == Range(<< >>) = {}
  BY DEF Range

LEMMA RangeAppend ==
  ASSUME NEW S, NEW q \in Seq(S), NEW e \in S
  PROVE  Append(q, e) \in Seq(S) /\ Range(Append(q, e)) = Range(q) \cup {e}
  <1>1. Append(q, e) \in Seq(S)
    BY AppendProperties
  <1>2. Len(q) \in Nat /\ Len(Append(q, e)) = Len(q) + 1
    BY AppendProperties, LenProperties
  <1>3. \A x : x \in Range(Append(q, e)) <=> x \in Range(q) \cup {e}
    <2> TAKE x
    <2>1. x \in Range(Append(q, e)) <=> \E i \in 1..(Len(q) + 1) : x = Append(q, e)[i]
      BY <1>1, <1>2, InRange
    <2>2. \A i \in 1..(Len(q) + 1) : i \in 1..Len(q) \/ i = Len(q) + 1
      BY <1>2
    <2>3. 1..Len(q) \subseteq 1..(Len(q) + 1) /\ Len(q) + 1 \in 1..(Len(q) + 1)
      BY <1>2
    <2>4. x \in Range(q) <=> \E i \in 1..Len(q) : x = q[i]
      BY InRange
    <2> QED
      BY <2>1, <2>2, <2>3, <2>4, AppendProperties
  <1> QED
    BY <1>1, <1>3

LEMMA RangeTail ==
  ASSUME NEW S, NEW q \in Seq(S), q # << >>
  PROVE  /\ Tail(q) \in Seq(S) /\ Head(q) \in S
         /\ Head(q) \in Range(q) /\ Range(Tail(q)) \subseteq Range(q)
         /\ Range(q) = {Head(q)} \cup Range(Tail(q))
  <1>1. Tail(q) \in Seq(S) /\ Head(q) \in S /\ Head(q) = q[1]
    BY HeadTailProperties
  <1>2. Len(q) \in Nat \ {0} /\ Len(Tail(q)) = Len(q) - 1
    BY HeadTailProperties, EmptySeq
  <1>3. \A i \in 1..Len(Tail(q)) : Tail(q)[i] = q[i + 1]
    BY HeadTailProperties
  <1>4. \A x : x \in Range(q) <=> x = Head(q) \/ x \in Range(Tail(q))
    <2> TAKE x
    <2>1. x \in Range(q) <=> \E i \in 1..Len(q) : x = q[i]
      BY InRange
    <2>2. x \in Range(Tail(q)) <=> \E i \in 1..Len(Tail(q)) : x = Tail(q)[i]
      <3>1. \A t \in Seq(S) : x \in Range(t) <=> \E i \in 1..Len(t) : x = t[i]
        BY InRange
      <3> QED
        BY <1>1, <3>1
    <2>3. \A i \in 1..Len(q) : i = 1 \/ (i - 1 \in 1..Len(Tail(q)) /\ (i - 1) + 1 = i)
      BY <1>2
    <2>4. \A i \in 1..Len(Tail(q)) : i + 1 \in 1..Len(q)
      BY <1>2
    <2>5. 1 \in 1..Len(q)
      BY <1>2
    <2>6. ASSUME x \in Range(q) PROVE x = Head(q) \/ x \in Range(Tail(q))
      BY <1>1, <1>3, <2>1, <2>2, <2>3, <2>6
    <2>7. ASSUME x = Head(q) \/ x \in Range(Tail(q)) PROVE x \in Range(q)
      BY <1>1, <1>3, <2>1, <2>2, <2>4, <2>5, <2>7
    <2> QED
      BY <2>6, <2>7
  <1> QED
    BY <1>1, <1>4

LEMMA RangeConcat ==
  ASSUME NEW S, NEW p \in Seq(S), NEW q \in Seq(S)
  PROVE  p \o q \in Seq(S) /\ Range(p \o q) = Range(p) \cup Range(q)
  BY ConcatProperties, RangeConcatenation

\* A sequence of the type is one of what is in it.
LEMMA RangeType ==
  ASSUME NEW S, NEW q \in Seq(S)
  PROVE  Range(q) \subseteq S
  BY RangeOfSeq
-----------------------------------------------------------------------------
(***************************************************************************)
(* Induction over the naturals, for a set instead of a predicate.          *)
(***************************************************************************)
LEMMA SetInduction ==
  ASSUME NEW S, 0 \in S, \A n \in Nat : n \in S => n + 1 \in S
  PROVE  Nat \subseteq S
  <1> DEFINE Less == OpToRel(<, Nat)
  <1>1. IsWellFoundedOn(Less, Nat)
    BY NatLessThanWellFounded
  <1>2. \A x, y \in Nat : x < y => <<x, y>> \in Less
    BY DEF OpToRel
  <1> HIDE DEF Less
  <1>3. SUFFICES ASSUME Nat \ S # {} PROVE FALSE
    OBVIOUS
  <1>4. PICK x \in Nat \ S : \A y \in Nat \ S : ~ (<<y, x>> \in Less)
    BY <1>1, <1>3, WFMin
  <1>5. x # 0 /\ x - 1 \in Nat /\ x - 1 < x /\ (x - 1) + 1 = x
    BY <1>4
  <1>6. x - 1 \in S
    BY <1>2, <1>4, <1>5
  <1> QED
    BY <1>4, <1>5, <1>6
-----------------------------------------------------------------------------
(***************************************************************************)
(* What SelectIn selects.                                                  *)
(***************************************************************************)
\* What is pushed after n rounds, given what was after n - 1.
Push(s, S, before, n) ==
  IF n = 0 THEN << >>
  ELSE IF s[n] \in S THEN Append(before, s[n]) ELSE before

\* The recursion of SelectIn has a solution, and SelectIn is its last value.
LEMMA SelectInRounds ==
  ASSUME NEW s, NEW S, Len(s) \in Nat
  PROVE  \E f : /\ f = [n \in 0..Len(s) |-> Push(s, S, f[n - 1], n)]
               /\ SelectIn(s, S) = f[Len(s)]
  <1> DEFINE Solves(f, k) == f = [n \in 0..k |-> Push(s, S, f[n - 1], n)]
             Solved == {k \in Nat : \E f : Solves(f, k)}
  <1>1. 0 \in Solved
    <2> DEFINE f == [n \in 0..0 |-> << >>]
    <2>1. \A n \in 0..0 : Push(s, S, f[n - 1], n) = << >>
      BY DEF Push
    <2>2. Solves(f, 0)
      BY <2>1
    <2> QED
      BY <2>2
  <1>2. ASSUME NEW k \in Nat, k \in Solved PROVE k + 1 \in Solved
    <2>1. PICK f : Solves(f, k)
      BY <1>2
    <2> DEFINE g == [n \in 0..(k + 1) |-> IF n = k + 1 THEN Push(s, S, f[k], k + 1) ELSE f[n]]
    <2>2. \A n \in 0..(k + 1) : g[n] = Push(s, S, g[n - 1], n)
      <3> TAKE n \in 0..(k + 1)
      <3>1. CASE n = k + 1
        <4>1. g[n - 1] = f[k]
          BY <3>1
        <4> QED
          BY <3>1, <4>1
      <3>2. CASE n \in 1..k
        <4>1. g[n - 1] = f[n - 1] /\ g[n] = f[n]
          BY <3>2
        <4>2. f[n] = Push(s, S, f[n - 1], n)
          BY <2>1, <3>2
        <4> QED
          BY <4>1, <4>2
      <3>3. CASE n = 0
        BY <2>1, <3>3 DEF Push
      <3> QED
        BY <3>1, <3>2, <3>3
    <2> HIDE DEF g
    <2>3. g = [n \in 0..(k + 1) |-> Push(s, S, g[n - 1], n)]
      <3>1. g = [n \in 0..(k + 1) |-> g[n]]
        BY DEF g
      <3> QED
        BY <2>2, <3>1
    <2> QED
      BY <2>3
  <1> HIDE DEF Solved
  <1>3. Nat \subseteq Solved
    BY <1>1, <1>2, SetInduction
  <1> USE DEF Solved
  <1>4. \E f : Solves(f, Len(s))
    BY <1>3
  <1> DEFINE f == CHOOSE g : Solves(g, Len(s))
  <1>5. Solves(f, Len(s))
    BY <1>4
  <1>6. SelectIn(s, S) = f[Len(s)]
    BY DEF SelectIn, Push
  <1> HIDE DEF f
  <1> QED
    BY <1>5, <1>6

\* It selects just what is in the set, and first what comes first.
LEMMA SelectInSelects ==
  ASSUME NEW T, NEW s \in Seq(T), NEW S
  PROVE  /\ SelectIn(s, S) \in Seq(T \cap S)
         /\ Range(SelectIn(s, S)) = Range(s) \cap S
         /\ SelectIn(s, S) # << >> =>
              \E i \in 1..Len(s) : /\ Head(SelectIn(s, S)) = s[i] /\ s[i] \in S
                                  /\ \A j \in 1..(i - 1) : s[j] \notin S
  <1>1. Len(s) \in Nat /\ \A i \in 1..Len(s) : s[i] \in T
    BY LenProperties, ElementOfSeq
  <1>2. PICK f : /\ f = [n \in 0..Len(s) |-> Push(s, S, f[n - 1], n)]
                 /\ SelectIn(s, S) = f[Len(s)]
    BY <1>1, SelectInRounds
  <1> DEFINE First(q, n) ==
               \E i \in 1..n : /\ Head(q) = s[i] /\ s[i] \in S
                               /\ \A j \in 1..(i - 1) : s[j] \notin S
             Right(n) ==
               /\ f[n] \in Seq(T \cap S)
               /\ Range(f[n]) = {s[i] : i \in 1..n} \cap S
               /\ f[n] # << >> => First(f[n], n)
             Done == {n \in Nat : n <= Len(s) => Right(n)}
  <1>3. 0 \in Done
    <2>1. f[0] = << >>
      BY <1>1, <1>2 DEF Push
    <2>2. {s[i] : i \in 1..0} = {}
      OBVIOUS
    <2>3. Right(0)
      BY <2>1, <2>2, EmptySeq, RangeEmpty
    <2> QED
      BY <2>3
  <1>4. ASSUME NEW n \in Nat, n \in Done PROVE n + 1 \in Done
    <2>1. SUFFICES ASSUME n + 1 <= Len(s) PROVE Right(n + 1)
      OBVIOUS
    <2>2. Right(n)
      BY <1>1, <1>4, <2>1
    <2>3. f[n + 1] = IF s[n + 1] \in S THEN Append(f[n], s[n + 1]) ELSE f[n]
      <3>1. n + 1 \in 0..Len(s) /\ n + 1 # 0 /\ (n + 1) - 1 = n
        BY <1>1, <2>1
      <3> QED
        BY <1>2, <3>1 DEF Push
    <2>4. {s[i] : i \in 1..(n + 1)} = {s[i] : i \in 1..n} \cup {s[n + 1]}
      <3>1. 1..(n + 1) = 1..n \cup {n + 1}
        OBVIOUS
      <3> QED
        BY <3>1
    <2>5. CASE s[n + 1] \notin S
      <3>1. \A i \in 1..n : i \in 1..(n + 1)
        OBVIOUS
      <3> QED
        BY <2>2, <2>3, <2>4, <2>5, <3>1
    <2>6. CASE s[n + 1] \in S
      <3>1. s[n + 1] \in T \cap S
        BY <1>1, <2>1, <2>6
      <3>2. f[n + 1] = Append(f[n], s[n + 1])
        BY <2>3, <2>6
      <3>3. /\ f[n + 1] \in Seq(T \cap S)
            /\ Range(f[n + 1]) = Range(f[n]) \cup {s[n + 1]}
        BY <2>2, <3>1, <3>2, RangeAppend
      <3>4. Range(f[n + 1]) = {s[i] : i \in 1..(n + 1)} \cap S
        BY <2>2, <2>4, <2>6, <3>3
      <3>5. CASE f[n] = << >>
        <4>1. Head(f[n + 1]) = s[n + 1]
          BY <2>2, <3>2, <3>5, HeadTailAppend
        <4>2. \A j \in 1..n : s[j] \notin S
          BY <2>2, <3>5, RangeEmpty
        <4>3. First(f[n + 1], n + 1)
          <5>1. n + 1 \in 1..(n + 1) /\ (n + 1) - 1 = n
            OBVIOUS
          <5> QED
            BY <2>6, <4>1, <4>2, <5>1
        <4> QED
          BY <3>3, <3>4, <4>3
      <3>6. CASE f[n] # << >>
        <4>1. Head(f[n + 1]) = Head(f[n])
          BY <2>2, <3>2, <3>6, HeadTailAppend
        <4>2. First(f[n + 1], n + 1)
          <5>1. \A i \in 1..n : i \in 1..(n + 1)
            OBVIOUS
          <5> QED
            BY <2>2, <3>6, <4>1, <5>1
        <4> QED
          BY <3>3, <3>4, <4>2
      <3> QED
        BY <3>5, <3>6
    <2> QED
      BY <2>5, <2>6
  <1> HIDE DEF Done
  <1>5. Nat \subseteq Done
    BY <1>3, <1>4, SetInduction
  <1>6. Right(Len(s))
    <2> HIDE DEF Right
    <2>1. Len(s) \in Done
      BY <1>1, <1>5
    <2>2. Len(s) <= Len(s)
      BY <1>1
    <2> QED
      BY <2>1, <2>2 DEF Done
  <1>7. Range(s) = {s[i] : i \in 1..Len(s)}
    BY RangeEquality
  <1> QED
    BY <1>2, <1>6, <1>7

\* It keeps the order: what is selected sits at growing places, and at all that are in the
\* set.
LEMMA SelectInOrder ==
  ASSUME NEW T, NEW s \in Seq(T), NEW S
  PROVE  LET q == SelectIn(s, S)
         IN  \E h \in [1..Len(q) -> 1..Len(s)] :
               /\ \A i, j \in 1..Len(q) : i < j => h[i] < h[j]
               /\ \A i \in 1..Len(q) : q[i] = s[h[i]]
               /\ \A j \in 1..Len(s) : s[j] \in S => \E i \in 1..Len(q) : h[i] = j
  <1>1. Len(s) \in Nat
    BY LenProperties
  <1>2. PICK f : /\ f = [n \in 0..Len(s) |-> Push(s, S, f[n - 1], n)]
                 /\ SelectIn(s, S) = f[Len(s)]
    BY <1>1, SelectInRounds
  <1> DEFINE Places(q, n, h) ==
               /\ h \in [1..Len(q) -> 1..n]
               /\ \A i, j \in 1..Len(q) : i < j => h[i] < h[j]
               /\ \A i \in 1..Len(q) : q[i] = s[h[i]]
               /\ \A j \in 1..n : s[j] \in S => \E i \in 1..Len(q) : h[i] = j
             Right(n) == f[n] \in Seq(T) /\ \E h : Places(f[n], n, h)
             Done == {n \in Nat : n <= Len(s) => Right(n)}
  <1>3. 0 \in Done
    <2>1. f[0] = << >>
      BY <1>1, <1>2 DEF Push
    <2> DEFINE h == [i \in 1..0 |-> 0]
    <2>2. Len(<< >>) = 0 /\ 1..0 = {} /\ << >> \in Seq(T)
      OBVIOUS
    <2>3. h \in [1..0 -> 1..0]
      BY <2>2
    <2>4. Places(<< >>, 0, h)
      BY <2>2, <2>3
    <2> QED
      BY <2>1, <2>2, <2>4
  <1>4. ASSUME NEW n \in Nat, n \in Done PROVE n + 1 \in Done
    <2> HIDE DEF Right
    <2>1. SUFFICES ASSUME n + 1 <= Len(s) PROVE Right(n + 1)
      OBVIOUS
    <2>2. Right(n)
      BY <1>1, <1>4, <2>1
    <2> USE DEF Right
    <2>3. f[n + 1] = IF s[n + 1] \in S THEN Append(f[n], s[n + 1]) ELSE f[n]
      <3>1. n + 1 \in 0..Len(s) /\ n + 1 # 0 /\ (n + 1) - 1 = n
        BY <1>1, <2>1
      <3> QED
        BY <1>2, <3>1 DEF Push
    <2>4. PICK h : Places(f[n], n, h)
      BY <2>2
    <2> DEFINE k == Len(f[n])
    <2>5. k \in Nat /\ f[n] \in Seq(T)
      BY <2>2, LenProperties
    <2>6. \A j \in 1..(n + 1) : j \in 1..n \/ j = n + 1
      OBVIOUS
    <2>7. CASE s[n + 1] \notin S
      <3>1. h \in [1..k -> 1..(n + 1)]
        BY <2>4
      <3>2. Places(f[n], n + 1, h)
        BY <2>4, <2>6, <2>7, <3>1
      <3> QED
        BY SMTT(30), <2>3, <2>5, <2>7, <3>2
    <2>8. CASE s[n + 1] \in S
      <3> DEFINE q == f[n + 1]
                 g == [i \in 1..(k + 1) |-> IF i = k + 1 THEN n + 1 ELSE h[i]]
      <3>1. s[n + 1] \in T
        BY <1>1, <2>1, ElementOfSeq
      <3>2. /\ q \in Seq(T) /\ Len(q) = k + 1 /\ q[k + 1] = s[n + 1]
            /\ \A i \in 1..k : q[i] = f[n][i]
        BY <2>3, <2>5, <2>8, <3>1, AppendProperties
      <3>3. \A i \in 1..(k + 1) : i \in 1..k \/ i = k + 1
        BY <2>5
      <3>4. g[k + 1] = n + 1 /\ \A i \in 1..k : g[i] = h[i] /\ h[i] \in 1..n /\ i # k + 1
        BY <2>4, <2>5
      <3>5. g \in [1..(k + 1) -> 1..(n + 1)]
        <4>1. \A i \in 1..(k + 1) : g[i] \in 1..(n + 1)
          <5>1. \A m \in 1..n : m \in 1..(n + 1)
            OBVIOUS
          <5>2. n + 1 \in 1..(n + 1)
            OBVIOUS
          <5> HIDE DEF g
          <5> QED
            BY <3>3, <3>4, <5>1, <5>2
        <4> QED
          BY <4>1
      <3> HIDE DEF g, q
      <3>6. \A i, j \in 1..(k + 1) : i < j => g[i] < g[j]
        <4>1. \A i, j \in 1..(k + 1) : i < j => i \in 1..k
          BY <2>5
        <4> QED
          BY <2>4, <3>3, <3>4, <4>1
      <3>7. \A i \in 1..(k + 1) : q[i] = s[g[i]]
        BY <2>4, <3>2, <3>3, <3>4
      <3>8. \A j \in 1..(n + 1) : s[j] \in S => \E i \in 1..(k + 1) : g[i] = j
        <4>1. \A i \in 1..k : i \in 1..(k + 1)
          BY <2>5
        <4>2. k + 1 \in 1..(k + 1)
          BY <2>5
        <4> QED
          BY <2>4, <2>6, <3>4, <4>1, <4>2
      <3>9. Places(q, n + 1, g)
        BY <3>2, <3>5, <3>6, <3>7, <3>8
      <3> QED
        BY SMTT(30), <3>2, <3>9 DEF q
    <2> QED
      BY <2>7, <2>8
  <1> HIDE DEF Done
  <1>5. Nat \subseteq Done
    BY <1>3, <1>4, SetInduction
  <1>6. Right(Len(s))
    <2> HIDE DEF Right
    <2>1. Len(s) \in Done /\ Len(s) <= Len(s)
      BY <1>1, <1>5
    <2> QED
      BY <2>1 DEF Done
  <1>7. PICK h : Places(SelectIn(s, S), Len(s), h)
    <2>1. \E h : Places(f[Len(s)], Len(s), h)
      BY <1>6
    <2> HIDE DEF Places
    <2> QED
      BY <1>2, <2>1
  <1> QED
    BY <1>7
-----------------------------------------------------------------------------
(***************************************************************************)
(* Induction over the subsets of a finite set, for a set of them.          *)
(***************************************************************************)
LEMMA SubsetInduction ==
  ASSUME NEW S, IsFiniteSet(S), NEW P,
         \A s \in SUBSET S : (\A y \in s : s \ {y} \in P) => s \in P
  PROVE  SUBSET S \subseteq P
  <1> DEFINE Small(n) == {s \in SUBSET S : Cardinality(s) <= n}
             Done == {n \in Nat : Small(n) \subseteq P}
  <1>1. \A s \in SUBSET S : IsFiniteSet(s) /\ Cardinality(s) \in Nat
    BY FS_Subset, FS_CardinalityType
  <1>2. 0 \in Done
    <2>1. ASSUME NEW s \in Small(0) PROVE s \in P
      <3>1. s = {}
        BY <1>1, FS_EmptySet
      <3> QED
        BY <3>1
    <2> QED
      BY <2>1
  <1>3. ASSUME NEW n \in Nat, n \in Done PROVE n + 1 \in Done
    <2>1. ASSUME NEW s \in Small(n + 1) PROVE s \in P
      <3>1. \A y \in s : Cardinality(s \ {y}) = Cardinality(s) - 1
        BY <1>1, FS_RemoveElement
      <3>2. \A y \in s : s \ {y} \in Small(n)
        BY <1>1, <3>1
      <3> QED
        BY <1>3, <3>2
    <2> QED
      BY <2>1
  <1> HIDE DEF Done
  <1>4. Nat \subseteq Done
    BY <1>2, <1>3, SetInduction
  <1>5. Cardinality(S) \in Done
    BY <1>1, <1>4
  <1>6. \A s \in SUBSET S : s \in Small(Cardinality(S))
    BY FS_Subset
  <1> QED
    BY <1>5, <1>6 DEF Done
-----------------------------------------------------------------------------
(***************************************************************************)
(* Sums.                                                                   *)
(***************************************************************************)
Total(f, S) == FoldFunctionOnSet(+, 0, f, S)
Any(s)      == CHOOSE x \in s : TRUE

\* g sums f over the subsets of S.
Part(f, g, s)  == IF s = {} THEN 0 ELSE f[Any(s)] + g[s \ {Any(s)}]
Sums(f, S, g)  == g = [s \in SUBSET S |-> Part(f, g, s)]

LEMMA AnyIs == \A s : s # {} => Any(s) \in s
  BY DEF Any

\* The recursion of the sum has a solution, and the sum is its last value.
LEMMA SumsExist ==
  ASSUME NEW f, NEW S, IsFiniteSet(S)
  PROVE  \E g : Sums(f, S, g) /\ Total(f, S) = g[S]
  <1> DEFINE Small(k) == {s \in SUBSET S : Cardinality(s) <= k}
             Solves(g, k) == g = [s \in Small(k) |-> Part(f, g, s)]
             Solved == {k \in Nat : \E g : Solves(g, k)}
  <1>1. \A s \in SUBSET S : IsFiniteSet(s) /\ Cardinality(s) \in Nat
    BY FS_Subset, FS_CardinalityType
  <1>2. \A s \in SUBSET S : s # {} =>
          /\ Any(s) \in s /\ s \ {Any(s)} \in SUBSET S
          /\ Cardinality(s \ {Any(s)}) = Cardinality(s) - 1
    BY <1>1, AnyIs, FS_RemoveElement
  <1>3. 0 \in Solved
    <2> DEFINE g == [s \in Small(0) |-> 0]
    <2>1. \A s \in Small(0) : s = {}
      BY <1>1, FS_EmptySet
    <2>2. \A s \in Small(0) : Part(f, g, s) = 0
      BY <2>1 DEF Part
    <2>3. Solves(g, 0)
      BY <2>2
    <2> QED
      BY <2>3
  <1>4. ASSUME NEW k \in Nat, k \in Solved PROVE k + 1 \in Solved
    <2>1. PICK g : Solves(g, k)
      BY <1>4
    <2> DEFINE h == [s \in Small(k + 1) |-> IF s \in Small(k) THEN g[s] ELSE Part(f, g, s)]
    <2>2. \A s \in Small(k) : g[s] = Part(f, g, s)
      BY <2>1
    <2>3. \A s \in Small(k + 1) : h[s] = Part(f, g, s)
      BY <2>2
    <2>4. \A s \in Small(k + 1) : s # {} => s \ {Any(s)} \in Small(k)
      BY <1>1, <1>2
    <2>5. \A s \in Small(k) : s \in Small(k + 1) /\ h[s] = g[s]
      BY <1>1
    <2>6. \A s \in Small(k + 1) : Part(f, g, s) = Part(f, h, s)
      BY <2>4, <2>5 DEF Part
    <2>7. h = [s \in Small(k + 1) |-> h[s]]
      OBVIOUS
    <2> HIDE DEF h
    <2>8. Solves(h, k + 1)
      BY <2>3, <2>6, <2>7
    <2> QED
      BY <2>8
  <1> HIDE DEF Solved
  <1>5. Nat \subseteq Solved
    BY <1>3, <1>4, SetInduction
  <1>6. Cardinality(S) \in Solved
    BY <1>1, <1>5
  <1>7. Small(Cardinality(S)) = SUBSET S
    BY FS_Subset
  <1> HIDE DEF Small
  <1>8. \E g : Sums(f, S, g)
    BY <1>6, <1>7 DEF Solved, Sums
  <1> DEFINE g == CHOOSE g : Sums(f, S, g)
  <1>9. Sums(f, S, g)
    BY <1>8
  <1>10. Total(f, S) = g[S]
    BY DEF Total, FoldFunctionOnSet, MapThenFoldSet, Sums, Part, Any
  <1> QED
    BY <1>9, <1>10

\* What a sum is depends on what is summed alone.
LEMMA SumsAgree ==
  ASSUME NEW f, NEW S, NEW g, Sums(f, S, g), NEW e, NEW R, NEW h, Sums(e, R, h),
         NEW U, IsFiniteSet(U), U \subseteq S, U \subseteq R, \A x \in U : f[x] = e[x]
  PROVE  g[U] = h[U]
  <1> DEFINE P == {s \in SUBSET U : g[s] = h[s]}
  <1>1. ASSUME NEW s \in SUBSET U, \A y \in s : s \ {y} \in P PROVE s \in P
    <2>1. g[s] = Part(f, g, s) /\ h[s] = Part(e, h, s)
      BY DEF Sums
    <2>2. CASE s = {}
      BY <2>1, <2>2 DEF Part
    <2>3. CASE s # {}
      <3>1. Any(s) \in s /\ g[s \ {Any(s)}] = h[s \ {Any(s)}]
        BY <1>1, <2>3, AnyIs
      <3> QED
        BY <2>1, <2>3, <3>1 DEF Part
    <2> QED
      BY <2>2, <2>3
  <1> HIDE DEF P
  <1>2. SUBSET U \subseteq P
    BY <1>1, SubsetInduction
  <1> QED
    BY <1>2 DEF P

LEMMA SumsNat ==
  ASSUME NEW f, NEW S, NEW g, Sums(f, S, g), IsFiniteSet(S), \A x \in S : f[x] \in Nat
  PROVE  \A s \in SUBSET S : g[s] \in Nat
  <1> DEFINE P == {s \in SUBSET S : g[s] \in Nat}
  <1>1. ASSUME NEW s \in SUBSET S, \A y \in s : s \ {y} \in P PROVE s \in P
    <2>1. g[s] = Part(f, g, s)
      BY DEF Sums
    <2>2. CASE s = {}
      BY <2>1, <2>2 DEF Part
    <2>3. CASE s # {}
      <3>1. Any(s) \in s /\ g[s \ {Any(s)}] \in Nat /\ f[Any(s)] \in Nat
        BY <1>1, <2>3, AnyIs
      <3> QED
        BY <2>1, <2>3, <3>1 DEF Part
    <2> QED
      BY <2>2, <2>3
  <1> HIDE DEF P
  <1>2. SUBSET S \subseteq P
    BY <1>1, SubsetInduction
  <1> QED
    BY <1>2 DEF P

\* Any element may be summed last.
LEMMA SumsAny ==
  ASSUME NEW f, NEW S, NEW g, Sums(f, S, g), IsFiniteSet(S), \A x \in S : f[x] \in Nat
  PROVE  \A s \in SUBSET S : \A y \in s : g[s] = f[y] + g[s \ {y}]
  <1> DEFINE P == {s \in SUBSET S : \A y \in s : g[s] = f[y] + g[s \ {y}]}
  <1>1. \A s \in SUBSET S : g[s] \in Nat
    BY SumsNat
  <1>2. ASSUME NEW s \in SUBSET S, \A y \in s : s \ {y} \in P PROVE s \in P
    <2>1. SUFFICES ASSUME NEW y \in s PROVE g[s] = f[y] + g[s \ {y}]
      OBVIOUS
    <2> DEFINE x == Any(s)
    <2>2. x \in s
      BY AnyIs
    <2>3. g[s] = f[x] + g[s \ {x}]
      BY <2>2 DEF Sums, Part
    <2>4. CASE x = y
      BY <2>3, <2>4
    <2>5. CASE x # y
      <3> HIDE DEF x
      <3>1. g[s \ {x}] = f[y] + g[(s \ {x}) \ {y}]
        BY <1>2, <2>2, <2>5
      <3>2. g[s \ {y}] = f[x] + g[(s \ {y}) \ {x}]
        BY <1>2, <2>2, <2>5
      <3>3. (s \ {x}) \ {y} = (s \ {y}) \ {x}
        OBVIOUS
      <3> DEFINE rest == g[(s \ {y}) \ {x}]
      <3>4. rest \in Nat /\ f[x] \in Nat /\ f[y] \in Nat
        BY <1>1, <2>2
      <3>5. g[s] = f[x] + (f[y] + rest) /\ g[s \ {y}] = f[x] + rest
        BY <2>3, <3>1, <3>2, <3>3
      <3> HIDE DEF rest
      <3> QED
        BY <3>4, <3>5
    <2> QED
      BY <2>4, <2>5
  <1> HIDE DEF P
  <1>3. SUBSET S \subseteq P
    BY <1>2, SubsetInduction
  <1> QED
    BY <1>3 DEF P

LEMMA TotalSame ==
  ASSUME NEW f, NEW e, NEW S, IsFiniteSet(S), \A x \in S : f[x] = e[x]
  PROVE  Total(f, S) = Total(e, S)
  <1>1. PICK g : Sums(f, S, g) /\ Total(f, S) = g[S]
    BY SumsExist
  <1>2. PICK h : Sums(e, S, h) /\ Total(e, S) = h[S]
    BY SumsExist
  <1> QED
    BY <1>1, <1>2, SumsAgree

LEMMA TotalNat ==
  ASSUME NEW f, NEW S, IsFiniteSet(S), \A x \in S : f[x] \in Nat
  PROVE  Total(f, S) \in Nat
  <1>1. PICK g : Sums(f, S, g) /\ Total(f, S) = g[S]
    BY SumsExist
  <1> QED
    BY <1>1, SumsNat

LEMMA TotalWithout ==
  ASSUME NEW f, NEW S, IsFiniteSet(S), \A x \in S : f[x] \in Nat, NEW y \in S
  PROVE  Total(f, S) = f[y] + Total(f, S \ {y})
  <1>1. PICK g : Sums(f, S, g) /\ Total(f, S) = g[S]
    BY SumsExist
  <1>2. IsFiniteSet(S \ {y})
    BY FS_RemoveElement
  <1>3. PICK h : Sums(f, S \ {y}, h) /\ Total(f, S \ {y}) = h[S \ {y}]
    BY <1>2, SumsExist
  <1>4. g[S] = f[y] + g[S \ {y}]
    BY <1>1, SumsAny
  <1>5. g[S \ {y}] = h[S \ {y}]
    BY <1>1, <1>2, <1>3, SumsAgree
  <1> QED
    BY <1>1, <1>3, <1>4, <1>5

\* A larger set has a larger sum.
LEMMA TotalGrows ==
  ASSUME NEW f, NEW S, IsFiniteSet(S), \A x \in S : f[x] \in Nat, NEW T, T \subseteq S
  PROVE  Total(f, T) <= Total(f, S)
  <1> DEFINE P == {s \in SUBSET S : T \subseteq s => Total(f, T) <= Total(f, s)}
  <1>1. ASSUME NEW s \in SUBSET S, \A y \in s : s \ {y} \in P PROVE s \in P
    <2>1. SUFFICES ASSUME T \subseteq s PROVE Total(f, T) <= Total(f, s)
      OBVIOUS
    <2>2. IsFiniteSet(s) /\ IsFiniteSet(T)
      BY FS_Subset
    <2>3. Total(f, T) \in Nat
      BY <2>2, TotalNat
    <2>4. CASE s = T
      BY <2>3, <2>4
    <2>5. CASE s # T
      <3>1. PICK y \in s : y \notin T
        BY <2>1, <2>5
      <3>2. IsFiniteSet(s \ {y}) /\ T \subseteq s \ {y}
        BY <2>1, <2>2, <3>1, FS_RemoveElement
      <3>3. Total(f, T) <= Total(f, s \ {y})
        BY <1>1, <3>1, <3>2
      <3>4. Total(f, s) = f[y] + Total(f, s \ {y})
        BY <2>2, TotalWithout
      <3>5. Total(f, s \ {y}) \in Nat /\ f[y] \in Nat
        BY <3>2, TotalNat
      <3> QED
        BY <2>3, <3>3, <3>4, <3>5
    <2> QED
      BY <2>4, <2>5
  <1> HIDE DEF P
  <1>2. SUBSET S \subseteq P
    BY <1>1, SubsetInduction
  <1> QED
    BY <1>2 DEF P
-----------------------------------------------------------------------------
\* Naturals have a least.
LEMMA LeastIs ==
  ASSUME NEW S \in SUBSET Nat, S # {}
  PROVE  \E x \in S : \A y \in S : x <= y
  <1> DEFINE Less == OpToRel(<, Nat)
  <1>1. IsWellFoundedOn(Less, Nat)
    BY NatLessThanWellFounded
  <1>2. \A x, y \in Nat : x < y => <<x, y>> \in Less
    BY DEF OpToRel
  <1> HIDE DEF Less
  <1>3. PICK x \in S : \A y \in S : ~ (<<y, x>> \in Less)
    BY <1>1, WFMin
  <1>4. \A y \in S : ~(y < x) /\ y \in Nat /\ x \in Nat
    BY <1>2, <1>3
  <1> QED
    BY <1>3, <1>4
=============================================================================
