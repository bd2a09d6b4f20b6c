--------------------------- MODULE FoldTheorems ---------------------------
(***************************************************************************)
(* What a fold over a sequence computes: one step after the other.  Step   *)
(* stands for the operator folded; a module that wants to reason about its *)
(* fold takes this one with INSTANCE ... WITH Step <- its operator.  And   *)
(* what the sum of a function over a finite set computes, likewise.        *)
(***************************************************************************)
EXTENDS Integers, Sequences, SequencesExt, FiniteSetsExt, Functions, TLAPS,
        FiniteSetTheorems, WellFoundedInduction

CONSTANT Step(_, _)

Fold(b, q) == FoldLeft(Step, b, q)

(* The function FoldLeft computes, on the sets of positions up to n.       *)
Unrolled(f, b, q, n) ==
    f = [s \in SUBSET (1..n) |->
           IF s = {} THEN b ELSE Step(f[s \ {Max(s)}], q[Max(s)])]

(* Every set of natural numbers that is not empty has a least element.     *)
LEMMA LeastNatural ==
    ASSUME NEW T \in SUBSET Nat, T # {}
    PROVE  \E m \in T : \A k \in T : m <= k
  <1> DEFINE R == {ss \in Nat \X Nat : ss[1] < ss[2]}
  <1>1. IsWellFoundedOn(R, Nat)
    BY NatLessThanWellFounded DEF OpToRel
  <1> HIDE DEF R
  <1>2. PICK x \in T : \A y \in T : <<y, x>> \notin R
    BY <1>1, WFMin
  <1>3. \A y \in T : ~(y < x)
    BY <1>2 DEF R
  <1> QED
    BY <1>3

(* What holds of 0 and is handed on holds as far as it is handed on.       *)
THEOREM HandedOn ==
    ASSUME NEW n \in Nat, NEW S, 0 \in S, \A j \in 0..(n - 1) : j \in S => j + 1 \in S
    PROVE  \A j \in 0..n : j \in S
  <1> DEFINE Bad == {j \in 0..n : j \notin S}
  <1> SUFFICES ASSUME Bad # {} PROVE FALSE
    OBVIOUS
  <1>1. Bad \in SUBSET Nat
    OBVIOUS
  <1>2. PICK j \in Bad : \A k \in Bad : j <= k
    BY <1>1, LeastNatural
  <1>3. j \in 1..n /\ j \notin S
    BY <1>2
  <1>4. j - 1 \in 0..(n - 1) /\ j - 1 \notin Bad
    BY <1>2, <1>3
  <1>5. j - 1 \in S /\ (j - 1) + 1 = j
    BY <1>3, <1>4
  <1> QED
    BY <1>3, <1>4, <1>5

(* Max is the largest element of a bounded set of positions.               *)
LEMMA LargestPosition ==
    ASSUME NEW n \in Nat, NEW s \in SUBSET (1..n), s # {}
    PROVE  Max(s) \in s /\ \A y \in s : Max(s) >= y
  <1> DEFINE T == {n - y : y \in s}
  <1>1. \A y \in s : n - y \in Nat
    OBVIOUS
  <1>2. T \in SUBSET Nat /\ T # {}
    BY <1>1
  <1>3. PICK m \in T : \A k \in T : m <= k
    BY <1>2, LeastNatural
  <1>4. PICK x \in s : m = n - x
    BY <1>3
  <1>5. \A y \in s : x >= y
    <2> TAKE y \in s
    <2>1. n - y \in T
      OBVIOUS
    <2>2. n - x <= n - y /\ x \in Int /\ y \in Int
      BY <1>3, <1>4, <2>1
    <2> QED
      BY <2>2
  <1> QED
    BY <1>5 DEF Max

(* The last position of a segment, and the segment without it.             *)
LEMMA Segment ==
    ASSUME NEW n \in Nat, n # 0
    PROVE  /\ n \in 1..n /\ 1..n # {}
           /\ Max(1..n) = n /\ (1..n) \ {n} = 1..(n - 1)
  <1>1. n \in 1..n /\ 1..n # {}
    BY SMT
  <1>2. Max(1..n) \in 1..n /\ Max(1..n) >= n
    BY <1>1, LargestPosition
  <1>3. (1..n) \ {n} = 1..(n - 1)
    BY SMT
  <1> QED
    BY <1>1, <1>2, <1>3

(* The function exists.                                                    *)
LEMMA UnrolledExists ==
    ASSUME NEW b, NEW q, NEW n \in Nat
    PROVE  \E f : Unrolled(f, b, q, n)
  <1> DEFINE Bad == {k \in Nat : ~\E f : Unrolled(f, b, q, k)}
  <1> SUFFICES ASSUME Bad # {} PROVE FALSE
    OBVIOUS
  <1>1. PICK k \in Bad : \A j \in Bad : k <= j
    BY LeastNatural
  <1>2. k \in Nat /\ ~\E f : Unrolled(f, b, q, k)
    OBVIOUS
  <1>3. CASE k = 0
    <2> DEFINE f == [s \in SUBSET (1..0) |-> b]
    <2>1. \A s \in SUBSET (1..0) : s = {}
      OBVIOUS
    <2>2. Unrolled(f, b, q, 0)
      BY <2>1 DEF Unrolled
    <2> QED
      BY <2>2, <1>2, <1>3
  <1>4. CASE k # 0
    <2>1. k - 1 \in Nat /\ k - 1 \notin Bad
      BY <1>2, <1>1, <1>4
    <2>2. PICK f : Unrolled(f, b, q, k - 1)
      BY <2>1
    <2> DEFINE g == [s \in SUBSET (1..k) |->
                      IF k \in s THEN Step(f[s \ {k}], q[k]) ELSE f[s]]
    <2>3. \A s \in SUBSET (1..k) :
             g[s] = IF s = {} THEN b ELSE Step(g[s \ {Max(s)}], q[Max(s)])
      <3> SUFFICES ASSUME NEW s \in SUBSET (1..k)
                   PROVE  g[s] = IF s = {} THEN b ELSE Step(g[s \ {Max(s)}], q[Max(s)])
        OBVIOUS
      <3>1. CASE k \in s
        <4>1. Max(s) = k
          <5>1. Max(s) \in 1..k /\ Max(s) >= k
            BY <3>1, <1>2, LargestPosition
          <5> QED
            BY <5>1, <1>2
        <4>2. s \ {k} \in SUBSET (1..k) /\ k \notin s \ {k}
          OBVIOUS
        <4>3. g[s \ {k}] = f[s \ {k}]
          BY <4>2
        <4> QED
          BY <3>1, <4>1, <4>3
      <3>2. CASE k \notin s
        <4>1. s \in SUBSET (1..(k - 1))
          BY <3>2, <1>2
        <4>2. g[s] = f[s]
          BY <3>2
        <4>3. f[s] = IF s = {} THEN b ELSE Step(f[s \ {Max(s)}], q[Max(s)])
          BY <2>2, <4>1 DEF Unrolled
        <4>4. s \ {Max(s)} \in SUBSET (1..k) /\ k \notin s \ {Max(s)}
          BY <3>2
        <4>5. g[s \ {Max(s)}] = f[s \ {Max(s)}]
          BY <4>4
        <4> QED
          BY <4>2, <4>3, <4>5
      <3> QED
        BY <3>1, <3>2
    <2> HIDE DEF g
    <2>4. g = [s \in SUBSET (1..k) |-> g[s]]
      BY DEF g
    <2>5. Unrolled(g, b, q, k)
      BY <2>3, <2>4 DEF Unrolled
    <2> QED
      BY <2>5, <1>2
  <1> QED
    BY <1>3, <1>4

(* It depends on the positions it has passed and no others.                *)
LEMMA UnrolledAgree ==
    ASSUME NEW b, NEW p, NEW q, NEW m \in Nat, NEW n \in Nat, m <= n,
           \A i \in 1..m : p[i] = q[i],
           NEW f, NEW g, Unrolled(f, b, p, m), Unrolled(g, b, q, n)
    PROVE  f[1..m] = g[1..m]
  <1> DEFINE Bad == {k \in 0..m : f[1..k] # g[1..k]}
  <1> SUFFICES ASSUME Bad # {} PROVE FALSE
    OBVIOUS
  <1>1. PICK k \in Bad : \A j \in Bad : k <= j
    <2>1. Bad \in SUBSET Nat
      OBVIOUS
    <2> QED
      BY <2>1, LeastNatural
  <1>2. k \in 0..m /\ f[1..k] # g[1..k]
    OBVIOUS
  <1>3. (1..k) \in SUBSET (1..m) /\ (1..k) \in SUBSET (1..n)
    BY <1>2
  <1>4. /\ f[1..k] = IF 1..k = {} THEN b ELSE Step(f[(1..k) \ {Max(1..k)}], p[Max(1..k)])
        /\ g[1..k] = IF 1..k = {} THEN b ELSE Step(g[(1..k) \ {Max(1..k)}], q[Max(1..k)])
    BY <1>3 DEF Unrolled
  <1>5. CASE k = 0
    <2>1. 1..k = {}
      BY <1>5
    <2> QED
      BY <2>1, <1>4, <1>2
  <1>6. CASE k # 0
    <2>1. k \in Nat /\ k # 0
      BY <1>2, <1>6
    <2>2. 1..k # {} /\ Max(1..k) = k
      BY <2>1, Segment
    <2>3. (1..k) \ {k} = 1..(k - 1)
      BY <2>1, Segment
    <2>4. k - 1 \in 0..m /\ k - 1 \notin Bad
      BY <1>1, <1>2, <1>6
    <2>5. f[1..(k - 1)] = g[1..(k - 1)] /\ p[k] = q[k]
      BY <2>4, <1>2, <1>6
    <2> QED
      BY <1>2, <1>4, <2>2, <2>3, <2>5
  <1> QED
    BY <1>5, <1>6

(* A fold over a sequence is that function at all its positions.           *)
LEMMA FoldIs ==
    ASSUME NEW S, NEW b, NEW q \in Seq(S)
    PROVE  \E f : Unrolled(f, b, q, Len(q)) /\ Fold(b, q) = f[1..Len(q)]
  <1> DEFINE f == CHOOSE f : f = [s \in SUBSET DOMAIN q |->
                 IF s = {} THEN b ELSE Step(f[s \ {Max(s)}], q[Max(s)])]
  <1>1. DOMAIN q = 1..Len(q) /\ Len(q) \in Nat
    OBVIOUS
  <1>2. Fold(b, q) = f[DOMAIN q]
    BY DEF Fold, FoldLeft, MapThenFoldSet
  <1>3. \E g : g = [s \in SUBSET DOMAIN q |->
                    IF s = {} THEN b ELSE Step(g[s \ {Max(s)}], q[Max(s)])]
    <2>1. PICK g : Unrolled(g, b, q, Len(q))
      BY <1>1, UnrolledExists
    <2> QED
      BY <2>1, <1>1 DEF Unrolled
  <1>4. f = [s \in SUBSET DOMAIN q |->
               IF s = {} THEN b ELSE Step(f[s \ {Max(s)}], q[Max(s)])]
    BY <1>3
  <1> HIDE DEF f
  <1>5. Unrolled(f, b, q, Len(q))
    BY <1>1, <1>4 DEF Unrolled
  <1> QED
    BY <1>1, <1>2, <1>5

(* A fold over no elements is where it starts.                             *)
THEOREM FoldEmpty == ASSUME NEW b PROVE Fold(b, <<>>) = b
  <1>1. <<>> \in Seq({}) /\ Len(<<>>) = 0 /\ 1..0 = {}
    OBVIOUS
  <1>2. PICK f : Unrolled(f, b, <<>>, 0) /\ Fold(b, <<>>) = f[1..0]
    <2> DEFINE q == <<>>
    <2>1. q \in Seq({}) /\ Len(q) = 0
      OBVIOUS
    <2> HIDE DEF q
    <2>2. \E f : Unrolled(f, b, q, 0) /\ Fold(b, q) = f[1..0]
      BY <2>1, FoldIs
    <2> QED
      BY <2>2 DEF q
  <1>3. f[{}] = b
    BY <1>2 DEF Unrolled
  <1> QED
    BY <1>1, <1>2, <1>3

(* One more element is one more step.                                      *)
THEOREM FoldAppend ==
    ASSUME NEW S, NEW b, NEW q \in Seq(S), NEW x \in S
    PROVE  Fold(b, Append(q, x)) = Step(Fold(b, q), x)
  <1> DEFINE p == Append(q, x)
             n == Len(q)
  <1>1. /\ n \in Nat /\ p \in Seq(S) /\ Len(p) = n + 1 /\ p[n + 1] = x
        /\ \A i \in 1..n : q[i] = p[i]
    OBVIOUS
  <1> HIDE DEF p, n
  <1>2. PICK f : Unrolled(f, b, q, n) /\ Fold(b, q) = f[1..n]
    BY FoldIs DEF n
  <1>3. PICK g : Unrolled(g, b, p, n + 1) /\ Fold(b, p) = g[1..(n + 1)]
    BY <1>1, FoldIs
  <1>4. f[1..n] = g[1..n]
    BY <1>1, <1>2, <1>3, UnrolledAgree
  <1>5. n + 1 \in Nat /\ n + 1 # 0 /\ (n + 1) - 1 = n
    BY <1>1
  <1>6. Max(1..(n + 1)) = n + 1 /\ (1..(n + 1)) \ {n + 1} = 1..n /\ 1..(n + 1) # {}
    BY <1>5, Segment
  <1>7. g[1..(n + 1)] = Step(g[1..n], p[n + 1])
    BY <1>3, <1>6 DEF Unrolled
  <1> QED
    BY <1>1, <1>2, <1>3, <1>4, <1>7 DEF p

-----------------------------------------------------------------------------
(* Sums over finite sets.                                                  *)

Sum(f, S) == SumFunctionOnSet(f, S)

Some(S) == CHOOSE x \in S : TRUE

(* The function that SumFunctionOnSet computes, on the subsets of S.       *)
Sums(f, S, it) ==
    it = [s \in SUBSET S |-> IF s = {} THEN 0 ELSE f[Some(s)] + it[s \ {Some(s)}]]

(* What every set has that all sets with one element less have, a finite   *)
(* set has.                                                                *)
LEMMA OneByOne ==
    ASSUME NEW T, IsFiniteSet(T), NEW G,
           \A S \in SUBSET T : (\A x \in S : S \ {x} \in G) => S \in G
    PROVE  \A S \in SUBSET T : S \in G
  <1> DEFINE Bad == {S \in SUBSET T : S \notin G}
             N == {Cardinality(S) : S \in Bad}
  <1> SUFFICES ASSUME Bad # {} PROVE FALSE
    OBVIOUS
  <1>1. \A S \in SUBSET T : IsFiniteSet(S) /\ Cardinality(S) \in Nat
    BY FS_Subset, FS_CardinalityType
  <1>2. N \in SUBSET Nat /\ N # {}
    BY <1>1
  <1>3. PICK n \in N : \A k \in N : n <= k
    BY <1>2, LeastNatural
  <1>4. PICK S \in Bad : n = Cardinality(S)
    BY <1>3
  <1>5. \A x \in S : S \ {x} \in G
    <2> SUFFICES ASSUME NEW x \in S, S \ {x} \notin G PROVE FALSE
      OBVIOUS
    <2>1. S \ {x} \in Bad
      BY <1>4
    <2>2. n <= Cardinality(S \ {x})
      BY <2>1, <1>3
    <2>3. Cardinality(S \ {x}) = Cardinality(S) - 1
      BY <1>1, <1>4, FS_RemoveElement
    <2>4. Cardinality(S) \in Nat
      BY <1>1, <1>4
    <2> QED
      BY <2>2, <2>3, <2>4, <1>4
  <1>6. S \in SUBSET T /\ S \notin G
    BY <1>4
  <1> QED
    BY <1>5, <1>6

(* A set that is not empty has the element that is chosen from it.         *)
LEMMA SomeIsIn == \A S : S # {} => Some(S) \in S
  BY DEF Some

(* The function exists.                                                    *)
LEMMA SumsExists ==
    ASSUME NEW f, NEW S, IsFiniteSet(S)
    PROVE  \E it : Sums(f, S, it)
  <1> DEFINE Small(n) == {s \in SUBSET S : Cardinality(s) <= n}
             Up(n, h) == \A s \in Small(n) :
               h[s] = IF s = {} THEN 0 ELSE f[Some(s)] + h[s \ {Some(s)}]
             Bad == {n \in Nat : ~\E h : Up(n, h)}
  <1>1. \A s \in SUBSET S : IsFiniteSet(s) /\ Cardinality(s) \in Nat
    BY FS_Subset, FS_CardinalityType
  <1>2. \A s \in SUBSET S : \A x \in s : Cardinality(s \ {x}) = Cardinality(s) - 1
    BY <1>1, FS_RemoveElement
  <1>3. \A s \in SUBSET S : Cardinality(s) = 0 <=> s = {}
    BY <1>1, FS_EmptySet
  <1>4. \E h : Up(0, h)
    <2> DEFINE h == [s \in SUBSET S |-> 0]
    <2>1. \A s \in Small(0) : s = {} /\ s \in SUBSET S
      BY <1>1, <1>3
    <2> HIDE DEF Small
    <2>2. Up(0, h)
      BY <2>1
    <2> QED
      BY <2>2
  <1>5. ASSUME NEW n \in Nat, NEW h, Up(n, h) PROVE \E g : Up(n + 1, g)
    <2> DEFINE g == [s \in SUBSET S |->
                 IF Cardinality(s) <= n THEN h[s] ELSE f[Some(s)] + h[s \ {Some(s)}]]
    <2>1. ASSUME NEW s \in Small(n + 1)
          PROVE  g[s] = IF s = {} THEN 0 ELSE f[Some(s)] + g[s \ {Some(s)}]
      <3>1. s \in SUBSET S /\ Cardinality(s) \in Nat /\ Cardinality(s) <= n + 1
        BY <1>1
      <3>2. CASE s = {}
        <4>1. Cardinality(s) <= n
          BY <3>1, <3>2, <1>3
        <4>2. h[s] = 0
          BY <1>5, <3>1, <3>2, <4>1
        <4> QED
          BY <3>1, <3>2, <4>1, <4>2
      <3>3. CASE s # {}
        <4>1. Some(s) \in s
          BY <3>3, SomeIsIn
        <4>2. /\ s \ {Some(s)} \in SUBSET S
              /\ Cardinality(s \ {Some(s)}) = Cardinality(s) - 1
          BY <3>1, <4>1, <1>2
        <4>3. Cardinality(s \ {Some(s)}) <= n
          BY <3>1, <4>2
        <4>4. g[s \ {Some(s)}] = h[s \ {Some(s)}]
          BY <4>2, <4>3
        <4>5. Cardinality(s) <= n => h[s] = f[Some(s)] + h[s \ {Some(s)}]
          BY <1>5, <3>1, <3>3
        <4> QED
          BY <3>1, <3>3, <4>4, <4>5
      <3> QED
        BY <3>2, <3>3
    <2> HIDE DEF g
    <2>2. Up(n + 1, g)
      BY <2>1
    <2> QED
      BY <2>2
  <1>6. Bad = {}
    <2> SUFFICES ASSUME Bad # {} PROVE FALSE
      OBVIOUS
    <2>1. Bad \in SUBSET Nat
      OBVIOUS
    <2>2. PICK k \in Bad : \A j \in Bad : k <= j
      BY <2>1, LeastNatural
    <2>3. k \in Nat /\ ~\E h : Up(k, h)
      OBVIOUS
    <2> HIDE DEF Up
    <2>4. k # 0
      BY <1>4, <2>3
    <2>5. k - 1 \in Nat /\ k - 1 \notin Bad
      BY <2>2, <2>3, <2>4
    <2>6. PICK h : Up(k - 1, h)
      BY <2>5
    <2>7. \E g : Up((k - 1) + 1, g)
      BY <2>5, <2>6, <1>5
    <2>8. (k - 1) + 1 = k
      BY <2>3
    <2> QED
      BY <2>3, <2>7, <2>8
  <1>7. PICK h : Up(Cardinality(S), h)
    <2>1. Cardinality(S) \in Nat
      BY FS_CardinalityType
    <2> QED
      BY <2>1, <1>6
  <1>8. \A s \in SUBSET S : s \in Small(Cardinality(S))
    BY FS_Subset
  <1> DEFINE it == [s \in SUBSET S |-> h[s]]
  <1>9. \A s \in SUBSET S : it[s] = IF s = {} THEN 0 ELSE f[Some(s)] + it[s \ {Some(s)}]
    <2> TAKE s \in SUBSET S
    <2>1. h[s] = IF s = {} THEN 0 ELSE f[Some(s)] + h[s \ {Some(s)}]
      BY <1>7, <1>8
    <2>2. s \ {Some(s)} \in SUBSET S
      OBVIOUS
    <2>3. it[s] = h[s] /\ it[s \ {Some(s)}] = h[s \ {Some(s)}]
      BY <2>2
    <2> QED
      BY <2>1, <2>3
  <1>10. it = [s \in SUBSET S |-> it[s]]
    OBVIOUS
  <1> HIDE DEF it
  <1>11. Sums(f, S, it)
    BY <1>9, <1>10 DEF Sums
  <1> QED
    BY <1>11

(* A sum is that function at the set summed over.                          *)
LEMMA SumIs ==
    ASSUME NEW f, NEW S, IsFiniteSet(S)
    PROVE  \E it : Sums(f, S, it) /\ Sum(f, S) = it[S]
  <1> DEFINE it == CHOOSE it : it = [s \in SUBSET S |->
                 IF s = {} THEN 0 ELSE f[Some(s)] + it[s \ {Some(s)}]]
  <1>1. Sum(f, S) = it[S]
    BY DEF Sum, SumFunctionOnSet, FoldFunctionOnSet, MapThenFoldSet, Some
  <1>2. \E g : g = [s \in SUBSET S |->
                 IF s = {} THEN 0 ELSE f[Some(s)] + g[s \ {Some(s)}]]
    <2>1. PICK g : Sums(f, S, g)
      BY SumsExists
    <2> QED
      BY <2>1 DEF Sums
  <1>3. Sums(f, S, it)
    BY <1>2 DEF Sums
  <1> QED
    BY <1>1, <1>3

(* On a set both know, the functions of two sums agree.                    *)
LEMMA SumsAgree ==
    ASSUME NEW f, NEW S, NEW R, IsFiniteSet(S), NEW T \in SUBSET S, T \in SUBSET R,
           NEW i, NEW j, Sums(f, S, i), Sums(f, R, j)
    PROVE  i[T] = j[T]
  <1> DEFINE G == {s \in SUBSET T : i[s] = j[s]}
  <1>1. IsFiniteSet(T)
    BY FS_Subset
  <1>2. ASSUME NEW s \in SUBSET T, \A x \in s : s \ {x} \in G
        PROVE  s \in G
    <2>1. s \in SUBSET S /\ s \in SUBSET R
      OBVIOUS
    <2>2. /\ i[s] = IF s = {} THEN 0 ELSE f[Some(s)] + i[s \ {Some(s)}]
          /\ j[s] = IF s = {} THEN 0 ELSE f[Some(s)] + j[s \ {Some(s)}]
      BY <2>1 DEF Sums
    <2>3. s # {} => Some(s) \in s
      BY SomeIsIn
    <2>4. s # {} => i[s \ {Some(s)}] = j[s \ {Some(s)}]
      BY <2>3, <1>2
    <2> QED
      BY <2>2, <2>4
  <1>3. \A s \in SUBSET T : s \in G
    BY <1>1, <1>2, OneByOne
  <1> QED
    BY <1>3

(* Nothing sums to nothing.                                                *)
THEOREM SumEmpty == ASSUME NEW f PROVE Sum(f, {}) = 0
  <1>1. IsFiniteSet({})
    BY FS_EmptySet
  <1>2. PICK i : Sums(f, {}, i) /\ Sum(f, {}) = i[{}]
    BY <1>1, SumIs
  <1>3. i[{}] = 0
    BY <1>2 DEF Sums
  <1> QED
    BY <1>2, <1>3

(* A sum takes its elements one after the other.                           *)
LEMMA SumChosen ==
    ASSUME NEW f, NEW S, IsFiniteSet(S), S # {}
    PROVE  Sum(f, S) = f[Some(S)] + Sum(f, S \ {Some(S)})
  <1> DEFINE R == S \ {Some(S)}
  <1>1. IsFiniteSet(R) /\ R \in SUBSET S /\ R \in SUBSET R
    BY FS_Subset
  <1>2. PICK i : Sums(f, S, i) /\ Sum(f, S) = i[S]
    BY SumIs
  <1>3. PICK j : Sums(f, R, j) /\ Sum(f, R) = j[R]
    BY <1>1, SumIs
  <1>4. i[S] = f[Some(S)] + i[R]
    BY <1>2 DEF Sums
  <1>5. i[R] = j[R]
    BY <1>1, <1>2, <1>3, SumsAgree
  <1> QED
    BY <1>2, <1>3, <1>4, <1>5

(* Sums of equal amounts are equal.                                        *)
THEOREM SumEqual ==
    ASSUME NEW f, NEW g, NEW S, IsFiniteSet(S), \A x \in S : f[x] = g[x]
    PROVE  Sum(f, S) = Sum(g, S)
  <1> DEFINE G == {s \in SUBSET S : Sum(f, s) = Sum(g, s)}
  <1>1. ASSUME NEW s \in SUBSET S, \A x \in s : s \ {x} \in G PROVE s \in G
    <2>1. CASE s = {}
      <3>1. Sum(f, {}) = 0 /\ Sum(g, {}) = 0
        BY SumEmpty
      <3> QED
        BY <2>1, <3>1
    <2>2. CASE s # {}
      <3>1. IsFiniteSet(s) /\ Some(s) \in s
        BY <2>2, FS_Subset, SomeIsIn
      <3>2. /\ Sum(f, s) = f[Some(s)] + Sum(f, s \ {Some(s)})
            /\ Sum(g, s) = g[Some(s)] + Sum(g, s \ {Some(s)})
        BY <2>2, <3>1, SumChosen
      <3>3. Sum(f, s \ {Some(s)}) = Sum(g, s \ {Some(s)}) /\ f[Some(s)] = g[Some(s)]
        BY <3>1, <1>1
      <3> QED
        BY <3>2, <3>3
    <2> QED
      BY <2>1, <2>2
  <1> HIDE DEF G
  <1>2. \A s \in SUBSET S : s \in G
    BY <1>1, OneByOne
  <1> QED
    BY <1>2 DEF G

(* A sum of natural numbers is one.                                        *)
THEOREM SumIsNat ==
    ASSUME NEW f, NEW S, IsFiniteSet(S), \A x \in S : f[x] \in Nat
    PROVE  Sum(f, S) \in Nat
  <1> DEFINE G == {s \in SUBSET S : Sum(f, s) \in Nat}
  <1>1. ASSUME NEW s \in SUBSET S, \A x \in s : s \ {x} \in G PROVE s \in G
    <2>1. CASE s = {}
      <3>1. Sum(f, {}) = 0
        BY SumEmpty
      <3> QED
        BY <2>1, <3>1
    <2>2. CASE s # {}
      <3>1. IsFiniteSet(s) /\ Some(s) \in s
        BY <2>2, FS_Subset, SomeIsIn
      <3>2. Sum(f, s) = f[Some(s)] + Sum(f, s \ {Some(s)})
        BY <2>2, <3>1, SumChosen
      <3>3. Sum(f, s \ {Some(s)}) \in Nat /\ f[Some(s)] \in Nat
        BY <3>1, <1>1
      <3> QED
        BY <3>2, <3>3
    <2> QED
      BY <2>1, <2>2
  <1> HIDE DEF G
  <1>2. \A s \in SUBSET S : s \in G
    BY <1>1, OneByOne
  <1> QED
    BY <1>2 DEF G

(* ... in any order.                                                       *)
THEOREM SumRemove ==
    ASSUME NEW f, NEW S, IsFiniteSet(S), \A x \in S : f[x] \in Nat, NEW y \in S
    PROVE  Sum(f, S) = f[y] + Sum(f, S \ {y})
  <1> DEFINE G == {s \in SUBSET S : \A x \in s : Sum(f, s) = f[x] + Sum(f, s \ {x})}
  <1>1. ASSUME NEW s \in SUBSET S, \A x \in s : s \ {x} \in G PROVE s \in G
    <2> SUFFICES ASSUME NEW x \in s PROVE Sum(f, s) = f[x] + Sum(f, s \ {x})
      OBVIOUS
    <2> DEFINE c == Some(s)
    <2>1. IsFiniteSet(s) /\ c \in s
      BY FS_Subset, SomeIsIn
    <2>2. Sum(f, s) = f[c] + Sum(f, s \ {c})
      BY <2>1, SumChosen
    <2> HIDE DEF c
    <2>3. CASE x # c
      <3>1. x \in s \ {c} /\ c \in s \ {x}
        BY <2>1, <2>3
      <3>2. Sum(f, s \ {c}) = f[x] + Sum(f, (s \ {c}) \ {x})
        BY <1>1, <2>1, <3>1
      <3>3. Sum(f, s \ {x}) = f[c] + Sum(f, (s \ {x}) \ {c})
        BY <1>1, <3>1
      <3>4. (s \ {c}) \ {x} = (s \ {x}) \ {c} /\ IsFiniteSet((s \ {x}) \ {c})
        BY FS_Subset
      <3>5. Sum(f, (s \ {x}) \ {c}) \in Nat
        BY <3>4, SumIsNat
      <3>6. f[x] \in Nat /\ f[c] \in Nat
        BY <2>1
      <3> QED
        BY <2>2, <3>2, <3>3, <3>4, <3>5, <3>6
    <2> QED
      BY <2>2, <2>3
  <1> HIDE DEF G
  <1>2. \A s \in SUBSET S : s \in G
    BY <1>1, OneByOne
  <1> QED
    BY <1>2 DEF G

(* A part is at most the whole.                                            *)
THEOREM SumPart ==
    ASSUME NEW f, NEW S, IsFiniteSet(S), \A x \in S : f[x] \in Nat, NEW T \in SUBSET S
    PROVE  Sum(f, T) <= Sum(f, S)
  <1> DEFINE G == {s \in SUBSET S : Sum(f, s \intersect T) <= Sum(f, s)}
  <1>1. ASSUME NEW s \in SUBSET S, \A x \in s : s \ {x} \in G PROVE s \in G
    <2>1. IsFiniteSet(s) /\ IsFiniteSet(s \intersect T)
      BY FS_Subset
    <2>2. Sum(f, s) \in Nat
      BY <2>1, SumIsNat
    <2>3. CASE s \in SUBSET T
      <3>1. s \intersect T = s
        BY <2>3
      <3> QED
        BY <2>2, <3>1
    <2>4. CASE s \notin SUBSET T
      <3>1. PICK x \in s : x \notin T
        BY <2>4
      <3>2. (s \ {x}) \intersect T = s \intersect T /\ f[x] \in Nat
        BY <3>1
      <3>3. Sum(f, s \intersect T) <= Sum(f, s \ {x})
        BY <1>1, <3>2
      <3>4. Sum(f, s) = f[x] + Sum(f, s \ {x})
        BY <2>1, SumRemove
      <3>5. Sum(f, s \ {x}) \in Nat /\ Sum(f, s \intersect T) \in Nat
        <4>1. IsFiniteSet(s \ {x})
          BY <2>1, FS_Subset
        <4>2. Sum(f, s \ {x}) \in Nat
          BY <4>1, SumIsNat
        <4>3. Sum(f, s \intersect T) \in Nat
          BY <2>1, SumIsNat
        <4> QED
          BY <4>2, <4>3
      <3> QED
        BY <3>2, <3>3, <3>4, <3>5
    <2> QED
      BY <2>3, <2>4
  <1> HIDE DEF G
  <1>2. \A s \in SUBSET S : s \in G
    BY <1>1, OneByOne
  <1>3. S \intersect T = T
    OBVIOUS
  <1> QED
    BY <1>2, <1>3 DEF G

(* No amount exceeds the sum it is part of.                                *)
THEOREM SumMember ==
    ASSUME NEW f, NEW S, IsFiniteSet(S), \A x \in S : f[x] \in Nat, NEW y \in S
    PROVE  f[y] <= Sum(f, S)
  <1>1. Sum(f, S) = f[y] + Sum(f, S \ {y})
    BY SumRemove
  <1>2. Sum(f, S \ {y}) \in Nat
    <2>1. IsFiniteSet(S \ {y})
      BY FS_Subset
    <2> QED
      BY <2>1, SumIsNat
  <1> QED
    BY <1>1, <1>2

(* One amount changes, and the sum by as much.                             *)
THEOREM SumChange ==
    ASSUME NEW f, NEW g, NEW S, IsFiniteSet(S), NEW y \in S,
           \A x \in S : f[x] \in Nat /\ g[x] \in Nat,
           \A x \in S \ {y} : f[x] = g[x]
    PROVE  Sum(g, S) = Sum(f, S) - f[y] + g[y]
  <1>1. Sum(f, S) = f[y] + Sum(f, S \ {y}) /\ Sum(g, S) = g[y] + Sum(g, S \ {y})
    BY SumRemove
  <1>2. IsFiniteSet(S \ {y})
    BY FS_Subset
  <1>3. Sum(f, S \ {y}) = Sum(g, S \ {y})
    BY <1>2, SumEqual
  <1>4. Sum(f, S \ {y}) \in Nat
    BY <1>2, SumIsNat
  <1> QED
    BY <1>1, <1>3, <1>4

(* Zeros sum to zero, and only they.                                       *)
THEOREM SumZero ==
    ASSUME NEW f, NEW S, IsFiniteSet(S), \A x \in S : f[x] = 0
    PROVE  Sum(f, S) = 0
  <1> DEFINE G == {s \in SUBSET S : Sum(f, s) = 0}
  <1>1. ASSUME NEW s \in SUBSET S, \A x \in s : s \ {x} \in G PROVE s \in G
    <2>1. CASE s = {}
      <3>1. Sum(f, {}) = 0
        BY SumEmpty
      <3> QED
        BY <2>1, <3>1
    <2>2. CASE s # {}
      <3>1. IsFiniteSet(s) /\ Some(s) \in s
        BY <2>2, FS_Subset, SomeIsIn
      <3>2. Sum(f, s) = f[Some(s)] + Sum(f, s \ {Some(s)})
        BY <2>2, <3>1, SumChosen
      <3>3. Sum(f, s \ {Some(s)}) = 0 /\ f[Some(s)] = 0
        BY <3>1, <1>1
      <3> QED
        BY <3>2, <3>3
    <2> QED
      BY <2>1, <2>2
  <1> HIDE DEF G
  <1>2. \A s \in SUBSET S : s \in G
    BY <1>1, OneByOne
  <1> QED
    BY <1>2 DEF G

(* What adds nothing can be left out.                                      *)
THEOREM SumSkip ==
    ASSUME NEW f, NEW S, IsFiniteSet(S), \A x \in S : f[x] \in Nat, NEW T \in SUBSET S,
           \A x \in S \ T : f[x] = 0
    PROVE  Sum(f, T) = Sum(f, S)
  <1> DEFINE G == {s \in SUBSET S : Sum(f, s \intersect T) = Sum(f, s)}
  <1>1. ASSUME NEW s \in SUBSET S, \A x \in s : s \ {x} \in G PROVE s \in G
    <2>1. IsFiniteSet(s)
      BY FS_Subset
    <2>3. CASE s \in SUBSET T
      <3>1. s \intersect T = s
        BY <2>3
      <3> QED
        BY <3>1
    <2>4. CASE s \notin SUBSET T
      <3>1. PICK x \in s : x \notin T
        BY <2>4
      <3>2. (s \ {x}) \intersect T = s \intersect T /\ f[x] = 0
        BY <3>1
      <3>3. Sum(f, s \intersect T) = Sum(f, s \ {x})
        BY <1>1, <3>2
      <3>4. Sum(f, s) = f[x] + Sum(f, s \ {x})
        BY <2>1, SumRemove
      <3>5. Sum(f, s \ {x}) \in Nat
        <4>1. IsFiniteSet(s \ {x})
          BY <2>1, FS_Subset
        <4> QED
          BY <4>1, SumIsNat
      <3> QED
        BY <3>2, <3>3, <3>4, <3>5
    <2> QED
      BY <2>3, <2>4
  <1> HIDE DEF G
  <1>2. \A s \in SUBSET S : s \in G
    BY <1>1, OneByOne
  <1>3. S \intersect T = T
    OBVIOUS
  <1> QED
    BY <1>2, <1>3 DEF G

(* A sum over a part is the sum over the whole with nothing elsewhere.     *)
LEMMA SumOnly ==
    ASSUME NEW f, NEW S, IsFiniteSet(S), NEW T \in SUBSET S, \A x \in T : f[x] \in Nat
    PROVE  Sum(f, T) = Sum([x \in S |-> IF x \in T THEN f[x] ELSE 0], S)
  <1> DEFINE g == [x \in S |-> IF x \in T THEN f[x] ELSE 0]
  <1>1. /\ \A x \in S : g[x] \in Nat /\ (x \notin T => g[x] = 0)
        /\ \A x \in T : f[x] = g[x]
    OBVIOUS
  <1>2. IsFiniteSet(T)
    BY FS_Subset
  <1> HIDE DEF g
  <1>3. Sum(f, T) = Sum(g, T)
    BY <1>1, <1>2, SumEqual
  <1>4. Sum(g, T) = Sum(g, S)
    BY <1>1, SumSkip
  <1> QED
    BY <1>3, <1>4 DEF g

(* What a function makes of a finite set is a finite set.                  *)
THEOREM ImageIsFinite ==
    ASSUME NEW f, NEW S, IsFiniteSet(S)
    PROVE  IsFiniteSet({f[x] : x \in S})
  <1> DEFINE T == {f[x] : x \in S}
             g == [x \in S |-> f[x]]
  <1>1. g \in Surjection(S, T)
    BY DEF Surjection
  <1> HIDE DEF g, T
  <1>2. IsFiniteSet(T)
    BY <1>1, FS_Surjection
  <1> QED
    BY <1>2 DEF T

(* A sum over two sets with nothing in common is the sum over each.        *)
THEOREM SumApart ==
    ASSUME NEW f, NEW S, IsFiniteSet(S), \A x \in S : f[x] \in Nat,
           NEW A \in SUBSET S, NEW B \in SUBSET S, A \intersect B = {}
    PROVE  Sum(f, A \union B) = Sum(f, A) + Sum(f, B)
  <1> DEFINE G == {s \in SUBSET B : Sum(f, A \union s) = Sum(f, A) + Sum(f, s)}
  <1>1. \A s \in SUBSET S : IsFiniteSet(s) /\ Sum(f, s) \in Nat
    <2> TAKE s \in SUBSET S
    <2>1. IsFiniteSet(s)
      BY FS_Subset
    <2> QED
      BY <2>1, SumIsNat
  <1>2. ASSUME NEW s \in SUBSET B, \A x \in s : s \ {x} \in G PROVE s \in G
    <2>1. CASE s = {}
      <3>1. A \union s = A /\ Sum(f, s) = 0
        BY <2>1, SumEmpty
      <3> QED
        BY <1>1, <3>1
    <2>2. CASE s # {}
      <3>1. PICK x \in s : TRUE
        BY <2>2
      <3>2. (A \union s) \ {x} = A \union (s \ {x}) /\ s \in SUBSET S /\ A \union s \in SUBSET S
            /\ x \in A \union s
        OBVIOUS
      <3>3. Sum(f, A \union s) = f[x] + Sum(f, A \union (s \ {x}))
        BY <1>1, <3>2, SumRemove
      <3>4. Sum(f, s) = f[x] + Sum(f, s \ {x})
        BY <1>1, <3>2, SumRemove
      <3>5. Sum(f, A \union (s \ {x})) = Sum(f, A) + Sum(f, s \ {x})
        BY <1>2
      <3>6. Sum(f, A) \in Nat /\ Sum(f, s \ {x}) \in Nat /\ f[x] \in Nat
        BY <1>1
      <3> QED
        BY <3>3, <3>4, <3>5, <3>6
    <2> QED
      BY <2>1, <2>2
  <1>3. IsFiniteSet(B)
    BY <1>1
  <1> HIDE DEF G
  <1>4. \A s \in SUBSET B : s \in G
    BY <1>2, <1>3, OneByOne
  <1> QED
    BY <1>4 DEF G

(* A sum by groups is the sum.                                             *)
THEOREM SumByGroup ==
    ASSUME NEW f, NEW S, IsFiniteSet(S), \A x \in S : f[x] \in Nat,
           NEW key, NEW T, IsFiniteSet(T), \A x \in S : key[x] \in T,
           NEW group, \A t \in T : \A x : x \in group[t] <=> x \in S /\ key[x] = t,
           NEW g, \A t \in T : g[t] = Sum(f, group[t])
    PROVE  Sum(g, T) = Sum(f, S)
  <1> DEFINE Of(U) == {x \in S : key[x] \in U}
  <1> DEFINE G == {U \in SUBSET T : Sum(g, U) = Sum(f, Of(U))}
  <1>0. \A t \in T : g[t] \in Nat
    <2> TAKE t \in T
    <2>1. group[t] \subseteq S
      OBVIOUS
    <2>2. IsFiniteSet(group[t]) /\ \A x \in group[t] : f[x] \in Nat
      BY <2>1, FS_Subset
    <2> QED
      BY <2>2, SumIsNat
  <1>1. ASSUME NEW U \in SUBSET T, \A t \in U : U \ {t} \in G PROVE U \in G
    <2>1. CASE U = {}
      <3>1. Of(U) = {} /\ Sum(g, {}) = 0 /\ Sum(f, {}) = 0
        BY <2>1, SumEmpty
      <3> QED
        BY <2>1, <3>1
    <2>2. CASE U # {}
      <3>1. PICK t \in U : TRUE
        BY <2>2
      <3> DEFINE One == group[t]
                 Rest == Of(U \ {t})
      <3>2. Of(U) = One \union Rest /\ One \intersect Rest = {}
            /\ One \in SUBSET S /\ Rest \in SUBSET S
        OBVIOUS
      <3>3. Sum(f, One \union Rest) = Sum(f, One) + Sum(f, Rest)
        <4> HIDE DEF One, Rest
        <4> QED
          BY <3>2, SumApart
      <3>4. Sum(g, U) = g[t] + Sum(g, U \ {t})
        <4>1. IsFiniteSet(U) /\ \A u \in U : g[u] \in Nat
          BY <1>0, FS_Subset
        <4> QED
          BY <4>1, SumRemove
      <3>5. Sum(g, U \ {t}) = Sum(f, Of(U \ {t})) /\ g[t] = Sum(f, One)
        BY <1>1
      <3> QED
        BY <3>2, <3>3, <3>4, <3>5
    <2> QED
      BY <2>1, <2>2
  <1>2. Of(T) = S
    OBVIOUS
  <1> HIDE DEF G
  <1>3. \A U \in SUBSET T : U \in G
    BY <1>1, OneByOne
  <1> QED
    BY <1>2, <1>3 DEF G

=============================================================================
