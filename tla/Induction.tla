----------------------------- MODULE Induction ------------------------------
(***************************************************************************)
(* Induction over data, for the proofs about loops and folds.  The         *)
(* library's induction theorems have a predicate as a parameter; here the  *)
(* predicate is a set, and every induction comes down to the least element *)
(* of a set of naturals.  From it: runs of a loop, and what FlattenSeq,    *)
(* SumFunction, Min and Max return for every input.                        *)
(***************************************************************************)
EXTENDS SequencesExt, FiniteSetTheorems, SequenceTheorems, TLAPS

\* A set of naturals that is not empty has a least element.
LEMMA LeastNatural ==
    ASSUME NEW Some, Some \subseteq Nat, Some # {}
    PROVE  \E m \in Some : \A k \in Some : m <= k
<1>. DEFINE R == OpToRel(<, Nat)
<1>1. IsWellFoundedOn(R, Nat)
  BY NatLessThanWellFounded
<1>2. \A x, y \in Nat : x < y => <<x, y>> \in R
  BY DEF OpToRel
<1>. HIDE DEF R
<1>3. PICK x \in Some : \A y \in Some : ~ (<<y, x>> \in R)
  BY <1>1, WFMin
<1>4. ASSUME NEW k \in Some PROVE x <= k
  <2>1. x \in Nat /\ k \in Nat /\ ~ (<<k, x>> \in R)
    BY <1>3
  <2>2. ~ (k < x)
    BY <2>1, <1>2
  <2>. QED  BY <2>1, <2>2
<1>. QED  BY <1>4

\* A set that holds 0, and n whenever it holds n - 1, holds every number up to last.
LEMMA InductionUpTo ==
    ASSUME NEW last \in Nat, NEW Holds, 0 \in Holds,
           \A n \in 1 .. last : n - 1 \in Holds => n \in Holds
    PROVE  0 .. last \subseteq Holds
<1>. DEFINE Fails == {n \in 0 .. last : n \notin Holds}
<1>. SUFFICES ASSUME Fails # {} PROVE FALSE
  OBVIOUS
<1>1. Fails \subseteq Nat
  OBVIOUS
<1>2. PICK m \in Fails : \A k \in Fails : m <= k
  BY <1>1, LeastNatural
<1>3. m \in 1 .. last /\ m - 1 \in 0 .. last /\ m - 1 < m
  OBVIOUS
<1>4. m - 1 \in Holds
  BY <1>2, <1>3
<1>. QED  BY <1>3, <1>4

\* next gives the value of a round from the value before it and the number of the round.
Rounds(next, Values) == next \in [Values \X Nat -> Values]

\* f holds the values of the rounds up to last.
Iterates(f, next, start, last, Values) ==
    /\ f \in [0 .. last -> Values] /\ f[0] = start
    /\ \A n \in 1 .. last : f[n] = next[<<f[n - 1], n>>]

\* A run of any number of rounds exists.
LEMMA IteratesExist ==
    ASSUME NEW Values, NEW start \in Values, NEW next, Rounds(next, Values), NEW last \in Nat
    PROVE  \E f : Iterates(f, next, start, last, Values)
<1>. DEFINE Good(f, n) == f[0] = start /\ \A i \in 1 .. n : f[i] = next[<<f[i - 1], i>>]
            T == {n \in Nat : \E f \in [0 .. n -> Values] : Good(f, n)}
<1>0. next \in [Values \X Nat -> Values]
  BY DEF Rounds
<1>1. 0 \in T
  <2>. DEFINE f == [i \in 0 .. 0 |-> start]
  <2>1. f \in [0 .. 0 -> Values] /\ Good(f, 0)
    OBVIOUS
  <2>. QED  BY <2>1
<1>2. ASSUME NEW n \in Nat, n \in T PROVE n + 1 \in T
  <2>1. PICK f \in [0 .. n -> Values] : Good(f, n)
    BY <1>2
  <2>. DEFINE g == [i \in 0 .. n + 1 |-> IF i <= n THEN f[i] ELSE next[<<f[n], n + 1>>]]
  <2>2. g \in [0 .. n + 1 -> Values]
    BY <1>0
  <2>3. \A i \in 0 .. n : g[i] = f[i]
    OBVIOUS
  <2>4. g[n + 1] = next[<<f[n], n + 1>>]
    OBVIOUS
  <2>. HIDE DEF g
  <2>5. g[0] = start
    BY <2>1, <2>3
  <2>6. ASSUME NEW i \in 1 .. n + 1 PROVE g[i] = next[<<g[i - 1], i>>]
    <3>1. CASE i <= n
      <4>1. i \in 0 .. n /\ i - 1 \in 0 .. n /\ i \in 1 .. n
        BY <3>1
      <4>. QED  BY <4>1, <2>1, <2>3
    <3>2. CASE i = n + 1
      <4>1. i - 1 = n /\ n \in 0 .. n
        BY <3>2
      <4>. QED  BY <4>1, <3>2, <2>3, <2>4
    <3>. QED  BY <3>1, <3>2
  <2>. QED  BY <2>2, <2>5, <2>6
<1>3. \A n \in 1 .. last : n - 1 \in T => n \in T
  <2>1. ASSUME NEW n \in 1 .. last, n - 1 \in T PROVE n \in T
    <3>1. n - 1 \in Nat /\ (n - 1) + 1 = n
      OBVIOUS
    <3>2. (n - 1) + 1 \in T
      BY <2>1, <3>1, <1>2
    <3>. QED  BY <3>1, <3>2
  <2>. QED  BY <2>1
<1>. HIDE DEF T
<1>4. last \in T
  BY <1>1, <1>3, InductionUpTo
<1>. QED  BY <1>4 DEF T, Iterates

-----------------------------------------------------------------------------
(* Sequences of sequences                                                  *)

\* A concatenation has the members of both parts.
LEMMA ConcatMembers ==
    ASSUME NEW S, NEW s \in Seq(S), NEW t \in Seq(S)
    PROVE  s \o t \in Seq(S) /\ ToSet(s \o t) = ToSet(s) \cup ToSet(t)
<1>1. ToSet(s \o t) = Range(s \o t) /\ ToSet(s) = Range(s) /\ ToSet(t) = Range(t)
  BY Zenon DEF ToSet, Range
<1>. QED  BY <1>1, RangeConcatenation, ConcatProperties

\* h is the function that FlattenSeq computes.
Flattens(h, ss) ==
    h = [i \in 1 .. Len(ss) |-> IF i = 1 THEN ss[i] ELSE h[i - 1] \o ss[i]]

\* FlattenSeq computes something, on every sequence of sequences.
LEMMA FlattensExist ==
    ASSUME NEW S, NEW ss \in Seq(Seq(S))
    PROVE  \E h : Flattens(h, ss)
<1>. DEFINE N == Len(ss)
            next == [x \in Seq(S) \X Nat |-> IF x[2] \in 1 .. N THEN x[1] \o ss[x[2]] ELSE x[1]]
<1>1. N \in Nat /\ \A n \in 1 .. N : ss[n] \in Seq(S)
  OBVIOUS
<1>2. next \in [Seq(S) \X Nat -> Seq(S)]
  <2>1. ASSUME NEW x \in Seq(S) \X Nat
        PROVE (IF x[2] \in 1 .. N THEN x[1] \o ss[x[2]] ELSE x[1]) \in Seq(S)
    BY <1>1, ConcatProperties
  <2>. QED  BY <2>1
<1>3. ASSUME NEW q \in Seq(S), NEW n \in 1 .. N PROVE next[<<q, n>>] = q \o ss[n]
  <2>1. <<q, n>> \in Seq(S) \X Nat /\ <<q, n>>[1] = q /\ <<q, n>>[2] = n
    BY <1>1
  <2>. QED  BY <2>1, Zenon
<1>. HIDE DEF next, N
<1>4. << >> \in Seq(S)
  OBVIOUS
<1>5. PICK f : Iterates(f, next, << >>, N, Seq(S))
  BY <1>1, <1>2, <1>4, IteratesExist DEF Rounds
<1>6. /\ f \in [0 .. N -> Seq(S)] /\ f[0] = << >>
      /\ \A n \in 1 .. N : f[n] = next[<<f[n - 1], n>>]
  BY <1>5 DEF Iterates
<1>. HIDE <1>5
<1>. DEFINE h == [i \in 1 .. N |-> f[i]]
            g == [i \in 1 .. N |-> IF i = 1 THEN ss[i] ELSE h[i - 1] \o ss[i]]
<1>7. ASSUME NEW n \in 1 .. N PROVE h[n] = g[n]
  <2>1. n - 1 \in 0 .. N /\ f[n - 1] \in Seq(S)
    BY <1>1, <1>6
  <2>2. f[n] = f[n - 1] \o ss[n]
    BY <2>1, <1>3, <1>6
  <2>3. CASE n = 1
    <3>1. n - 1 = 0
      BY <2>3
    <3>2. f[n] = << >> \o ss[n]
      BY <2>2, <3>1, <1>6
    <3>3. ss[n] \in Seq(S)
      BY <1>1
    <3>4. << >> \o ss[n] = ss[n]
      BY <3>3, ConcatEmptySeq
    <3>. QED  BY <3>2, <3>4, <2>3
  <2>4. CASE n # 1
    <3>1. n - 1 \in 1 .. N
      BY <2>4, <1>1
    <3>. QED  BY <3>1, <2>2, <2>4
  <2>. QED  BY <2>3, <2>4
<1>8. h = g
  BY <1>7
<1>. QED  BY <1>8 DEF Flattens, N

\* What FlattenSeq returns has the members of all the parts and no others.
LEMMA FlattenMembers ==
    ASSUME NEW S, NEW ss \in Seq(Seq(S))
    PROVE  /\ FlattenSeq(ss) \in Seq(S)
           /\ ToSet(FlattenSeq(ss)) = UNION {ToSet(ss[i]) : i \in 1 .. Len(ss)}
<1>. DEFINE N == Len(ss)
<1>1. N \in Nat /\ \A n \in 1 .. N : ss[n] \in Seq(S)
  OBVIOUS
<1>2. CASE N = 0
  <2>1. FlattenSeq(ss) = << >> /\ 1 .. N = {}
    BY <1>2 DEF FlattenSeq
  <2>2. ToSet(<< >>) = {}
    BY DEF ToSet
  <2>. QED  BY <2>1, <2>2
<1>3. CASE N # 0
  <2>. DEFINE h == CHOOSE f : Flattens(f, ss)
  <2>1. Flattens(h, ss)
    BY FlattensExist
  <2>2. FlattenSeq(ss) = h[N]
    BY <1>3, Zenon DEF FlattenSeq, Flattens
  <2>. HIDE DEF h
  <2>3. \A i \in 1 .. N : h[i] = IF i = 1 THEN ss[i] ELSE h[i - 1] \o ss[i]
    BY <2>1 DEF Flattens
  <2>. DEFINE U(n) == UNION {ToSet(ss[i]) : i \in 1 .. n}
              T == {n \in 0 .. N : n > 0 => h[n] \in Seq(S) /\ ToSet(h[n]) = U(n)}
  <2>4. 0 \in T
    BY <1>1
  <2>5. ASSUME NEW n \in 1 .. N, n - 1 \in T PROVE n \in T
    <3>1. ss[n] \in Seq(S)
      BY <1>1
    <3>2. CASE n = 1
      <4>1. h[n] = ss[n]
        BY <3>2, <2>3
      <4>2. U(n) = ToSet(ss[1])
        BY <3>2
      <4>. QED  BY <3>1, <3>2, <4>1, <4>2, <1>1
    <3>3. CASE n # 1
      <4>1. n - 1 \in 1 .. N /\ n - 1 > 0
        BY <3>3, <1>1
      <4>0. h[n] = h[n - 1] \o ss[n]
        BY <3>3, <2>3, Zenon
      <4>2. h[n - 1] \in Seq(S) /\ ToSet(h[n - 1]) = U(n - 1)
        BY <4>1, <2>5
      <4>3. h[n] \in Seq(S) /\ ToSet(h[n]) = U(n - 1) \cup ToSet(ss[n])
        BY <3>1, <4>0, <4>1, <4>2, ConcatMembers
      <4>4. 1 .. n = (1 .. n - 1) \cup {n}
        BY <1>1
      <4>5. U(n) = U(n - 1) \cup ToSet(ss[n])
        BY <4>4
      <4>6. n \in 0 .. N
        BY <1>1
      <4>. HIDE DEF U
      <4>. QED  BY <4>3, <4>5, <4>6
    <3>. QED  BY <3>2, <3>3
  <2>. HIDE DEF T, N
  <2>6. 0 .. N \subseteq T
    BY <1>1, <2>4, <2>5, InductionUpTo
  <2>7. N \in T
    BY <1>1, <2>6
  <2>. QED  BY <2>2, <2>7, <1>1, <1>3 DEF T, N
<1>. QED  BY <1>2, <1>3

-----------------------------------------------------------------------------
(* Finite sets and sums                                                    *)

\* A set that holds the empty part, and a part whenever it holds it without the element
\* that the folds take first, holds every part of a finite set.
LEMMA InductionOnParts ==
    ASSUME NEW Whole, IsFiniteSet(Whole), NEW Holds, {} \in Holds,
           \A s \in SUBSET Whole : s # {} /\ s \ {CHOOSE x \in s : TRUE} \in Holds => s \in Holds
    PROVE  SUBSET Whole \subseteq Holds
<1>. DEFINE N == Cardinality(Whole)
            T == {n \in 0 .. N : \A s \in SUBSET Whole : Cardinality(s) = n => s \in Holds}
<1>1. N \in Nat /\ \A s \in SUBSET Whole : IsFiniteSet(s) /\ Cardinality(s) \in 0 .. N
  <2>1. \A s \in SUBSET Whole : IsFiniteSet(s) /\ Cardinality(s) <= N
    BY FS_Subset
  <2>2. N \in Nat
    BY FS_CardinalityType
  <2>3. \A s \in SUBSET Whole : Cardinality(s) \in Nat
    BY <2>1, FS_CardinalityType
  <2>. QED  BY <2>1, <2>2, <2>3
<1>2. 0 \in T
  BY <1>1, FS_EmptySet
<1>3. ASSUME NEW n \in 1 .. N, n - 1 \in T PROVE n \in T
  <2>1. ASSUME NEW s \in SUBSET Whole, Cardinality(s) = n PROVE s \in Holds
    <3>. DEFINE x == CHOOSE y \in s : TRUE
    <3>1. s # {} /\ IsFiniteSet(s)
      BY <2>1, <1>1, FS_EmptySet
    <3>2. x \in s
      BY <3>1
    <3>3. Cardinality(s \ {x}) = n - 1
      BY <2>1, <3>1, <3>2, FS_RemoveElement
    <3>4. s \ {x} \in Holds
      BY <1>3, <3>3
    <3>. QED  BY <3>1, <3>4
  <2>2. n \in 0 .. N
    BY <1>1
  <2>. QED  BY <2>1, <2>2
<1>. HIDE DEF T, N
<1>4. 0 .. N \subseteq T
  BY <1>1, <1>2, <1>3, InductionUpTo
<1>. QED  BY <1>1, <1>4 DEF T

\* sums gives the sum of v over every part of its domain.
Sums(sums, v) ==
    sums = [s \in SUBSET DOMAIN v |->
              IF s = {} THEN 0 ELSE v[CHOOSE x \in s : TRUE] + sums[s \ {CHOOSE x \in s : TRUE}]]

\* Sums over the parts of a finite set exist.
LEMMA SumsExist ==
    ASSUME NEW Whole, IsFiniteSet(Whole), NEW v \in [Whole -> Int]
    PROVE  \E sums : Sums(sums, v)
<1>. DEFINE N == Cardinality(Whole)
            Parts == SUBSET Whole
            pick(s) == CHOOSE x \in s : TRUE
            step == [y \in [Parts -> Int] \X Nat |->
                       [s \in Parts |-> IF s = {} THEN 0 ELSE v[pick(s)] + y[1][s \ {pick(s)}]]]
            zero == [s \in Parts |-> 0]
<1>1. N \in Nat /\ zero \in [Parts -> Int]
  BY FS_CardinalityType
<1>2. \A s \in Parts : s # {} => pick(s) \in s /\ pick(s) \in Whole /\ s \ {pick(s)} \in Parts
  OBVIOUS
<1>. HIDE DEF pick
<1>3. step \in [[Parts -> Int] \X Nat -> [Parts -> Int]]
  <2>1. ASSUME NEW y \in [Parts -> Int] \X Nat
        PROVE [s \in Parts |-> IF s = {} THEN 0 ELSE v[pick(s)] + y[1][s \ {pick(s)}]] \in [Parts -> Int]
    <3>1. \A s \in Parts : (IF s = {} THEN 0 ELSE v[pick(s)] + y[1][s \ {pick(s)}]) \in Int
      <4>1. y[1] \in [Parts -> Int]
        OBVIOUS
      <4>. QED  BY <1>2, <4>1
    <3>. QED  BY <3>1
  <2>. QED  BY <2>1
<1>4. ASSUME NEW g \in [Parts -> Int], NEW n \in Nat, NEW s \in Parts
      PROVE  step[<<g, n>>][s] = IF s = {} THEN 0 ELSE v[pick(s)] + g[s \ {pick(s)}]
  <2>1. <<g, n>> \in [Parts -> Int] \X Nat /\ <<g, n>>[1] = g
    OBVIOUS
  <2>. HIDE DEF Parts
  <2>2. step[<<g, n>>] = [t \in Parts |-> IF t = {} THEN 0 ELSE v[pick(t)] + g[t \ {pick(t)}]]
    BY <2>1
  <2>. QED  BY <2>2
<1>. HIDE DEF step, N, zero
<1>5. PICK f : Iterates(f, step, zero, N, [Parts -> Int])
  BY <1>1, <1>3, IteratesExist DEF Rounds
<1>6. /\ f \in [0 .. N -> [Parts -> Int]] /\ f[0] = zero
      /\ \A n \in 1 .. N : f[n] = step[<<f[n - 1], n>>]
  BY <1>5 DEF Iterates
<1>. HIDE <1>5
<1>. DEFINE G == [s \in Parts |-> f[Cardinality(s)][s]]
            H == [s \in Parts |-> IF s = {} THEN 0 ELSE v[pick(s)] + G[s \ {pick(s)}]]
<1>7. ASSUME NEW s \in Parts PROVE G[s] = H[s]
  <2>1. IsFiniteSet(s) /\ Cardinality(s) \in Nat /\ Cardinality(s) <= N
    BY FS_Subset, FS_CardinalityType DEF N
  <2>2. CASE s = {}
    <3>1. Cardinality(s) = 0
      BY <2>2, FS_EmptySet
    <3>. QED  BY <2>2, <3>1, <1>6 DEF zero
  <2>3. CASE s # {}
    <3>. DEFINE n == Cardinality(s)
                t == s \ {pick(s)}
    <3>1. t \in Parts /\ pick(s) \in s
      BY <2>3, <1>2
    <3>2. Cardinality(t) = n - 1 /\ n # 0
      BY <2>1, <2>3, <3>1, FS_RemoveElement, FS_EmptySet
    <3>3. n \in 1 .. N /\ n \in Nat /\ n - 1 \in 0 .. N
      BY <1>1, <2>1, <3>2
    <3>4. f[n - 1] \in [Parts -> Int] /\ f[n] = step[<<f[n - 1], n>>]
      BY <3>3, <1>6
    <3>. DEFINE g == f[n - 1]
    <3>5. f[n][s] = v[pick(s)] + g[t]
      <4>1. g \in [Parts -> Int] /\ f[n] = step[<<g, n>>] /\ n \in Nat
        BY <3>3, <3>4
      <4>. HIDE DEF g, n, t
      <4>2. step[<<g, n>>][s] = IF s = {} THEN 0 ELSE v[pick(s)] + g[s \ {pick(s)}]
        BY <4>1, <1>4
      <4>. QED  BY <4>1, <4>2, <2>3 DEF t
    <3>6. G[t] = f[n - 1][t] /\ G[s] = f[n][s]
      BY <3>1, <3>2
    <3>. HIDE DEF G, n
    <3>. QED  BY <2>3, <3>5, <3>6
  <2>. QED  BY <2>2, <2>3
<1>8. G = H
  BY <1>7
<1>. QED  BY <1>8 DEF Sums, pick

\* v gives every element of Whole a number.
Quantities(v, Whole) == v \in [Whole -> Int]

\* sums holds the sum of v over the parts of Whole, and the one over Whole is v's.
SumsUp(sums, v, Whole) ==
    /\ sums \in [SUBSET Whole -> Int] /\ SumFunction(v) = sums[Whole] /\ sums[{}] = 0
    /\ \A s \in SUBSET Whole : s # {} =>
         sums[s] = v[CHOOSE x \in s : TRUE] + sums[s \ {CHOOSE x \in s : TRUE}]

\* SumFunction returns the sum over the whole set.
LEMMA SumIsSums ==
    ASSUME NEW Whole, IsFiniteSet(Whole), NEW v, Quantities(v, Whole)
    PROVE  \E sums : SumsUp(sums, v, Whole)
<1>. v \in [Whole -> Int]
  BY DEF Quantities
<1>. DEFINE G == CHOOSE h : Sums(h, v)
<1>1. Sums(G, v)
  BY SumsExist
<1>2. SumFunction(v) = G[DOMAIN v]
  BY Zenon DEF SumFunction, SumFunctionOnSet, FoldFunctionOnSet, MapThenFoldSet, Sums
<1>3. DOMAIN v = Whole
  OBVIOUS
<1>. HIDE DEF G
<1>4. /\ DOMAIN G = SUBSET Whole
      /\ \A s \in SUBSET Whole :
           G[s] = IF s = {} THEN 0 ELSE v[CHOOSE x \in s : TRUE] + G[s \ {CHOOSE x \in s : TRUE}]
      /\ G = [s \in SUBSET Whole |-> G[s]]
  BY <1>1, <1>3 DEF Sums
<1>. DEFINE T == {s \in SUBSET Whole : G[s] \in Int}
<1>0. {} \in SUBSET Whole /\ G[{}] = 0
  BY <1>4
<1>5. {} \in T
  BY <1>0
<1>6. ASSUME NEW s \in SUBSET Whole, s # {}, s \ {CHOOSE x \in s : TRUE} \in T PROVE s \in T
  <2>. DEFINE x == CHOOSE y \in s : TRUE
  <2>1. x \in Whole /\ G[s \ {x}] \in Int
    BY <1>6
  <2>2. G[s] = v[x] + G[s \ {x}]
    BY <1>4, <1>6
  <2>. HIDE DEF x
  <2>. QED  BY <2>1, <2>2
<1>. HIDE DEF T
<1>7. SUBSET Whole \subseteq T
  BY <1>5, <1>6, InductionOnParts
<1>8. G \in [SUBSET Whole -> Int]
  BY <1>4, <1>7 DEF T
<1>9. G[{}] = 0
  BY <1>0
<1>10. \A s \in SUBSET Whole : s # {} =>
         G[s] = v[CHOOSE x \in s : TRUE] + G[s \ {CHOOSE x \in s : TRUE}]
  BY <1>4
<1>11. SumsUp(G, v, Whole)
  BY <1>2, <1>3, <1>8, <1>9, <1>10 DEF SumsUp
<1>. QED  BY <1>11

\* A sum of integers is an integer.
LEMMA SumType ==
    ASSUME NEW Whole, IsFiniteSet(Whole), NEW v, Quantities(v, Whole)
    PROVE  SumFunction(v) \in Int
<1>1. PICK V : SumsUp(V, v, Whole)
  BY SumIsSums
<1>. QED  BY <1>1 DEF SumsUp

\* w is a linear combination of u and v.
Combines(w, a, u, b, v, Whole) == \A x \in Whole : w[x] = a * u[x] + b * v[x]

\* The sum of a linear combination is that of the sums.
LEMMA SumOfTwo ==
    ASSUME NEW Whole, IsFiniteSet(Whole), NEW u, Quantities(u, Whole), NEW v, Quantities(v, Whole),
           NEW w, Quantities(w, Whole), NEW a \in Int, NEW b \in Int,
           Combines(w, a, u, b, v, Whole)
    PROVE  SumFunction(w) = a * SumFunction(u) + b * SumFunction(v)
<1>00. \A x \in Whole : w[x] = a * u[x] + b * v[x]
  BY DEF Combines
<1>1. PICK U : SumsUp(U, u, Whole)
  BY SumIsSums
<1>2. PICK V : SumsUp(V, v, Whole)
  BY SumIsSums
<1>3. PICK W : SumsUp(W, w, Whole)
  BY SumIsSums
<1>0. /\ U \in [SUBSET Whole -> Int] /\ V \in [SUBSET Whole -> Int] /\ W \in [SUBSET Whole -> Int]
      /\ u \in [Whole -> Int] /\ v \in [Whole -> Int]
  BY <1>1, <1>2, <1>3 DEF SumsUp, Quantities
<1>. DEFINE T == {s \in SUBSET Whole : W[s] = a * U[s] + b * V[s]}
<1>4. {} \in T
  <2>1. W[{}] = 0 /\ U[{}] = 0 /\ V[{}] = 0 /\ a * 0 + b * 0 = 0
    BY <1>1, <1>2, <1>3 DEF SumsUp
  <2>. QED  BY <2>1
<1>5. ASSUME NEW s \in SUBSET Whole, s # {}, s \ {CHOOSE x \in s : TRUE} \in T PROVE s \in T
  <2>. DEFINE x == CHOOSE y \in s : TRUE
              t == s \ {x}
  <2>1. x \in Whole /\ t \in SUBSET Whole /\ W[t] = a * U[t] + b * V[t]
    BY <1>5
  <2>2. U[s] = u[x] + U[t] /\ V[s] = v[x] + V[t] /\ W[s] = w[x] + W[t]
    BY <1>1, <1>2, <1>3, <1>5 DEF SumsUp
  <2>. HIDE DEF x, t
  <2>3. w[x] = a * u[x] + b * v[x] /\ u[x] \in Int /\ v[x] \in Int /\ U[t] \in Int /\ V[t] \in Int
    BY <2>1, <1>0, <1>00
  <2>4. a * u[x] + b * v[x] + (a * U[t] + b * V[t]) = a * (u[x] + U[t]) + b * (v[x] + V[t])
    BY <2>3
  <2>5. W[s] = a * U[s] + b * V[s]
    BY <2>1, <2>2, <2>3, <2>4
  <2>. QED  BY <2>5
<1>. HIDE DEF T
<1>6. SUBSET Whole \subseteq T
  BY <1>4, <1>5, InductionOnParts
<1>7. Whole \in T
  BY <1>6
<1>. QED  BY <1>1, <1>2, <1>3, <1>7 DEF T, SumsUp

\* A sum lies between the number of values times the least and times the greatest.
LEMMA SumBounds ==
    ASSUME NEW Whole, IsFiniteSet(Whole), NEW v, Quantities(v, Whole), NEW lo \in Int, NEW hi \in Int,
           \A x \in Whole : lo <= v[x] /\ v[x] <= hi
    PROVE  /\ lo * Cardinality(Whole) <= SumFunction(v)
           /\ SumFunction(v) <= hi * Cardinality(Whole)
<1>1. PICK V : SumsUp(V, v, Whole)
  BY SumIsSums
<1>0. V \in [SUBSET Whole -> Int] /\ v \in [Whole -> Int]
  BY <1>1 DEF SumsUp, Quantities
<1>. DEFINE T == {s \in SUBSET Whole : lo * Cardinality(s) <= V[s] /\ V[s] <= hi * Cardinality(s)}
<1>4. {} \in T
  <2>1. V[{}] = 0 /\ Cardinality({}) = 0 /\ lo * 0 = 0 /\ hi * 0 = 0
    BY <1>1, FS_EmptySet DEF SumsUp
  <2>. QED  BY <2>1
<1>5. ASSUME NEW s \in SUBSET Whole, s # {}, s \ {CHOOSE x \in s : TRUE} \in T PROVE s \in T
  <2>. DEFINE x == CHOOSE y \in s : TRUE
              t == s \ {x}
              n == Cardinality(t)
  <2>1. x \in s /\ x \in Whole /\ t \in SUBSET Whole /\ lo * n <= V[t] /\ V[t] <= hi * n
    BY <1>5
  <2>2. V[s] = v[x] + V[t]
    BY <1>1, <1>5 DEF SumsUp
  <2>. HIDE DEF x
  <2>3. IsFiniteSet(s) /\ IsFiniteSet(t) /\ Cardinality(s) = n + 1 /\ n \in Nat
    <3>1. IsFiniteSet(s) /\ IsFiniteSet(t)
      BY <2>1, FS_Subset
    <3>2. Cardinality(t) = Cardinality(s) - 1 /\ Cardinality(s) \in Nat /\ Cardinality(t) \in Nat
      BY <3>1, <2>1, FS_RemoveElement, FS_CardinalityType
    <3>. QED  BY <3>1, <3>2
  <2>. HIDE DEF t, n
  <2>4. v[x] \in Int /\ V[t] \in Int /\ lo <= v[x] /\ v[x] <= hi
    BY <2>1, <1>0
  <2>5. lo * (n + 1) = lo * n + lo /\ hi * (n + 1) = hi * n + hi /\ lo * n \in Int /\ hi * n \in Int
    BY <2>3
  <2>6. lo * (n + 1) <= V[s] /\ V[s] <= hi * (n + 1)
    BY <2>1, <2>2, <2>4, <2>5
  <2>. QED  BY <2>3, <2>6
<1>. HIDE DEF T
<1>6. SUBSET Whole \subseteq T
  BY <1>4, <1>5, InductionOnParts
<1>7. Whole \in T
  BY <1>6
<1>. QED  BY <1>1, <1>7 DEF T, SumsUp

\* Every value of v is a multiple of d.
Multiples(v, Whole, d) == \A x \in Whole : \E q \in Int : v[x] = d * q

\* A sum of multiples is a multiple.
LEMMA SumDivides ==
    ASSUME NEW Whole, IsFiniteSet(Whole), NEW v, Quantities(v, Whole), NEW d \in Int,
           Multiples(v, Whole, d)
    PROVE  \E q \in Int : SumFunction(v) = d * q
<1>0. \A x \in Whole : \E q \in Int : v[x] = d * q
  BY DEF Multiples
<1>1. PICK V : SumsUp(V, v, Whole)
  BY SumIsSums
<1>. DEFINE T == {s \in SUBSET Whole : \E q \in Int : V[s] = d * q}
<1>4. {} \in T
  <2>1. V[{}] = d * 0
    BY <1>1 DEF SumsUp
  <2>. QED  BY <2>1
<1>5. ASSUME NEW s \in SUBSET Whole, s # {}, s \ {CHOOSE x \in s : TRUE} \in T PROVE s \in T
  <2>. DEFINE x == CHOOSE y \in s : TRUE
              t == s \ {x}
  <2>1. x \in Whole /\ \E q \in Int : V[t] = d * q
    BY <1>5
  <2>2. V[s] = v[x] + V[t]
    BY <1>1, <1>5 DEF SumsUp
  <2>. HIDE DEF x, t
  <2>3. PICK q \in Int : V[t] = d * q
    BY <2>1
  <2>4. PICK p \in Int : v[x] = d * p
    BY <1>0, <2>1
  <2>5. d * p + d * q = d * (p + q) /\ p + q \in Int
    OBVIOUS
  <2>6. V[s] = d * (p + q)
    BY <2>2, <2>3, <2>4, <2>5
  <2>. QED  BY <2>5, <2>6
<1>. HIDE DEF T
<1>6. SUBSET Whole \subseteq T
  BY <1>4, <1>5, InductionOnParts
<1>7. Whole \in T
  BY <1>6
<1>. QED  BY <1>1, <1>7 DEF T, SumsUp

\* A finite set of integers that is not empty has a least and a greatest element.
LEMMA MinMax ==
    ASSUME NEW Whole, IsFiniteSet(Whole), Whole \subseteq Int, Whole # {}
    PROVE  /\ Min(Whole) \in Whole /\ \A x \in Whole : Min(Whole) <= x
           /\ Max(Whole) \in Whole /\ \A x \in Whole : x <= Max(Whole)
<1>. DEFINE Ends(s) == /\ \E m \in s : \A y \in s : m <= y
                       /\ \E m \in s : \A y \in s : m >= y
            T == {s \in SUBSET Whole : s # {} => Ends(s)}
<1>4. {} \in T
  OBVIOUS
<1>5. ASSUME NEW s \in SUBSET Whole, s # {}, s \ {CHOOSE x \in s : TRUE} \in T PROVE s \in T
  <2>. DEFINE x == CHOOSE y \in s : TRUE
              t == s \ {x}
  <2>1. x \in s /\ x \in Int /\ (t # {} => Ends(t))
    BY <1>5
  <2>2. s = t \cup {x} /\ t \subseteq Int
    BY <2>1
  <2>. HIDE DEF x, t
  <2>3. CASE t = {}
    BY <2>1, <2>2, <2>3
  <2>4. CASE t # {}
    <3>1. PICK m \in t : \A y \in t : m <= y
      BY <2>1, <2>4
    <3>2. PICK k \in t : \A y \in t : k >= y
      BY <2>1, <2>4
    <3>3. \E z \in s : \A y \in s : z <= y
      <4>1. CASE m <= x
        BY <4>1, <3>1, <2>1, <2>2
      <4>2. CASE x <= m
        <5>1. \A y \in s : x <= y
          BY <4>2, <3>1, <2>1, <2>2
        <5>. QED  BY <5>1, <2>1
      <4>. QED  BY <4>1, <4>2, <2>1, <2>2
    <3>4. \E z \in s : \A y \in s : z >= y
      <4>1. CASE k >= x
        BY <4>1, <3>2, <2>1, <2>2
      <4>2. CASE x >= k
        <5>1. \A y \in s : x >= y
          BY <4>2, <3>2, <2>1, <2>2
        <5>. QED  BY <5>1, <2>1
      <4>. QED  BY <4>1, <4>2, <2>1, <2>2
    <3>. QED  BY <3>3, <3>4
  <2>. QED  BY <2>3, <2>4
<1>. HIDE DEF T
<1>6. SUBSET Whole \subseteq T
  BY <1>4, <1>5, InductionOnParts
<1>7. Ends(Whole)
  BY <1>6 DEF T
<1>8. /\ Min(Whole) \in Whole /\ \A y \in Whole : Min(Whole) <= y
  BY <1>7 DEF Min
<1>9. /\ Max(Whole) \in Whole /\ \A y \in Whole : Max(Whole) >= y
  BY <1>7 DEF Max
<1>. QED  BY <1>8, <1>9

\* The values of a function on a finite set are finitely many.
LEMMA FiniteImage ==
    ASSUME NEW Whole, IsFiniteSet(Whole), NEW f, DOMAIN f = Whole
    PROVE  IsFiniteSet({f[x] : x \in Whole})
<1>. DEFINE T == {f[x] : x \in Whole}
            g == [x \in Whole |-> f[x]]
<1>1. g \in Surjection(Whole, T)
  BY DEF Surjection
<1>. HIDE DEF g, T
<1>2. IsFiniteSet(T)
  BY <1>1, FS_Surjection
<1>. QED  BY <1>2 DEF T

\* A multiple is divided without a rest.
LEMMA DivisionIsExact ==
    ASSUME NEW d \in Nat \ {0}, NEW x \in Int
    PROVE  (d * x) \div d = x
OBVIOUS

\* A positive factor of both sides of an inequality can be dropped.
LEMMA FactorCancels ==
    ASSUME NEW n \in Nat \ {0}, NEW x \in Int, NEW y \in Int
    PROVE  /\ y * n <= n * x => y <= x
           /\ n * x <= y * n => x <= y
<1>1. y > x => y * n > n * x
  <2>. SUFFICES ASSUME y > x PROVE y * n > n * x
    OBVIOUS
  <2>1. (y - x) * n >= 1 * n
    OBVIOUS
  <2>2. (y - x) * n = y * n - n * x
    OBVIOUS
  <2>. QED  BY <2>1, <2>2
<1>2. x > y => n * x > y * n
  <2>. SUFFICES ASSUME x > y PROVE n * x > y * n
    OBVIOUS
  <2>1. (x - y) * n >= 1 * n
    OBVIOUS
  <2>2. (x - y) * n = n * x - y * n
    OBVIOUS
  <2>. QED  BY <2>1, <2>2
<1>. QED  BY <1>1, <1>2

\* The mean is exact where every value is a multiple of the number of values.
LEMMA MeanIsExact ==
    ASSUME NEW Whole, IsFiniteSet(Whole), Whole # {}, NEW v, Quantities(v, Whole),
           Multiples(v, Whole, Cardinality(Whole))
    PROVE  /\ SumFunction(v) \div Cardinality(Whole) \in Int
           /\ SumFunction(v) = Cardinality(Whole) * (SumFunction(v) \div Cardinality(Whole))
<1>. DEFINE n == Cardinality(Whole)
<1>1. n \in Nat \ {0}
  BY FS_CardinalityType, FS_EmptySet
<1>. HIDE DEF n
<1>2. Multiples(v, Whole, n)
  BY DEF n
<1>3. PICK q \in Int : SumFunction(v) = n * q
  BY <1>1, <1>2, SumDivides
<1>4. (n * q) \div n = q
  BY <1>1, DivisionIsExact
<1>. QED  BY <1>3, <1>4 DEF n
=============================================================================
