----------------------------- MODULE FoldProofs -----------------------------
(***************************************************************************)
(* What the library's folds and the operators of Sorting compute.  The     *)
(* models fold over the documents of a stream, as the loops of the program *)
(* do, and the properties say what should come out with sums over sets.    *)
(* The first lemmas replace both by a function G on subsets or prefixes    *)
(* that obeys the recursion: that such a function exists has to be shown,  *)
(* because the library chooses one.  Induction is stated with sets, not    *)
(* with predicates, and rests on the library's theorem that < is well-     *)
(* founded on the naturals.                                                *)
(***************************************************************************)
EXTENDS Sorting, SequencesExt, FiniteSetTheorems, WellFoundedInduction, TLAPS

-----------------------------------------------------------------------------
(* Induction.                                                              *)

\* A non-empty set of naturals has a least element.
LEMMA LeastNumber ==
    ASSUME NEW S \in SUBSET Nat, S # {}
    PROVE  \E n \in S : \A m \in S : n <= m
<1> DEFINE R == OpToRel(<, Nat)
<1>1. IsWellFoundedOn(R, Nat)
  BY NatLessThanWellFounded
<1>2. \A x, y \in Nat : x < y => <<x, y>> \in R
  BY DEF OpToRel
<1> HIDE DEF R
<1>3. PICK n \in S : \A m \in S : ~(<<m, n>> \in R)
  BY <1>1, WFMin
<1>4. ASSUME NEW m \in S
      PROVE  n <= m
  <2>1. m \in Nat /\ n \in Nat
    OBVIOUS
  <2>2. ~(m < n)
    BY <1>2, <1>3, <2>1
  <2> QED
    BY <2>1, <2>2
<1> QED
  BY <1>4

\* Induction: a set of naturals that has 0 and is closed under successor has all.
LEMMA Induction ==
    ASSUME NEW S \in SUBSET Nat, 0 \in S, \A n \in S : n + 1 \in S
    PROVE  S = Nat
<1> SUFFICES ASSUME S # Nat
             PROVE  FALSE
  OBVIOUS
<1> DEFINE T == Nat \ S
<1>1. PICK n \in T : \A m \in T : n <= m
  BY LeastNumber
<1>2. n - 1 \in Nat /\ n # 0
  BY <1>1
<1>3. n - 1 \in S
  BY <1>1, <1>2
<1> QED
  BY <1>1, <1>3

\* P has the empty set and each subset of S if it has it less some element.
Grows(P, S) ==
    /\ P \in SUBSET (SUBSET S) /\ {} \in P
    /\ \A T \in SUBSET S : T # {} => \E x \in T : (T \ {x} \in P => T \in P)

\* Induction over the subsets of a finite set.
LEMMA SubsetInduction ==
    ASSUME NEW S, IsFiniteSet(S), NEW P, Grows(P, S)
    PROVE  P = SUBSET S
<1> USE DEF Grows
<1> DEFINE N == {n \in Nat : \A T \in SUBSET S : Cardinality(T) = n => T \in P}
<1>1. \A T \in SUBSET S : IsFiniteSet(T) /\ Cardinality(T) \in Nat
                          /\ (Cardinality(T) = 0 <=> T = {})
  BY FS_Subset, FS_CardinalityType, FS_EmptySet
<1>2. \A T \in SUBSET S : \A x \in T :
        /\ T \ {x} \in SUBSET S
        /\ Cardinality(T \ {x}) = Cardinality(T) - 1
  BY <1>1, FS_RemoveElement
<1>3. 0 \in N
  BY <1>1
<1>4. ASSUME NEW n \in N
      PROVE  n + 1 \in N
  <2>1. n \in Nat /\ n + 1 \in Nat
    OBVIOUS
  <2>2. ASSUME NEW T \in SUBSET S, Cardinality(T) = n + 1
        PROVE  T \in P
    <3>1. T # {}
      BY <1>1, <2>1, <2>2
    <3>2. PICK x \in T : T \ {x} \in P => T \in P
      BY <3>1
    <3>3. T \ {x} \in SUBSET S /\ Cardinality(T \ {x}) = n
      BY <1>2, <2>1, <2>2
    <3> QED
      BY <3>2, <3>3
  <2> QED
    BY <2>1, <2>2
<1>5. N = Nat
  <2> HIDE DEF N
  <2>1. N \in SUBSET Nat
    BY DEF N
  <2> QED
    BY <1>3, <1>4, <2>1, Induction
<1> QED
  BY <1>1, <1>5

-----------------------------------------------------------------------------
(* Folds over the subsets of a finite set.                                 *)

\* C chooses an element of each non-empty subset.
Picks(C, S) == \A T \in SUBSET S : T # {} => C[T] \in T

\* G is the fold of Op over the elements in the order in which C chooses them.
IsFold(G, S, base, C, Op) ==
    \A T \in SUBSET S :
      G[T] = IF T = {} THEN base ELSE Op[<<C[T], G[T \ {C[T]}]>>]

\* Such a function exists if S is finite.
LEMMA FoldExists ==
    ASSUME NEW S, IsFiniteSet(S), NEW V, NEW base \in V,
           NEW C, Picks(C, S), NEW Op \in [S \X V -> V]
    PROVE  \E G \in [SUBSET S -> V] : IsFold(G, S, base, C, Op)
<1> USE DEF Picks, IsFold
<1> DEFINE Small(n) == {T \in SUBSET S : Cardinality(T) <= n}
           Folds(G, n) == \A T \in Small(n) :
             G[T] = IF T = {} THEN base ELSE Op[<<C[T], G[T \ {C[T]}]>>]
           N == {n \in Nat : \E G \in [Small(n) -> V] : Folds(G, n)}
<1>1. \A T \in SUBSET S : IsFiniteSet(T) /\ Cardinality(T) \in Nat
                          /\ (Cardinality(T) = 0 <=> T = {})
  BY FS_Subset, FS_CardinalityType, FS_EmptySet
<1>2. \A T \in SUBSET S : T # {} =>
        /\ T \ {C[T]} \in SUBSET S
        /\ Cardinality(T \ {C[T]}) = Cardinality(T) - 1
        /\ C[T] \in S
  BY <1>1, FS_RemoveElement
<1>3. 0 \in N
  <2>1. Small(0) = {{}}
    BY <1>1
  <2>2. [T \in Small(0) |-> base] \in [Small(0) -> V]
    OBVIOUS
  <2>3. Folds([T \in Small(0) |-> base], 0)
    BY <2>1
  <2> QED
    BY <2>2, <2>3
<1>4. ASSUME NEW n \in N
      PROVE  n + 1 \in N
  <2>1. n \in Nat /\ n + 1 \in Nat
    OBVIOUS
  <2>2. PICK G \in [Small(n) -> V] : Folds(G, n)
    OBVIOUS
  <2> DEFINE H == [T \in Small(n + 1) |->
                     IF T \in Small(n) THEN G[T] ELSE Op[<<C[T], G[T \ {C[T]}]>>]]
  <2>3. \A T \in Small(n + 1) : T # {} => T \ {C[T]} \in Small(n) /\ C[T] \in S
    BY <1>1, <1>2, <2>1
  <2>4. \A T \in Small(n) : T \in Small(n + 1)
    BY <1>1, <2>1
  <2>5. {} \in Small(n)
    BY <1>1, <2>1
  <2> HIDE DEF Small
  <2>6. H \in [Small(n + 1) -> V]
    <3>1. ASSUME NEW T \in Small(n + 1), T \notin Small(n)
          PROVE  Op[<<C[T], G[T \ {C[T]}]>>] \in V
      <4>1. T # {}
        BY <2>5, <3>1
      <4> QED
        BY <2>3, <4>1
    <3> QED
      BY <3>1
  <2>7. Folds(H, n + 1)
    <3> SUFFICES ASSUME NEW T \in Small(n + 1)
                 PROVE  H[T] = IF T = {} THEN base ELSE Op[<<C[T], H[T \ {C[T]}]>>]
      OBVIOUS
    <3>1. CASE T = {}
      BY <3>1, <2>2, <2>4, <2>5
    <3>2. CASE T # {}
      <4>1. T \ {C[T]} \in Small(n) /\ T \ {C[T]} \in Small(n + 1)
        BY <2>3, <2>4, <3>2
      <4>2. H[T \ {C[T]}] = G[T \ {C[T]}]
        BY <4>1
      <4>3. H[T] = Op[<<C[T], G[T \ {C[T]}]>>]
        BY <2>2, <3>2
      <4> QED
        BY <3>2, <4>2, <4>3
    <3> QED
      BY <3>1, <3>2
  <2> QED
    BY <2>1, <2>6, <2>7
<1>5. N = Nat
  <2> HIDE DEF N
  <2>1. N \in SUBSET Nat
    BY DEF N
  <2> QED
    BY <1>3, <1>4, <2>1, Induction
<1>6. Cardinality(S) \in Nat /\ Small(Cardinality(S)) = SUBSET S
  BY FS_Subset, FS_CardinalityType
<1>7. Cardinality(S) \in N
  BY <1>5, <1>6
<1> QED
  BY <1>6, <1>7

-----------------------------------------------------------------------------
(* Sums.                                                                   *)

\* G is the sum of f over the subsets of S: taken in the order of C,
SumsAlong(G, S, f, C) ==
    \A T \in SUBSET S :
      G[T] = IF T = {} THEN 0 ELSE f[C[T]] + G[T \ {C[T]}]

\* and in any order.
Sums(G, S, f) == \A T \in SUBSET S : \A x \in T : G[T] = f[x] + G[T \ {x}]

\* The order does not matter: any element may be taken out of a sum.
LEMMA SumLaw ==
    ASSUME NEW S, IsFiniteSet(S), NEW f \in [S -> Int],
           NEW C, Picks(C, S), NEW G \in [SUBSET S -> Int], SumsAlong(G, S, f, C)
    PROVE  Sums(G, S, f)
<1> USE DEF Picks, SumsAlong, Sums
<1> DEFINE Law(T) == \A x \in T : G[T] = f[x] + G[T \ {x}]
           N == {n \in Nat : \A T \in SUBSET S : Cardinality(T) = n => Law(T)}
<1>1. \A T \in SUBSET S : IsFiniteSet(T) /\ Cardinality(T) \in Nat
                          /\ (Cardinality(T) = 0 <=> T = {})
  BY FS_Subset, FS_CardinalityType, FS_EmptySet
<1>2. \A T \in SUBSET S : \A x \in T :
        /\ T \ {x} \in SUBSET S
        /\ Cardinality(T \ {x}) = Cardinality(T) - 1
  BY <1>1, FS_RemoveElement
<1>3. 0 \in N
  BY <1>1
<1>4. ASSUME NEW n \in N
      PROVE  n + 1 \in N
  <2>1. n \in Nat /\ n + 1 \in Nat
    OBVIOUS
  <2>2. ASSUME NEW T \in SUBSET S, Cardinality(T) = n + 1, NEW x \in T
        PROVE  G[T] = f[x] + G[T \ {x}]
    <3> DEFINE y == C[T]
    <3>1. y \in T /\ y \in S /\ x \in S
      BY <2>2
    <3>2. G[T] = f[y] + G[T \ {y}]
      BY <2>2
    <3>3. CASE x = y
      BY <3>2, <3>3
    <3>4. CASE x # y
      <4> HIDE DEF y
      <4>1. /\ T \ {y} \in SUBSET S /\ Cardinality(T \ {y}) = n
            /\ T \ {x} \in SUBSET S /\ Cardinality(T \ {x}) = n
        BY <1>2, <2>1, <2>2, <3>1
      <4>2. Law(T \ {y}) /\ Law(T \ {x})
        BY <4>1
      <4>3. x \in T \ {y} /\ y \in T \ {x}
        BY <3>1, <3>4
      <4>4. G[T \ {y}] = f[x] + G[(T \ {y}) \ {x}]
        BY <4>2, <4>3
      <4>5. G[T \ {x}] = f[y] + G[(T \ {x}) \ {y}]
        BY <4>2, <4>3
      <4>6. (T \ {y}) \ {x} = (T \ {x}) \ {y}
        OBVIOUS
      <4> DEFINE rest == G[(T \ {x}) \ {y}]
      <4>7. rest \in Int /\ f[x] \in Int /\ f[y] \in Int
        BY <3>1
      <4>8. G[T \ {y}] = f[x] + rest /\ G[T \ {x}] = f[y] + rest
        BY <4>4, <4>5, <4>6
      <4> HIDE DEF rest
      <4> QED
        BY <3>2, <4>7, <4>8
    <3> QED
      BY <3>3, <3>4
  <2> QED
    BY <2>1, <2>2
<1>5. N = Nat
  <2> HIDE DEF N
  <2>1. N \in SUBSET Nat
    BY DEF N
  <2> QED
    BY <1>3, <1>4, <2>1, Induction
<1> QED
  BY <1>1, <1>5

\* MapThenSumSet of a function to the integers is such a sum.
LEMMA SumSetIs ==
    ASSUME NEW S, IsFiniteSet(S), NEW f \in [S -> Int]
    PROVE  \E G \in [SUBSET S -> Int] :
             /\ MapThenSumSet(LAMBDA i : f[i], S) = G[S]
             /\ G[{}] = 0
             /\ Sums(G, S, f)
<1> DEFINE C  == [T \in SUBSET S |-> CHOOSE x \in T : TRUE]
           Op == [p \in S \X Int |-> f[p[1]] + p[2]]
           Body(g) == [s \in SUBSET S |->
                         IF s = {} THEN 0
                         ELSE f[CHOOSE x \in s : TRUE] + g[s \ {CHOOSE x \in s : TRUE}]]
           iter == CHOOSE g : g = Body(g)
<1>1. Picks(C, S)
  BY DEF Picks
<1>2. Op \in [S \X Int -> Int]
  OBVIOUS
<1>3. PICK G \in [SUBSET S -> Int] : IsFold(G, S, 0, C, Op)
  <2>1. 0 \in Int
    OBVIOUS
  <2> HIDE DEF C, Op
  <2> QED
    BY <1>1, <1>2, <2>1, FoldExists
<1>4. \A T \in SUBSET S : T # {} =>
        Op[<<C[T], G[T \ {C[T]}]>>] = f[C[T]] + G[T \ {C[T]}]
  <2> SUFFICES ASSUME NEW T \in SUBSET S, T # {}
               PROVE  Op[<<C[T], G[T \ {C[T]}]>>] = f[C[T]] + G[T \ {C[T]}]
    OBVIOUS
  <2>1. C[T] \in S /\ G[T \ {C[T]}] \in Int
    BY <1>1 DEF Picks
  <2>2. <<C[T], G[T \ {C[T]}]>> \in S \X Int
    BY <2>1
  <2> HIDE DEF C
  <2> QED
    BY <2>2
<1>5. G = Body(G)
  BY <1>3, <1>4 DEF IsFold
<1>6. iter = Body(iter)
  <2> HIDE DEF Body
  <2> QED
    BY <1>5
<1>7. MapThenSumSet(LAMBDA i : f[i], S) = iter[S]
  BY DEF MapThenSumSet, MapThenFoldSet
<1>8. \A T \in SUBSET S : iter[T] = G[T]
  <2> DEFINE P == {T \in SUBSET S : iter[T] = G[T]}
  <2>1. {} \in P
    BY <1>3, <1>6 DEF IsFold
  <2>2. ASSUME NEW T \in SUBSET S, T # {}, T \ {C[T]} \in P
        PROVE  T \in P
    <3> HIDE DEF iter
    <3>1. iter[T] = f[C[T]] + iter[T \ {C[T]}]
      BY <1>6, <2>2
    <3>2. G[T] = f[C[T]] + G[T \ {C[T]}]
      BY <1>3, <1>4, <2>2 DEF IsFold
    <3> QED
      BY <2>2, <3>1, <3>2
  <2>3. \A T \in SUBSET S : T # {} => \E x \in T : (T \ {x} \in P => T \in P)
    BY <1>1, <2>2 DEF Picks
  <2> HIDE DEF P
  <2>4. Grows(P, S)
    BY <2>1, <2>3 DEF P, Grows
  <2>5. P = SUBSET S
    BY <2>4, SubsetInduction
  <2> QED
    BY <2>5 DEF P
<1>9. Sums(G, S, f) /\ G[{}] = 0
  <2>1. SumsAlong(G, S, f, C)
    BY <1>3, <1>4 DEF IsFold, SumsAlong
  <2>2. G[{}] = 0
    BY <1>3 DEF IsFold
  <2> HIDE DEF C
  <2> QED
    BY <1>1, <2>1, <2>2, SumLaw
<1> HIDE DEF iter
<1> QED
  BY <1>7, <1>8, <1>9

-----------------------------------------------------------------------------
(* Folds over a sequence.                                                  *)

\* Max is the largest element.
LEMMA LargestOf ==
    ASSUME NEW n \in Nat, NEW T \in SUBSET (1..n), T # {}
    PROVE  Max(T) \in T /\ \A x \in T : x <= Max(T)
<1> DEFINE S == {n - x : x \in T}
<1>1. S \in SUBSET Nat /\ S # {}
  <2>1. PICK x \in T : TRUE
    OBVIOUS
  <2>2. n - x \in S
    OBVIOUS
  <2>3. \A y \in T : n - y \in Nat
    OBVIOUS
  <2> QED
    BY <2>2, <2>3
<1>2. PICK m \in S : \A k \in S : m <= k
  BY <1>1, LeastNumber
<1>3. PICK y \in T : m = n - y
  OBVIOUS
<1>4. \A x \in T : y >= x
  <2> SUFFICES ASSUME NEW x \in T
               PROVE  y >= x
    OBVIOUS
  <2>1. n - x \in S /\ x \in Int /\ y \in Int
    OBVIOUS
  <2>2. n - y <= n - x
    BY <1>2, <1>3, <2>1
  <2> QED
    BY <2>1, <2>2
<1>5. Max(T) \in T /\ \A x \in T : Max(T) >= x
  BY <1>3, <1>4 DEF Max
<1> QED
  BY <1>5

\* The choice that FoldLeft makes.
Largest(n) == [T \in SUBSET (1..n) |-> Max(T)]

\* FoldLeft takes the largest index first: there is a function that does.
LEMMA PrefixFoldExists ==
    ASSUME NEW n \in Nat, NEW V, NEW base \in V, NEW Op \in [(1..n) \X V -> V]
    PROVE  \E G \in [SUBSET (1..n) -> V] : IsFold(G, 1..n, base, Largest(n), Op)
<1>1. Picks(Largest(n), 1..n)
  BY LargestOf DEF Picks, Largest
<1>2. IsFiniteSet(1..n)
  BY FS_Interval
<1> QED
  BY <1>1, <1>2, FoldExists

\* The sets of indices that FoldLeft's recursion passes through are the prefixes.
LEMMA Segments ==
    ASSUME NEW n \in Nat, NEW i \in 0..n
    PROVE  /\ 1..0 = {} /\ (1..i) \in SUBSET (1..n)
           /\ i # 0 => /\ (1..i) # {} /\ Max(1..i) = i /\ (1..i) \ {i} = 1..(i - 1)
                       /\ Largest(n)[1..i] = i
<1>1. 1..0 = {} /\ (1..i) \in SUBSET (1..n)
  OBVIOUS
<1>2. ASSUME i # 0
      PROVE  /\ (1..i) # {} /\ Max(1..i) = i /\ (1..i) \ {i} = 1..(i - 1)
             /\ Largest(n)[1..i] = i
  <2>1. i \in 1..i /\ (1..i) \ {i} = 1..(i - 1)
    BY <1>2
  <2>2. Max(1..i) \in 1..i /\ i <= Max(1..i)
    BY <2>1, <1>1, LargestOf
  <2>3. Max(1..i) = i
    BY <2>2
  <2> QED
    BY <1>1, <2>1, <2>3 DEF Largest
<1> QED
  BY <1>1, <1>2

\* G[n] is the sequence that the first n sequences make, put together one by one.
Flattens(G, n, seqs) ==
    /\ FlattenSeq(seqs) = G[n]
    /\ G[1] = seqs[1]
    /\ \A i \in 2..n : G[i] = G[i - 1] \o seqs[i]

\* FlattenSeq appends one sequence after the other.
LEMMA FlattenIs ==
    ASSUME NEW D, NEW n \in Nat \ {0}, NEW seqs \in [1..n -> Seq(D)]
    PROVE  \E G \in [1..n -> Seq(D)] : Flattens(G, n, seqs)
<1> DEFINE V == Seq(D)
           Op == [p \in (1..n) \X V |-> IF p[1] = 1 THEN seqs[1] ELSE p[2] \o seqs[p[1]]]
           Body(g) == [i \in 1..n |-> IF i = 1 THEN seqs[i] ELSE g[i - 1] \o seqs[i]]
           flatten == CHOOSE g : g = Body(g)
<1>1. << >> \in V /\ Op \in [(1..n) \X V -> V]
  <2>1. ASSUME NEW p \in (1..n) \X V
        PROVE  (IF p[1] = 1 THEN seqs[1] ELSE p[2] \o seqs[p[1]]) \in V
    OBVIOUS
  <2> QED
    BY <2>1
<1>2. PICK F \in [SUBSET (1..n) -> V] : IsFold(F, 1..n, << >>, Largest(n), Op)
  <2> HIDE DEF V, Op
  <2> QED
    BY <1>1, PrefixFoldExists
<1> DEFINE G == [i \in 1..n |-> F[1..i]]
<1>3. \A i \in 1..n : /\ G[i] \in V
                      /\ G[i] = IF i = 1 THEN seqs[i] ELSE F[1..(i - 1)] \o seqs[i]
  <2> SUFFICES ASSUME NEW i \in 1..n
               PROVE  /\ F[1..i] \in V
                      /\ F[1..i] = IF i = 1 THEN seqs[i] ELSE F[1..(i - 1)] \o seqs[i]
    OBVIOUS
  <2>1. /\ (1..i) \in SUBSET (1..n) /\ (1..i) # {} /\ Largest(n)[1..i] = i
        /\ (1..i) \ {i} = 1..(i - 1) /\ (1..(i - 1)) \in SUBSET (1..n)
    BY Segments
  <2>2. F[1..i] = Op[<<i, F[1..(i - 1)]>>]
    <3> HIDE DEF Op
    <3> QED
      BY <1>2, <2>1 DEF IsFold
  <2>3. <<i, F[1..(i - 1)]>> \in (1..n) \X V
    BY <2>1
  <2>4. Op[<<i, F[1..(i - 1)]>>] = IF i = 1 THEN seqs[i] ELSE F[1..(i - 1)] \o seqs[i]
    BY <2>3
  <2> QED
    BY <2>1, <2>2, <2>4
<1>4. G = Body(G)
  <2>1. \A i \in 1..n : i # 1 => i - 1 \in 1..n
    OBVIOUS
  <2> QED
    BY <1>3, <2>1
<1>5. flatten = Body(flatten)
  <2> HIDE DEF Body
  <2> QED
    BY <1>4
<1>6. FlattenSeq(seqs) = flatten[n]
  <2>1. seqs \in Seq(Seq(D)) /\ Len(seqs) = n /\ n # 0
    OBVIOUS
  <2> QED
    BY <2>1 DEF FlattenSeq
<1>7. \A i \in 1..n : flatten[i] = G[i]
  <2> DEFINE N == {i \in Nat : i + 1 \in 1..n => flatten[i + 1] = G[i + 1]}
  <2>1. 0 \in N
    <3>1. 1 \in 1..n
      OBVIOUS
    <3> HIDE DEF flatten, G
    <3>2. flatten[1] = seqs[1]
      BY <1>5, <3>1
    <3>3. G[1] = seqs[1]
      BY <1>4, <3>1
    <3> QED
      BY <3>2, <3>3
  <2>2. ASSUME NEW i \in N
        PROVE  i + 1 \in N
    <3> HIDE DEF flatten
    <3> SUFFICES ASSUME (i + 1) + 1 \in 1..n
                 PROVE  flatten[(i + 1) + 1] = G[(i + 1) + 1]
      OBVIOUS
    <3>1. i + 1 \in 1..n /\ (i + 1) + 1 # 1 /\ ((i + 1) + 1) - 1 = i + 1
      OBVIOUS
    <3>2. flatten[(i + 1) + 1] = flatten[i + 1] \o seqs[(i + 1) + 1]
      BY <1>5, <3>1
    <3>3. G[(i + 1) + 1] = G[i + 1] \o seqs[(i + 1) + 1]
      BY <1>4, <3>1
    <3> QED
      BY <3>1, <3>2, <3>3
  <2>3. N = Nat
    <3> HIDE DEF N
    <3>1. N \in SUBSET Nat
      BY DEF N
    <3> QED
      BY <2>1, <2>2, <3>1, Induction
  <2>4. \A i \in 1..n : i - 1 \in Nat /\ (i - 1) + 1 = i
    OBVIOUS
  <2> HIDE DEF flatten, G
  <2> QED
    BY <2>3, <2>4
<1> HIDE DEF flatten
<1>8. G \in [1..n -> Seq(D)] /\ FlattenSeq(seqs) = G[n] /\ G[1] = seqs[1]
  <2>1. 1 \in 1..n /\ n \in 1..n
    OBVIOUS
  <2>2. flatten[n] = G[n]
    BY <1>7, <2>1
  <2>3. G[1] = seqs[1]
    BY <1>4, <2>1
  <2> QED
    BY <1>3, <1>6, <2>2, <2>3
<1>9. \A i \in 2..n : G[i] = G[i - 1] \o seqs[i]
  <2>1. \A i \in 2..n : i \in 1..n /\ i # 1 /\ i - 1 \in 1..n
    OBVIOUS
  <2> QED
    BY <1>4, <2>1
<1> HIDE DEF G
<1> QED
  BY <1>8, <1>9 DEF Flattens

\* The sum of a set of at most one number.
LEMMA IdentitySum ==
    ASSUME NEW S \in SUBSET Int, \A x, y \in S : x = y
    PROVE  /\ MapThenSumSet(LAMBDA q : q, S) \in Int
           /\ MapThenSumSet(LAMBDA q : q, S) = IF S = {} THEN 0 ELSE CHOOSE x \in S : TRUE
<1> DEFINE f == [q \in S |-> q]
           A(g) == [s \in SUBSET S |->
                      IF s = {} THEN 0
                      ELSE (CHOOSE x \in s : TRUE) + g[s \ {CHOOSE x \in s : TRUE}]]
           B(g) == [s \in SUBSET S |->
                      IF s = {} THEN 0
                      ELSE f[CHOOSE x \in s : TRUE] + g[s \ {CHOOSE x \in s : TRUE}]]
           iterA == CHOOSE g : g = A(g)
           iterB == CHOOSE g : g = B(g)
<1>1. \A s \in SUBSET S : s # {} => (CHOOSE x \in s : TRUE) \in S
  OBVIOUS
<1>2. \A g : A(g) = B(g)
  BY <1>1
<1>3. iterA = iterB
  <2> HIDE DEF A, B
  <2> QED
    BY <1>2
<1>4. MapThenSumSet(LAMBDA q : f[q], S) = iterB[S]
  BY DEF MapThenSumSet, MapThenFoldSet
<1>5. MapThenSumSet(LAMBDA q : q, S) = iterA[S]
  BY DEF MapThenSumSet, MapThenFoldSet
<1> HIDE DEF iterA, iterB
<1>6. MapThenSumSet(LAMBDA q : q, S) = MapThenSumSet(LAMBDA q : f[q], S)
  BY <1>3, <1>4, <1>5
<1>7. S = {} \/ S = {CHOOSE x \in S : TRUE}
  OBVIOUS
<1>8. IsFiniteSet(S)
  <2>1. CASE S = {}
    <3>1. IsFiniteSet({})
      BY FS_EmptySet
    <3> QED
      BY <2>1, <3>1
  <2>2. CASE S = {CHOOSE x \in S : TRUE}
    <3> DEFINE x == CHOOSE x \in S : TRUE
    <3>1. IsFiniteSet({x})
      BY FS_Singleton
    <3> QED
      BY <2>2, <3>1
  <2> QED
    BY <1>7, <2>1, <2>2
<1>9. f \in [S -> Int]
  OBVIOUS
<1>10. PICK G \in [SUBSET S -> Int] :
         /\ MapThenSumSet(LAMBDA q : f[q], S) = G[S]
         /\ G[{}] = 0
         /\ Sums(G, S, f)
  <2> HIDE DEF f
  <2> QED
    BY <1>8, <1>9, SumSetIs
<1>11. CASE S = {}
  BY <1>6, <1>10, <1>11
<1>12. CASE S # {}
  <2> DEFINE x == CHOOSE x \in S : TRUE
  <2>1. x \in S /\ S \ {x} = {} /\ x \in Int
    BY <1>7, <1>12
  <2>2. G[S] = f[x] + G[S \ {x}]
    <3> HIDE DEF x, f
    <3> QED
      BY <1>10, <2>1 DEF Sums
  <2>3. f[x] = x
    BY <2>1
  <2>4. G[S \ {x}] = 0
    BY <1>10, <2>1
  <2>5. G[S] = x
    <3> HIDE DEF x, f
    <3> QED
      BY <2>1, <2>2, <2>3, <2>4
  <2> QED
    BY <1>6, <1>10, <1>12, <2>1, <2>5
<1> QED
  BY <1>11, <1>12
-----------------------------------------------------------------------------
(* Sorting.                                                                *)

\* A finite set whose members have ranks of their own is sorted by them: all of it,
\* once, in ascending order.  (Those before each member are counted; no two counts
\* are the same, so there is a member for each place.)
LEMMA SortedHasAll ==
    ASSUME NEW S, IsFiniteSet(S), NEW rank,
           \A x, y \in S : rank[x] \in Int /\ (rank[x] = rank[y] => x = y)
    PROVE  /\ DOMAIN SortedBy(S, rank) = 1..Cardinality(S)
           /\ Cardinality(S) \in Nat
           /\ {SortedBy(S, rank)[i] : i \in 1..Cardinality(S)} = S
           /\ \A i, j \in 1..Cardinality(S) :
                i < j => rank[SortedBy(S, rank)[i]] < rank[SortedBy(S, rank)[j]]
<1> DEFINE n == Cardinality(S)
           Below(x) == {y \in S : rank[y] < rank[x]}
           place == [x \in S |-> Cardinality(Below(x)) + 1]
           sorted == SortedBy(S, rank)
<1>1. n \in Nat
  BY FS_CardinalityType
<1>2. ASSUME NEW x \in S
      PROVE  /\ IsFiniteSet(Below(x)) /\ Cardinality(Below(x)) \in Nat
             /\ Cardinality(Below(x)) + 1 \in 1..n
  <2>1. IsFiniteSet(S \ {x}) /\ Cardinality(S \ {x}) = n - 1
    BY FS_RemoveElement
  <2>2. Below(x) \in SUBSET (S \ {x})
    OBVIOUS
  <2> HIDE DEF Below
  <2>3. IsFiniteSet(Below(x)) /\ Cardinality(Below(x)) <= n - 1
    BY <2>1, <2>2, FS_Subset
  <2>4. Cardinality(Below(x)) \in Nat
    BY <2>3, FS_CardinalityType
  <2> HIDE DEF n
  <2> QED
    BY <2>3, <2>4, <1>1
<1>3. ASSUME NEW x \in S, NEW y \in S, rank[x] < rank[y]
      PROVE  Cardinality(Below(x)) < Cardinality(Below(y))
  <2>1. Below(x) \in SUBSET Below(y)
    BY <1>3
  <2>2. Below(x) # Below(y)
    BY <1>3
  <2> HIDE DEF Below
  <2>3. /\ Cardinality(Below(x)) <= Cardinality(Below(y))
        /\ Cardinality(Below(x)) # Cardinality(Below(y))
    BY <2>1, <2>2, <1>2, FS_Subset
  <2> QED
    BY <2>3, <1>2
<1>4. place \in Injection(S, 1..n)
  <2>1. place \in [S -> 1..n]
    BY <1>2
  <2>2. ASSUME NEW x \in S, NEW y \in S, place[x] = place[y]
        PROVE  x = y
    <3>1. Cardinality(Below(x)) = Cardinality(Below(y))
      <4>1. Cardinality(Below(x)) + 1 = Cardinality(Below(y)) + 1
        BY <2>2
      <4> HIDE DEF Below
      <4> QED
        BY <4>1, <1>2
    <3> HIDE DEF Below
    <3>2. ~(rank[x] < rank[y]) /\ ~(rank[y] < rank[x])
      BY <3>1, <1>2, <1>3
    <3> QED
      BY <3>2
  <2> HIDE DEF place, n
  <2> QED
    BY <2>1, <2>2 DEF Injection, IsInjective
<1>5. IsFiniteSet(1..n) /\ Cardinality(1..n) = n
  BY <1>1, FS_Interval
<1>6. place \in Surjection(S, 1..n)
  <2> HIDE DEF place
  <2> QED
    BY <1>4, <1>5, FS_Injection
<1>7. ASSUME NEW i \in 1..n
      PROVE  sorted[i] \in S /\ Cardinality(Below(sorted[i])) = i - 1
  <2>1. PICK x \in S : place[x] = i
    BY <1>6 DEF Surjection
  <2>2. Cardinality(Below(x)) = i - 1
    <3>1. Cardinality(Below(x)) + 1 = i
      BY <2>1
    <3> HIDE DEF Below
    <3> QED
      BY <3>1, <1>2
  <2>3. sorted[i] = CHOOSE y \in S : Cardinality(Below(y)) = i - 1
    BY DEF SortedBy
  <2> HIDE DEF Below, sorted
  <2> QED
    BY <2>2, <2>3
<1>8. DOMAIN sorted = 1..n
  BY DEF SortedBy
<1>9. ASSUME NEW x \in S
      PROVE  \E i \in 1..n : sorted[i] = x
  <2> DEFINE i == Cardinality(Below(x)) + 1
  <2>1. i \in 1..n
    BY <1>2
  <2>2. sorted[i] \in S /\ Cardinality(Below(sorted[i])) = i - 1
    BY <2>1, <1>7
  <2>3. Cardinality(Below(sorted[i])) = Cardinality(Below(x))
    <3> HIDE DEF Below, sorted
    <3> QED
      BY <2>2, <1>2
  <2> HIDE DEF Below, sorted, i
  <2>4. ~(rank[x] < rank[sorted[i]]) /\ ~(rank[sorted[i]] < rank[x])
    BY <2>2, <2>3, <1>2, <1>3
  <2>5. x = sorted[i]
    BY <2>2, <2>4
  <2> QED
    BY <2>1, <2>5
<1> HIDE DEF sorted, n
<1>10. {sorted[i] : i \in 1..n} = S
  <2>1. \A i \in 1..n : sorted[i] \in S
    BY <1>7
  <2> QED
    BY <1>9, <2>1
<1>11. ASSUME NEW i \in 1..n, NEW j \in 1..n, i < j
       PROVE  rank[sorted[i]] < rank[sorted[j]]
  <2>1. /\ sorted[i] \in S /\ Cardinality(Below(sorted[i])) = i - 1
        /\ sorted[j] \in S /\ Cardinality(Below(sorted[j])) = j - 1
    BY <1>7
  <2> HIDE DEF Below
  <2>2. ~(rank[sorted[j]] < rank[sorted[i]])
    BY <2>1, <1>1, <1>3, <1>11
  <2>3. rank[sorted[i]] # rank[sorted[j]]
    BY <2>1, <1>1, <1>11
  <2> QED
    BY <2>1, <2>2, <2>3
<1> QED
  BY <1>1, <1>8, <1>10, <1>11 DEF sorted, n

\* a goes through S once, in the order of the ranks.
Ascends(a, m, S, rank) ==
    /\ {a[i] : i \in 1..m} = S
    /\ \A i, j \in 1..m : i < j => rank[a[i]] < rank[a[j]]

\* There is only one way to go through a set in the order of the ranks.
LEMMA AscentUnique ==
    ASSUME NEW S, NEW rank, \A x \in S : rank[x] \in Int,
           NEW m \in Nat, NEW a, NEW b, Ascends(a, m, S, rank), Ascends(b, m, S, rank)
    PROVE  \A i \in 1..m : a[i] = b[i]
<1> DEFINE D == {i \in 1..m : a[i] # b[i]}
<1> SUFFICES ASSUME D # {}
             PROVE  FALSE
  OBVIOUS
<1>1. D \in SUBSET Nat
  OBVIOUS
<1>2. PICK k \in D : \A i \in D : k <= i
  BY <1>1, LeastNumber
<1>3. \A i \in 1..m : i < k => a[i] = b[i]
  <2>1. \A i \in 1..m : i < k => ~(k <= i)
    BY <1>1
  <2> QED
    BY <1>2, <2>1
<1>4. \A i \in 1..m : a[i] \in S /\ b[i] \in S
  BY DEF Ascends
<1>5. PICK i \in 1..m : a[k] = b[i]
  BY <1>4 DEF Ascends
<1>6. PICK j \in 1..m : b[k] = a[j]
  BY <1>4 DEF Ascends
<1>7. ~(i < k) /\ ~(j < k) /\ i # k /\ j # k
  <2>1. ASSUME i < k
        PROVE  FALSE
    <3>1. a[i] = a[k]
      BY <1>3, <1>5, <2>1
    <3>2. rank[a[i]] < rank[a[k]] /\ rank[a[k]] \in Int
      BY <1>4, <2>1 DEF Ascends
    <3> QED
      BY <3>1, <3>2
  <2>2. ASSUME j < k
        PROVE  FALSE
    <3>1. b[j] = b[k]
      BY <1>3, <1>6, <2>2
    <3>2. rank[b[j]] < rank[b[k]] /\ rank[b[k]] \in Int
      BY <1>4, <2>2 DEF Ascends
    <3> QED
      BY <3>1, <3>2
  <2> QED
    BY <1>5, <1>6, <2>1, <2>2
<1>8. k < i /\ k < j
  BY <1>7
<1>9. rank[b[k]] < rank[b[i]] /\ rank[a[k]] < rank[a[j]]
  BY <1>8 DEF Ascends
<1>10. rank[a[k]] \in Int /\ rank[b[k]] \in Int
  BY <1>4
<1> QED
  BY <1>5, <1>6, <1>9, <1>10

\* A sequence without repetitions has as many places as elements.
LEMMA AscentLength ==
    ASSUME NEW S, NEW rank, \A x \in S : rank[x] \in Int,
           NEW m \in Nat, NEW a, Ascends(a, m, S, rank)
    PROVE  IsFiniteSet(S) /\ Cardinality(S) = m
<1> DEFINE f == [i \in 1..m |-> a[i]]
<1>1. f \in Surjection(1..m, S)
  BY DEF Ascends, Surjection
<1>2. \A i, j \in 1..m : f[i] = f[j] => i = j
  <2> SUFFICES ASSUME NEW i \in 1..m, NEW j \in 1..m, a[i] = a[j], i # j
               PROVE  FALSE
    OBVIOUS
  <2>1. rank[a[i]] \in Int
    BY DEF Ascends
  <2>2. i < j \/ j < i
    OBVIOUS
  <2> QED
    BY <2>1, <2>2 DEF Ascends
<1>3. f \in Injection(1..m, S)
  <2> HIDE DEF f
  <2> QED
    BY <1>1, <1>2 DEF Surjection, Injection, IsInjective
<1>4. IsFiniteSet(1..m) /\ Cardinality(1..m) = m
  BY FS_Interval
<1> HIDE DEF f
<1>5. IsFiniteSet(S)
  BY <1>1, <1>4, FS_Surjection
<1>6. f \in Bijection(1..m, S)
  BY <1>1, <1>3 DEF Bijection
<1> QED
  BY <1>4, <1>5, <1>6, FS_Bijection DEF ExistsBijection

\* The same of a set whose members have ranks of their own.
IsAscent(a, m, S, rank) ==
    /\ m \in Nat /\ Ascends(a, m, S, rank)
    /\ \A x, y \in S : rank[x] \in Int /\ (rank[x] = rank[y] => x = y)

AscentSorts(a, m, S, rank) ==
    /\ IsFiniteSet(S) /\ Cardinality(S) = m
    /\ \A i \in 1..m : SortedBy(S, rank)[i] = a[i]

\* Whatever goes through a set in the order of the ranks is what SortedBy makes.
LEMMA SortedIs ==
    ASSUME NEW S, NEW rank, NEW m, NEW a, IsAscent(a, m, S, rank)
    PROVE  AscentSorts(a, m, S, rank)
<1>a. /\ m \in Nat /\ Ascends(a, m, S, rank)
      /\ \A x, y \in S : rank[x] \in Int /\ (rank[x] = rank[y] => x = y)
  BY DEF IsAscent
<1>1. \A x \in S : rank[x] \in Int
  BY <1>a
<1>2. IsFiniteSet(S) /\ Cardinality(S) = m
  BY <1>a, <1>1, AscentLength
<1>3. Ascends(SortedBy(S, rank), m, S, rank)
  <2>1. /\ {SortedBy(S, rank)[i] : i \in 1..Cardinality(S)} = S
        /\ \A i, j \in 1..Cardinality(S) :
             i < j => rank[SortedBy(S, rank)[i]] < rank[SortedBy(S, rank)[j]]
    BY <1>a, <1>2, SortedHasAll
  <2> QED
    BY <1>2, <2>1 DEF Ascends
<1> DEFINE b == SortedBy(S, rank)
<1> HIDE DEF b
<1>4. Ascends(b, m, S, rank)
  BY <1>3 DEF b
<1>5. \A i \in 1..m : b[i] = a[i]
  BY <1>a, <1>1, <1>4, AscentUnique
<1> QED
  BY <1>2, <1>5 DEF b, AscentSorts

\* A finite set of integers, in ascending order.
LEMMA PlacesAscend ==
    ASSUME NEW n \in Nat, NEW P \in SUBSET (1..n)
    PROVE  LET at == SortedBy(P, [i \in P |-> i])
               m == Cardinality(P)
           IN  /\ m \in Nat /\ IsFiniteSet(P) /\ m <= n
               /\ DOMAIN at = 1..m
               /\ \A i \in 1..m : at[i] \in P
               /\ \A p \in P : \E i \in 1..m : at[i] = p
               /\ \A i, j \in 1..m : i < j => at[i] < at[j]
<1> DEFINE id == [i \in P |-> i]
           at == SortedBy(P, id)
           m == Cardinality(P)
<1>1. IsFiniteSet(1..n) /\ Cardinality(1..n) = n
  BY FS_Interval
<1>2. IsFiniteSet(P) /\ m <= n
  BY <1>1, FS_Subset
<1>3. \A x, y \in P : id[x] \in Int /\ (id[x] = id[y] => x = y)
  OBVIOUS
<1>b. \A x \in P : id[x] = x
  OBVIOUS
<1> HIDE DEF id
<1>a. /\ DOMAIN SortedBy(P, id) = 1..Cardinality(P)
      /\ Cardinality(P) \in Nat
      /\ {SortedBy(P, id)[i] : i \in 1..Cardinality(P)} = P
      /\ \A i, j \in 1..Cardinality(P) :
           i < j => id[SortedBy(P, id)[i]] < id[SortedBy(P, id)[j]]
  BY <1>2, <1>3, SortedHasAll
<1>4. /\ DOMAIN at = 1..m /\ m \in Nat /\ {at[i] : i \in 1..m} = P
      /\ \A i, j \in 1..m : i < j => id[at[i]] < id[at[j]]
  BY <1>a
<1> HIDE DEF at, m
<1>5. \A i \in 1..m : at[i] \in P
  BY <1>4
<1>6. \A i \in 1..m : id[at[i]] = at[i]
  BY <1>b, <1>5
<1> QED
  BY <1>2, <1>4, <1>5, <1>6 DEF at, m, id

\* a is a list of the numbers in P, in ascending order.
Enumerates(a, m, P) ==
    /\ m \in Nat /\ \A p \in P : p \in Int
    /\ \A i \in 1..m : a[i] \in P
    /\ \A p \in P : \E i \in 1..m : a[i] = p
    /\ \A i, j \in 1..m : i < j => a[i] < a[j]

\* What goes through the places in ascending order picks what ElementsAt picks.
LEMMA ElementsAlong ==
    ASSUME NEW P, NEW seq, NEW m, NEW a, Enumerates(a, m, P)
    PROVE  Cardinality(P) = m /\ ElementsAt(seq, P) = [i \in 1..m |-> seq[a[i]]]
<1> DEFINE id == [i \in P |-> i]
<1>1. \A x, y \in P : id[x] \in Int /\ (id[x] = id[y] => x = y)
  BY DEF Enumerates
<1>2. \A x \in P : id[x] = x
  OBVIOUS
<1>0. m \in Nat
  BY DEF Enumerates
<1> HIDE DEF id
<1>3. Ascends(a, m, P, id)
  BY <1>2 DEF Ascends, Enumerates
<1>4. AscentSorts(a, m, P, id)
  BY <1>0, <1>1, <1>3, SortedIs DEF IsAscent
<1>5. ElementsAt(seq, P) = [i \in 1..Cardinality(P) |-> seq[SortedBy(P, id)[i]]]
  BY DEF ElementsAt, id
<1> QED
  BY <1>4, <1>5 DEF AscentSorts

\* E has the elements of a sequence at some places, in the order of the places.
Lists(E, seq, P) ==
    /\ Cardinality(P) \in Nat /\ DOMAIN E = 1..Cardinality(P)
    /\ E = [k \in 1..Cardinality(P) |-> E[k]]
    /\ \A k \in 1..Cardinality(P) : \E p \in P : E[k] = seq[p]
    /\ \A p \in P : /\ Cardinality({q \in P : q <= p}) \in 1..Cardinality(P)
                    /\ E[Cardinality({q \in P : q <= p})] = seq[p]

\* So does what a loop that skips elements comes to.
LEMMA ElementsThere ==
    ASSUME NEW n \in Nat, NEW P \in SUBSET (1..n), NEW seq
    PROVE  Lists(ElementsAt(seq, P), seq, P)
<1> DEFINE id == [i \in P |-> i]
           at == SortedBy(P, id)
           m == Cardinality(P)
<1>1. /\ m \in Nat /\ DOMAIN at = 1..m
      /\ \A i \in 1..m : at[i] \in P
      /\ \A p \in P : \E i \in 1..m : at[i] = p
      /\ \A i, j \in 1..m : i < j => at[i] < at[j]
  BY PlacesAscend
<1>2. ElementsAt(seq, P) = [k \in 1..m |-> seq[at[k]]]
  BY DEF ElementsAt
<1> HIDE DEF at, m
<1>3. ASSUME NEW p \in P
      PROVE  \E k \in 1..m : at[k] = p /\ Cardinality({q \in P : q <= p}) = k
  <2>1. PICK k \in 1..m : at[k] = p
    BY <1>1
  <2> DEFINE S == {q \in P : q <= p}
  <2>2. \A x \in S : id[x] = x /\ id[x] \in Int
    OBVIOUS
  <2>3. \A i \in 1..k : i \in 1..m /\ at[i] \in S
    <3> TAKE i \in 1..k
    <3>1. i \in 1..m /\ (i < k \/ i = k)
      BY <1>1
    <3>2. at[i] \in P /\ at[i] \in Int /\ p \in Int
      <4>1. at[i] \in P
        BY <1>1, <3>1, Zenon
      <4>2. \A q \in P : q \in Int
        OBVIOUS
      <4> QED
        BY <4>1, <4>2, Zenon
    <3>3. i < k => at[i] < at[k]
      BY <1>1, <3>1
    <3>4. at[i] <= p
      BY <2>1, <3>1, <3>2, <3>3
    <3> QED
      BY <3>1, <3>2, <3>4
  <2>4. \A x \in S : \E i \in 1..k : at[i] = x
    <3> TAKE x \in S
    <3>1. PICK i \in 1..m : at[i] = x
      BY <1>1
    <3>2. ~(k < i)
      BY <1>1, <2>1, <3>1
    <3>3. i \in 1..k
      BY <1>1, <3>2
    <3> QED
      BY <3>1, <3>3
  <2>5. \A i, j \in 1..k : i < j => id[at[i]] < id[at[j]]
    BY <1>1, <2>2, <2>3
  <2>6. k \in Nat
    BY <1>1
  <2> HIDE DEF id
  <2>7. {at[i] : i \in 1..k} = S
    BY <2>3, <2>4
  <2> HIDE DEF S
  <2>8. Ascends(at, k, S, id)
    BY <2>5, <2>7 DEF Ascends
  <2>9. \A x \in S : id[x] \in Int
    BY <2>2
  <2>10. Cardinality(S) = k
    BY <2>6, <2>8, <2>9, AscentLength
  <2> QED
    BY <2>1, <2>10 DEF S
<1>4. \A k \in 1..m : \E p \in P : ElementsAt(seq, P)[k] = seq[p]
  BY <1>1, <1>2
<1>5. \A p \in P : /\ Cardinality({q \in P : q <= p}) \in 1..m
                   /\ ElementsAt(seq, P)[Cardinality({q \in P : q <= p})] = seq[p]
  BY <1>2, <1>3
<1> QED
  BY <1>1, <1>2, <1>4, <1>5 DEF Lists, m
=============================================================================
