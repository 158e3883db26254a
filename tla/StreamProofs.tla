---------------------------- MODULE StreamProofs ---------------------------
(***************************************************************************)
(* What the loops over the documents of a stream compute, however many     *)
(* documents there are.  The loops of pkg/engine/sum.go: a sum is refused  *)
(* exactly if some document that counts is not in order, its totals are    *)
(* those of the matching containers, and its verdict is about these        *)
(* totals.  That of pkg/diff/reorder.go: known fields come first, in their *)
(* order, and the others keep theirs.  Those of pkg/diff/engine.go: a diff *)
(* has every identity where it belongs, once, and there is one diff only.  *)
(* Those of the .env file: the last value of a key counts.                 *)
(***************************************************************************)
EXTENDS CommandRun, FoldProofs, SequenceTheorems

-----------------------------------------------------------------------------
(* The containers of one document.                                         *)

Part(d, p) == IF d.pods[p] = {} THEN << >> ELSE TheOnly(d.pods[p])

Containers(d) == UNION {ToSet(Part(d, p)) : p \in 1..3}

\* Where containers are, and where the one that is visited i-th is.
Places(d) == UNION {{<<p, k>> : k \in DOMAIN Part(d, p)} : p \in 1..3}

Place(d, i) ==
    LET one == Len(Part(d, 1))
        two == one + Len(Part(d, 2))
    IN  IF i <= one THEN <<1, i>>
        ELSE IF i <= two THEN <<2, i - one>> ELSE <<3, i - two>>

At(d, pk) == Part(d, pk[1])[pk[2]]

\* What an optional sequence of containers holds is a sequence of containers
\* whose amounts are integers.
LEMMA PartsAreSequences ==
    ASSUME NEW d, IsDocument(d)
    PROVE  /\ \A p \in 1..3 : /\ Part(d, p) \in Seq(Containers(d))
                              /\ d.pods[p] = {} \/ d.pods[p] = {Part(d, p)}
           /\ \A con \in Containers(d), c \in Categories, r \in Resources :
                AtMostOne(Amount(con, c, r)) /\ Amount(con, c, r) \subseteq Int
<1>1. ASSUME NEW p \in 1..3
      PROVE  /\ d.pods[p] = {} \/ d.pods[p] = {Part(d, p)}
             /\ d.pods[p] # {} => Part(d, p) \in d.pods[p]
  BY DEF IsDocument, AtMostOne, Part, TheOnly
<1>2. ASSUME NEW p \in 1..3
      PROVE  Part(d, p) \in Seq(Containers(d))
  <2>1. Part(d, p) \in Seq(ToSet(Part(d, p)))
    <3>1. CASE d.pods[p] = {}
      BY <3>1 DEF Part
    <3>2. CASE d.pods[p] # {}
      BY <1>1, <3>2 DEF IsDocument
    <3> QED
      BY <3>1, <3>2
  <2>2. ToSet(Part(d, p)) \subseteq Containers(d)
    BY DEF Containers
  <2> HIDE DEF Part
  <2> QED
    BY <2>1, <2>2
<1>3. ASSUME NEW con \in Containers(d), NEW c \in Categories, NEW r \in Resources
      PROVE  AtMostOne(Amount(con, c, r)) /\ Amount(con, c, r) \subseteq Int
  <2>1. PICK p \in 1..3 : con \in ToSet(Part(d, p))
    BY DEF Containers
  <2>2. d.pods[p] # {}
    <3> SUFFICES ASSUME d.pods[p] = {}
                 PROVE  FALSE
      OBVIOUS
    <3>1. Part(d, p) = << >>
      BY DEF Part
    <3> QED
      BY <2>1, <3>1 DEF ToSet
  <2>3. Part(d, p) \in d.pods[p]
    BY <1>1, <2>2
  <2> QED
    BY <2>1, <2>3 DEF IsDocument
<1> QED
  BY <1>1, <1>2, <1>3

\* The containers of the three paths are visited in turn, each of them once.
LEMMA ContainersInTurn ==
    ASSUME NEW d, IsDocument(d)
    PROVE  LET all == containersOf(d)
           IN  /\ all \in Seq(Containers(d))
               /\ \A i \in 1..Len(all) : Place(d, i) \in Places(d)
                                          /\ all[i] = At(d, Place(d, i))
               /\ \A i, j \in 1..Len(all) : Place(d, i) = Place(d, j) => i = j
               /\ \A pk \in Places(d) : \E i \in 1..Len(all) : pk = Place(d, i)
<1> DEFINE D == Containers(d)
           parts == [p \in 1..3 |-> Part(d, p)]
           all == containersOf(d)
<1>1. \A p \in 1..3 : Part(d, p) \in Seq(D)
  BY PartsAreSequences
<1>2. parts \in [1..3 -> Seq(D)]
  BY <1>1
<1>3. all = FlattenSeq(parts)
  BY DEF containersOf, Part, IsDocument
<1>4. PICK G \in [1..3 -> Seq(D)] : Flattens(G, 3, parts)
  <2> HIDE DEF D, parts
  <2>1. 3 \in Nat \ {0}
    OBVIOUS
  <2> QED
    BY <1>2, <2>1, FlattenIs
<1> DEFINE a == Part(d, 1)
           b == Part(d, 2)
           e == Part(d, 3)
<1>5. a \in Seq(D) /\ b \in Seq(D) /\ e \in Seq(D)
  BY <1>1
<1>6. all = (a \o b) \o e
  <2>1. /\ all = G[3] /\ G[1] = parts[1]
        /\ G[2] = G[1] \o parts[2] /\ G[3] = G[2] \o parts[3]
    BY <1>3, <1>4 DEF Flattens
  <2> QED
    BY <2>1
<1> DEFINE la == Len(a)
           lb == Len(b)
           le == Len(e)
<1>7. /\ Places(d) = {<<1, k>> : k \in 1..la} \cup {<<2, k>> : k \in 1..lb}
                      \cup {<<3, k>> : k \in 1..le}
      /\ \A i : Place(d, i) = IF i <= la THEN <<1, i>>
                              ELSE IF i <= la + lb THEN <<2, i - la>>
                              ELSE <<3, i - (la + lb)>>
      /\ \A k : At(d, <<1, k>>) = a[k] /\ At(d, <<2, k>>) = b[k] /\ At(d, <<3, k>>) = e[k]
  <2>1. DOMAIN a = 1..la /\ DOMAIN b = 1..lb /\ DOMAIN e = 1..le
    BY <1>5
  <2>2. Places(d) = {<<1, k>> : k \in DOMAIN a} \cup {<<2, k>> : k \in DOMAIN b}
                    \cup {<<3, k>> : k \in DOMAIN e}
    <3>1. 1..3 = {1, 2, 3}
      OBVIOUS
    <3> QED
      BY <3>1 DEF Places
  <2>3. \A k : At(d, <<1, k>>) = a[k] /\ At(d, <<2, k>>) = b[k] /\ At(d, <<3, k>>) = e[k]
    BY DEF At
  <2>4. \A i : Place(d, i) = IF i <= la THEN <<1, i>>
                              ELSE IF i <= la + lb THEN <<2, i - la>>
                              ELSE <<3, i - (la + lb)>>
    BY DEF Place
  <2> HIDE DEF a, b, e
  <2> QED
    BY <2>1, <2>2, <2>3, <2>4
<1> HIDE DEF all, a, b, e, D, parts
<1>8. la \in Nat /\ lb \in Nat /\ le \in Nat /\ all \in Seq(D) /\ Len(all) = la + lb + le
  BY <1>5, <1>6
<1>9. ASSUME NEW i \in 1..Len(all)
      PROVE  Place(d, i) \in Places(d) /\ all[i] = At(d, Place(d, i))
  <2>1. CASE i <= la
    <3>1. i \in 1..la /\ Place(d, i) = <<1, i>>
      BY <1>7, <1>8, <2>1
    <3>2. all[i] = a[i]
      BY <1>5, <1>6, <1>8, <3>1
    <3> QED
      BY <1>7, <3>1, <3>2
  <2>2. CASE ~(i <= la) /\ i <= la + lb
    <3>1. i - la \in 1..lb /\ Place(d, i) = <<2, i - la>>
      BY <1>7, <1>8, <2>2
    <3>2. all[i] = b[i - la]
      BY <1>5, <1>6, <1>8, <2>2
    <3> QED
      BY <1>7, <3>1, <3>2
  <2>3. CASE ~(i <= la + lb)
    <3>1. i - (la + lb) \in 1..le /\ Place(d, i) = <<3, i - (la + lb)>>
      BY <1>7, <1>8, <2>3
    <3>2. all[i] = e[i - (la + lb)]
      BY <1>5, <1>6, <1>8, <2>3
    <3> QED
      BY <1>7, <3>1, <3>2
  <2> QED
    BY <1>8, <2>1, <2>2, <2>3
<1>10. ASSUME NEW i \in 1..Len(all), NEW j \in 1..Len(all), Place(d, i) = Place(d, j)
       PROVE  i = j
  <2>1. /\ Place(d, i) = IF i <= la THEN <<1, i>>
                         ELSE IF i <= la + lb THEN <<2, i - la>> ELSE <<3, i - (la + lb)>>
        /\ Place(d, j) = IF j <= la THEN <<1, j>>
                         ELSE IF j <= la + lb THEN <<2, j - la>> ELSE <<3, j - (la + lb)>>
    BY <1>7
  <2>2. Place(d, i)[1] = Place(d, j)[1] /\ Place(d, i)[2] = Place(d, j)[2]
    BY <1>10
  <2>3. CASE i <= la
    BY <1>8, <2>1, <2>2, <2>3
  <2>4. CASE ~(i <= la) /\ i <= la + lb
    BY <1>8, <2>1, <2>2, <2>4
  <2>5. CASE ~(i <= la) /\ ~(i <= la + lb)
    BY <1>8, <2>1, <2>2, <2>5
  <2> QED
    BY <1>8, <2>3, <2>4, <2>5
<1>11. ASSUME NEW pk \in Places(d)
       PROVE  \E i \in 1..Len(all) : pk = Place(d, i)
  <2>1. ASSUME NEW k \in 1..la, pk = <<1, k>>
        PROVE  k \in 1..Len(all) /\ pk = Place(d, k)
    BY <1>7, <1>8, <2>1
  <2>2. ASSUME NEW k \in 1..lb, pk = <<2, k>>
        PROVE  k + la \in 1..Len(all) /\ pk = Place(d, k + la)
    <3>1. k + la \in 1..Len(all) /\ ~(k + la <= la) /\ k + la <= la + lb
          /\ (k + la) - la = k
      BY <1>8
    <3> QED
      BY <1>7, <2>2, <3>1
  <2>3. ASSUME NEW k \in 1..le, pk = <<3, k>>
        PROVE  k + (la + lb) \in 1..Len(all) /\ pk = Place(d, k + (la + lb))
    <3>1. /\ k + (la + lb) \in 1..Len(all) /\ ~(k + (la + lb) <= la)
          /\ ~(k + (la + lb) <= la + lb) /\ (k + (la + lb)) - (la + lb) = k
      BY <1>8
    <3> QED
      BY <1>7, <2>3, <3>1
  <2> QED
    BY <1>7, <2>1, <2>2, <2>3
<1> QED
  BY <1>8, <1>9, <1>10, <1>11 DEF all, D

Quantity(con, c, r) ==
    IF Amount(con, c, r) = {} THEN 0 ELSE TheOnly(Amount(con, c, r))

\* What the container at each place says about a resource.
Quantities(d, c, r) == [pk \in Places(d) |-> Quantity(At(d, pk), c, r)]

\* There are finitely many places.
LEMMA PlacesAreFinite ==
    ASSUME NEW d, IsDocument(d)
    PROVE  IsFiniteSet(Places(d))
<1> DEFINE n == Len(containersOf(d))
           f == [i \in 1..n |-> Place(d, i)]
<1>1. n \in Nat /\ IsFiniteSet(1..n)
  BY ContainersInTurn, FS_Interval
<1>2. f \in Surjection(1..n, Places(d))
  <2>1. \A i \in 1..n : Place(d, i) \in Places(d)
    BY ContainersInTurn
  <2>2. \A pk \in Places(d) : \E i \in 1..n : f[i] = pk
    BY ContainersInTurn
  <2> QED
    BY <2>1, <2>2 DEF Surjection
<1> QED
  BY <1>1, <1>2, FS_Surjection

\* What a container adds is what it says.
LEMMA ContainerAdds ==
    ASSUME NEW t \in [Categories -> [Resources -> Int]], NEW con,
           \A c \in Categories, r \in Resources :
             AtMostOne(Amount(con, c, r)) /\ Amount(con, c, r) \subseteq Int
    PROVE  /\ addContainerResources(t, con) \in [Categories -> [Resources -> Int]]
           /\ \A c \in Categories, r \in Resources :
                /\ Quantity(con, c, r) \in Int
                /\ addContainerResources(t, con)[c][r] = t[c][r] + Quantity(con, c, r)
<1>1. \A c \in Categories, r \in Resources : Quantity(con, c, r) \in Int
  BY DEF Quantity, TheOnly
<1>2. addContainerResources(t, con)
        = [c \in Categories |-> [r \in Resources |-> t[c][r] + Quantity(con, c, r)]]
  BY DEF addContainerResources, Quantity
<1> HIDE DEF Quantity
<1> QED
  BY <1>1, <1>2

\* Adding up the containers of a document in turn yields the sum of what they
\* say, for every resource.
LEMMA PodTotals ==
    ASSUME NEW d, IsDocument(d), NEW c \in Categories, NEW r \in Resources
    PROVE  LET totals == FoldLeft(addContainerResources, NoTotals, containersOf(d))
           IN  /\ totals \in [Categories -> [Resources -> Int]]
               /\ totals[c][r] = MapThenSumSet(LAMBDA pk : Quantities(d, c, r)[pk], Places(d))
<1> DEFINE all == containersOf(d)
           n == Len(all)
           V == [Categories -> [Resources -> Int]]
           Op == [p \in (1..n) \X V |-> addContainerResources(p[2], all[p[1]])]
           Body(g) == [s \in SUBSET (1..n) |->
                         IF s = {} THEN NoTotals
                         ELSE addContainerResources(g[s \ {Max(s)}], all[Max(s)])]
           iter == CHOOSE g : g = Body(g)
           totals == FoldLeft(addContainerResources, NoTotals, all)
<1>1. n \in Nat /\ all \in Seq(Containers(d))
  BY ContainersInTurn
<1>2. \A i \in 1..n : all[i] \in Containers(d)
  BY <1>1
<1>3. \A v \in V, i \in 1..n :
        /\ addContainerResources(v, all[i]) \in V
        /\ Quantity(all[i], c, r) \in Int
        /\ addContainerResources(v, all[i])[c][r] = v[c][r] + Quantity(all[i], c, r)
  <2> SUFFICES ASSUME NEW v \in V, NEW i \in 1..n
               PROVE  /\ addContainerResources(v, all[i]) \in V
                      /\ Quantity(all[i], c, r) \in Int
                      /\ addContainerResources(v, all[i])[c][r]
                           = v[c][r] + Quantity(all[i], c, r)
    OBVIOUS
  <2>1. \A cat \in Categories, res \in Resources :
          AtMostOne(Amount(all[i], cat, res)) /\ Amount(all[i], cat, res) \subseteq Int
    BY <1>2, PartsAreSequences
  <2> HIDE DEF all
  <2> QED
    BY <2>1, ContainerAdds
<1>4. NoTotals \in V /\ NoTotals[c][r] = 0
  BY DEF NoTotals
<1>5. Op \in [(1..n) \X V -> V]
  BY <1>3
<1>6. PICK F \in [SUBSET (1..n) -> V] : IsFold(F, 1..n, NoTotals, Largest(n), Op)
  <2> HIDE DEF V, Op, n
  <2> QED
    BY <1>1, <1>4, <1>5, PrefixFoldExists
<1>7. F = Body(F)
  <2>1. ASSUME NEW s \in SUBSET (1..n), s # {}
        PROVE  F[s] = addContainerResources(F[s \ {Max(s)}], all[Max(s)])
    <3>1. Max(s) \in 1..n /\ Largest(n)[s] = Max(s)
      BY <1>1, <2>1, LargestOf DEF Largest
    <3>2. F[s] = Op[<<Max(s), F[s \ {Max(s)}]>>]
      <4> HIDE DEF Op
      <4> QED
        BY <1>6, <2>1, <3>1 DEF IsFold
    <3>3. F[s \ {Max(s)}] \in V
      <4> HIDE DEF V
      <4> QED
        BY <3>1
    <3>4. <<Max(s), F[s \ {Max(s)}]>> \in (1..n) \X V
      BY <3>1, <3>3
    <3> QED
      BY <3>2, <3>4
  <2>2. F[{}] = NoTotals
    BY <1>6 DEF IsFold
  <2> QED
    BY <2>1, <2>2
<1>8. iter = Body(iter)
  <2> HIDE DEF Body
  <2> QED
    BY <1>7
<1>9. totals = iter[1..n]
  <2>1. DOMAIN all = 1..n
    BY <1>1
  <2> QED
    BY <2>1 DEF FoldLeft, MapThenFoldSet
<1>10. PICK G \in [SUBSET Places(d) -> Int] :
         /\ MapThenSumSet(LAMBDA pk : Quantities(d, c, r)[pk], Places(d)) = G[Places(d)]
         /\ G[{}] = 0
         /\ Sums(G, Places(d), Quantities(d, c, r))
  <2>1. Quantities(d, c, r) \in [Places(d) -> Int]
    <3>1. \A pk \in Places(d) : Quantity(At(d, pk), c, r) \in Int
      BY <1>3, <1>4, ContainersInTurn
    <3> QED
      BY <3>1 DEF Quantities
  <2> QED
    BY <2>1, PlacesAreFinite, SumSetIs
<1> DEFINE Seen(i) == {Place(d, j) : j \in 1..i}
           Adds(i) == iter[1..i] \in V /\ iter[1..i][c][r] = G[Seen(i)]
           N == {i \in Nat : i <= n => Adds(i)}
<1> HIDE DEF iter, Adds
<1>11. 0 \in N
  <2>1. 1..0 = {} /\ Seen(0) = {}
    OBVIOUS
  <2>2. iter[{}] = NoTotals
    BY <1>8
  <2> QED
    BY <1>4, <1>10, <2>1, <2>2 DEF Adds
<1>12. ASSUME NEW i \in N
       PROVE  i + 1 \in N
  <2> SUFFICES ASSUME i + 1 <= n
               PROVE  Adds(i + 1)
    OBVIOUS
  <2>1. i \in Nat /\ i + 1 \in 1..n /\ i <= n /\ i + 1 \in 0..n /\ i + 1 # 0 /\ (i + 1) - 1 = i
    BY <1>1
  <2>2. /\ (1..(i + 1)) \in SUBSET (1..n) /\ (1..(i + 1)) # {} /\ Max(1..(i + 1)) = i + 1
        /\ (1..(i + 1)) \ {i + 1} = 1..i
    <3> HIDE DEF n
    <3> QED
      BY <1>1, <2>1, Segments
  <2>3. iter[1..(i + 1)] = addContainerResources(iter[1..i], all[i + 1])
    BY <1>8, <2>2
  <2>4. iter[1..i] \in V /\ iter[1..i][c][r] = G[Seen(i)]
    BY <2>1 DEF Adds
  <2>5. /\ iter[1..(i + 1)] \in V /\ Quantity(all[i + 1], c, r) \in Int
        /\ iter[1..(i + 1)][c][r] = G[Seen(i)] + Quantity(all[i + 1], c, r)
    BY <1>3, <2>1, <2>3, <2>4
  <2>6. /\ Place(d, i + 1) \in Places(d)
        /\ Quantity(all[i + 1], c, r) = Quantities(d, c, r)[Place(d, i + 1)]
    <3>1. Place(d, i + 1) \in Places(d) /\ all[i + 1] = At(d, Place(d, i + 1))
      BY <2>1, ContainersInTurn
    <3> QED
      BY <3>1 DEF Quantities
  <2>7. Seen(i + 1) \in SUBSET Places(d) /\ Place(d, i + 1) \in Seen(i + 1)
    <3>1. \A j \in 1..(i + 1) : j \in 1..n
      BY <2>2
    <3>2. \A j \in 1..n : Place(d, j) \in Places(d)
      BY ContainersInTurn
    <3> QED
      BY <2>1, <3>1, <3>2
  <2>8. Seen(i + 1) \ {Place(d, i + 1)} = Seen(i)
    <3>1. \A j \in 1..i : j \in 1..n /\ j # i + 1 /\ j \in 1..(i + 1)
      BY <2>1
    <3>2. \A j \in 1..n : Place(d, j) = Place(d, i + 1) => j = i + 1
      BY <2>1, ContainersInTurn
    <3>3. \A j \in 1..(i + 1) : j # i + 1 => j \in 1..i
      BY <2>1
    <3> QED
      BY <3>1, <3>2, <3>3
  <2>9. G[Seen(i + 1)] = Quantities(d, c, r)[Place(d, i + 1)] + G[Seen(i)]
    <3> HIDE DEF Seen
    <3> QED
      BY <1>10, <2>7, <2>8 DEF Sums
  <2>10. G[Seen(i)] \in Int
    <3> HIDE DEF Seen
    <3>1. Seen(i) \in SUBSET Places(d)
      BY <2>7, <2>8
    <3> QED
      BY <3>1
  <2> HIDE DEF Seen, all
  <2> QED
    BY <2>5, <2>6, <2>9, <2>10 DEF Adds
<1>13. N = Nat
  <2> HIDE DEF N
  <2>1. N \in SUBSET Nat
    BY DEF N
  <2> QED
    BY <1>11, <1>12, <2>1, Induction
<1>14. iter[1..n] \in V /\ iter[1..n][c][r] = G[Seen(n)]
  <2>1. n \in N
    BY <1>1, <1>13
  <2> QED
    BY <2>1, <1>1 DEF Adds
<1>15. Seen(n) = Places(d)
  BY ContainersInTurn
<1> HIDE DEF Seen, V
<1> QED
  BY <1>9, <1>10, <1>14, <1>15 DEF V

Replicas(d) == IF d.replicas = {} THEN 1 ELSE TheOnly(d.replicas)

\* The demand of a document is the sum of what its containers say, times its
\* replicas.
LEMMA DemandIs ==
    ASSUME NEW d, IsDocument(d), NEW c \in Categories, NEW r \in Resources
    PROVE  /\ Demand(d, c, r) \in Int /\ Replicas(d) \in Int
           /\ Demand(d, c, r)
                = Replicas(d) * FoldLeft(addContainerResources, NoTotals, containersOf(d))[c][r]
<1> DEFINE each == UNION {{<<p, k>> : k \in DOMAIN TheOnly(d.pods[p])} :
                            p \in {q \in DOMAIN d.pods : d.pods[q] # {}}}
           of(pk) == MapThenSumSet(LAMBDA q : q, Amount(TheOnly(d.pods[pk[1]])[pk[2]], c, r))
           f == Quantities(d, c, r)
           A(g) == [s \in SUBSET each |->
                      IF s = {} THEN 0
                      ELSE of(CHOOSE x \in s : TRUE) + g[s \ {CHOOSE x \in s : TRUE}]]
           B(g) == [s \in SUBSET each |->
                      IF s = {} THEN 0
                      ELSE f[CHOOSE x \in s : TRUE] + g[s \ {CHOOSE x \in s : TRUE}]]
           iterA == CHOOSE g : g = A(g)
           iterB == CHOOSE g : g = B(g)
           totals == FoldLeft(addContainerResources, NoTotals, containersOf(d))
<1>1. \A p \in 1..3 : d.pods[p] # {} => TheOnly(d.pods[p]) = Part(d, p)
  BY DEF Part
<1>2. each = Places(d)
  <2>1. \A p \in 1..3 : d.pods[p] = {} => DOMAIN Part(d, p) = {}
    BY DEF Part
  <2>2. DOMAIN d.pods = 1..3
    BY DEF IsDocument
  <2>3. each = UNION {{<<p, k>> : k \in DOMAIN Part(d, p)} :
                        p \in {q \in 1..3 : d.pods[q] # {}}}
    BY <1>1, <2>2
  <2> HIDE DEF each
  <2> QED
    BY <2>1, <2>3 DEF Places
<1>3. ASSUME NEW pk \in Places(d)
      PROVE  of(pk) = f[pk]
  <2>0. PICK p \in 1..3 : pk \in {<<p, k>> : k \in DOMAIN Part(d, p)}
    BY DEF Places
  <2>1. PICK k \in DOMAIN Part(d, p) : pk = <<p, k>>
    BY <2>0
  <2>2. d.pods[p] # {}
    BY <2>1 DEF Part
  <2>3. TheOnly(d.pods[p])[k] = At(d, pk) /\ TheOnly(d.pods[pk[1]])[pk[2]] = At(d, pk)
    BY <1>1, <2>1, <2>2 DEF At
  <2>4. At(d, pk) \in Containers(d)
    <3>1. Part(d, p) \in Seq(Containers(d))
      BY PartsAreSequences
    <3> QED
      BY <2>1, <3>1 DEF At
  <2> DEFINE S == Amount(At(d, pk), c, r)
  <2>5. S \in SUBSET Int /\ \A x, y \in S : x = y
    BY <2>4, PartsAreSequences DEF AtMostOne
  <2>6. MapThenSumSet(LAMBDA q : q, S) = IF S = {} THEN 0 ELSE CHOOSE x \in S : TRUE
    <3> HIDE DEF S
    <3> QED
      BY <2>5, IdentitySum
  <2>7. of(pk) = MapThenSumSet(LAMBDA q : q, S)
    BY <2>3
  <2>8. f[pk] = IF S = {} THEN 0 ELSE CHOOSE x \in S : TRUE
    BY DEF Quantities, Quantity, TheOnly
  <2> HIDE DEF of, f, S
  <2> QED
    BY <2>6, <2>7, <2>8
<1>4. MapThenSumSet(of, each) = iterA[each]
  BY DEF MapThenSumSet, MapThenFoldSet
<1>5. MapThenSumSet(LAMBDA pk : f[pk], each) = iterB[each]
  BY DEF MapThenSumSet, MapThenFoldSet
<1>6. \A g : A(g) = B(g)
  <2>1. \A s \in SUBSET each : s # {} => (CHOOSE x \in s : TRUE) \in each
    OBVIOUS
  <2>2. \A x \in each : of(x) = f[x]
    BY <1>2, <1>3
  <2> HIDE DEF of, f, each
  <2> QED
    BY <2>1, <2>2
<1>7. iterA = iterB
  <2> HIDE DEF A, B
  <2> QED
    BY <1>6
<1> HIDE DEF iterA, iterB
<1>8. MapThenSumSet(of, each) = MapThenSumSet(LAMBDA pk : f[pk], each)
  BY <1>4, <1>5, <1>7
<1>9. totals[c][r] = MapThenSumSet(LAMBDA pk : f[pk], Places(d)) /\ totals[c][r] \in Int
  BY PodTotals
<1>10. Demand(d, c, r) = Replicas(d) * MapThenSumSet(of, each)
  BY DEF Demand, Replicas
<1>11. Replicas(d) \in Int
  BY DEF Replicas, TheOnly, IsDocument
<1>12. MapThenSumSet(LAMBDA pk : f[pk], each) = MapThenSumSet(LAMBDA pk : f[pk], Places(d))
  BY <1>2
<1>13. MapThenSumSet(of, each) = totals[c][r]
  BY <1>8, <1>9, <1>12
<1> HIDE DEF each, of, totals, f
<1>14. Demand(d, c, r) = Replicas(d) * totals[c][r]
  BY <1>10, <1>13
<1> QED
  BY <1>9, <1>11, <1>14 DEF totals

-----------------------------------------------------------------------------
(* One document.                                                           *)

Totals == [Categories -> [Resources -> Int]]

\* The state of the loop over the documents.
Accounts == [invalid : BOOLEAN, totals : Totals, missing : BOOLEAN]

\* A document that takes part in the sum is well-formed.
ContainersFine(d) ==
    \A p \in DOMAIN d.pods : \A cs \in d.pods[p] : \A k \in DOMAIN cs : WellFormed(cs[k])

DocumentFine(d, match) ==
    /\ Accountable(d)
    /\ Match(d, match, "and") => Malformed \notin d.replicas /\ ContainersFine(d)

\* getPodResources finds the malformed containers wherever they are.
LEMMA PodResources ==
    ASSUME NEW d, IsDocument(d)
    PROVE  getPodResources(d) =
             IF ContainersFine(d)
             THEN {FoldLeft(addContainerResources, NoTotals, containersOf(d))} ELSE {}
<1> DEFINE all == containersOf(d)
<1>1. DOMAIN all = 1..Len(all)
  BY ContainersInTurn
<1>2. ASSUME NEW i \in DOMAIN all, ~WellFormed(all[i])
      PROVE  ~ContainersFine(d)
  <2>1. Place(d, i) \in Places(d) /\ all[i] = At(d, Place(d, i))
    BY <1>1, <1>2, ContainersInTurn
  <2>2. PICK p \in 1..3 : Place(d, i) \in {<<p, k>> : k \in DOMAIN Part(d, p)}
    BY <2>1 DEF Places
  <2>3. PICK k \in DOMAIN Part(d, p) : Place(d, i) = <<p, k>>
    BY <2>2
  <2>4. all[i] = Part(d, p)[k]
    BY <2>1, <2>3 DEF At
  <2>5. d.pods[p] # {}
    BY <2>3 DEF Part
  <2>6. Part(d, p) \in d.pods[p] /\ p \in DOMAIN d.pods
    BY <2>5, PartsAreSequences DEF IsDocument
  <2> QED
    BY <1>2, <2>3, <2>4, <2>6 DEF ContainersFine
<1>3. ASSUME ~ContainersFine(d)
      PROVE  \E i \in DOMAIN all : ~WellFormed(all[i])
  <2>1. PICK p \in DOMAIN d.pods : \E cs \in d.pods[p] :
          \E k \in DOMAIN cs : ~WellFormed(cs[k])
    BY <1>3 DEF ContainersFine
  <2>2. p \in 1..3 /\ d.pods[p] = {Part(d, p)}
    BY <2>1, PartsAreSequences DEF IsDocument
  <2>3. PICK k \in DOMAIN Part(d, p) : ~WellFormed(Part(d, p)[k])
    BY <2>1, <2>2
  <2>4. <<p, k>> \in Places(d) /\ At(d, <<p, k>>) = Part(d, p)[k]
    BY <2>2, <2>3 DEF Places, At
  <2>5. PICK i \in 1..Len(all) : <<p, k>> = Place(d, i)
    BY <2>4, ContainersInTurn
  <2>6. all[i] = Part(d, p)[k]
    BY <2>4, <2>5, ContainersInTurn
  <2> QED
    BY <1>1, <2>3, <2>5, <2>6
<1> HIDE DEF all
<1>4. (\E i \in DOMAIN all : ~WellFormed(all[i])) <=> ~ContainersFine(d)
  BY <1>2, <1>3
<1> QED
  BY <1>4 DEF getPodResources, all

\* One turn of the loop: a malformed document ends it, one that does not match
\* changes nothing, and any other adds its demand.
LEMMA AccountStep ==
    ASSUME NEW acc \in Accounts, NEW d, IsDocument(d), NEW opts
    PROVE  LET next == Account(acc, d, opts)
           IN  /\ next \in Accounts
               /\ next.invalid <=> acc.invalid \/ ~DocumentFine(d, opts.match)
               /\ ~next.invalid /\ ~Match(d, opts.match, "and") => next = acc
               /\ ~next.invalid /\ Match(d, opts.match, "and") =>
                    /\ next.missing <=> acc.missing \/ ~checkResources(d, opts.require)
                    /\ \A c \in Categories, r \in Resources :
                         next.totals[c][r] = acc.totals[c][r] + Demand(d, c, r)
<1> DEFINE next == Account(acc, d, opts)
           M == Match(d, opts.match, "and")
           check == checkResources(d, opts.require)
           pod == FoldLeft(addContainerResources, NoTotals, containersOf(d))
           sum == [c \in Categories |-> [r \in Resources |->
                     acc.totals[c][r] + Replicas(d) * pod[c][r]]]
           bad == [acc EXCEPT !.invalid = TRUE]
           good == [acc EXCEPT !.totals = sum, !.missing = acc.missing \/ ~check]
<1>1. M \in BOOLEAN /\ check \in BOOLEAN
  BY DEF Match, checkResources
<1>2. getPodResources(d) = IF ContainersFine(d) THEN {pod} ELSE {}
  BY PodResources
<1>3. /\ getReplicas(d) = {} <=> Malformed \in d.replicas
      /\ getReplicas(d) # {} => TheOnly(getReplicas(d)) = Replicas(d)
  <2>1. d.replicas = {} => getReplicas(d) = {1} /\ Replicas(d) = 1 /\ Malformed \notin d.replicas
    BY DEF getReplicas, Replicas, TheOnly
  <2>2. ASSUME d.replicas # {}
        PROVE  /\ getReplicas(d) = {} <=> Malformed \in d.replicas
               /\ getReplicas(d) # {} => getReplicas(d) = d.replicas
               /\ Replicas(d) = TheOnly(d.replicas)
    <3>1. PICK x \in d.replicas : d.replicas = {x}
      BY <2>2 DEF IsDocument, AtMostOne
    <3>2. getReplicas(d) = {x} \ {Malformed} /\ Replicas(d) = TheOnly(d.replicas)
      BY <2>2, <3>1 DEF getReplicas, Replicas
    <3> QED
      BY <3>1, <3>2
  <2>3. TheOnly({1}) = 1
    BY DEF TheOnly
  <2> QED
    BY <2>1, <2>2, <2>3
<1>4. TheOnly({pod}) = pod
  BY DEF TheOnly
<1>5. pod \in Totals /\ sum \in Totals
  <2>1. pod \in Totals
    BY PodTotals DEF Totals, Categories, Resources
  <2>2. \A c \in Categories, r \in Resources :
          acc.totals[c][r] \in Int /\ Replicas(d) \in Int /\ pod[c][r] \in Int
    <3>1. acc.totals \in Totals
      BY DEF Accounts
    <3> HIDE DEF pod
    <3> QED
      BY <2>1, <3>1, DemandIs DEF Totals
  <2>3. \A c \in Categories, r \in Resources :
          acc.totals[c][r] + Replicas(d) * pod[c][r] \in Int
    <3> HIDE DEF pod
    <3> QED
      BY <2>2
  <2> HIDE DEF pod
  <2> QED
    BY <2>1, <2>3 DEF Totals
<1>6. \A c \in Categories, r \in Resources :
        sum[c][r] = acc.totals[c][r] + Demand(d, c, r)
  BY DemandIs
<1>7. next = IF acc.invalid \/ ~Accountable(d) THEN bad
             ELSE IF ~M THEN acc
             ELSE IF getPodResources(d) = {} \/ getReplicas(d) = {} THEN bad
             ELSE [acc EXCEPT !.totals = [c \in Categories |-> [r \in Resources |->
                                 acc.totals[c][r] + TheOnly(getReplicas(d))
                                                      * TheOnly(getPodResources(d))[c][r]]],
                              !.missing = acc.missing \/ ~check]
  BY DEF Account
<1> HIDE DEF next, M, check
<1>8. next = IF acc.invalid \/ ~Accountable(d) THEN bad
             ELSE IF ~M THEN acc
             ELSE IF ~ContainersFine(d) \/ Malformed \in d.replicas THEN bad
             ELSE good
  <2>1. CASE ~ContainersFine(d) \/ Malformed \in d.replicas
    <3>1. getPodResources(d) = {} \/ getReplicas(d) = {}
      BY <1>2, <1>3, <2>1
    <3> HIDE DEF bad
    <3> QED
      BY <1>7, <2>1, <3>1
  <2>2. CASE ContainersFine(d) /\ Malformed \notin d.replicas
    <3>1. getPodResources(d) = {pod} /\ getReplicas(d) # {}
      BY <1>2, <1>3, <2>2
    <3>2. TheOnly(getPodResources(d)) = pod /\ TheOnly(getReplicas(d)) = Replicas(d)
      BY <1>3, <1>4, <3>1
    <3>3. getPodResources(d) # {}
      BY <3>1
    <3> HIDE DEF bad, pod
    <3>4. next = IF acc.invalid \/ ~Accountable(d) THEN bad
                 ELSE IF ~M THEN acc ELSE good
      BY <1>7, <3>1, <3>2, <3>3
    <3> QED
      BY <2>2, <3>4
  <2> QED
    BY <2>1, <2>2
<1> HIDE DEF sum, pod
<1>9. /\ bad \in Accounts /\ bad.invalid = TRUE
      /\ good \in Accounts /\ good.invalid = acc.invalid /\ good.totals = sum
      /\ good.missing = (acc.missing \/ ~check)
  BY <1>1, <1>5 DEF Accounts
<1>10. DocumentFine(d, opts.match)
         <=> Accountable(d) /\ (M => Malformed \notin d.replicas /\ ContainersFine(d))
  BY DEF DocumentFine, M
<1> HIDE DEF bad, good
<1>11. /\ next \in Accounts
       /\ next.invalid <=> acc.invalid \/ ~DocumentFine(d, opts.match)
  BY <1>8, <1>9, <1>10 DEF Accounts
<1>12. ~next.invalid /\ ~M => next = acc
  BY <1>8, <1>9
<1>13. ~next.invalid /\ M => next = good
  BY <1>8, <1>9
<1>14. ~next.invalid /\ M =>
         /\ next.missing <=> acc.missing \/ ~check
         /\ \A c \in Categories, r \in Resources :
              next.totals[c][r] = acc.totals[c][r] + Demand(d, c, r)
  BY <1>6, <1>9, <1>13
<1> QED
  BY <1>11, <1>12, <1>14 DEF next, M, check

-----------------------------------------------------------------------------
(* All documents.                                                          *)

Documents(docs) ==
    docs \in Seq(ToSet(docs)) /\ \A d \in ToSet(docs) : IsInput(d)

\* The loop over the documents, as SumJSON runs it.
Loop(docs, opts) ==
    LET account(acc, d) == Account(acc, d, opts)
    IN  FoldLeft(account, [invalid |-> ~validateThresholds(opts),
                           totals |-> NoTotals, missing |-> FALSE], docs)

DemandOf(docs, match, c, r) ==
    MapThenSumSet(LAMBDA i : Demand(docs[i], c, r), InScope(docs, match))

AllFine(docs, opts) ==
    validateThresholds(opts) /\ \A i \in DOMAIN docs : DocumentFine(docs[i], opts.match)

\* G is the demand of the documents in scope and of any of them.
IsDemand(G, docs, match, c, r) ==
    /\ DemandOf(docs, match, c, r) = G[InScope(docs, match)]
    /\ G[{}] = 0
    /\ Sums(G, InScope(docs, match),
            [i \in InScope(docs, match) |-> Demand(docs[i], c, r)])

\* The demand of a stream is a sum in any order.
LEMMA DemandSums ==
    ASSUME NEW docs, Documents(docs), NEW match, NEW c \in Categories, NEW r \in Resources
    PROVE  \E G \in [SUBSET InScope(docs, match) -> Int] : IsDemand(G, docs, match, c, r)
<1> DEFINE S == InScope(docs, match)
           f == [i \in S |-> Demand(docs[i], c, r)]
           A(g) == [s \in SUBSET S |->
                      IF s = {} THEN 0
                      ELSE Demand(docs[CHOOSE x \in s : TRUE], c, r)
                             + g[s \ {CHOOSE x \in s : TRUE}]]
           B(g) == [s \in SUBSET S |->
                      IF s = {} THEN 0
                      ELSE f[CHOOSE x \in s : TRUE] + g[s \ {CHOOSE x \in s : TRUE}]]
           iterA == CHOOSE g : g = A(g)
           iterB == CHOOSE g : g = B(g)
<1>1. S \subseteq DOMAIN docs /\ DOMAIN docs = 1..Len(docs) /\ Len(docs) \in Nat
  BY DEF InScope, Documents
<1>2. IsFiniteSet(S)
  <2>1. IsFiniteSet(1..Len(docs))
    BY <1>1, FS_Interval
  <2> HIDE DEF S
  <2> QED
    BY <1>1, <2>1, FS_Subset
<1>3. \A i \in S : Demand(docs[i], c, r) \in Int
  <2>1. \A i \in DOMAIN docs : IsDocument(docs[i])
    BY DEF Documents, IsInput, ToSet
  <2> HIDE DEF S
  <2> QED
    BY <1>1, <2>1, DemandIs
<1>4. f \in [S -> Int]
  <2> HIDE DEF S
  <2> QED
    BY <1>3
<1>5. DemandOf(docs, match, c, r) = iterA[S]
  BY DEF DemandOf, MapThenSumSet, MapThenFoldSet
<1>6. MapThenSumSet(LAMBDA i : f[i], S) = iterB[S]
  BY DEF MapThenSumSet, MapThenFoldSet
<1>7. \A g : A(g) = B(g)
  <2>1. \A s \in SUBSET S : s # {} => (CHOOSE x \in s : TRUE) \in S
    OBVIOUS
  <2> HIDE DEF S
  <2> QED
    BY <2>1
<1>8. iterA = iterB
  <2> HIDE DEF A, B
  <2> QED
    BY <1>7
<1> HIDE DEF iterA, iterB
<1>9. PICK G \in [SUBSET S -> Int] :
        MapThenSumSet(LAMBDA i : f[i], S) = G[S] /\ G[{}] = 0 /\ Sums(G, S, f)
  <2> HIDE DEF S, f
  <2> QED
    BY <1>2, <1>4, SumSetIs
<1>10. DemandOf(docs, match, c, r) = G[S]
  BY <1>5, <1>6, <1>8, <1>9
<1> QED
  BY <1>9, <1>10 DEF IsDemand

\* What the loop has found out when it is through.
LEMMA LoopIs ==
    ASSUME NEW docs, Documents(docs), NEW opts, NEW c \in Categories, NEW r \in Resources
    PROVE  LET sum == Loop(docs, opts)
           IN  /\ sum \in Accounts
               /\ sum.invalid <=> ~AllFine(docs, opts)
               /\ ~sum.invalid =>
                    /\ sum.missing <=> \E i \in InScope(docs, opts.match) :
                                         ~checkResources(docs[i], opts.require)
                    /\ sum.totals[c][r] = DemandOf(docs, opts.match, c, r)
<1> DEFINE n == Len(docs)
           V == Accounts
           base == [invalid |-> ~validateThresholds(opts), totals |-> NoTotals,
                    missing |-> FALSE]
           Op == [p \in (1..n) \X V |-> Account(p[2], docs[p[1]], opts)]
           Body(g) == [s \in SUBSET (1..n) |->
                         IF s = {} THEN base
                         ELSE Account(g[s \ {Max(s)}], docs[Max(s)], opts)]
           iter == CHOOSE g : g = Body(g)
           S == InScope(docs, opts.match)
           f == [i \in S |-> Demand(docs[i], c, r)]
           fine(i) == DocumentFine(docs[i], opts.match)
           check(i) == checkResources(docs[i], opts.require)
<1>1. /\ n \in Nat /\ DOMAIN docs = 1..n
      /\ \A i \in 1..n : IsDocument(docs[i])
  BY DEF Documents, IsInput, ToSet
<1>2. S = {i \in 1..n : Readable(docs[i]) /\ Match(docs[i], opts.match, "and")}
  BY <1>1 DEF InScope
<1>3. \A i \in 1..n : fine(i) => Readable(docs[i])
  BY <1>1 DEF DocumentFine, Accountable, Readable, IsDocument
<1>4. base \in V /\ base.totals[c][r] = 0
  BY DEF Accounts, Totals, NoTotals, validateThresholds
<1>5. \A v \in V, i \in 1..n :
        /\ Account(v, docs[i], opts) \in V
        /\ Account(v, docs[i], opts).invalid <=> v.invalid \/ ~fine(i)
        /\ ~Account(v, docs[i], opts).invalid /\ ~Match(docs[i], opts.match, "and")
             => Account(v, docs[i], opts) = v
        /\ ~Account(v, docs[i], opts).invalid /\ Match(docs[i], opts.match, "and") =>
             /\ Account(v, docs[i], opts).missing <=> v.missing \/ ~check(i)
             /\ Account(v, docs[i], opts).totals[c][r]
                  = v.totals[c][r] + Demand(docs[i], c, r)
  BY <1>1, AccountStep
<1>6. Op \in [(1..n) \X V -> V]
  BY <1>5
<1>7. PICK F \in [SUBSET (1..n) -> V] : IsFold(F, 1..n, base, Largest(n), Op)
  <2> HIDE DEF V, Op, n, base
  <2> QED
    BY <1>1, <1>4, <1>6, PrefixFoldExists
<1>8. F = Body(F)
  <2> HIDE DEF base
  <2>1. ASSUME NEW s \in SUBSET (1..n), s # {}
        PROVE  F[s] = Account(F[s \ {Max(s)}], docs[Max(s)], opts)
    <3>1. Max(s) \in 1..n /\ Largest(n)[s] = Max(s)
      BY <1>1, <2>1, LargestOf DEF Largest
    <3>2. F[s] = Op[<<Max(s), F[s \ {Max(s)}]>>]
      <4> HIDE DEF Op
      <4> QED
        BY <1>7, <2>1, <3>1 DEF IsFold
    <3>3. F[s \ {Max(s)}] \in V
      <4> HIDE DEF V
      <4> QED
        BY <3>1
    <3>4. <<Max(s), F[s \ {Max(s)}]>> \in (1..n) \X V
      BY <3>1, <3>3
    <3> QED
      BY <3>2, <3>4
  <2>2. F[{}] = base
    BY <1>7 DEF IsFold
  <2> QED
    BY <2>1, <2>2
<1>9. iter = Body(iter)
  <2> HIDE DEF Body
  <2> QED
    BY <1>8
<1>10. Loop(docs, opts) = iter[1..n]
  BY <1>1 DEF Loop, FoldLeft, MapThenFoldSet
<1>a. PICK G \in [SUBSET S -> Int] : IsDemand(G, docs, opts.match, c, r)
  <2> HIDE DEF n, V, base, Op, iter
  <2> QED
    BY DemandSums
<1>11. /\ DemandOf(docs, opts.match, c, r) = G[S]
       /\ G[{}] = 0
       /\ Sums(G, S, f)
  BY <1>a DEF IsDemand
<1> DEFINE Seen(i) == {j \in S : j <= i}
           Found(i, acc) ==
             /\ acc \in V
             /\ acc.invalid <=> ~validateThresholds(opts) \/ \E j \in 1..i : ~fine(j)
             /\ ~acc.invalid => /\ acc.missing <=> \E j \in Seen(i) : ~check(j)
                                /\ acc.totals[c][r] = G[Seen(i)]
           N == {i \in Nat : i <= n => Found(i, iter[1..i])}
<1> HIDE DEF iter, Found, V, fine, check
<1>12. 0 \in N
  <2>1. 1..0 = {} /\ Seen(0) = {}
    BY <1>2
  <2>2. iter[{}] = base
    BY <1>9
  <2>3. base.invalid = ~validateThresholds(opts) /\ base.missing = FALSE
    OBVIOUS
  <2> HIDE DEF base, Seen
  <2>4. Found(0, base)
    BY <1>4, <1>11, <2>1, <2>3 DEF Found
  <2> QED
    BY <2>1, <2>2, <2>4
<1>13. ASSUME NEW i \in N
       PROVE  i + 1 \in N
  <2> SUFFICES ASSUME i + 1 <= n
               PROVE  Found(i + 1, iter[1..(i + 1)])
    OBVIOUS
  <2>1. i \in Nat /\ i + 1 \in 1..n /\ i <= n /\ i + 1 \in 0..n /\ i + 1 # 0 /\ (i + 1) - 1 = i
    BY <1>1
  <2>2. /\ (1..(i + 1)) \in SUBSET (1..n) /\ (1..(i + 1)) # {} /\ Max(1..(i + 1)) = i + 1
        /\ (1..(i + 1)) \ {i + 1} = 1..i
    <3> HIDE DEF n
    <3> QED
      BY <1>1, <2>1, Segments
  <2> DEFINE old == iter[1..i]
             new == iter[1..(i + 1)]
  <2>3. new = Account(old, docs[i + 1], opts)
    <3> HIDE DEF base
    <3> QED
      BY <1>9, <2>2
  <2>4. Found(i, old)
    BY <2>1
  <2> HIDE DEF old, new, base, S, f, n
  <2>5. old \in V
    BY <2>4 DEF Found
  <2>6. /\ new \in V
        /\ new.invalid <=> old.invalid \/ ~fine(i + 1)
        /\ ~new.invalid /\ ~Match(docs[i + 1], opts.match, "and") => new = old
        /\ ~new.invalid /\ Match(docs[i + 1], opts.match, "and") =>
             /\ new.missing <=> old.missing \/ ~check(i + 1)
             /\ new.totals[c][r] = old.totals[c][r] + Demand(docs[i + 1], c, r)
    BY <1>5, <2>1, <2>3, <2>5
  <2>7. \A j : j \in 1..(i + 1) <=> j \in 1..i \/ j = i + 1
    BY <2>1
  <2>8. new.invalid <=> ~validateThresholds(opts) \/ \E j \in 1..(i + 1) : ~fine(j)
    BY <2>4, <2>6, <2>7 DEF Found
  <2>9. ASSUME ~new.invalid
        PROVE  /\ new.missing <=> \E j \in Seen(i + 1) : ~check(j)
               /\ new.totals[c][r] = G[Seen(i + 1)]
    <3>1. ~old.invalid /\ fine(i + 1) /\ Readable(docs[i + 1])
      BY <1>3, <2>1, <2>6, <2>9
    <3>2. /\ old.missing <=> \E j \in Seen(i) : ~check(j)
          /\ old.totals[c][r] = G[Seen(i)]
      BY <2>4, <3>1 DEF Found
    <3>3. i + 1 \in S <=> Match(docs[i + 1], opts.match, "and")
      BY <1>2, <2>1, <3>1
    <3>4. S \subseteq Nat
      BY <1>2
    <3>7. \A j \in S : j <= i + 1 <=> j <= i \/ j = i + 1
      BY <2>1, <3>4
    <3>8. ~(i + 1 <= i)
      BY <2>1
    <3>5. CASE i + 1 \notin S
      <4>1. Seen(i + 1) = Seen(i)
        BY <3>5, <3>7
      <4> HIDE DEF Seen
      <4> QED
        BY <2>6, <2>9, <3>2, <3>3, <3>5, <4>1
    <3>6. CASE i + 1 \in S
      <4>1. /\ Seen(i + 1) \in SUBSET S /\ i + 1 \in Seen(i + 1)
            /\ Seen(i + 1) \ {i + 1} = Seen(i)
            /\ Seen(i) \in SUBSET S
        BY <2>1, <3>6, <3>7, <3>8
      <4> HIDE DEF Seen
      <4>2. G[Seen(i + 1)] = f[i + 1] + G[Seen(i)]
        BY <1>11, <4>1 DEF Sums
      <4>3. f[i + 1] = Demand(docs[i + 1], c, r)
        BY <3>6 DEF f
      <4>4. G[Seen(i)] \in Int
        BY <4>1
      <4>5. Demand(docs[i + 1], c, r) \in Int
        BY <1>1, <2>1, DemandIs
      <4>6. new.totals[c][r] = G[Seen(i + 1)]
        BY <2>6, <2>9, <3>2, <3>3, <3>6, <4>2, <4>3, <4>4, <4>5
      <4>7. new.missing <=> \E j \in Seen(i + 1) : ~check(j)
        <5>1. new.missing <=> old.missing \/ ~check(i + 1)
          BY <2>6, <2>9, <3>3, <3>6
        <5> QED
          BY <3>2, <4>1, <5>1
      <4> QED
        BY <4>6, <4>7
    <3> QED
      BY <3>5, <3>6
  <2> QED
    BY <2>6, <2>8, <2>9 DEF Found, new
<1>14. N = Nat
  <2> HIDE DEF N
  <2>1. N \in SUBSET Nat
    BY DEF N
  <2> QED
    BY <1>12, <1>13, <2>1, Induction
<1>15. Found(n, iter[1..n])
  <2>1. n \in N
    BY <1>1, <1>14
  <2> QED
    BY <2>1, <1>1
<1>16. Seen(n) = S
  BY <1>1, <1>2
<1>17. (\E j \in 1..n : ~fine(j)) <=> ~\A i \in DOMAIN docs : DocumentFine(docs[i], opts.match)
  BY <1>1 DEF fine
<1> HIDE DEF Seen, S
<1>18. LET sum == iter[1..n]
       IN  /\ sum \in V
           /\ sum.invalid <=> ~AllFine(docs, opts)
           /\ ~sum.invalid => /\ sum.missing <=> \E i \in S : ~check(i)
                              /\ sum.totals[c][r] = G[S]
  BY <1>15, <1>16, <1>17 DEF Found, AllFine
<1> QED
  BY <1>10, <1>11, <1>18 DEF S, V, check

\* A sum is refused exactly if thresholds or documents that count are malformed,
\* its totals are what the documents in scope demand, and it passes exactly if
\* no total exceeds its threshold and every document in scope says what is
\* required: SumJSON, for any stream.
THEOREM SumJSONIsTheSum ==
    ASSUME NEW docs, Documents(docs), NEW opts,
           \A c \in Categories, r \in Resources : opts.max[c][r] \subseteq Int
    PROVE  LET sum == SumJSON(docs, opts)
               demand(c, r) == DemandOf(docs, opts.match, c, r)
           IN  /\ sum.invalid <=> ~AllFine(docs, opts)
               /\ ~sum.invalid =>
                    /\ \A c \in Categories, r \in Resources :
                         sum.totals[c][r] = demand(c, r) /\ demand(c, r) \in Int
                    /\ sum.passed <=>
                         /\ \A c \in Categories, r \in Resources :
                              \A t \in opts.max[c][r] : demand(c, r) <= t
                         /\ \A i \in InScope(docs, opts.match) :
                              checkResources(docs[i], opts.require)
<1> DEFINE sum == SumJSON(docs, opts)
           loop == Loop(docs, opts)
           demand(c, r) == DemandOf(docs, opts.match, c, r)
           exceeded == buildAssertions(loop.totals, opts)
<1>1. /\ sum.invalid = loop.invalid /\ sum.totals = loop.totals
      /\ sum.passed = (exceeded = {} /\ ~loop.missing)
  BY DEF SumJSON, Loop
<1>2. "cpu" \in Resources /\ "requests" \in Categories
  BY DEF Resources, Categories
<1>3. loop \in Accounts /\ (loop.invalid <=> ~AllFine(docs, opts))
  BY <1>2, LoopIs
<1>4. ASSUME ~loop.invalid
      PROVE  /\ loop.missing <=> \E i \in InScope(docs, opts.match) :
                                   ~checkResources(docs[i], opts.require)
             /\ \A c \in Categories, r \in Resources : loop.totals[c][r] = demand(c, r)
  BY <1>2, <1>4, LoopIs
<1> HIDE DEF sum, loop, demand
<1>5. \A c \in Categories, r \in Resources : loop.totals[c][r] \in Int
  BY <1>3 DEF Accounts, Totals
<1>6. exceeded = {} <=> \A c \in Categories, r \in Resources :
                          \A t \in opts.max[c][r] : loop.totals[c][r] <= t
  <2>1. exceeded = {} <=> \A c \in Categories, r \in Resources :
                            \A t \in opts.max[c][r] : ~(loop.totals[c][r] > t)
    <3>1. ASSUME NEW c \in Categories, NEW r \in Resources, NEW t \in opts.max[c][r],
                 loop.totals[c][r] > t
          PROVE  <<c, r>> \in exceeded
      BY <3>1 DEF buildAssertions
    <3>2. ASSUME NEW cr \in exceeded
          PROVE  \E c \in Categories, r \in Resources :
                   \E t \in opts.max[c][r] : loop.totals[c][r] > t
      <4>1. cr[1] \in Categories /\ cr[2] \in Resources
            /\ \E t \in opts.max[cr[1]][cr[2]] : loop.totals[cr[1]][cr[2]] > t
        BY DEF buildAssertions
      <4> QED
        BY <4>1
    <3> HIDE DEF exceeded
    <3> QED
      BY <3>1, <3>2
  <2>2. \A c \in Categories, r \in Resources : \A t \in opts.max[c][r] :
          ~(loop.totals[c][r] > t) <=> loop.totals[c][r] <= t
    BY <1>5
  <2> QED
    BY <2>1, <2>2
<1> HIDE DEF exceeded
<1>7. ASSUME ~loop.invalid
      PROVE  sum.passed <=>
               /\ \A c \in Categories, r \in Resources :
                    \A t \in opts.max[c][r] : demand(c, r) <= t
               /\ \A i \in InScope(docs, opts.match) :
                    checkResources(docs[i], opts.require)
  BY <1>1, <1>4, <1>6, <1>7
<1> QED
  BY <1>1, <1>3, <1>4, <1>5, <1>7 DEF sum, demand

\* Looking at the first path alone is looking at every path that has none
\* before it.
LEMMA FirstPath ==
    ASSUME NEW d, IsDocument(d), NEW require
    PROVE  checkResources(d, require) <=>
             \A p \in 1..3 :
               (\A q \in 1..p - 1 : d.pods[q] = {}) =>
                 \A cs \in d.pods[p] : \A k \in DOMAIN cs :
                   \A c \in require, r \in Resources : Amount(cs[k], c, r) # {}
<1> DEFINE paths == {p \in DOMAIN d.pods : d.pods[p] # {}}
           first == CHOOSE p \in paths : \A q \in paths : p <= q
           says(cs) == \A k \in DOMAIN cs :
                         \A c \in require, r \in Resources : Amount(cs[k], c, r) # {}
<1>1. paths \subseteq 1..3 /\ \A p \in 1..3 : p \notin paths <=> d.pods[p] = {}
  BY DEF IsDocument
<1>2. \A p \in paths : d.pods[p] = {Part(d, p)} /\ TheOnly(d.pods[p]) = Part(d, p)
  BY <1>1, PartsAreSequences DEF Part
<1>3. checkResources(d, require) <=> (paths # {} => says(TheOnly(d.pods[first])))
  BY DEF checkResources
<1> HIDE DEF says
<1>4. paths # {} => first \in paths /\ \A q \in paths : first <= q
  <2>1. \A p \in paths : p = 1 \/ p = 2 \/ p = 3
    BY <1>1
  <2> HIDE DEF paths
  <2>2. paths # {} => \E p \in paths : \A q \in paths : p <= q
    BY <2>1
  <2> QED
    BY <2>2
<1> HIDE DEF first, paths
<1>5. ASSUME NEW p \in 1..3
      PROVE  ((\A q \in 1..p - 1 : d.pods[q] = {}) /\ d.pods[p] # {})
               <=> (paths # {} /\ p = first)
  <2>1. ASSUME \A q \in 1..p - 1 : d.pods[q] = {}, d.pods[p] # {}
        PROVE  paths # {} /\ p = first
    <3>1. p \in paths /\ first \in paths /\ first <= p /\ first \in 1..3
      BY <1>1, <1>4, <2>1
    <3>2. ~(first <= p - 1)
      <4> SUFFICES ASSUME first <= p - 1
                   PROVE  FALSE
        OBVIOUS
      <4>1. first \in 1..p - 1
        BY <3>1
      <4> QED
        BY <1>1, <2>1, <3>1, <4>1
    <3> QED
      BY <3>1, <3>2
  <2>2. ASSUME paths # {}, p = first
        PROVE  (\A q \in 1..p - 1 : d.pods[q] = {}) /\ d.pods[p] # {}
    <3>1. \A q \in 1..p - 1 : q \in 1..3 /\ ~(p <= q)
      OBVIOUS
    <3> QED
      BY <1>1, <1>4, <2>2, <3>1
  <2> QED
    BY <2>1, <2>2
<1>6. (\A p \in 1..3 : (\A q \in 1..p - 1 : d.pods[q] = {}) =>
         \A cs \in d.pods[p] : says(cs))
      <=> (paths # {} => says(Part(d, first)))
  <2>1. paths # {} => first \in 1..3 /\ d.pods[first] = {Part(d, first)}
    BY <1>1, <1>2, <1>4
  <2>2. \A p \in 1..3 : (\A cs \in d.pods[p] : says(cs))
          <=> (d.pods[p] # {} => \A cs \in d.pods[p] : says(cs))
    OBVIOUS
  <2> QED
    BY <1>5, <2>1, <2>2
<1>7. paths # {} => TheOnly(d.pods[first]) = Part(d, first)
  BY <1>2, <1>4
<1> QED
  BY <1>3, <1>6, <1>7 DEF says

-----------------------------------------------------------------------------
(* The order of fields.                                                    *)

\* The known fields have numbers of their own, lower than that of the others.
IsFieldOrder(order) ==
    \A x, y \in DOMAIN order : order[x] \in 0..998 /\ (order[x] = order[y] => x = y)

Numbers == 0..999

Number(field, order) == IF field \in DOMAIN order THEN order[field] ELSE 999

\* The fields that are not known have the highest number.
LEMMA NumbersAreLow ==
    ASSUME NEW order, IsFieldOrder(order), NEW x
    PROVE  /\ Number(x, order) \in Numbers
           /\ Number(x, order) < 999 <=> x \in DOMAIN order
           /\ x \in DOMAIN order => Number(x, order) = order[x]
<1>1. CASE x \in DOMAIN order
  <2>1. order[x] \in 0..998
    BY <1>1 DEF IsFieldOrder
  <2>2. Number(x, order) = order[x]
    BY <1>1 DEF Number
  <2> QED
    BY <1>1, <2>1, <2>2 DEF Numbers
<1>2. CASE x \notin DOMAIN order
  BY <1>2 DEF Number, Numbers
<1> QED
  BY <1>1, <1>2

\* at lists the places of a mapping's fields, by number and then by place.
Reordering(at, fields, order) ==
    /\ \A i \in DOMAIN fields : at[i] \in DOMAIN fields
    /\ \A p \in DOMAIN fields : \E i \in DOMAIN fields : at[i] = p
    /\ \A i, j \in DOMAIN fields : i < j =>
         \/ Number(fields[at[i]], order) < Number(fields[at[j]], order)
         \/ /\ Number(fields[at[i]], order) = Number(fields[at[j]], order)
            /\ at[i] < at[j]

\* The rank of a place among n: by the number of its field, then by the place.
PlaceRank(n, number, place) == n * number + place

RanksAgree(n, i, j, u, v) ==
    /\ PlaceRank(n, u, i) \in Int
    /\ PlaceRank(n, u, i) < PlaceRank(n, v, j) <=> (u < v \/ (u = v /\ i < j))
    /\ PlaceRank(n, u, i) = PlaceRank(n, v, j) <=> (u = v /\ i = j)

\* A multiple of n leaves room for the places up to n.
LEMMA RanksCompare ==
    ASSUME NEW n \in Nat, NEW i \in 1..n, NEW j \in 1..n, NEW u \in Numbers, NEW v \in Numbers
    PROVE  RanksAgree(n, i, j, u, v)
<1>1. n * u \in Int /\ n * v \in Int
  BY DEF Numbers
<1>2. ASSUME NEW s \in Numbers, NEW t \in Numbers, s < t
      PROVE  n * s \in Int /\ n * t \in Int /\ n * s + n <= n * t
  <2>1. n * (t - s) >= n * 1
    BY <1>2 DEF Numbers
  <2>2. n * (t - s) = n * t - n * s
    BY DEF Numbers
  <2>3. n * s \in Int /\ n * t \in Int
    BY DEF Numbers
  <2> QED
    BY <2>1, <2>2, <2>3
<1> DEFINE U == n * u  V == n * v
<1>3. /\ U \in Int /\ V \in Int
      /\ u = v => U = V
      /\ u < v => U + n <= V
      /\ v < u => V + n <= U
  <2>1. U \in Int /\ V \in Int
    BY <1>1
  <2>2. u < v => U + n <= V
    BY <1>2
  <2>3. v < u => V + n <= U
    BY <1>2
  <2>4. u = v => U = V
    OBVIOUS
  <2> QED
    BY <2>1, <2>2, <2>3, <2>4
<1> HIDE DEF U, V
<1>4. /\ U + i \in Int
      /\ U + i < V + j <=> (u < v \/ (u = v /\ i < j))
      /\ U + i = V + j <=> (u = v /\ i = j)
  BY <1>3 DEF Numbers
<1> QED
  BY <1>4 DEF U, V, PlaceRank, RanksAgree

\* The loop of reorderMapping and its stable sort list the fields as said.
LEMMA MappingReordered ==
    ASSUME NEW fields, FieldsOnce(fields), NEW order, IsFieldOrder(order)
    PROVE  \E at : /\ Reordering(at, fields, order)
                   /\ reorderMapping(fields, order) = [i \in DOMAIN fields |-> fields[at[i]]]
<1> DEFINE n == Len(fields)
           num == [i \in 1..n |-> Number(fields[i], order)]
           rank == [i \in 1..n |-> PlaceRank(n, num[i], i)]
           P == 1..n
           at == SortedBy(1..n, rank)
<1>1. n \in Nat /\ DOMAIN fields = 1..n
  BY DEF FieldsOnce
<1>2. \A i \in 1..n : num[i] \in Numbers
  <2> TAKE i \in 1..n
  <2>1. num[i] = Number(fields[i], order)
    OBVIOUS
  <2>2. Number(fields[i], order) \in Numbers
    BY NumbersAreLow
  <2> QED
    BY <2>1, <2>2, Zenon
<1>3. \A i \in 1..n : num[i] = Number(fields[i], order)
  OBVIOUS
<1>4. \A i \in 1..n : rank[i] = PlaceRank(n, num[i], i)
  OBVIOUS
<1>5. rank = [i \in DOMAIN fields |->
                Len(fields) * (IF fields[i] \in DOMAIN order THEN order[fields[i]] ELSE 999) + i]
  BY <1>1 DEF Number, PlaceRank
<1> HIDE DEF num
<1> HIDE DEF n
<1>6. \A i, j \in 1..n :
        /\ rank[i] \in Int
        /\ rank[i] < rank[j] <=> (num[i] < num[j] \/ (num[i] = num[j] /\ i < j))
        /\ rank[i] = rank[j] <=> (num[i] = num[j] /\ i = j)
  <2> TAKE i, j \in 1..n
  <2>1. num[i] \in Numbers /\ num[j] \in Numbers
    BY <1>2
  <2> DEFINE u == num[i]  v == num[j]
  <2>a. u \in Numbers /\ v \in Numbers
    BY <2>1
  <2>n. n \in Nat
    BY <1>1
  <2> HIDE DEF u, v
  <2>b. RanksAgree(n, i, j, u, v)
    BY <2>n, <2>a, RanksCompare
  <2>2. /\ PlaceRank(n, num[i], i) \in Int
        /\ PlaceRank(n, num[i], i) < PlaceRank(n, num[j], j)
             <=> (num[i] < num[j] \/ (num[i] = num[j] /\ i < j))
        /\ PlaceRank(n, num[i], i) = PlaceRank(n, num[j], j)
             <=> (num[i] = num[j] /\ i = j)
    BY <2>b DEF u, v, RanksAgree
  <2>3. /\ rank[i] = PlaceRank(n, num[i], i)
        /\ rank[j] = PlaceRank(n, num[j], j)
    BY <1>4
  <2> HIDE DEF rank
  <2> QED
    BY <2>2, <2>3
<1> HIDE DEF rank
<1>7. \A i, j \in 1..n : rank[i] \in Int /\ (rank[i] = rank[j] => i = j)
  BY <1>6
<1>8. IsFiniteSet(1..n) /\ Cardinality(1..n) = n
  BY <1>1, FS_Interval
<1>9. /\ {at[i] : i \in 1..n} = 1..n
      /\ \A i, j \in 1..n : i < j => rank[at[i]] < rank[at[j]]
  <2>1. /\ IsFiniteSet(P) /\ Cardinality(P) = n
        /\ \A i, j \in P : rank[i] \in Int /\ (rank[i] = rank[j] => i = j)
    BY <1>7, <1>8
  <2> HIDE DEF P
  <2>2. /\ {SortedBy(P, rank)[i] : i \in 1..Cardinality(P)} = P
        /\ \A i, j \in 1..Cardinality(P) :
             i < j => rank[SortedBy(P, rank)[i]] < rank[SortedBy(P, rank)[j]]
    BY <2>1, SortedHasAll
  <2> QED
    BY <2>1, <2>2 DEF P
<1> HIDE DEF at
<1>10. \A i \in 1..n : at[i] \in 1..n
  BY <1>9
<1>11. Reordering(at, fields, order)
  <2>1. \A p \in 1..n : \E i \in 1..n : at[i] = p
    BY <1>9
  <2>2. ASSUME NEW i \in 1..n, NEW j \in 1..n, i < j
        PROVE  \/ num[at[i]] < num[at[j]]
               \/ num[at[i]] = num[at[j]] /\ at[i] < at[j]
    BY <1>6, <1>9, <1>10, <2>2
  <2>3. ASSUME NEW i \in 1..n, NEW j \in 1..n, i < j
        PROVE  \/ Number(fields[at[i]], order) < Number(fields[at[j]], order)
               \/ /\ Number(fields[at[i]], order) = Number(fields[at[j]], order)
                  /\ at[i] < at[j]
    BY <1>3, <1>10, <2>2, <2>3
  <2> QED
    BY <1>1, <1>10, <2>1, <2>3 DEF Reordering
<1>12. reorderMapping(fields, order) =
         IF n < 2 THEN fields ELSE [i \in 1..n |-> fields[at[i]]]
  BY <1>1, <1>5 DEF reorderMapping, at, n
<1>13. n < 2 => fields = [i \in 1..n |-> fields[at[i]]]
  <2>1. n < 2 => \A i \in 1..n : at[i] = i
    BY <1>1, <1>10
  <2>2. fields = [i \in 1..n |-> fields[i]]
    BY <1>1 DEF FieldsOnce
  <2> QED
    BY <2>1, <2>2
<1> QED
  BY <1>1, <1>11, <1>12, <1>13

\* Of two fields in their new order, if the later one is known so is the earlier,
\* and it has the lower number.
LEMMA KnownFirst ==
    ASSUME NEW fields, FieldsOnce(fields), NEW order, IsFieldOrder(order),
           NEW at, Reordering(at, fields, order),
           NEW i \in DOMAIN fields, NEW j \in DOMAIN fields, i < j,
           fields[at[j]] \in DOMAIN order
    PROVE  fields[at[i]] \in DOMAIN order /\ order[fields[at[i]]] < order[fields[at[j]]]
<1> DEFINE f == fields[at[i]]  g == fields[at[j]]
<1>1. /\ at[i] \in DOMAIN fields /\ at[j] \in DOMAIN fields
      /\ \/ Number(f, order) < Number(g, order)
         \/ Number(f, order) = Number(g, order) /\ at[i] < at[j]
  BY DEF Reordering
<1>2. /\ Number(f, order) \in Numbers /\ Number(g, order) \in Numbers
      /\ Number(f, order) < 999 <=> f \in DOMAIN order
      /\ Number(g, order) < 999 <=> g \in DOMAIN order
      /\ f \in DOMAIN order => Number(f, order) = order[f]
      /\ g \in DOMAIN order => Number(g, order) = order[g]
  BY NumbersAreLow
<1>3. f = g => at[i] = at[j]
  BY <1>1 DEF FieldsOnce
<1>4. g \in DOMAIN order
  OBVIOUS
<1>5. DOMAIN fields \subseteq Int
  BY DEF FieldsOnce
<1>6. at[i] \in Int /\ at[j] \in Int
  BY <1>1, <1>5
<1> HIDE DEF f, g
<1>7. Number(f, order) < Number(g, order)
  <2> SUFFICES ASSUME Number(f, order) = Number(g, order), at[i] < at[j]
               PROVE  FALSE
    BY <1>1
  <2>1. f \in DOMAIN order /\ order[f] = order[g]
    BY <1>2, <1>4
  <2>2. f = g
    BY <1>4, <2>1 DEF IsFieldOrder
  <2> QED
    BY <1>3, <1>6, <2>2
<1>8. f \in DOMAIN order
  <2>1. Number(g, order) < 999
    BY <1>2, <1>4
  <2>2. Number(f, order) < 999
    <3> DEFINE a == Number(f, order)
               b == Number(g, order)
    <3>1. a \in 0..999 /\ b \in 0..999 /\ a < b /\ b < 999
      BY <1>2, <1>7, <2>1 DEF Numbers
    <3> HIDE DEF a, b
    <3>2. a < 999
      BY <3>1
    <3> QED
      BY <3>2 DEF a
  <2> QED
    BY <1>2, <2>2
<1>9. order[f] < order[g]
  BY <1>2, <1>4, <1>7, <1>8
<1> QED
  BY <1>8, <1>9 DEF f, g

\* A set of places that has all the places before its members is the first so many.
LEMMA FirstPlaces ==
    ASSUME NEW n \in Nat, NEW P \in SUBSET (1..n),
           \A i, j \in 1..n : i < j /\ j \in P => i \in P
    PROVE  \E c \in 0..n : P = 1..c
<1> DEFINE D == {i \in 1..n + 1 : i \notin P}
<1>1. D \in SUBSET Nat /\ D # {}
  <2>1. n + 1 \in D
    OBVIOUS
  <2> QED
    BY <2>1
<1>2. PICK k \in D : \A i \in D : k <= i
  BY <1>1, LeastNumber
<1>3. k - 1 \in 0..n /\ k \in 1..n + 1
  OBVIOUS
<1>4. \A i \in 1..n : i < k => i \in P
  <2> SUFFICES ASSUME NEW i \in 1..n, i < k, i \notin P
               PROVE  FALSE
    OBVIOUS
  <2>1. i \in D
    OBVIOUS
  <2> QED
    BY <1>2, <2>1
<1>5. \A i \in P : i < k
  <2> SUFFICES ASSUME NEW i \in P, ~(i < k)
               PROVE  FALSE
    OBVIOUS
  <2>1. k \in 1..n /\ k \notin P
    OBVIOUS
  <2> QED
    BY <2>1
<1>6. \A i \in 1..n : i \in P <=> i < k
  BY <1>4, <1>5
<1> HIDE DEF D
<1>7. \A i \in 1..k - 1 : i \in P
  <2> TAKE i \in 1..k - 1
  <2>1. i \in 1..n /\ i < k
    BY <1>3
  <2> QED
    BY <1>6, <2>1
<1>8. \A i \in P : i \in 1..k - 1
  BY <1>3, <1>5
<1>9. P = 1..k - 1
  BY <1>7, <1>8
<1> QED
  BY <1>3, <1>9

KnownPlaces(fields, order) == {i \in DOMAIN fields : fields[i] \in DOMAIN order}
KnownFields(fields, order) == {fields[i] : i \in KnownPlaces(fields, order)}
OtherFields(fields, order) == ElementsAt(fields, DOMAIN fields \ KnownPlaces(fields, order))

\* A mapping is k known fields, in their order, followed by m others.
Arranged(R, k, m, fields, order) ==
    /\ k \in Nat /\ m \in Nat
    /\ R = [i \in 1..k + m |-> R[i]]
    /\ DOMAIN fields = 1..k + m
    /\ Cardinality(KnownFields(fields, order)) = k
    /\ \A i \in 1..k : R[i] = SortedBy(KnownFields(fields, order), order)[i]
    /\ OtherFields(fields, order) = [i \in 1..m |-> R[k + i]]
    /\ \A i \in 1..k + m : R[i] \in DOMAIN order <=> i <= k
    /\ {R[i] : i \in 1..k} = KnownFields(fields, order)
    /\ FieldsOnce(R)
    /\ \A i, j \in 1..k + m : i < j /\ R[j] \in DOMAIN order =>
         R[i] \in DOMAIN order /\ order[R[i]] < order[R[j]]

\* reorderMapping puts the known fields in their order before the others in
\* the order they had.
LEMMA FieldsArranged ==
    ASSUME NEW fields, FieldsOnce(fields), NEW order, IsFieldOrder(order)
    PROVE  \E k, m : Arranged(reorderMapping(fields, order), k, m, fields, order)
<1> DEFINE R == reorderMapping(fields, order)
           K == KnownFields(fields, order)
           U == DOMAIN fields \ KnownPlaces(fields, order)
           n == Len(fields)
<1>1. n \in Nat /\ DOMAIN fields = 1..n
  BY DEF FieldsOnce
<1>2. PICK at : /\ Reordering(at, fields, order)
                /\ R = [i \in DOMAIN fields |-> fields[at[i]]]
  BY MappingReordered
<1> HIDE DEF R
<1> HIDE DEF n
<1>3. \A i, j \in 1..n : i < j /\ fields[at[j]] \in DOMAIN order =>
        fields[at[i]] \in DOMAIN order /\ order[fields[at[i]]] < order[fields[at[j]]]
  <2> TAKE i, j \in 1..n
  <2>1. i \in DOMAIN fields /\ j \in DOMAIN fields
    BY <1>1
  <2> QED
    BY <1>2, <2>1, KnownFirst
<1> DEFINE P == {i \in 1..n : fields[at[i]] \in DOMAIN order}
<1>4. PICK k \in 0..n : P = 1..k
  <2>1. P \in SUBSET (1..n)
    OBVIOUS
  <2>2. \A i, j \in 1..n : i < j /\ j \in P => i \in P
    BY <1>3
  <2> HIDE DEF P
  <2> QED
    BY <1>1, <2>1, <2>2, FirstPlaces
<1> DEFINE m == n - k
<1>5. k \in Nat /\ m \in Nat /\ k + m = n
  BY <1>1, <1>4
<1>6. \A i \in 1..n : fields[at[i]] \in DOMAIN order <=> i <= k
  <2> TAKE i \in 1..n
  <2>1. i \in P <=> i \in 1..k
    BY <1>4
  <2>2. i \in 1..k <=> i <= k
    BY <1>5
  <2> QED
    BY <2>1, <2>2
<1> HIDE DEF P, m
<1>7. \A i \in 1..n : at[i] \in 1..n
  BY <1>1, <1>2 DEF Reordering
<1>8. \A p \in 1..n : \E i \in 1..n : at[i] = p
  BY <1>1, <1>2 DEF Reordering
<1>9. R = [i \in 1..n |-> R[i]] /\ \A i \in 1..n : R[i] = fields[at[i]]
  BY <1>1, <1>2
<1>10. K = {R[i] : i \in 1..k}
  <2>1. ASSUME NEW i \in 1..k
        PROVE  R[i] \in K
    <3>1. i \in 1..n /\ i <= k
      BY <1>5
    <3>2. at[i] \in KnownPlaces(fields, order)
      BY <1>1, <1>6, <1>7, <3>1 DEF KnownPlaces
    <3> QED
      BY <1>9, <3>1, <3>2 DEF KnownFields
  <2>2. ASSUME NEW x \in K
        PROVE  \E i \in 1..k : R[i] = x
    <3>1. PICK p \in 1..n : fields[p] = x /\ x \in DOMAIN order
      BY <1>1 DEF KnownFields, KnownPlaces
    <3>2. PICK i \in 1..n : at[i] = p
      BY <1>8
    <3>3. i \in 1..k
      BY <1>5, <1>6, <3>1, <3>2
    <3> QED
      BY <1>9, <3>1, <3>2, <3>3
  <2> QED
    BY <2>1, <2>2
<1>11. \A i, j \in 1..k : i < j => order[R[i]] < order[R[j]]
  <2> TAKE i, j \in 1..k
  <2>1. i \in 1..n /\ j \in 1..n /\ j <= k
    BY <1>5
  <2>2. fields[at[j]] \in DOMAIN order
    BY <1>6, <2>1
  <2>3. R[i] = fields[at[i]] /\ R[j] = fields[at[j]]
    BY <1>9, <2>1
  <2> QED
    BY <1>3, <2>1, <2>2, <2>3
<1>12. Ascends(R, k, K, order)
  BY <1>10, <1>11 DEF Ascends
<1>13. Cardinality(K) = k /\ \A i \in 1..k : SortedBy(K, order)[i] = R[i]
  <2>1. \A x, y \in K : order[x] \in Int /\ (order[x] = order[y] => x = y)
    BY DEF IsFieldOrder, KnownFields, KnownPlaces
  <2>2. IsAscent(R, k, K, order)
    BY <1>5, <1>12, <2>1 DEF IsAscent
  <2> HIDE DEF K
  <2>3. AscentSorts(R, k, K, order)
    BY <2>2, SortedIs
  <2> QED
    BY <2>3 DEF AscentSorts

<1> DEFINE b == [i \in 1..m |-> at[k + i]]
<1>14. \A i \in 1..m : k + i \in 1..n /\ ~(k + i <= k) /\ b[i] = at[k + i]
  BY <1>5
<1>15. Enumerates(b, m, U)
  <2> HIDE DEF b
  <2>1. \A p \in U : p \in Int
    BY <1>1
  <2>2. \A i \in 1..m : b[i] \in U
    <3> TAKE i \in 1..m
    <3>1. k + i \in 1..n /\ b[i] = at[k + i]
      BY <1>14
    <3>2. fields[at[k + i]] \notin DOMAIN order
      BY <1>6, <1>14
    <3> QED
      BY <1>1, <1>7, <3>1, <3>2 DEF KnownPlaces
  <2>3. ASSUME NEW p \in U
        PROVE  \E i \in 1..m : b[i] = p
    <3>1. p \in 1..n /\ fields[p] \notin DOMAIN order
      BY <1>1 DEF KnownPlaces
    <3>2. PICK j \in 1..n : at[j] = p
      BY <1>8, <3>1
    <3>3. ~(j <= k)
      BY <1>6, <3>1, <3>2
    <3>4. j - k \in 1..m /\ k + (j - k) = j
      BY <1>1, <1>5, <3>3
    <3> QED
      BY <1>14, <3>2, <3>4
  <2>4. ASSUME NEW i \in 1..m, NEW j \in 1..m, i < j
        PROVE  b[i] < b[j]
    <3>1. k + i \in DOMAIN fields /\ k + j \in DOMAIN fields /\ k + i < k + j
      BY <1>1, <1>5, <1>14, <2>4
    <3>2. fields[at[k + i]] \notin DOMAIN order /\ fields[at[k + j]] \notin DOMAIN order
      BY <1>6, <1>14
    <3>3. /\ Number(fields[at[k + i]], order) = 999
          /\ Number(fields[at[k + j]], order) = 999
      BY <3>2 DEF Number
    <3>4. at[k + i] < at[k + j]
      <4> DEFINE p == k + i  q == k + j
      <4>1. /\ p \in DOMAIN fields /\ q \in DOMAIN fields /\ p < q
            /\ Number(fields[at[p]], order) = 999 /\ Number(fields[at[q]], order) = 999
        BY <3>1, <3>3
      <4> HIDE DEF p, q
      <4>2. \/ Number(fields[at[p]], order) < Number(fields[at[q]], order)
            \/ at[p] < at[q]
        BY <1>2, <4>1 DEF Reordering
      <4>3. at[p] < at[q]
        BY <4>1, <4>2
      <4> QED
        BY <4>3 DEF p, q
    <3> QED
      BY <1>14, <3>4
  <2> HIDE DEF U
  <2> QED
    BY <1>5, <2>1, <2>2, <2>3, <2>4 DEF Enumerates
<1>16. OtherFields(fields, order) = [i \in 1..m |-> fields[b[i]]]
  <2> HIDE DEF b, U
  <2>1. ElementsAt(fields, U) = [i \in 1..m |-> fields[b[i]]]
    BY <1>15, ElementsAlong
  <2> QED
    BY <2>1 DEF U, OtherFields
<1>17. \A i \in 1..m : fields[b[i]] = R[k + i]
  BY <1>9, <1>14
<1> HIDE DEF b
<1>18. OtherFields(fields, order) = [i \in 1..m |-> R[k + i]]
  BY <1>16, <1>17
<1>19. \A i \in 1..n : R[i] \in DOMAIN order <=> i <= k
  BY <1>6, <1>9
<1>20. FieldsOnce(R)
  <2>1. ASSUME NEW i \in 1..n, NEW j \in 1..n, R[i] = R[j], i < j
        PROVE  FALSE
    <3>1. fields[at[i]] = fields[at[j]]
      BY <1>9, <2>1
    <3>2. at[i] = at[j]
      BY <1>1, <1>7, <3>1 DEF FieldsOnce
    <3>3. at[i] < at[j]
      <4>1. \/ Number(fields[at[i]], order) < Number(fields[at[j]], order)
            \/ at[i] < at[j]
        BY <1>1, <1>2, <2>1 DEF Reordering
      <4>2. Number(fields[at[i]], order) = Number(fields[at[j]], order)
        BY <3>1
      <4>3. Number(fields[at[i]], order) \in Int
        BY NumbersAreLow DEF Numbers
      <4> QED
        BY <4>1, <4>2, <4>3
    <3> QED
      BY <1>7, <3>2, <3>3
  <2>2. \A i, j \in 1..n : R[i] = R[j] => i = j
    BY <2>1
  <2>3. R \in Seq(ToSet(R)) /\ DOMAIN R = 1..n
    BY <1>1, <1>9 DEF ToSet
  <2> QED
    BY <2>2, <2>3 DEF FieldsOnce
<1>21. \A i, j \in 1..n : i < j /\ R[j] \in DOMAIN order =>
         R[i] \in DOMAIN order /\ order[R[i]] < order[R[j]]
  BY <1>3, <1>9
<1>22. Arranged(R, k, m, fields, order)
  BY <1>1, <1>5, <1>9, <1>10, <1>13, <1>18, <1>19, <1>20, <1>21 DEF Arranged
<1> QED
  BY <1>22 DEF R

\* What is known of a mapping's fields, and of those that are not, in their order.
SameFields(f, g, order) ==
    /\ KnownFields(f, order) = KnownFields(g, order)
    /\ OtherFields(f, order) = OtherFields(g, order)

\* Formatted is about these two.
LEMMA FormattedIs ==
    ASSUME NEW f, NEW g, NEW order
    PROVE  Formatted(f, order) = Formatted(g, order) <=> SameFields(f, g, order)
<1>1. \A h : Formatted(h, order) = [front |-> KnownFields(h, order),
                                    back |-> OtherFields(h, order)]
  BY DEF Formatted, KnownFields, KnownPlaces, OtherFields
<1> QED
  BY <1>1 DEF SameFields

\* The new order changes neither.
LEMMA ArrangedSame ==
    ASSUME NEW fields, NEW order, NEW R, NEW k, NEW m, Arranged(R, k, m, fields, order)
    PROVE  SameFields(R, fields, order)
<1>1. /\ k \in Nat /\ m \in Nat /\ DOMAIN R = 1..k + m
      /\ \A i \in 1..k + m : R[i] \in DOMAIN order <=> i <= k
      /\ {R[i] : i \in 1..k} = KnownFields(fields, order)
      /\ OtherFields(fields, order) = [i \in 1..m |-> R[k + i]]
  BY DEF Arranged
<1>2. KnownPlaces(R, order) = 1..k
  BY <1>1 DEF KnownPlaces
<1>3. KnownFields(R, order) = KnownFields(fields, order)
  BY <1>1, <1>2 DEF KnownFields
<1> DEFINE U == DOMAIN R \ KnownPlaces(R, order)
           b == [i \in 1..m |-> k + i]
<1>4. U = k + 1..k + m
  BY <1>1, <1>2
<1>5. \A i \in 1..m : b[i] = k + i
  OBVIOUS
<1> HIDE DEF b, U
<1>6. Enumerates(b, m, U)
  <2>1. \A p \in U : p - k \in 1..m /\ k + (p - k) = p
    BY <1>1, <1>4
  <2>2. \A p \in U : \E i \in 1..m : b[i] = p
    BY <1>5, <2>1
  <2>3. \A i \in 1..m : b[i] \in U
    BY <1>1, <1>4, <1>5
  <2>4. \A i, j \in 1..m : i < j => b[i] < b[j]
    BY <1>1, <1>5
  <2>5. m \in Nat /\ \A p \in U : p \in Int
    BY <1>1, <1>4
  <2> QED
    BY <2>2, <2>3, <2>4, <2>5 DEF Enumerates
<1>7. ElementsAt(R, U) = [i \in 1..m |-> R[b[i]]]
  BY <1>6, ElementsAlong
<1>8. OtherFields(R, order) = [i \in 1..m |-> R[k + i]]
  BY <1>5, <1>7 DEF OtherFields, U
<1> QED
  BY <1>1, <1>3, <1>8 DEF SameFields

\* Mappings are in the same order afterwards exactly if they had the same known
\* fields, and the others in the same order.
LEMMA SameOrder ==
    ASSUME NEW f, FieldsOnce(f), NEW g, FieldsOnce(g), NEW order, IsFieldOrder(order)
    PROVE  reorderMapping(f, order) = reorderMapping(g, order) <=> SameFields(f, g, order)
<1> DEFINE F == reorderMapping(f, order)
           G == reorderMapping(g, order)
<1>1. PICK k, m : Arranged(F, k, m, f, order)
  BY FieldsArranged
<1>2. PICK l, o : Arranged(G, l, o, g, order)
  BY FieldsArranged
<1> HIDE DEF F, G
<1>3. F = G => SameFields(f, g, order)
  <2>1. SameFields(F, f, order) /\ SameFields(G, g, order)
    BY <1>1, <1>2, ArrangedSame
  <2> QED
    BY <2>1 DEF SameFields
<1>4. ASSUME SameFields(f, g, order)
      PROVE  F = G
  <2>1. k = l /\ k \in Nat /\ m \in Nat /\ o \in Nat
    BY <1>1, <1>2, <1>4 DEF Arranged, SameFields
  <2>2. 1..m = 1..o
    BY <1>1, <1>2, <1>4 DEF Arranged, SameFields
  <2>3. m = o
    BY <2>1, <2>2
  <2>4. \A i \in 1..k : F[i] = G[i]
    BY <1>1, <1>2, <1>4, <2>1 DEF Arranged, SameFields
  <2>5. \A i \in 1..m : F[k + i] = G[k + i]
    <3>1. [i \in 1..m |-> F[k + i]] = [i \in 1..m |-> G[k + i]]
      <4>1. OtherFields(f, order) = [i \in 1..m |-> F[k + i]]
        BY <1>1 DEF Arranged
      <4>2. OtherFields(g, order) = [i \in 1..o |-> G[l + i]]
        BY <1>2 DEF Arranged
      <4> QED
        BY <1>4, <2>1, <2>3, <4>1, <4>2 DEF SameFields
    <3> DEFINE a == [i \in 1..m |-> F[k + i]]
               b == [i \in 1..m |-> G[k + i]]
    <3>2. \A i \in 1..m : a[i] = F[k + i] /\ b[i] = G[k + i]
      OBVIOUS
    <3>3. a = b
      BY <3>1
    <3> HIDE DEF a, b
    <3> QED
      BY <3>2, <3>3
  <2>6. ASSUME NEW i \in 1..k + m
        PROVE  F[i] = G[i]
    <3>1. CASE i <= k
      BY <2>1, <2>4, <3>1
    <3>2. CASE ~(i <= k)
      <4>1. i - k \in 1..m /\ k + (i - k) = i
        BY <2>1, <3>2
      <4> QED
        BY <2>5, <4>1
    <3> QED
      BY <3>1, <3>2
  <2>7. F = [i \in 1..k + m |-> F[i]] /\ G = [i \in 1..k + m |-> G[i]]
    BY <1>1, <1>2, <2>1, <2>3 DEF Arranged
  <2> QED
    BY <2>6, <2>7
<1> QED
  BY <1>3, <1>4 DEF F, G

-----------------------------------------------------------------------------
(* The index of a stream.                                                  *)

IndexesOf(docs) ==
    [failed : BOOLEAN,
     of : UNION {[D -> {Reorder(docs[i]) : i \in DOMAIN docs}] : D \in SUBSET Refs(docs)}]

\* What an index holds after a document has been added.
IndexAdds(new, old, d) ==
    /\ new.failed <=> old.failed \/ ~Indexable(d) \/ RefOf(d) \in DOMAIN old.of
    /\ ~new.failed =>
         /\ DOMAIN new.of = DOMAIN old.of \cup {RefOf(d)}
         /\ new.of[RefOf(d)] = Reorder(d)
         /\ \A r \in DOMAIN old.of : new.of[r] = old.of[r]

\* A document is entered under its identity, or the index has failed.
LEMMA IndexNodeAdds ==
    ASSUME NEW docs, NEW m \in IndexesOf(docs), NEW i \in DOMAIN docs
    PROVE  IndexNode(m, docs[i]) \in IndexesOf(docs) /\ IndexAdds(IndexNode(m, docs[i]), m, docs[i])
<1> DEFINE d == docs[i]
           RR == {Reorder(docs[j]) : j \in DOMAIN docs}
           Maps == UNION {[D -> RR] : D \in SUBSET Refs(docs)}
           new == IndexNode(m, d)
           ref == RefOf(d)
           bad == m.failed \/ ~Indexable(d) \/ ref \in DOMAIN m.of
           map == Entered(m.of, ref, Reorder(d))
<1>1. Reorder(d) \in RR /\ ref \in Refs(docs)
  BY DEF Refs
<1>2. /\ m = [failed |-> m.failed, of |-> m.of]
      /\ m.failed \in BOOLEAN /\ m.of \in Maps
  BY DEF IndexesOf
<1>3. PICK D \in SUBSET Refs(docs) : m.of \in [D -> RR]
  BY <1>2
<1>4. IndexesOf(docs) = [failed : BOOLEAN, of : Maps]
  BY DEF IndexesOf
<1>5. /\ DOMAIN map = D \cup {ref}
      /\ map[ref] = Reorder(d)
      /\ ref \notin DOMAIN m.of => \A r \in D : map[r] = m.of[r]
      /\ map = [r \in D \cup {ref} |-> map[r]]
      /\ \A r \in D \ {ref} : map[r] = m.of[r]
  BY <1>3 DEF Entered
<1> HIDE DEF ref, RR, map
<1>6. map \in [D \cup {ref} -> RR]
  <2>1. ASSUME NEW r \in D \cup {ref}
        PROVE  map[r] \in RR
    BY <1>1, <1>3, <1>5
  <2> QED
    BY <1>5, <2>1
<1>7. map \in Maps
  <2>1. D \cup {ref} \in SUBSET Refs(docs)
    BY <1>1
  <2> QED
    BY <1>6, <2>1
<1> HIDE DEF Maps
<1>8. CASE bad
  <2>1. new = [failed |-> TRUE, of |-> m.of]
    BY <1>2, <1>8 DEF IndexNode, ref
  <2> QED
    BY <1>2, <1>4, <1>8, <2>1 DEF IndexAdds, ref
<1>9. CASE ~bad
  <2>1. new = [failed |-> m.failed, of |-> map]
    BY <1>2, <1>9 DEF IndexNode, ref, map
  <2>2. new \in IndexesOf(docs)
    BY <1>2, <1>4, <1>7, <2>1
  <2>3. ~new.failed /\ ~m.failed /\ Indexable(d) /\ ref \notin DOMAIN m.of /\ new.of = map
    BY <1>9, <2>1
  <2>4. DOMAIN m.of = D
    BY <1>3
  <2>5. IndexAdds(new, m, d)
    BY <1>5, <2>3, <2>4 DEF IndexAdds, ref
  <2> QED
    BY <2>2, <2>5
<1> QED
  BY <1>8, <1>9

\* What has been indexed when the loop has seen the first i documents.
Indexed(m, docs, i) ==
    /\ m \in IndexesOf(docs)
    /\ m.failed <=> \/ \E j \in 1..i : ~Indexable(docs[j])
                    \/ \E j, k \in 1..i : j # k /\ RefOf(docs[j]) = RefOf(docs[k])
    /\ ~m.failed => /\ DOMAIN m.of = {RefOf(docs[j]) : j \in 1..i}
                    /\ \A j \in 1..i : m.of[RefOf(docs[j])] = Reorder(docs[j])

\* One more document is in the index.
LEMMA IndexedNext ==
    ASSUME NEW docs, NEW i \in Nat, NEW old, NEW new, Indexed(old, docs, i),
           new \in IndexesOf(docs), IndexAdds(new, old, docs[i + 1])
    PROVE  Indexed(new, docs, i + 1)
<1> DEFINE d == docs[i + 1]
<1>1. \A j : j \in 1..i + 1 <=> j \in 1..i \/ j = i + 1
  OBVIOUS
<1>2. ~(i + 1 \in 1..i)
  OBVIOUS
<1>3. /\ new.failed <=> old.failed \/ ~Indexable(d) \/ RefOf(d) \in DOMAIN old.of
      /\ ~new.failed =>
           /\ DOMAIN new.of = DOMAIN old.of \cup {RefOf(d)}
           /\ new.of[RefOf(d)] = Reorder(d)
           /\ \A r \in DOMAIN old.of : new.of[r] = old.of[r]
  BY DEF IndexAdds
<1>4. /\ old.failed <=> \/ \E j \in 1..i : ~Indexable(docs[j])
                        \/ \E j, k \in 1..i : j # k /\ RefOf(docs[j]) = RefOf(docs[k])
      /\ ~old.failed => /\ DOMAIN old.of = {RefOf(docs[j]) : j \in 1..i}
                        /\ \A j \in 1..i : old.of[RefOf(docs[j])] = Reorder(docs[j])
  BY DEF Indexed
<1>5. new.failed <=> \/ \E j \in 1..i + 1 : ~Indexable(docs[j])
                     \/ \E j, k \in 1..i + 1 : j # k /\ RefOf(docs[j]) = RefOf(docs[k])
  <2>1. CASE old.failed
    BY <1>1, <1>3, <1>4, <2>1
  <2>2. CASE ~old.failed
    <3>1. RefOf(d) \in DOMAIN old.of <=> \E j \in 1..i : RefOf(docs[j]) = RefOf(d)
      BY <1>4, <2>2
    <3>2. (\E j \in 1..i + 1 : ~Indexable(docs[j])) <=> ~Indexable(d)
      BY <1>1, <1>4, <2>2
    <3>3. (\E j, k \in 1..i + 1 : j # k /\ RefOf(docs[j]) = RefOf(docs[k]))
            <=> \E j \in 1..i : RefOf(docs[j]) = RefOf(d)
      BY <1>1, <1>2, <1>4, <2>2
    <3> QED
      BY <1>3, <2>2, <3>1, <3>2, <3>3
  <2> QED
    BY <2>1, <2>2
<1>6. ASSUME ~new.failed
      PROVE  /\ DOMAIN new.of = {RefOf(docs[j]) : j \in 1..i + 1}
             /\ \A j \in 1..i + 1 : new.of[RefOf(docs[j])] = Reorder(docs[j])
  <2>1. ~old.failed
    BY <1>3, <1>6
  <2>2. DOMAIN new.of = {RefOf(docs[j]) : j \in 1..i + 1}
    BY <1>1, <1>3, <1>4, <1>6, <2>1
  <2>3. ASSUME NEW j \in 1..i + 1
        PROVE  new.of[RefOf(docs[j])] = Reorder(docs[j])
    BY <1>1, <1>3, <1>4, <1>6, <2>1
  <2> QED
    BY <2>2, <2>3
<1> QED
  BY <1>5, <1>6 DEF Indexed

\* The index that the loop ends with.
LEMMA IndexIs ==
    ASSUME NEW docs, docs \in Seq(ToSet(docs))
    PROVE  Indexed(buildResourceMap(docs), docs, Len(docs))
<1> DEFINE n == Len(docs)
           V == IndexesOf(docs)
           Op == [p \in (1..n) \X V |-> IndexNode(p[2], docs[p[1]])]
           Body(g) == [s \in SUBSET (1..n) |->
                         IF s = {} THEN NoIndex
                         ELSE IndexNode(g[s \ {Max(s)}], docs[Max(s)])]
           iter == CHOOSE g : g = Body(g)
<1>1. n \in Nat /\ DOMAIN docs = 1..n
  OBVIOUS
<1>2. NoIndex \in V
  <2>1. [r \in {} |-> r] \in [{} -> {Reorder(docs[j]) : j \in DOMAIN docs}]
    OBVIOUS
  <2>2. {} \in SUBSET Refs(docs)
    OBVIOUS
  <2> QED
    BY <2>1, <2>2 DEF IndexesOf, NoIndex
<1>3. \A v \in V, i \in 1..n :
        IndexNode(v, docs[i]) \in V /\ IndexAdds(IndexNode(v, docs[i]), v, docs[i])
  BY <1>1, IndexNodeAdds
<1>4. Op \in [(1..n) \X V -> V]
  BY <1>3
<1>5. PICK F \in [SUBSET (1..n) -> V] : IsFold(F, 1..n, NoIndex, Largest(n), Op)
  <2> HIDE DEF V, Op, n
  <2> QED
    BY <1>1, <1>2, <1>4, PrefixFoldExists
<1>6. F = Body(F)
  <2>1. ASSUME NEW s \in SUBSET (1..n), s # {}
        PROVE  F[s] = IndexNode(F[s \ {Max(s)}], docs[Max(s)])
    <3>1. Max(s) \in 1..n /\ Largest(n)[s] = Max(s)
      BY <1>1, <2>1, LargestOf DEF Largest
    <3>2. F[s] = Op[<<Max(s), F[s \ {Max(s)}]>>]
      <4> HIDE DEF Op
      <4> QED
        BY <1>5, <2>1, <3>1 DEF IsFold
    <3>3. F[s \ {Max(s)}] \in V
      <4> HIDE DEF V
      <4> QED
        BY <3>1
    <3>4. <<Max(s), F[s \ {Max(s)}]>> \in (1..n) \X V
      BY <3>1, <3>3
    <3> QED
      BY <3>2, <3>4
  <2>2. F[{}] = NoIndex
    BY <1>5 DEF IsFold
  <2> QED
    BY <2>1, <2>2
<1>7. iter = Body(iter)
  <2> HIDE DEF Body
  <2> QED
    BY <1>6
<1>8. buildResourceMap(docs) = iter[1..n]
  BY <1>1 DEF buildResourceMap, FoldLeft, MapThenFoldSet
<1> DEFINE N == {i \in Nat : i <= n => Indexed(iter[1..i], docs, i)}
<1> HIDE DEF iter, V
<1>9. 0 \in N
  <2>1. 1..0 = {}
    OBVIOUS
  <2>2. iter[{}] = NoIndex
    BY <1>7
  <2>3. Indexed(NoIndex, docs, 0)
    BY <1>2, <2>1 DEF Indexed, NoIndex, V
  <2> QED
    BY <2>1, <2>2, <2>3
<1>10. ASSUME NEW i \in N
       PROVE  i + 1 \in N
  <2> SUFFICES ASSUME i + 1 <= n
               PROVE  Indexed(iter[1..(i + 1)], docs, i + 1)
    OBVIOUS
  <2>1. i \in Nat /\ i + 1 \in 1..n /\ i <= n /\ i + 1 \in 0..n /\ i + 1 # 0 /\ (i + 1) - 1 = i
    BY <1>1
  <2>2. /\ (1..(i + 1)) \in SUBSET (1..n) /\ (1..(i + 1)) # {} /\ Max(1..(i + 1)) = i + 1
        /\ (1..(i + 1)) \ {i + 1} = 1..i
    <3> HIDE DEF n
    <3> QED
      BY <1>1, <2>1, Segments
  <2> DEFINE old == iter[1..i]
             new == iter[1..(i + 1)]
  <2>3. new = IndexNode(old, docs[i + 1])
    BY <1>7, <2>2
  <2>4. Indexed(old, docs, i)
    BY <2>1
  <2> HIDE DEF old, new, n
  <2>5. old \in V
    BY <2>4 DEF Indexed, V
  <2>6. new \in IndexesOf(docs) /\ IndexAdds(new, old, docs[i + 1])
    BY <1>3, <2>1, <2>3, <2>5 DEF V
  <2>7. Indexed(new, docs, i + 1)
    BY <2>1, <2>4, <2>6, IndexedNext
  <2> QED
    BY <2>7 DEF new
<1>11. N = Nat
  <2> HIDE DEF N
  <2>1. N \in SUBSET Nat
    BY DEF N
  <2> QED
    BY <1>9, <1>10, <2>1, Induction
<1>12. n \in N
  BY <1>1, <1>11
<1> QED
  BY <1>1, <1>8, <1>12

-----------------------------------------------------------------------------
(* The comparison of two streams.                                          *)

\* The two orders of known fields number them one by one.
LEMMA FieldOrders == IsFieldOrder(topFieldOrder) /\ IsFieldOrder(metadataFieldOrder)
<1>1. IsFieldOrder(topFieldOrder)
  BY DEF IsFieldOrder, topFieldOrder
<1>2. IsFieldOrder(metadataFieldOrder)
  BY DEF IsFieldOrder, metadataFieldOrder
<1> QED
  BY <1>1, <1>2

\* The texts of two documents are equal exactly if the documents say the same.
LEMMA RenderedIs ==
    ASSUME NEW d, IsManifest(d), NEW e, IsManifest(e)
    PROVE  rendered(Reorder(d)) = rendered(Reorder(e)) <=> SameManifest(d, e)
<1>1. /\ FieldsOnce(d.fields) /\ FieldsOnce(e.fields)
      /\ FieldsOnce(d.metaFields) /\ FieldsOnce(e.metaFields)
  BY DEF IsManifest
<1>2. \A x \in {d, e} :
        /\ Reorder(x).fields = reorderMapping(x.fields, topFieldOrder)
        /\ Reorder(x).metaFields = reorderMapping(x.metaFields, metadataFieldOrder)
        /\ Reorder(x).value = x.value
  <2>1. ASSUME NEW x, IsManifest(x)
        PROVE  /\ Reorder(x).fields = reorderMapping(x.fields, topFieldOrder)
               /\ Reorder(x).metaFields = reorderMapping(x.metaFields, metadataFieldOrder)
               /\ Reorder(x).value = x.value
    BY <2>1 DEF Reorder, IsManifest
  <2> QED
    BY <2>1
<1>3. /\ reorderMapping(d.fields, topFieldOrder) = reorderMapping(e.fields, topFieldOrder)
           <=> SameFields(d.fields, e.fields, topFieldOrder)
      /\ reorderMapping(d.metaFields, metadataFieldOrder)
           = reorderMapping(e.metaFields, metadataFieldOrder)
           <=> SameFields(d.metaFields, e.metaFields, metadataFieldOrder)
  BY <1>1, FieldOrders, SameOrder
<1> QED
  BY <1>2, <1>3, FormattedIs DEF rendered, SameManifest

IsRef(r) ==
    /\ r = [apiVersion |-> r.apiVersion, kind |-> r.kind, name |-> r.name, ns |-> r.ns]
    /\ {r.apiVersion, r.kind, r.name, r.ns} \subseteq DOMAIN Rank

\* Of two identities one comes first.
LEMMA RefsCompare ==
    ASSUME NEW a, IsRef(a), NEW b, IsRef(b), ~lessRef(a, b), ~lessRef(b, a)
    PROVE  a = b
<1> DEFINE av == <<Rank[a.kind], Rank[a.name], Rank[a.ns], Rank[a.apiVersion]>>
           bv == <<Rank[b.kind], Rank[b.name], Rank[b.ns], Rank[b.apiVersion]>>
<1>1. \A i \in 1..4 : av[i] \in Int /\ bv[i] \in Int
  BY RankAssumption DEF IsRef
<1>2. DOMAIN av = 1..4 /\ DOMAIN bv = 1..4
  OBVIOUS
<1>3. /\ ~\E i \in DOMAIN av : av[i] < bv[i] /\ \A j \in 1..i - 1 : av[j] = bv[j]
      /\ ~\E i \in DOMAIN bv : bv[i] < av[i] /\ \A j \in 1..i - 1 : bv[j] = av[j]
  BY DEF lessRef
<1> HIDE DEF av, bv
<1>4. av[1] = bv[1]
  BY <1>1, <1>2, <1>3
<1>5. av[2] = bv[2]
  BY <1>1, <1>2, <1>3, <1>4
<1>6. av[3] = bv[3]
  BY <1>1, <1>2, <1>3, <1>4, <1>5
<1>7. av[4] = bv[4]
  BY <1>1, <1>2, <1>3, <1>4, <1>5, <1>6
<1>8. /\ Rank[a.kind] = Rank[b.kind] /\ Rank[a.name] = Rank[b.name]
      /\ Rank[a.ns] = Rank[b.ns] /\ Rank[a.apiVersion] = Rank[b.apiVersion]
  BY <1>4, <1>5, <1>6, <1>7 DEF av, bv
<1>9. /\ a.kind = b.kind /\ a.name = b.name /\ a.ns = b.ns
      /\ a.apiVersion = b.apiVersion
  BY <1>8, RankAssumption DEF IsRef
<1> QED
  BY <1>9 DEF IsRef

\* A sorted list has every member of the set, once.
LEMMA SortedLists ==
    ASSUME NEW S, IsFiniteSet(S), NEW s \in sorted(S)
    PROVE  /\ Cardinality(S) \in Nat /\ DOMAIN s = 1..Cardinality(S)
           /\ ToSet(s) = S /\ Len(s) = Cardinality(ToSet(s))
           /\ \A x \in S : \E i \in 1..Cardinality(S) : s[i] = x
           /\ \A i, j \in 1..Cardinality(S) : i < j => ~lessRef(s[j], s[i])
<1> DEFINE m == Cardinality(S)
<1>1. m \in Nat
  BY FS_CardinalityType
<1>2. /\ s \in [1..m -> S]
      /\ \A i, j \in 1..m : i # j => s[i] # s[j]
      /\ \A i, j \in DOMAIN s : i < j => ~lessRef(s[j], s[i])
  BY DEF sorted, SetToSeqs
<1> HIDE DEF m
<1>3. s \in Injection(1..m, S)
  BY <1>2 DEF Injection, IsInjective
<1>4. IsFiniteSet(1..m) /\ Cardinality(1..m) = m
  BY <1>1, FS_Interval
<1>5. s \in Surjection(1..m, S)
  BY <1>3, <1>4, FS_Injection DEF m
<1>6. \A x \in S : \E i \in 1..m : s[i] = x
  BY <1>5 DEF Surjection
<1>7. ToSet(s) = S
  BY <1>2, <1>6 DEF ToSet
<1>8. Len(s) = m
  BY <1>1, <1>2
<1> QED
  BY <1>1, <1>2, <1>6, <1>7, <1>8 DEF m

\* There is only one way to sort identities.
LEMMA SortedUnique ==
    ASSUME NEW S, IsFiniteSet(S), \A r \in S : IsRef(r), NEW s \in sorted(S), NEW t \in sorted(S)
    PROVE  s = t
<1> DEFINE m == Cardinality(S)
           D == {i \in 1..m : s[i] # t[i]}
<1>1. /\ m \in Nat /\ DOMAIN s = 1..m /\ DOMAIN t = 1..m
      /\ \A x \in S : \E i \in 1..m : s[i] = x
      /\ \A x \in S : \E i \in 1..m : t[i] = x
      /\ \A i, j \in 1..m : i < j => ~lessRef(s[j], s[i])
      /\ \A i, j \in 1..m : i < j => ~lessRef(t[j], t[i])
  BY SortedLists
<1>2. s \in [1..m -> S] /\ t \in [1..m -> S]
  BY DEF sorted, SetToSeqs
<1>a. \A i, j \in 1..m : i # j => s[i] # s[j] /\ t[i] # t[j]
  BY DEF sorted, SetToSeqs
<1> HIDE DEF m
<1>b. D = {} => s = t
  <2>1. s = [i \in 1..m |-> s[i]] /\ t = [i \in 1..m |-> t[i]]
    BY <1>2
  <2>2. D = {} => \A i \in 1..m : s[i] = t[i]
    OBVIOUS
  <2> QED
    BY <2>1, <2>2
<1> SUFFICES ASSUME D # {}
             PROVE  FALSE
  BY <1>b
<1>3. PICK k \in D : \A i \in D : k <= i
  <2>1. D \in SUBSET Nat
    OBVIOUS
  <2> QED
    BY <2>1, LeastNumber
<1>4. \A i \in 1..m : i < k => s[i] = t[i]
  <2>1. \A i \in 1..m : i < k => ~(k <= i)
    BY <1>1
  <2> QED
    BY <1>3, <2>1
<1>5. k \in 1..m /\ s[k] \in S /\ t[k] \in S /\ s[k] # t[k]
  BY <1>2
<1>6. PICK i \in 1..m : t[i] = s[k]
  BY <1>1, <1>5
<1>7. PICK j \in 1..m : s[j] = t[k]
  BY <1>1, <1>5
<1>8. k < i
  <2>1. i # k
    BY <1>5, <1>6
  <2>2. ~(i < k)
    BY <1>4, <1>5, <1>6, <1>a, <2>1
  <2> QED
    BY <1>5, <2>1, <2>2
<1>9. k < j
  <2>1. j # k
    BY <1>5, <1>7
  <2>2. ~(j < k)
    BY <1>4, <1>5, <1>7, <1>a, <2>1
  <2> QED
    BY <1>5, <2>1, <2>2
<1>10. ~lessRef(s[k], t[k]) /\ ~lessRef(t[k], s[k])
  BY <1>1, <1>5, <1>6, <1>7, <1>8, <1>9
<1> QED
  BY <1>5, <1>10, RefsCompare

\* The identities of a stream are finitely many.
LEMMA RefsAreFinite ==
    ASSUME NEW docs, Documents(docs)
    PROVE  IsFiniteSet(Refs(docs)) /\ \A r \in Refs(docs) : IsRef(r)
<1> DEFINE n == Len(docs)
           f == [i \in 1..n |-> RefOf(docs[i])]
<1>1. n \in Nat /\ DOMAIN docs = 1..n /\ \A i \in 1..n : IsRanked(docs[i])
  BY DEF Documents, IsInput, ToSet
<1>2. f \in Surjection(1..n, Refs(docs))
  BY <1>1 DEF Refs, Surjection
<1>3. IsFiniteSet(1..n)
  BY <1>1, FS_Interval
<1>4. \A i \in 1..n : IsRef(RefOf(docs[i]))
  BY <1>1 DEF IsRanked, IsRef, RefOf
<1> HIDE DEF f, n
<1>5. IsFiniteSet(Refs(docs))
  BY <1>2, <1>3, FS_Surjection
<1>6. \A r \in Refs(docs) : IsRef(r)
  BY <1>1, <1>4 DEF Refs
<1> QED
  BY <1>5, <1>6

\* A stream can be indexed if its documents have identities of their own; the
\* index has each by its identity.
LEMMA StreamIndex ==
    ASSUME NEW docs, Documents(docs)
    PROVE  LET m == buildResourceMap(docs)
           IN  /\ m.failed <=> ~Comparable(docs)
               /\ ~m.failed =>
                    /\ DOMAIN m.of = Refs(docs)
                    /\ \A i \in DOMAIN docs : m.of[RefOf(docs[i])] = Reorder(docs[i])
<1> DEFINE m == buildResourceMap(docs)
<1>1. docs \in Seq(ToSet(docs)) /\ DOMAIN docs = 1..Len(docs)
  BY DEF Documents
<1>2. Indexed(m, docs, Len(docs))
  BY <1>1, IndexIs
<1> HIDE DEF m
<1>3. m.failed <=> \/ \E j \in DOMAIN docs : ~Indexable(docs[j])
                   \/ \E j, k \in DOMAIN docs : j # k /\ RefOf(docs[j]) = RefOf(docs[k])
  BY <1>1, <1>2 DEF Indexed
<1>4. m.failed <=> ~Comparable(docs)
  BY <1>3 DEF Comparable
<1>5. ~m.failed => /\ DOMAIN m.of = Refs(docs)
                   /\ \A i \in DOMAIN docs : m.of[RefOf(docs[i])] = Reorder(docs[i])
  BY <1>1, <1>2 DEF Indexed, Refs
<1> QED
  BY <1>4, <1>5 DEF m

\* What is found to be modified says something else.
LEMMA ModifiedIs ==
    ASSUME NEW before, Documents(before), NEW after, Documents(after),
           ~DiffFails(before, after)
    PROVE  {key \in Refs(before) \cap Refs(after) :
              rendered(buildResourceMap(before).of[key])
                # rendered(buildResourceMap(after).of[key])} = Changed(before, after)
<1> DEFINE b == buildResourceMap(before)
           a == buildResourceMap(after)
<1>1. /\ \A i \in DOMAIN before : b.of[RefOf(before[i])] = Reorder(before[i])
      /\ \A i \in DOMAIN after : a.of[RefOf(after[i])] = Reorder(after[i])
      /\ Comparable(before) /\ Comparable(after)
  BY StreamIndex DEF DiffFails
<1>2. /\ \A i \in DOMAIN before : IsManifest(before[i])
      /\ \A i \in DOMAIN after : IsManifest(after[i])
  BY DEF Documents, IsInput, ToSet
<1> HIDE DEF b, a
<1>3. ASSUME NEW key \in Refs(before) \cap Refs(after)
      PROVE  rendered(b.of[key]) # rendered(a.of[key]) <=> key \in Changed(before, after)
  <2>1. PICK i \in DOMAIN before : RefOf(before[i]) = key
    BY DEF Refs
  <2>2. PICK j \in DOMAIN after : RefOf(after[j]) = key
    BY DEF Refs
  <2>3. b.of[key] = Reorder(before[i]) /\ a.of[key] = Reorder(after[j])
    BY <1>1, <2>1, <2>2
  <2>4. rendered(b.of[key]) # rendered(a.of[key]) <=> ~SameManifest(before[i], after[j])
    BY <1>2, <2>3, RenderedIs
  <2>5. \A k \in DOMAIN before : RefOf(before[k]) = key => k = i
    BY <1>1, <2>1 DEF Comparable
  <2>6. \A k \in DOMAIN after : RefOf(after[k]) = key => k = j
    BY <1>1, <2>2 DEF Comparable
  <2>7. key \in Changed(before, after) <=> ~SameManifest(before[i], after[j])
    BY <2>1, <2>2, <2>5, <2>6 DEF Changed
  <2> QED
    BY <2>4, <2>7
<1>4. Changed(before, after) \subseteq Refs(before) \cap Refs(after)
  BY DEF Changed
<1> QED
  BY <1>3, <1>4 DEF b, a

\* Every identity is where it belongs, once; there are changes exactly if the
\* streams differ; and it is the only result.
IsExactDiff(d, before, after) ==
    /\ DOMAIN d = {"added", "removed", "modified"}
    /\ ToSet(d.added) = Refs(after) \ Refs(before)
    /\ ToSet(d.removed) = Refs(before) \ Refs(after)
    /\ ToSet(d.modified) = Changed(before, after)
    /\ \A list \in DOMAIN d : Len(d[list]) = Cardinality(ToSet(d[list]))
    /\ DiffNodes(before, after) = {d}
    /\ HasChanges(d) <=> Differ(before, after)

\* What DiffNodes finds is what the two streams say, whatever the order in which
\* the maps are iterated over.
LEMMA DiffIs ==
    ASSUME NEW before, Documents(before), NEW after, Documents(after),
           ~DiffFails(before, after), NEW d \in DiffNodes(before, after)
    PROVE  IsExactDiff(d, before, after)
<1> DEFINE A == Refs(after) \ Refs(before)
           R == Refs(before) \ Refs(after)
           M == Changed(before, after)
<1>1. DiffNodes(before, after) =
        {[added |-> added, removed |-> removed, modified |-> modified] :
           added \in sorted(A), removed \in sorted(R), modified \in sorted(M)}
  <2>1. /\ DOMAIN buildResourceMap(before).of = Refs(before)
        /\ DOMAIN buildResourceMap(after).of = Refs(after)
    BY StreamIndex DEF DiffFails
  <2> DEFINE b == buildResourceMap(before).of
             a == buildResourceMap(after).of
             X == DOMAIN a \ DOMAIN b
             Y == DOMAIN b \ DOMAIN a
             Z == {key \in DOMAIN b \cap DOMAIN a : rendered(b[key]) # rendered(a[key])}
  <2>2. DiffNodes(before, after) =
          {[added |-> added, removed |-> removed, modified |-> modified] :
             added \in sorted(X), removed \in sorted(Y), modified \in sorted(Z)}
    BY DEF DiffNodes, diffResourceMaps
  <2>3. X = A /\ Y = R
    BY <2>1
  <2>4. Z = M
    BY <2>1, ModifiedIs
  <2> HIDE DEF X, Y, Z, A, R, M
  <2> QED
    BY <2>2, <2>3, <2>4
<1>2. /\ IsFiniteSet(A) /\ IsFiniteSet(R) /\ IsFiniteSet(M)
      /\ \A r \in A \cup R \cup M : IsRef(r)
  <2>1. /\ IsFiniteSet(Refs(before)) /\ IsFiniteSet(Refs(after))
        /\ \A r \in Refs(before) \cup Refs(after) : IsRef(r)
    BY RefsAreFinite
  <2>2. A \subseteq Refs(after) /\ R \subseteq Refs(before) /\ M \subseteq Refs(before)
    BY DEF Changed
  <2> HIDE DEF A, R, M
  <2> QED
    BY <2>1, <2>2, FS_Subset
<1>3. PICK added \in sorted(A), removed \in sorted(R), modified \in sorted(M) :
        d = [added |-> added, removed |-> removed, modified |-> modified]
  BY <1>1
<1> HIDE DEF A, R, M
<1>4. /\ ToSet(added) = A /\ Len(added) = Cardinality(ToSet(added))
      /\ ToSet(removed) = R /\ Len(removed) = Cardinality(ToSet(removed))
      /\ ToSet(modified) = M /\ Len(modified) = Cardinality(ToSet(modified))
  BY <1>2, SortedLists
<1>5. /\ \A s \in sorted(A) : s = added
      /\ \A s \in sorted(R) : s = removed
      /\ \A s \in sorted(M) : s = modified
  BY <1>2, SortedUnique
<1>6. DiffNodes(before, after) = {d}
  BY <1>1, <1>3, <1>5
<1>7. ASSUME NEW S, IsFiniteSet(S), NEW s \in sorted(S)
      PROVE  s = << >> <=> S = {}
  <2>1. /\ Cardinality(S) \in Nat /\ DOMAIN s = 1..Cardinality(S) /\ s \in [1..Cardinality(S) -> S]
    BY <1>7, SortedLists DEF sorted, SetToSeqs
  <2>2. Cardinality(S) = 0 <=> S = {}
    BY <1>7, FS_EmptySet
  <2>3. s = << >> <=> Cardinality(S) = 0
    BY <2>1
  <2> QED
    BY <2>2, <2>3
<1>8. HasChanges(d) <=> A # {} \/ R # {} \/ M # {}
  <2>1. HasChanges(d) <=> added # << >> \/ removed # << >> \/ modified # << >>
    BY <1>3 DEF HasChanges
  <2>2. /\ added = << >> <=> A = {}
        /\ removed = << >> <=> R = {}
        /\ modified = << >> <=> M = {}
    BY <1>2, <1>7
  <2> QED
    BY <2>1, <2>2
<1>9. Differ(before, after) <=> A # {} \/ R # {} \/ M # {}
  BY DEF Differ, A, R, M
<1>10. \A list \in DOMAIN d : Len(d[list]) = Cardinality(ToSet(d[list]))
  BY <1>3, <1>4
<1>11. /\ d.added = added /\ d.removed = removed /\ d.modified = modified
       /\ DOMAIN d = {"added", "removed", "modified"}
  BY <1>3
<1> QED
  BY <1>4, <1>6, <1>8, <1>9, <1>10, <1>11 DEF A, R, M, IsExactDiff

-----------------------------------------------------------------------------
(* The .env file.                                                          *)

\* The lines among the first i that give a variable its value.
Assigned(lines, key, i) ==
    {j \in 1..i : lines[j].form = "assignment" /\ lines[j].key = key}

\* What a .env file may make of the variables.
EnvsOf(lines) ==
    UNION {[D -> {lines[j].value : j \in DOMAIN lines}] :
             D \in SUBSET {lines[j].key : j \in DOMAIN lines}}

\* What one line does to the variables.
Assign(env, line) ==
    IF line.form = "assignment" THEN Entered(env, line.key, line.value) ELSE env

\* The variables after the first i lines.
EnvAfter(env, lines, i) ==
    /\ env \in EnvsOf(lines)
    /\ \A key : /\ key \in DOMAIN env <=> Assigned(lines, key, i) # {}
                /\ key \in DOMAIN env =>
                     env[key] = lines[Max(Assigned(lines, key, i))].value

\* A line sets one variable, or none.
Assigns(env, line, new) ==
    /\ line.form # "assignment" => new = env
    /\ line.form = "assignment" =>
         /\ DOMAIN new = DOMAIN env \cup {line.key}
         /\ new[line.key] = line.value
         /\ \A k \in DOMAIN env \ {line.key} : new[k] = env[k]

\* A line keeps the variables to those of the file.
LEMMA AssignStays ==
    ASSUME NEW lines, NEW i \in DOMAIN lines, NEW env \in EnvsOf(lines)
    PROVE  /\ Assign(env, lines[i]) \in EnvsOf(lines)
           /\ Assigns(env, lines[i], Assign(env, lines[i]))
<1> DEFINE key == lines[i].key
           val == lines[i].value
           K == {lines[j].key : j \in DOMAIN lines}
           W == {lines[j].value : j \in DOMAIN lines}
           new == Assign(env, lines[i])
<1>1. PICK D \in SUBSET K : env \in [D -> W]
  BY DEF EnvsOf
<1>2. key \in K /\ val \in W
  OBVIOUS
<1>3. CASE lines[i].form # "assignment"
  BY <1>3 DEF Assign, Assigns
<1>4. CASE lines[i].form = "assignment"
  <2>1. new = [k \in DOMAIN env \cup {key} |-> IF k = key THEN val ELSE env[k]]
    BY <1>4 DEF Assign, Entered
  <2> HIDE DEF new, K, W, key, val
  <2>2. DOMAIN env = D
    BY <1>1
  <2>3. \A k \in D \cup {key} : new[k] = IF k = key THEN val ELSE env[k]
    BY <2>1, <2>2
  <2>4. new \in [D \cup {key} -> W]
    <3>1. \A k \in D \cup {key} : new[k] \in W
      BY <1>1, <1>2, <2>3
    <3> QED
      BY <2>1, <2>2, <3>1
  <2>5. D \cup {key} \in SUBSET K
    BY <1>2
  <2>6. new \in EnvsOf(lines)
    BY <2>4, <2>5 DEF EnvsOf, K, W
  <2> QED
    BY <1>4, <2>2, <2>3, <2>4, <2>6 DEF new, key, val, Assigns
<1> QED
  BY <1>3, <1>4

\* The next line counts if it gives the variable a value, and then more than those
\* before it.
LEMMA AssignedNext ==
    ASSUME NEW lines, NEW i \in Nat, NEW key
    PROVE  IF lines[i + 1].form = "assignment" /\ lines[i + 1].key = key
           THEN Assigned(lines, key, i + 1) # {} /\ Max(Assigned(lines, key, i + 1)) = i + 1
           ELSE Assigned(lines, key, i + 1) = Assigned(lines, key, i)
<1> DEFINE S == Assigned(lines, key, i + 1)
<1>1. CASE lines[i + 1].form = "assignment" /\ lines[i + 1].key = key
  <2>1. i + 1 \in S /\ S \in SUBSET (1..(i + 1)) /\ S # {}
    BY <1>1 DEF Assigned
  <2> HIDE DEF S
  <2> DEFINE n == i + 1
  <2>2. n \in Nat /\ S \in SUBSET (1..n) /\ n \in S
    BY <2>1
  <2> HIDE DEF n
  <2>3. Max(S) \in S /\ n <= Max(S)
    BY <2>1, <2>2, LargestOf
  <2>4. Max(S) = n
    <3> DEFINE x == Max(S)
    <3>1. \A j \in S : j \in Int /\ j <= n
      BY <2>2
    <3>2. x \in S /\ n <= x
      BY <2>3
    <3> HIDE DEF x
    <3>3. x \in Int /\ x <= n
      BY <3>1, <3>2
    <3>4. x = n
      BY <2>2, <3>2, <3>3
    <3> QED
      BY <3>4 DEF x
  <2> QED
    BY <1>1, <2>1, <2>4 DEF S, n
<1>2. CASE ~(lines[i + 1].form = "assignment" /\ lines[i + 1].key = key)
  <2>1. \A j \in 1..(i + 1) : j \in 1..i \/ j = i + 1
    OBVIOUS
  <2>2. \A j \in 1..i : j \in 1..(i + 1)
    OBVIOUS
  <2>3. Assigned(lines, key, i + 1) = Assigned(lines, key, i)
    BY <1>2, <2>1, <2>2 DEF Assigned
  <2> QED
    BY <1>2, <2>3
<1> QED
  BY <1>1, <1>2

\* What the loop over the lines keeps.
LEMMA EnvNext ==
    ASSUME NEW lines, NEW i \in Nat, i + 1 \in DOMAIN lines, NEW env, EnvAfter(env, lines, i)
    PROVE  EnvAfter(Assign(env, lines[i + 1]), lines, i + 1)
<1> DEFINE line == lines[i + 1]
           new == Assign(env, line)
<1>1. env \in EnvsOf(lines)
  BY DEF EnvAfter
<1>2. /\ new \in EnvsOf(lines)
      /\ line.form # "assignment" => new = env
      /\ line.form = "assignment" =>
           /\ DOMAIN new = DOMAIN env \cup {line.key}
           /\ new[line.key] = line.value
           /\ \A k \in DOMAIN env \ {line.key} : new[k] = env[k]
  <2>1. ASSUME NEW n \in DOMAIN lines
        PROVE  Assign(env, lines[n]) \in EnvsOf(lines) /\ Assigns(env, lines[n], Assign(env, lines[n]))
    BY <1>1, AssignStays
  <2>2. new \in EnvsOf(lines) /\ Assigns(env, line, new)
    BY <2>1
  <2> HIDE DEF new, line
  <2> QED
    BY <2>2 DEF Assigns
<1> HIDE DEF new
<1>3. ASSUME NEW key
      PROVE  /\ key \in DOMAIN new <=> Assigned(lines, key, i + 1) # {}
             /\ key \in DOMAIN new =>
                  new[key] = lines[Max(Assigned(lines, key, i + 1))].value
  <2>1. /\ key \in DOMAIN env <=> Assigned(lines, key, i) # {}
        /\ key \in DOMAIN env => env[key] = lines[Max(Assigned(lines, key, i))].value
    BY DEF EnvAfter
  <2>2. CASE line.form = "assignment" /\ line.key = key
    <3>1. Assigned(lines, key, i + 1) # {} /\ Max(Assigned(lines, key, i + 1)) = i + 1
      BY <2>2, AssignedNext
    <3> QED
      BY <1>2, <2>2, <3>1
  <2>3. CASE ~(line.form = "assignment" /\ line.key = key)
    <3>1. Assigned(lines, key, i + 1) = Assigned(lines, key, i)
      BY <2>3, AssignedNext
    <3>2. /\ key \in DOMAIN new <=> key \in DOMAIN env
          /\ key \in DOMAIN env => new[key] = env[key]
      BY <1>2, <2>3
    <3> QED
      BY <2>1, <3>1, <3>2
  <2> QED
    BY <2>2, <2>3
<1> QED
  BY <1>2, <1>3 DEF EnvAfter, new

\* The last value of each variable counts.
LEMMA EnvIs ==
    ASSUME NEW lines, lines \in Seq(ToSet(lines))
    PROVE  EnvAfter(EnvMapFromBytes(lines), lines, Len(lines))
<1> DEFINE n == Len(lines)
           V == EnvsOf(lines)
           Op == [p \in (1..n) \X V |-> Assign(p[2], lines[p[1]])]
           Body(g) == [s \in SUBSET (1..n) |->
                         IF s = {} THEN << >>
                         ELSE Assign(g[s \ {Max(s)}], lines[Max(s)])]
           iter == CHOOSE g : g = Body(g)
<1>1. n \in Nat /\ DOMAIN lines = 1..n
  OBVIOUS
<1>2. << >> \in V
  <2>1. << >> \in [{} -> {lines[j].value : j \in DOMAIN lines}]
    OBVIOUS
  <2>2. {} \in SUBSET {lines[j].key : j \in DOMAIN lines}
    OBVIOUS
  <2> QED
    BY <2>1, <2>2 DEF EnvsOf
<1>3. \A v \in V, i \in 1..n : Assign(v, lines[i]) \in V
  BY <1>1, AssignStays
<1>4. Op \in [(1..n) \X V -> V]
  BY <1>3
<1>5. PICK F \in [SUBSET (1..n) -> V] : IsFold(F, 1..n, << >>, Largest(n), Op)
  <2> HIDE DEF V, Op, n
  <2> QED
    BY <1>1, <1>2, <1>4, PrefixFoldExists
<1>6. F = Body(F)
  <2>1. ASSUME NEW s \in SUBSET (1..n), s # {}
        PROVE  F[s] = Assign(F[s \ {Max(s)}], lines[Max(s)])
    <3>1. Max(s) \in 1..n /\ Largest(n)[s] = Max(s)
      BY <1>1, <2>1, LargestOf DEF Largest
    <3>2. F[s] = Op[<<Max(s), F[s \ {Max(s)}]>>]
      <4> HIDE DEF Op
      <4> QED
        BY <1>5, <2>1, <3>1 DEF IsFold
    <3>3. F[s \ {Max(s)}] \in V
      <4> HIDE DEF V
      <4> QED
        BY <3>1
    <3>4. <<Max(s), F[s \ {Max(s)}]>> \in (1..n) \X V
      BY <3>1, <3>3
    <3> QED
      BY <3>2, <3>4
  <2>2. F[{}] = << >>
    BY <1>5 DEF IsFold
  <2> QED
    BY <2>1, <2>2
<1>7. iter = Body(iter)
  <2> HIDE DEF Body
  <2> QED
    BY <1>6
<1>8. EnvMapFromBytes(lines) = iter[1..n]
  BY <1>1 DEF EnvMapFromBytes, FoldLeft, MapThenFoldSet, Assign
<1> DEFINE N == {i \in Nat : i <= n => EnvAfter(iter[1..i], lines, i)}
<1> HIDE DEF iter, V
<1>9. 0 \in N
  <2>1. 1..0 = {}
    OBVIOUS
  <2>2. iter[{}] = << >>
    BY <1>7
  <2>3. EnvAfter(<< >>, lines, 0)
    BY <1>2, <2>1 DEF EnvAfter, Assigned, V
  <2> QED
    BY <2>1, <2>2, <2>3
<1>10. ASSUME NEW i \in N
       PROVE  i + 1 \in N
  <2> SUFFICES ASSUME i + 1 <= n
               PROVE  EnvAfter(iter[1..(i + 1)], lines, i + 1)
    OBVIOUS
  <2>1. i \in Nat /\ i + 1 \in 1..n /\ i <= n /\ i + 1 \in 0..n /\ i + 1 # 0 /\ (i + 1) - 1 = i
    BY <1>1
  <2>2. /\ (1..(i + 1)) \in SUBSET (1..n) /\ (1..(i + 1)) # {} /\ Max(1..(i + 1)) = i + 1
        /\ (1..(i + 1)) \ {i + 1} = 1..i
    <3> HIDE DEF n
    <3> QED
      BY <1>1, <2>1, Segments
  <2> DEFINE old == iter[1..i]
             new == iter[1..(i + 1)]
  <2>3. new = Assign(old, lines[i + 1])
    BY <1>7, <2>2
  <2>4. EnvAfter(old, lines, i)
    BY <2>1
  <2> HIDE DEF old, new, n
  <2>5. i + 1 \in DOMAIN lines
    BY <1>1, <2>1
  <2>6. EnvAfter(new, lines, i + 1)
    BY <2>1, <2>3, <2>4, <2>5, EnvNext
  <2> QED
    BY <2>6 DEF new
<1>11. N = Nat
  <2> HIDE DEF N
  <2>1. N \in SUBSET Nat
    BY DEF N
  <2> QED
    BY <1>9, <1>10, <2>1, Induction
<1>12. n \in N
  BY <1>1, <1>11
<1> QED
  BY <1>1, <1>8, <1>12

-----------------------------------------------------------------------------
(* Documents with what a filter makes of them.                             *)

\* A document that holds something else.
Holding(d, value) == [d EXCEPT !.value = value]

\* A document whose variable is not replaced, and that is not mutated, is as it was.
LEMMA HoldingItsOwn ==
    ASSUME NEW d, IsManifest(d)
    PROVE  d = Holding(d, [of |-> d.value.of, mutated |-> FALSE, hole |-> d.value.hole])
<1>1. d.value.hole = [is |-> d.value.hole.is, of |-> d.value.hole.of]
  BY DEF IsManifest
<1>2. d.value = [of |-> d.value.of, mutated |-> FALSE, hole |-> d.value.hole]
  BY <1>1 DEF IsManifest
<1> DEFINE v == [of |-> d.value.of, mutated |-> FALSE, hole |-> d.value.hole]
<1>3. d = [field \in DOMAIN d |-> d[field]] /\ "value" \in DOMAIN d /\ d.value = v
  BY <1>2 DEF IsManifest
<1> HIDE DEF v
<1>4. d = [d EXCEPT !.value = v]
  BY <1>3
<1> QED
  BY <1>4 DEF Holding, v

\* The parts of what a document holds.
Value(v, o, m, h) == v = [of |-> o, mutated |-> m, hole |-> h]

\* A new value in one of the places of what a document holds.
LEMMA PlaceExcept ==
    ASSUME NEW o, NEW m, NEW h, NEW x, NEW v, Value(v, o, m, h)
    PROVE  /\ Value([v EXCEPT !.mutated = x], o, x, h)
           /\ Value([v EXCEPT !.hole = x], o, m, x)
  BY DEF Value

\* A document that is written has all of the one that was read but the value of
\* one of its places, and the order of its fields.
IsOf(d, doc, value) ==
    /\ [d EXCEPT !.value = doc.value, !.fields = doc.fields,
                 !.metaFields = doc.metaFields] = doc
    /\ d.value = value
    /\ SameManifest([d EXCEPT !.value = doc.value], doc)

\* Known fields come first, in their order.
InOrder(d) ==
    \A j, k \in DOMAIN d.fields :
      j < k /\ d.fields[k] \in DOMAIN topFieldOrder =>
        /\ d.fields[j] \in DOMAIN topFieldOrder
        /\ topFieldOrder[d.fields[j]] < topFieldOrder[d.fields[k]]

\* JSON has the fields as they are.
LEMMA HeldIs ==
    ASSUME NEW doc, IsManifest(doc), NEW value
    PROVE  IsOf(Holding(doc, value), doc, value)
<1> DEFINE d == Holding(doc, value)
<1>1. /\ doc = [field \in DOMAIN doc |-> doc[field]]
      /\ {"form", "fields", "metaFields", "value"} \subseteq DOMAIN doc
  BY DEF IsManifest
<1>2. d.value = value /\ d.fields = doc.fields /\ d.metaFields = doc.metaFields
  BY <1>1 DEF Holding
<1>3. [d EXCEPT !.value = doc.value, !.fields = doc.fields,
                !.metaFields = doc.metaFields] = doc
  BY <1>1 DEF Holding
<1>4. [d EXCEPT !.value = doc.value] = doc
  BY <1>1 DEF Holding
<1>5. SameManifest([d EXCEPT !.value = doc.value], doc)
  BY <1>4 DEF SameManifest
<1> QED
  BY <1>2, <1>3, <1>5 DEF IsOf

\* YAML has known fields first.
LEMMA ReorderedIs ==
    ASSUME NEW doc, IsManifest(doc), NEW value
    PROVE  LET d == Reorder(Holding(doc, value))
           IN  IsOf(d, doc, value) /\ InOrder(d)
<1> DEFINE e == Holding(doc, value)
           f == reorderMapping(doc.fields, topFieldOrder)
           m == reorderMapping(doc.metaFields, metadataFieldOrder)
           d == Reorder(Holding(doc, value))
<1>1. /\ doc = [field \in DOMAIN doc |-> doc[field]]
      /\ {"form", "fields", "metaFields", "value"} \subseteq DOMAIN doc
      /\ FieldsOnce(doc.fields) /\ FieldsOnce(doc.metaFields)
  BY DEF IsManifest
<1>2. /\ e = [field \in DOMAIN doc |-> e[field]]
      /\ e.value = value /\ e.fields = doc.fields /\ e.metaFields = doc.metaFields
      /\ \A field \in DOMAIN doc : field # "value" => e[field] = doc[field]
  BY <1>1 DEF Holding
<1> HIDE DEF e
<1>3. d = [e EXCEPT !.fields = reorderMapping(e.fields, topFieldOrder),
                    !.metaFields = reorderMapping(e.metaFields, metadataFieldOrder)]
  BY DEF Reorder, e
<1>4. d = [e EXCEPT !.fields = f, !.metaFields = m]
  BY <1>2, <1>3
<1>5. PICK k, n : Arranged(f, k, n, doc.fields, topFieldOrder)
  BY <1>1, FieldsArranged, FieldOrders
<1>6. PICK l, o : Arranged(m, l, o, doc.metaFields, metadataFieldOrder)
  BY <1>1, FieldsArranged, FieldOrders
<1> HIDE DEF d, f, m
<1>7. /\ d = [field \in DOMAIN doc |-> d[field]]
      /\ d.value = value /\ d.fields = f /\ d.metaFields = m
      /\ \A field \in DOMAIN doc : field \notin {"value", "fields", "metaFields"} =>
           d[field] = doc[field]
  BY <1>1, <1>2, <1>4
<1>8. [d EXCEPT !.value = doc.value, !.fields = doc.fields,
                !.metaFields = doc.metaFields] = doc
  BY <1>1, <1>7
<1>9. SameManifest([d EXCEPT !.value = doc.value], doc)
  <2> DEFINE x == [d EXCEPT !.value = doc.value]
  <2>1. x.value = doc.value /\ x.fields = f /\ x.metaFields = m
    BY <1>1, <1>7
  <2>2. /\ Formatted(f, topFieldOrder) = Formatted(doc.fields, topFieldOrder)
        /\ Formatted(m, metadataFieldOrder) = Formatted(doc.metaFields, metadataFieldOrder)
    BY <1>5, <1>6, ArrangedSame, FormattedIs
  <2> HIDE DEF x
  <2>3. SameManifest(x, doc)
    BY <2>1, <2>2 DEF SameManifest
  <2> QED
    BY <2>3 DEF x
<1>10. InOrder(d)
  <2>1. /\ \A i, j \in 1..k + n : i < j /\ f[j] \in DOMAIN topFieldOrder =>
             f[i] \in DOMAIN topFieldOrder /\ topFieldOrder[f[i]] < topFieldOrder[f[j]]
        /\ DOMAIN f = 1..k + n
    BY <1>5 DEF Arranged
  <2> QED
    BY <1>7, <2>1 DEF InOrder
<1>11. IsOf(d, doc, value)
  BY <1>7, <1>8, <1>9 DEF IsOf
<1> QED
  BY <1>10, <1>11 DEF d

-----------------------------------------------------------------------------
(* Sequences of documents that are written one by one.                     *)

\* A sequence, of whatever elements.
AnySequence(s) == s \in Seq(ToSet(s))

\* A function on the first m numbers is a sequence.
LEMMA FunctionIsSeq ==
    ASSUME NEW m \in Nat, NEW s, s = [i \in 1..m |-> s[i]]
    PROVE  AnySequence(s) /\ Len(s) = m /\ DOMAIN s = 1..m
<1>1. \A i \in 1..m : s[i] \in ToSet(s)
  BY DEF ToSet
<1>2. s \in [1..m -> ToSet(s)]
  BY <1>1
<1> HIDE DEF ToSet
<1>3. s \in Seq(ToSet(s)) /\ Len(s) = m
  BY <1>2
<1> QED
  BY <1>3 DEF AnySequence

\* A document on its way to the output.
DocItem(d) == [type |-> "doc", doc |-> d]

\* The first k documents, and those after them.
FirstOf(docs, k) == [i \in 1..k |-> DocItem(docs[i])]
RestOf(docs, k) == [i \in 1..Len(docs) - k |-> docs[k + i]]

\* The k documents that were written and those that were not are all.
LEMMA NextDocument ==
    ASSUME NEW docs, AnySequence(docs), NEW k \in Nat, k < Len(docs)
    PROVE  /\ RestOf(docs, k) # << >>
           /\ Tail(RestOf(docs, k)) = RestOf(docs, k + 1)
           /\ Append(FirstOf(docs, k), DocItem(Head(RestOf(docs, k)))) = FirstOf(docs, k + 1)
<1> DEFINE n == Len(docs)
<1>1. docs \in Seq(ToSet(docs)) /\ n \in Nat /\ DOMAIN docs = 1..n
  BY DEF AnySequence
<1>2. \A i \in 1..n : docs[i] \in ToSet(docs)
  BY <1>1
<1> DEFINE S == ToSet(docs)  rest == RestOf(docs, k)  first == FirstOf(docs, k)
           I == {DocItem(docs[i]) : i \in 1..n}
<1> HIDE DEF n, S
<1>3. \A i \in 1..n - k : k + i \in 1..n
  BY <1>1
<1>4. n - k \in Nat /\ n - k > 0
  BY <1>1 DEF n
<1>5. rest = [i \in 1..n - k |-> docs[k + i]]
  BY DEF RestOf, n
<1>6. rest \in [1..n - k -> S]
  BY <1>2, <1>3, <1>5 DEF S
<1>7. rest \in Seq(S) /\ Len(rest) = n - k
  BY <1>4, <1>6
<1>8. rest # << >> /\ Head(rest) = docs[k + 1]
  BY <1>4, <1>5, <1>7
<1>9. Tail(rest) = RestOf(docs, k + 1)
  <2>1. Tail(rest) = [i \in 1..n - k - 1 |-> rest[i + 1]]
    <3> HIDE DEF rest
    <3>1. /\ Tail(rest) \in Seq(S) /\ Len(Tail(rest)) = n - k - 1
          /\ \A i \in 1..n - k - 1 : Tail(rest)[i] = rest[i + 1]
      BY <1>7, <1>8, HeadTailProperties
    <3> DEFINE tail == Tail(rest)
    <3> HIDE DEF tail
    <3>2. tail \in Seq(S) /\ Len(tail) = n - k - 1
          /\ \A i \in 1..n - k - 1 : tail[i] = rest[i + 1]
      BY <3>1 DEF tail
    <3>3. tail = [i \in 1..n - k - 1 |-> tail[i]]
      BY <3>2
    <3>4. tail = [i \in 1..n - k - 1 |-> rest[i + 1]]
      BY <3>2, <3>3
    <3> QED
      BY <3>4 DEF tail
  <2>2. \A i \in 1..n - k - 1 : rest[i + 1] = docs[k + 1 + i]
    BY <1>1, <1>4, <1>5
  <2>3. RestOf(docs, k + 1) = [i \in 1..n - (k + 1) |-> docs[k + 1 + i]]
    BY DEF RestOf, n
  <2> HIDE DEF rest
  <2>4. 1..n - (k + 1) = 1..n - k - 1
    BY <1>1
  <2> QED
    BY <2>1, <2>2, <2>3, <2>4
<1>10. Append(first, DocItem(Head(rest))) = FirstOf(docs, k + 1)
  <2>1. first = [i \in 1..k |-> DocItem(docs[i])]
    BY DEF FirstOf
  <2>2. \A i \in 1..k : i \in 1..n
    BY <1>1 DEF n
  <2>3. first \in [1..k -> I]
    BY <2>1, <2>2
  <2> HIDE DEF I
  <2>4. first \in Seq(I) /\ Len(first) = k
    BY <2>3
  <2> HIDE DEF rest, first
  <2> DEFINE item == DocItem(docs[k + 1])
  <2>5. DocItem(Head(rest)) = item
    BY <1>8
  <2>6. FirstOf(docs, k + 1) = [i \in 1..k + 1 |-> DocItem(docs[i])]
    BY DEF FirstOf
  <2>7. \A i \in 1..k : DocItem(docs[i]) = first[i]
    BY <2>1
  <2>i. item \in I
    BY <1>1 DEF I, n
  <2> HIDE DEF item
  <2>8. Append(first, item) = [i \in 1..k + 1 |-> IF i = k + 1 THEN item ELSE first[i]]
    <3> DEFINE all == Append(first, item)
    <3>1. /\ all \in Seq(I) /\ Len(all) = k + 1 /\ all[k + 1] = item
          /\ \A i \in 1..k : all[i] = first[i]
      BY <2>i, <2>4, AppendProperties
    <3> HIDE DEF all
    <3>2. all = [i \in 1..k + 1 |-> all[i]]
      BY <3>1
    <3>3. \A i \in 1..k + 1 : all[i] = IF i = k + 1 THEN item ELSE first[i]
      <4> TAKE i \in 1..k + 1
      <4>1. i = k + 1 \/ i \in 1..k
        OBVIOUS
      <4> QED
        BY <3>1, <4>1
    <3> QED
      BY <3>2, <3>3 DEF all
  <2>9. \A i \in 1..k + 1 : DocItem(docs[i]) = IF i = k + 1 THEN item ELSE first[i]
    <3> TAKE i \in 1..k + 1
    <3>1. i = k + 1 \/ i \in 1..k
      OBVIOUS
    <3> QED
      BY <2>7, <3>1 DEF item
  <2> QED
    BY <2>5, <2>6, <2>8, <2>9
<1> QED
  BY <1>8, <1>9, <1>10

\* Where none was written all are left, and nothing is where all were.
LEMMA AllOrNone ==
    ASSUME NEW docs, AnySequence(docs)
    PROVE  /\ Len(docs) \in Nat /\ RestOf(docs, 0) = docs /\ FirstOf(docs, 0) = << >>
           /\ \A k \in 0..Len(docs) : RestOf(docs, k) = << >> => k = Len(docs)
<1> DEFINE n == Len(docs)
<1>1. docs \in Seq(ToSet(docs)) /\ n \in Nat /\ DOMAIN docs = 1..n
  BY DEF AnySequence
<1>2. docs = [i \in 1..n |-> docs[i]]
  BY <1>1
<1>3. RestOf(docs, 0) = [i \in 1..n - 0 |-> docs[0 + i]]
  BY DEF RestOf
<1>n. n = Len(docs)
  OBVIOUS
<1> HIDE DEF n
<1>4. \A i \in 1..n - 0 : docs[0 + i] = docs[i]
  BY <1>1
<1>5. RestOf(docs, 0) = docs
  <2>1. n - 0 = n
    BY <1>1
  <2>2. RestOf(docs, 0) = [i \in 1..n |-> docs[i]]
    BY <1>3, <1>4, <2>1
  <2> QED
    BY <1>2, <2>2, Zenon
<1>6. FirstOf(docs, 0) = << >>
  BY DEF FirstOf
<1>7. ASSUME NEW k \in 0..n, k # n
      PROVE  RestOf(docs, k) # << >>
  <2>a. n \in Nat
    BY <1>1
  <2>b. k \in Nat /\ k < n
    BY <1>7, <2>a
  <2>1. k \in Nat /\ k < Len(docs)
    BY <2>b, <1>n, Zenon
  <2> QED
    BY <2>1, NextDocument
<1> QED
  BY <1>1, <1>5, <1>6, <1>7 DEF n
=============================================================================
