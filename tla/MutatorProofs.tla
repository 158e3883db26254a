--------------------------- MODULE MutatorProofs ----------------------------
(***************************************************************************)
(* Proofs about Mutators, for every set of commands and streams: a merge   *)
(* that is under way, the invariant, and what follows from it - which nodes *)
(* are shared, that the commands keep the promise of Mutation, and that a  *)
(* second pass changes nothing.                                            *)
(***************************************************************************)
EXTENDS NodeProofs

-----------------------------------------------------------------------------
(* A document that a patch is merged into, field by field.                 *)

\* The merge goes on below a mapping of both.
Both(t, P, p) == Kind(t, p) = "map" /\ Kind(P, p) = "map"

\* A null that there is nothing to be merged into.
Gone(t, P, e) == Absent(t, e) /\ Kind(P, e) = "null"

\* The document when the merge is through with some of the boundary, and the
\* paths at which it has nodes of the patch.
Patched(t, P, E) ==
    LET gone == {p \in E : Absent(t, p) /\ Kind(P, p) = "null"}
        kept == {p \in DOMAIN t : \A e \in E : ~IsPrefix(e, p)}
        new  == {p \in DOMAIN P : \E e \in E \ gone : IsPrefix(e, p)}
    IN  [p \in kept \cup new |-> IF p \in kept THEN t[p] ELSE P[p]]

Shared(t, P, E) ==
    {p \in DOMAIN P : \E e \in E : ~Gone(t, P, e) /\ IsPrefix(e, p) /\ (p # e \/ e \notin DOMAIN t)}

\* Where the merge ends.
LEMMA BoundaryIs ==
    ASSUME NEW t, NEW P, IsTree(P)
    PROVE  /\ \A e : e \in Boundary(t, P) <=>
                /\ e \in DOMAIN P /\ e \in Path /\ ~Both(t, P, e)
                /\ \A r \in Path : IsPrefix(r, e) /\ r # e => Both(t, P, r)
           /\ \A e \in Boundary(t, P), f \in Boundary(t, P) : IsPrefix(e, f) => e = f
<1>1. DOMAIN P \subseteq Path
  BY TreeHas
<1>2. ASSUME NEW e \in DOMAIN P
      PROVE  (\A n \in 0..Len(e) - 1 : Both(t, P, SubSeq(e, 1, n)))
               <=> \A r \in Path : IsPrefix(r, e) /\ r # e => Both(t, P, r)
  <2>1. {SubSeq(e, 1, n) : n \in 0..Len(e) - 1} = {r \in Path : IsPrefix(r, e) /\ r # e}
    BY <1>1, PrefixesAre
  <2> DEFINE L == {SubSeq(e, 1, n) : n \in 0..Len(e) - 1}
             R == {r \in Path : IsPrefix(r, e) /\ r # e}
  <2>2. (\A n \in 0..Len(e) - 1 : Both(t, P, SubSeq(e, 1, n))) <=> \A r \in L : Both(t, P, r)
    OBVIOUS
  <2>3. (\A r \in R : Both(t, P, r)) <=> \A r \in Path : IsPrefix(r, e) /\ r # e => Both(t, P, r)
    OBVIOUS
  <2> HIDE DEF L, R
  <2> QED
    BY <2>1, <2>2, <2>3 DEF L, R
<1>3. \A e : e \in Boundary(t, P) <=>
        e \in DOMAIN P /\ ~Both(t, P, e) /\ \A n \in 0..Len(e) - 1 : Both(t, P, SubSeq(e, 1, n))
  BY DEF Boundary, Both
<1>4. \A e : e \in Boundary(t, P) <=>
        /\ e \in DOMAIN P /\ e \in Path /\ ~Both(t, P, e)
        /\ \A r \in Path : IsPrefix(r, e) /\ r # e => Both(t, P, r)
  BY <1>1, <1>2, <1>3
<1>5. \A e \in Boundary(t, P), f \in Boundary(t, P) : IsPrefix(e, f) => e = f
  BY <1>4
<1> QED
  BY <1>4, <1>5

\* What the document has then.
LEMMA PatchedHas ==
    ASSUME NEW t, NEW P, NEW E
    PROVE  LET d == Patched(t, P, E)
           IN  /\ d = [p \in DOMAIN d |-> d[p]]
               /\ \A p :
                    /\ p \in DOMAIN d <=>
                         \/ p \in DOMAIN t /\ \A e \in E : ~IsPrefix(e, p)
                         \/ p \in DOMAIN P /\ \E e \in E : ~Gone(t, P, e) /\ IsPrefix(e, p)
                    /\ p \in DOMAIN d =>
                         d[p] = IF \E e \in E : IsPrefix(e, p) THEN P[p] ELSE t[p]
<1> DEFINE d    == Patched(t, P, E)
           gone == {p \in E : Absent(t, p) /\ Kind(P, p) = "null"}
           kept == {p \in DOMAIN t : \A e \in E : ~IsPrefix(e, p)}
           new  == {p \in DOMAIN P : \E e \in E \ gone : IsPrefix(e, p)}
<1>1. d = [p \in kept \cup new |-> IF p \in kept THEN t[p] ELSE P[p]]
  BY DEF Patched
<1>2. \A p : p \in new <=> p \in DOMAIN P /\ \E e \in E : ~Gone(t, P, e) /\ IsPrefix(e, p)
  BY DEF Gone
<1>3. \A p : p \in kept <=> p \in DOMAIN t /\ \A e \in E : ~IsPrefix(e, p)
  OBVIOUS
<1> HIDE DEF d, kept, new, gone
<1>4. d = [p \in DOMAIN d |-> d[p]] /\ DOMAIN d = kept \cup new
  BY <1>1
<1>5. \A p \in DOMAIN d : d[p] = IF p \in kept THEN t[p] ELSE P[p]
  BY <1>1
<1>6. \A p \in DOMAIN d : p \in kept <=> ~\E e \in E : IsPrefix(e, p)
  BY <1>2, <1>3, <1>4
<1> QED
  BY <1>2, <1>3, <1>4, <1>5, <1>6 DEF d

\* It is a tree, and no deeper than the two.
LEMMA PatchedTree ==
    ASSUME NEW t, IsTree(t), Shallow(t), t[<< >>].kind = "map", NEW P, IsTree(P), Shallow(P),
           NEW E \in SUBSET Boundary(t, P)
    PROVE  IsTree(Patched(t, P, E)) /\ Shallow(Patched(t, P, E))
<1> DEFINE d == Patched(t, P, E)
<1>1. /\ d = [p \in DOMAIN d |-> d[p]]
      /\ \A p :
           /\ p \in DOMAIN d <=>
                \/ p \in DOMAIN t /\ \A e \in E : ~IsPrefix(e, p)
                \/ p \in DOMAIN P /\ \E e \in E : ~Gone(t, P, e) /\ IsPrefix(e, p)
           /\ p \in DOMAIN d => d[p] = IF \E e \in E : IsPrefix(e, p) THEN P[p] ELSE t[p]
  BY PatchedHas
<1> HIDE DEF d
<1>2. /\ \A e \in E : /\ e \in DOMAIN P /\ e \in Path /\ ~Both(t, P, e)
                      /\ \A r \in Path : IsPrefix(r, e) /\ r # e => Both(t, P, r)
      /\ \A e \in E, f \in E : IsPrefix(e, f) => e = f
  BY BoundaryIs
<1>3. /\ DOMAIN t \subseteq Path /\ << >> \in DOMAIN t
      /\ t = [p \in DOMAIN t |-> [kind |-> t[p].kind, value |-> t[p].value, text |-> t[p].text]]
      /\ \A p \in DOMAIN t : t[p].kind \in nodeKinds
  BY TreeHas
<1>4. /\ DOMAIN P \subseteq Path /\ << >> \in DOMAIN P
      /\ P = [p \in DOMAIN P |-> [kind |-> P[p].kind, value |-> P[p].value, text |-> P[p].text]]
      /\ \A p \in DOMAIN P : P[p].kind \in nodeKinds
  BY TreeHas
<1>5. \A p \in DOMAIN d : (p \in DOMAIN t /\ d[p] = t[p]) \/ (p \in DOMAIN P /\ d[p] = P[p])
  BY <1>1
<1>6. \A p \in DOMAIN d : d[p] = [kind |-> d[p].kind, value |-> d[p].value, text |-> d[p].text]
  <2> SUFFICES ASSUME NEW p \in DOMAIN d
               PROVE  d[p] = [kind |-> d[p].kind, value |-> d[p].value, text |-> d[p].text]
    OBVIOUS
  <2>1. p \in DOMAIN t => t[p] = [kind |-> t[p].kind, value |-> t[p].value, text |-> t[p].text]
    BY <1>3
  <2>2. p \in DOMAIN P => P[p] = [kind |-> P[p].kind, value |-> P[p].value, text |-> P[p].text]
    BY <1>4
  <2> QED
    BY <1>5, <2>1, <2>2
<1>7. d = [p \in DOMAIN d |-> [kind |-> d[p].kind, value |-> d[p].value, text |-> d[p].text]]
  BY <1>1, <1>6
<1>8. DOMAIN d \subseteq Path /\ \A p \in DOMAIN d : d[p].kind \in nodeKinds
  BY <1>3, <1>4, <1>5
<1>9. << >> \in DOMAIN d
  <2>1. ~Gone(t, P, << >>)
    BY <1>3 DEF Gone, Absent, Kind, Has
  <2>2. << >> \in Path /\ IsPrefix(<< >>, << >>)
    BY <1>3, PrefixOrder
  <2>3. \A e \in E : IsPrefix(e, << >>) => e = << >>
    BY <1>2, PrefixOrder
  <2> QED
    BY <1>1, <1>3, <1>4, <2>1, <2>2, <2>3
<1>10. ASSUME NEW p \in Path, NEW k \in STRING, Append(p, k) \in DOMAIN d
       PROVE  p \in DOMAIN d /\ (d[p].kind = "map" \/ (d[p].kind = "list" /\ k \in Positions))
  <2> DEFINE q == Append(p, k)
  <2>1. q \in Path /\ q # p /\ IsPrefix(p, q)
    <3>1. q \in Path /\ ~IsPrefix(q, p)
      BY PathStep, PrefixOfNext
    <3>2. IsPrefix(p, p)
      BY PrefixOrder
    <3>3. IsPrefix(p, q)
      BY <3>2, PrefixOfNext
    <3> HIDE DEF q
    <3> QED
      BY <3>1, <3>2, <3>3
  <2>2. \A e \in E : IsPrefix(e, q) <=> (e = q \/ IsPrefix(e, p))
    BY <1>2, PrefixOfNext
  <2>3. CASE q \in DOMAIN t /\ \A e \in E : ~IsPrefix(e, q)
    <3>1. p \in DOMAIN t /\ (t[p].kind = "map" \/ (t[p].kind = "list" /\ k \in Positions))
      BY <2>3, TreeNext
    <3> HIDE DEF q
    <3>2. \A e \in E : ~IsPrefix(e, p)
      BY <2>2, <2>3
    <3> QED
      BY <1>1, <3>1, <3>2
  <2>4. CASE q \in DOMAIN P /\ \E e \in E : ~Gone(t, P, e) /\ IsPrefix(e, q)
    <3>1. PICK e \in E : ~Gone(t, P, e) /\ IsPrefix(e, q)
      BY <2>4
    <3>2. CASE e = q
      <4> HIDE DEF q
      <4>1. Both(t, P, p)
        BY <1>2, <2>1, <3>2
      <4>2. p \in DOMAIN t /\ t[p].kind = "map"
        BY <4>1 DEF Both, Kind, Has
      <4>3. \A f \in E : ~IsPrefix(f, p)
        <5> SUFFICES ASSUME NEW f \in E, IsPrefix(f, p)
                     PROVE  FALSE
          OBVIOUS
        <5>1. IsPrefix(f, q)
          BY <2>2
        <5>2. f = q
          BY <1>2, <3>2, <5>1
        <5>3. p = q
          BY <1>2, <2>1, <5>2, PrefixOrder
        <5> QED
          BY <2>1, <5>3
      <4> QED
        BY <1>1, <4>2, <4>3
    <3>3. CASE e # q
      <4>1. p \in DOMAIN P /\ (P[p].kind = "map" \/ (P[p].kind = "list" /\ k \in Positions))
        BY <2>4, TreeNext
      <4> HIDE DEF q
      <4>2. IsPrefix(e, p)
        BY <2>2, <3>1, <3>3
      <4> QED
        BY <1>1, <3>1, <4>1, <4>2
    <3> QED
      BY <3>2, <3>3
  <2> HIDE DEF q
  <2>5. q \in DOMAIN d
    BY <1>10 DEF q
  <2> QED
    BY <1>1, <2>3, <2>4, <2>5
<1>11. IsTree(d)
  BY <1>7, <1>8, <1>9, <1>10, TreeIf
<1>12. Shallow(d)
  BY <1>5 DEF Shallow
<1> QED
  BY <1>11, <1>12 DEF d

\* What the next edge of the patch changes: it and what is below it.
NearEdge(t, P, E, e) ==
    LET d  == Patched(t, P, E)
        d2 == Patched(t, P, E \cup {e})
        S  == Shared(t, P, E)
        S2 == Shared(t, P, E \cup {e})
    IN  /\ \A p \in Path : IsPrefix(e, p) =>
             /\ p \in DOMAIN d <=> p \in DOMAIN t
             /\ p \in DOMAIN d => d[p] = t[p]
             /\ p \notin S
             /\ p \in DOMAIN d2 <=> p \in DOMAIN P /\ ~Gone(t, P, e)
             /\ p \in DOMAIN d2 => d2[p] = P[p]
             /\ p \in S2 <=> p \in DOMAIN P /\ ~Gone(t, P, e) /\ (p # e \/ e \notin DOMAIN t)
        /\ \A p \in Path : ~IsPrefix(e, p) =>
             /\ p \in DOMAIN d2 <=> p \in DOMAIN d
             /\ p \in DOMAIN d => d2[p] = d[p]
             /\ p \in S2 <=> p \in S
        /\ e # << >> =>
             /\ Front(e) \in Path /\ Last(e) \in STRING /\ e = Append(Front(e), Last(e))
             /\ ~IsPrefix(e, Front(e)) /\ Front(e) \notin S
             /\ Front(e) \in DOMAIN t /\ Front(e) \in DOMAIN d /\ Front(e) \in DOMAIN P
             /\ d[Front(e)] = t[Front(e)] /\ t[Front(e)].kind = "map"

\* That it does.
LEMMA EdgeIs ==
    ASSUME NEW t, IsTree(t), NEW P, IsTree(P), NEW E \in SUBSET Boundary(t, P),
           NEW e \in Boundary(t, P), e \notin E
    PROVE  NearEdge(t, P, E, e)
<1> DEFINE d  == Patched(t, P, E)
           d2 == Patched(t, P, E \cup {e})
           S  == Shared(t, P, E)
           S2 == Shared(t, P, E \cup {e})
<1>1. \A p :
        /\ p \in DOMAIN d <=>
             \/ p \in DOMAIN t /\ \A f \in E : ~IsPrefix(f, p)
             \/ p \in DOMAIN P /\ \E f \in E : ~Gone(t, P, f) /\ IsPrefix(f, p)
        /\ p \in DOMAIN d => d[p] = IF \E f \in E : IsPrefix(f, p) THEN P[p] ELSE t[p]
  BY PatchedHas
<1>2. \A p :
        /\ p \in DOMAIN d2 <=>
             \/ p \in DOMAIN t /\ \A f \in E \cup {e} : ~IsPrefix(f, p)
             \/ p \in DOMAIN P /\ \E f \in E \cup {e} : ~Gone(t, P, f) /\ IsPrefix(f, p)
        /\ p \in DOMAIN d2 => d2[p] = IF \E f \in E \cup {e} : IsPrefix(f, p) THEN P[p] ELSE t[p]
  <2> DEFINE E2 == E \cup {e}
  <2> HIDE DEF E2
  <2>1. \A p :
          /\ p \in DOMAIN Patched(t, P, E2) <=>
               \/ p \in DOMAIN t /\ \A f \in E2 : ~IsPrefix(f, p)
               \/ p \in DOMAIN P /\ \E f \in E2 : ~Gone(t, P, f) /\ IsPrefix(f, p)
          /\ p \in DOMAIN Patched(t, P, E2) =>
               Patched(t, P, E2)[p] = IF \E f \in E2 : IsPrefix(f, p) THEN P[p] ELSE t[p]
    BY PatchedHas
  <2> QED
    BY <2>1 DEF E2
<1>3. \A p : p \in S <=> p \in DOMAIN P /\ \E f \in E :
        ~Gone(t, P, f) /\ IsPrefix(f, p) /\ (p # f \/ f \notin DOMAIN t)
  BY DEF Shared
<1>4. \A p : p \in S2 <=> p \in DOMAIN P /\ \E f \in E \cup {e} :
        ~Gone(t, P, f) /\ IsPrefix(f, p) /\ (p # f \/ f \notin DOMAIN t)
  BY DEF Shared
<1> HIDE DEF d, d2, S, S2
<1>5. /\ \A f \in E \cup {e} : f \in DOMAIN P /\ f \in Path
      /\ \A f \in E \cup {e} : \A r \in Path : IsPrefix(r, f) /\ r # f => Both(t, P, r)
      /\ \A f \in E \cup {e}, g \in E \cup {e} : IsPrefix(f, g) => f = g
  <2> DEFINE B == Boundary(t, P)
  <2>1. E \cup {e} \subseteq B
    OBVIOUS
  <2>2. /\ \A f \in B : f \in DOMAIN P /\ f \in Path
        /\ \A f \in B : \A r \in Path : IsPrefix(r, f) /\ r # f => Both(t, P, r)
        /\ \A f \in B, g \in B : IsPrefix(f, g) => f = g
    BY BoundaryIs
  <2> HIDE DEF B
  <2> QED
    BY <2>1, <2>2
<1>6. ASSUME NEW p \in Path, IsPrefix(e, p), NEW f \in E
      PROVE  ~IsPrefix(f, p)
  <2>1. IsPrefix(f, p) => IsPrefix(e, f) \/ IsPrefix(f, e)
    BY <1>5, <1>6, PrefixOrder
  <2>2. f # e
    OBVIOUS
  <2> QED
    BY <1>5, <2>1, <2>2
<1>7. \A p \in Path : IsPrefix(e, p) =>
        /\ p \in DOMAIN d <=> p \in DOMAIN t
        /\ p \in DOMAIN d => d[p] = t[p]
        /\ p \notin S
  BY <1>1, <1>3, <1>6
<1>8. \A p \in Path : IsPrefix(e, p) =>
        /\ p \in DOMAIN d2 <=> p \in DOMAIN P /\ ~Gone(t, P, e)
        /\ p \in DOMAIN d2 => d2[p] = P[p]
        /\ p \in S2 <=> p \in DOMAIN P /\ ~Gone(t, P, e) /\ (p # e \/ e \notin DOMAIN t)
  BY <1>2, <1>4, <1>6
<1>9. \A p \in Path : ~IsPrefix(e, p) =>
        /\ p \in DOMAIN d2 <=> p \in DOMAIN d
        /\ p \in DOMAIN d => d2[p] = d[p]
        /\ p \in S2 <=> p \in S
  BY <1>1, <1>2, <1>3, <1>4
<1>10. ASSUME e # << >>
       PROVE  /\ Front(e) \in Path /\ Last(e) \in STRING /\ e = Append(Front(e), Last(e))
              /\ ~IsPrefix(e, Front(e)) /\ Front(e) \notin S
              /\ Front(e) \in DOMAIN t /\ Front(e) \in DOMAIN d /\ Front(e) \in DOMAIN P
              /\ d[Front(e)] = t[Front(e)] /\ t[Front(e)].kind = "map"
  <2> DEFINE q == Front(e)
             k == Last(e)
  <2>1. q \in Path /\ k \in STRING /\ e = Append(q, k)
    BY <1>5, <1>10, PathEnd
  <2> HIDE DEF q, k
  <2>2. ~IsPrefix(e, q)
    BY <2>1, PrefixOfNext
  <2>3. IsPrefix(q, e) /\ q # e
    BY <2>1, <2>2, PrefixOfNext, PrefixOrder
  <2>4. Both(t, P, q)
    BY <1>5, <2>1, <2>3
  <2>5. q \in DOMAIN t /\ t[q].kind = "map" /\ q \in DOMAIN P
    BY <2>4 DEF Both, Kind, Has
  <2>6. \A f \in E : ~IsPrefix(f, q)
    <3> SUFFICES ASSUME NEW f \in E, IsPrefix(f, q)
                 PROVE  FALSE
      OBVIOUS
    <3>1. IsPrefix(f, e)
      BY <1>5, <2>1, <2>3, PrefixOrder
    <3>2. f = e
      BY <1>5, <3>1
    <3> QED
      BY <3>2
  <2>7. q \in DOMAIN d /\ d[q] = t[q] /\ q \notin S
    BY <1>1, <1>3, <2>5, <2>6
  <2> QED
    BY <2>1, <2>2, <2>5, <2>7 DEF q, k
<1> QED
  BY <1>7, <1>8, <1>9, <1>10 DEF NearEdge, d, d2, S, S2

\* Document i while a patch is being merged into it.
Merging(h, i, t, P, E) ==
    /\ i # 0 /\ IsTree(t) /\ Shallow(t) /\ t[<< >>].kind = "map"
    /\ IsTree(P) /\ Shallow(P) /\ E \subseteq Boundary(t, P)
    /\ Holds(h, 0, P) /\ Sound(h)
    /\ Shows(h, i, Patched(t, P, E), Shared(t, P, E))

\* The patch stays what it is.
LEMMA AsideHolds ==
    ASSUME NEW h, NEW h2, NEW i, Aside(h, h2, i), NEW j, j # i, NEW t, Holds(h, j, t)
    PROVE  Holds(h2, j, t)
  BY DEF Aside, Holds

\* An edge that is gone: the field is cleared.
LEMMA EdgeCleared ==
    ASSUME NEW h, NEW i, NEW t, NEW P, NEW E, Merging(h, i, t, P, E),
           NEW e \in Boundary(t, P), e \notin E, Gone(t, P, e)
    PROVE  LET h2 == Clear(h, <<i, Front(e)>>, Last(e))
           IN  e # << >> /\ Merging(h2, i, t, P, E \cup {e}) /\ Aside(h, h2, i)
<1> DEFINE d  == Patched(t, P, E)
           d2 == Patched(t, P, E \cup {e})
           S  == Shared(t, P, E)
           S2 == Shared(t, P, E \cup {e})
           q  == Front(e)
           k  == Last(e)
           h2 == Clear(h, <<i, q>>, k)
<1>1. /\ i # 0 /\ IsTree(t) /\ Shallow(t) /\ t[<< >>].kind = "map"
      /\ IsTree(P) /\ Shallow(P) /\ E \in SUBSET Boundary(t, P)
      /\ Holds(h, 0, P) /\ Sound(h) /\ Shows(h, i, d, S)
  BY DEF Merging
<1>2. NearEdge(t, P, E, e)
  BY <1>1, EdgeIs
<1>3. e # << >> /\ e \in Path
  <2>1. << >> \in DOMAIN t /\ DOMAIN P \subseteq Path /\ e \in DOMAIN P
    BY <1>1, TreeHas DEF Boundary
  <2>2. ~Absent(t, << >>)
    BY <1>1, <2>1 DEF Absent, Kind, Has
  <2> QED
    BY <2>1, <2>2 DEF Gone
<1>4. q \in Path /\ k \in STRING /\ e = Append(q, k) /\ q \in DOMAIN d /\ q \notin S
  BY <1>2, <1>3 DEF NearEdge
<1>5. IsTree(d)
  BY <1>1, PatchedTree
<1>6. d2 = Without(d, e)
  <2>1. \A p : /\ p \in DOMAIN Without(d, e) <=> p \in DOMAIN d /\ ~IsPrefix(e, p)
               /\ p \in DOMAIN Without(d, e) => Without(d, e)[p] = d[p]
    BY <1>3, <1>5, WithoutHas
  <2>2. Without(d, e) = [p \in DOMAIN Without(d, e) |-> Without(d, e)[p]]
    BY DEF Without
  <2>3. d2 = [p \in DOMAIN d2 |-> d2[p]]
    <3> DEFINE E2 == E \cup {e}
    <3> HIDE DEF E2
    <3>1. Patched(t, P, E2) = [p \in DOMAIN Patched(t, P, E2) |-> Patched(t, P, E2)[p]]
      BY PatchedHas
    <3> QED
      BY <3>1 DEF E2
  <2>4. DOMAIN d \subseteq Path /\ DOMAIN d2 \subseteq Path
    <3>1. IsTree(d2)
      <4> DEFINE E2 == E \cup {e}
      <4>1. E2 \in SUBSET Boundary(t, P)
        BY <1>1
      <4> HIDE DEF E2
      <4>2. IsTree(Patched(t, P, E2))
        BY <1>1, <4>1, PatchedTree
      <4> QED
        BY <4>2 DEF E2
    <3> HIDE DEF d, d2
    <3> QED
      BY <1>5, <3>1, TreeHas
  <2>5. \A p \in Path : IsPrefix(e, p) => p \notin DOMAIN d2
    BY <1>2 DEF NearEdge
  <2>6. \A p \in Path : ~IsPrefix(e, p) =>
          /\ p \in DOMAIN d2 <=> p \in DOMAIN d
          /\ p \in DOMAIN d => d2[p] = d[p]
    BY <1>2 DEF NearEdge
  <2> DEFINE w == Without(d, e)
  <2> HIDE DEF d, d2, w
  <2>7. DOMAIN d2 = DOMAIN w
    BY <2>1, <2>4, <2>5, <2>6 DEF w
  <2>8. \A p \in DOMAIN d2 : d2[p] = w[p]
    BY <2>1, <2>4, <2>5, <2>6, <2>7 DEF w
  <2> QED
    BY <2>2, <2>3, <2>7, <2>8 DEF w
<1>7. S2 = S
  <2>1. S \subseteq Path /\ S2 \subseteq Path
    BY <1>1, TreeHas DEF Shared
  <2>2. \A p \in Path : p \in S2 <=> p \in S
    BY <1>2 DEF NearEdge
  <2> HIDE DEF S, S2
  <2> QED
    BY <2>1, <2>2
<1> HIDE DEF d, d2, S, S2, q, k
<1>8. LET h3 == Clear(h, <<i, q>>, k)
      IN  Shows(h3, i, Without(d, Append(q, k)), S) /\ Aside(h, h3, i) /\ Sound(h3)
  BY <1>1, <1>4, <1>5, Cleared
<1>9. Shows(h2, i, d2, S2) /\ Aside(h, h2, i) /\ Sound(h2)
  BY <1>4, <1>6, <1>7, <1>8
<1> HIDE DEF h2
<1>10. Holds(h2, 0, P)
  BY <1>1, <1>9, AsideHolds
<1>11. Merging(h2, i, t, P, E \cup {e})
  BY <1>1, <1>9, <1>10 DEF Merging, d2, S2
<1> QED
  BY <1>3, <1>9, <1>11 DEF h2, q, k

\* What every edge of a merge has.
LEMMA EdgeNear ==
    ASSUME NEW h, NEW i, NEW t, NEW P, NEW E, Merging(h, i, t, P, E),
           NEW e \in Boundary(t, P), e \notin E
    PROVE  /\ NearEdge(t, P, E, e) /\ e \in Path /\ e \in DOMAIN P /\ IsPrefix(e, e)
           /\ IsTree(Patched(t, P, E)) /\ IsTree(Patched(t, P, E \cup {e}))
<1>1. /\ IsTree(t) /\ Shallow(t) /\ t[<< >>].kind = "map"
      /\ IsTree(P) /\ Shallow(P) /\ E \in SUBSET Boundary(t, P)
  BY DEF Merging
<1>2. NearEdge(t, P, E, e)
  BY <1>1, EdgeIs
<1>3. e \in Path /\ e \in DOMAIN P
  BY <1>1, TreeHas DEF Boundary
<1>4. IsPrefix(e, e)
  BY <1>3, PrefixOrder
<1>5. IsTree(Patched(t, P, E))
  BY <1>1, PatchedTree
<1>6. IsTree(Patched(t, P, E \cup {e}))
  <2> DEFINE E2 == E \cup {e}
  <2>1. E2 \in SUBSET Boundary(t, P)
    BY <1>1
  <2> HIDE DEF E2
  <2>2. IsTree(Patched(t, P, E2))
    BY <1>1, <2>1, PatchedTree
  <2> QED
    BY <2>2 DEF E2
<1> QED
  BY <1>2, <1>3, <1>4, <1>5, <1>6

\* From an edge on the document is like the patch.
LEMMA EdgeBelow ==
    ASSUME NEW h, NEW i, NEW t, NEW P, NEW E, Merging(h, i, t, P, E),
           NEW e \in Boundary(t, P), e \notin E, ~Gone(t, P, e),
           NEW p \in DOMAIN P, IsPrefix(e, p)
    PROVE  /\ Drawn(Patched(t, P, E \cup {e}), p, i, Shared(t, P, E \cup {e})) = NodeOf(P, p, 0)
           /\ <<0, p>> \in DOMAIN h /\ h[<<0, p>>] = NodeOf(P, p, 0)
<1> DEFINE d2 == Patched(t, P, E \cup {e})
           S2 == Shared(t, P, E \cup {e})
<1>1. IsTree(P) /\ Holds(h, 0, P)
  BY DEF Merging
<1>2. NearEdge(t, P, E, e) /\ e \in Path /\ IsTree(d2)
  BY EdgeNear
<1>3. p \in Path
  BY <1>1, TreeHas
<1>4. \A q \in Path : IsPrefix(e, q) =>
        /\ q \in DOMAIN d2 <=> q \in DOMAIN P
        /\ q \in DOMAIN d2 => d2[q] = P[q]
        /\ q \in S2 <=> q \in DOMAIN P /\ (q # e \/ e \notin DOMAIN t)
  BY <1>2 DEF NearEdge
<1> HIDE DEF d2, S2
<1>5. p \in DOMAIN d2 /\ d2[p] = P[p]
  BY <1>3, <1>4
<1>6. ASSUME NEW k \in STRING
      PROVE  /\ Append(p, k) \in DOMAIN d2 <=> Append(p, k) \in DOMAIN P
             /\ Append(p, k) \in DOMAIN P => NodeAt(i, S2, Append(p, k)) = <<0, Append(p, k)>>
  <2> DEFINE q == Append(p, k)
  <2>1. q \in Path /\ IsPrefix(e, q) /\ q # e
    <3>1. q \in Path /\ ~IsPrefix(q, p)
      BY <1>3, PathStep, PrefixOfNext
    <3>2. IsPrefix(e, q)
      BY <1>2, <1>3, PrefixOfNext
    <3> HIDE DEF q
    <3> QED
      BY <3>1, <3>2
  <2> HIDE DEF q
  <2>2. (q \in DOMAIN d2 <=> q \in DOMAIN P) /\ (q \in DOMAIN P => NodeAt(i, S2, q) = <<0, q>>)
    BY <1>4, <2>1 DEF NodeAt
  <2> QED
    BY <2>2 DEF q
<1>7. Keys(d2, p) = {k \in STRING : Append(p, k) \in DOMAIN d2}
  BY <1>2, <1>3, KeysAre
<1>8. Keys(P, p) = {k \in STRING : Append(p, k) \in DOMAIN P}
  BY <1>1, <1>3, KeysAre
<1>9. Keys(d2, p) = Keys(P, p)
  BY <1>6, <1>7, <1>8
<1>10. [k \in Keys(d2, p) |-> NodeAt(i, S2, Append(p, k))]
         = [k \in Keys(P, p) |-> <<0, Append(p, k)>>]
  BY <1>6, <1>8, <1>9
<1>11. Drawn(d2, p, i, S2) = NodeOf(P, p, 0)
  BY <1>5, <1>10 DEF Drawn, NodeOf
<1>12. <<0, p>> \in DOMAIN h /\ h[<<0, p>>] = NodeOf(P, p, 0)
  BY <1>1 DEF Holds
<1> QED
  BY <1>11, <1>12 DEF d2, S2

\* The mapping that an edge is a field of has this field then.
AboveEdge(h, i, t, P, E, e) ==
    LET q  == Front(e)
        d2 == Patched(t, P, E \cup {e})
        S2 == Shared(t, P, E \cup {e})
    IN  /\ <<i, q>> \in DOMAIN h /\ h[<<i, q>>].kind = "map"
        /\ Last(e) \in DOMAIN h[<<i, q>>].fields <=> e \in DOMAIN t
        /\ e \in DOMAIN t => h[<<i, q>>].fields[Last(e)] = <<i, e>>
        /\ NodeAt(i, S2, q) = <<i, q>>
        /\ Drawn(d2, q, i, S2) =
             [h[<<i, q>>] EXCEPT !.fields = Entered(@, Last(e), NodeAt(i, S2, e))]

\* It does.
LEMMA EdgeAbove ==
    ASSUME NEW h, NEW i, NEW t, NEW P, NEW E, Merging(h, i, t, P, E),
           NEW e \in Boundary(t, P), e \notin E, e # << >>, ~Gone(t, P, e)
    PROVE  AboveEdge(h, i, t, P, E, e)
<1> DEFINE d  == Patched(t, P, E)
           d2 == Patched(t, P, E \cup {e})
           S  == Shared(t, P, E)
           S2 == Shared(t, P, E \cup {e})
           q  == Front(e)
           k  == Last(e)
<1>1. Shows(h, i, d, S)
  BY DEF Merging
<1>2. /\ NearEdge(t, P, E, e) /\ e \in Path /\ e \in DOMAIN P /\ IsPrefix(e, e)
      /\ IsTree(d) /\ IsTree(d2)
  BY EdgeNear
<1>3. /\ q \in Path /\ k \in STRING /\ e = Append(q, k) /\ ~IsPrefix(e, q)
      /\ q \in DOMAIN d /\ q \notin S /\ d[q] = t[q] /\ t[q].kind = "map"
  BY <1>2 DEF NearEdge
<1>4. /\ e \in DOMAIN d <=> e \in DOMAIN t
      /\ e \notin S /\ e \in DOMAIN d2
  BY <1>2 DEF NearEdge
<1>5. \A p \in Path : ~IsPrefix(e, p) =>
        /\ p \in DOMAIN d2 <=> p \in DOMAIN d
        /\ p \in DOMAIN d => d2[p] = d[p]
        /\ p \in S2 <=> p \in S
  BY <1>2 DEF NearEdge
<1> HIDE DEF d, d2, S, S2, q, k
<1>6. q \in DOMAIN d2 /\ d2[q] = d[q] /\ q \notin S2
  BY <1>3, <1>5
<1>7. NodeAt(i, S, q) = <<i, q>> /\ NodeAt(i, S2, q) = <<i, q>> /\ NodeAt(i, S, e) = <<i, e>>
  BY <1>3, <1>4, <1>6 DEF NodeAt
<1>8. <<i, q>> \in DOMAIN h /\ h[<<i, q>>] = Drawn(d, q, i, S)
  BY <1>1, <1>3, <1>7 DEF Shows
<1>9. ASSUME NEW s \in STRING, s # k
      PROVE  /\ Append(q, s) \in DOMAIN d2 <=> Append(q, s) \in DOMAIN d
             /\ NodeAt(i, S2, Append(q, s)) = NodeAt(i, S, Append(q, s))
  <2> DEFINE r == Append(q, s)
  <2>1. IsPrefix(e, r) => e = r
    BY <1>2, <1>3, PrefixOfNext
  <2>2. e # r
    BY <1>3, <1>9, SameField
  <2>3. r \in Path
    BY <1>3, PathStep
  <2> HIDE DEF r
  <2>4. (r \in DOMAIN d2 <=> r \in DOMAIN d) /\ (r \in S2 <=> r \in S)
    BY <1>5, <2>1, <2>2, <2>3
  <2>5. NodeAt(i, S2, r) = NodeAt(i, S, r)
    BY <2>4 DEF NodeAt
  <2> QED
    BY <2>4, <2>5 DEF r
<1>10. /\ Keys(d, q) = {s \in STRING : Append(q, s) \in DOMAIN d}
       /\ Keys(d2, q) = {s \in STRING : Append(q, s) \in DOMAIN d2}
  BY <1>2, <1>3, KeysAre
<1>11. Keys(d2, q) = Keys(d, q) \cup {k} /\ (k \in Keys(d, q) <=> e \in DOMAIN t)
  <2>1. Append(q, k) \in DOMAIN d2 /\ (Append(q, k) \in DOMAIN d <=> e \in DOMAIN t)
    BY <1>3, <1>4
  <2> QED
    BY <1>3, <1>9, <1>10, <2>1
<1> DEFINE f  == [s \in Keys(d, q) |-> NodeAt(i, S, Append(q, s))]
           f2 == [s \in Keys(d2, q) |-> NodeAt(i, S2, Append(q, s))]
           m  == NodeAt(i, S2, e)
<1>12. h[<<i, q>>] = [kind |-> d[q].kind, value |-> d[q].value, text |-> d[q].text, fields |-> f]
  BY <1>8 DEF Drawn
<1>13. Drawn(d2, q, i, S2) = [kind |-> d[q].kind, value |-> d[q].value, text |-> d[q].text,
                              fields |-> f2]
  BY <1>6 DEF Drawn
<1>14. f2 = Entered(f, k, m)
  <2>1. \A s \in Keys(d2, q) : f2[s] = IF s = k THEN m ELSE f[s]
    <3> SUFFICES ASSUME NEW s \in Keys(d2, q)
                 PROVE  f2[s] = IF s = k THEN m ELSE f[s]
      OBVIOUS
    <3>1. CASE s = k
      BY <1>3, <3>1
    <3>2. CASE s # k
      <4>1. s \in STRING /\ s \in Keys(d, q)
        BY <1>10, <1>11, <3>2
      <4>2. NodeAt(i, S2, Append(q, s)) = NodeAt(i, S, Append(q, s))
        BY <1>9, <3>2, <4>1
      <4> QED
        BY <3>2, <4>1, <4>2
    <3> QED
      BY <3>1, <3>2
  <2>2. f2 = [s \in Keys(d2, q) |-> f2[s]] /\ DOMAIN f = Keys(d, q)
    OBVIOUS
  <2> HIDE DEF f, f2, m
  <2> QED
    BY <1>11, <2>1, <2>2 DEF Entered
<1>15. DOMAIN f = Keys(d, q) /\ (e \in DOMAIN t => f[k] = <<i, e>>)
  BY <1>3, <1>7, <1>11
<1> HIDE DEF f, f2, m
<1>16. h[<<i, q>>].fields = f /\ h[<<i, q>>].kind = "map"
  BY <1>3, <1>12
<1>17. [h[<<i, q>>] EXCEPT !.fields = Entered(@, k, m)]
         = [kind |-> d[q].kind, value |-> d[q].value, text |-> d[q].text, fields |-> Entered(f, k, m)]
  BY <1>12
<1>18. Drawn(d2, q, i, S2) = [h[<<i, q>>] EXCEPT !.fields = Entered(@, k, m)]
  BY <1>13, <1>14, <1>17
<1>19. k \in DOMAIN h[<<i, q>>].fields <=> e \in DOMAIN t
  BY <1>11, <1>15, <1>16
<1>20. e \in DOMAIN t => h[<<i, q>>].fields[k] = <<i, e>>
  BY <1>15, <1>16
<1> QED
  BY <1>7, <1>8, <1>16, <1>18, <1>19, <1>20 DEF AboveEdge, d2, S2, q, k, m

\* An edge that the document has: the node there becomes a copy of the patch's.
LEMMA EdgeCopied ==
    ASSUME NEW h, NEW i, NEW t, NEW P, NEW E, Merging(h, i, t, P, E),
           NEW e \in Boundary(t, P), e \notin E, ~Gone(t, P, e), e \in DOMAIN t
    PROVE  LET h2 == SetYNode(h, <<i, e>>, <<0, e>>)
           IN  Merging(h2, i, t, P, E \cup {e}) /\ Aside(h, h2, i)
<1> DEFINE d  == Patched(t, P, E)
           d2 == Patched(t, P, E \cup {e})
           S  == Shared(t, P, E)
           S2 == Shared(t, P, E \cup {e})
           n  == <<i, e>>
           h2 == SetYNode(h, n, <<0, e>>)
<1>1. /\ i # 0 /\ IsTree(t) /\ Shallow(t) /\ t[<< >>].kind = "map"
      /\ IsTree(P) /\ Shallow(P) /\ E \in SUBSET Boundary(t, P)
      /\ Holds(h, 0, P) /\ Sound(h) /\ Shows(h, i, d, S)
  BY DEF Merging
<1>2. /\ NearEdge(t, P, E, e) /\ e \in Path /\ e \in DOMAIN P /\ IsPrefix(e, e)
      /\ IsTree(d) /\ IsTree(d2)
  BY EdgeNear
<1>3. e \in DOMAIN d /\ e \notin S /\ e \notin S2 /\ << >> \notin S2
  <2>1. e \in DOMAIN d /\ e \notin S /\ e \notin S2
    BY <1>2 DEF NearEdge
  <2>2. << >> \notin S
    BY <1>1 DEF Shows
  <2>3. << >> \in Path /\ (IsPrefix(e, << >>) => e = << >>)
    BY <1>1, <1>2, TreeHas, PrefixOrder
  <2>4. \A p \in Path : ~IsPrefix(e, p) => (p \in S2 <=> p \in S)
    BY <1>2 DEF NearEdge
  <2> HIDE DEF d, d2, S, S2
  <2> QED
    BY <2>1, <2>2, <2>3, <2>4
<1>4. /\ \A p \in DOMAIN P : IsPrefix(e, p) =>
           /\ Drawn(d2, p, i, S2) = NodeOf(P, p, 0)
           /\ <<0, p>> \in DOMAIN h /\ h[<<0, p>>] = NodeOf(P, p, 0)
  BY EdgeBelow
<1>5. \A p \in Path : IsPrefix(e, p) =>
        /\ p \in DOMAIN d2 <=> p \in DOMAIN P
        /\ p \in S2 <=> p \in DOMAIN P /\ (p # e \/ e \notin DOMAIN t)
  BY <1>2 DEF NearEdge
<1>6. \A p \in Path : ~IsPrefix(e, p) =>
        /\ p \in DOMAIN d2 <=> p \in DOMAIN d
        /\ p \in DOMAIN d => d2[p] = d[p]
        /\ p \in S2 <=> p \in S
  BY <1>2 DEF NearEdge
<1>7. e # << >> =>
        LET q == Front(e)
        IN  /\ q \in Path /\ ~IsPrefix(e, q) /\ q # e /\ q \in DOMAIN d
            /\ <<i, q>> \in DOMAIN h /\ NodeAt(i, S2, q) = <<i, q>>
            /\ Drawn(d2, q, i, S2) = h[<<i, q>>]
  <2> SUFFICES ASSUME e # << >>
               PROVE  LET q == Front(e)
                      IN  /\ q \in Path /\ ~IsPrefix(e, q) /\ q # e /\ q \in DOMAIN d
                          /\ <<i, q>> \in DOMAIN h /\ NodeAt(i, S2, q) = <<i, q>>
                          /\ Drawn(d2, q, i, S2) = h[<<i, q>>]
    OBVIOUS
  <2> DEFINE q == Front(e)
             k == Last(e)
             g == h[<<i, q>>]
  <2>1. q \in Path /\ ~IsPrefix(e, q) /\ q # e /\ q \in DOMAIN d
    <3>1. q \in Path /\ ~IsPrefix(e, q) /\ q \in DOMAIN d
      BY <1>2 DEF NearEdge
    <3> QED
      BY <1>2, <3>1
  <2>2. /\ <<i, q>> \in DOMAIN h /\ k \in DOMAIN g.fields /\ g.fields[k] = <<i, e>>
        /\ NodeAt(i, S2, q) = <<i, q>>
        /\ Drawn(d2, q, i, S2) = [g EXCEPT !.fields = Entered(@, k, NodeAt(i, S2, e))]
    <3>1. AboveEdge(h, i, t, P, E, e)
      BY EdgeAbove
    <3> QED
      BY <3>1 DEF AboveEdge
  <2>3. NodeAt(i, S2, e) = <<i, e>>
    BY <1>3 DEF NodeAt
  <2>4. g = Drawn(d, q, i, S)
    <3>1. q \notin S
      BY <1>2 DEF NearEdge
    <3>2. NodeAt(i, S, q) = <<i, q>>
      BY <3>1 DEF NodeAt
    <3> HIDE DEF q, S, d
    <3> QED
      BY <1>1, <2>1, <3>2 DEF Shows
  <2> DEFINE f == [x \in Keys(d, q) |-> NodeAt(i, S, Append(q, x))]
  <2>5. g = [kind |-> d[q].kind, value |-> d[q].value, text |-> d[q].text, fields |-> f]
    BY <2>4 DEF Drawn
  <2>6. f = [x \in DOMAIN f |-> f[x]]
    OBVIOUS
  <2> HIDE DEF f, g, q, k
  <2>7. g.fields = f
    BY <2>5
  <2>8. k \in DOMAIN f /\ f[k] = <<i, e>>
    BY <2>2, <2>7
  <2>9. Entered(f, k, <<i, e>>) = f
    BY <2>6, <2>8 DEF Entered
  <2>10. [g EXCEPT !.fields = Entered(@, k, <<i, e>>)]
           = [kind |-> d[q].kind, value |-> d[q].value, text |-> d[q].text,
              fields |-> Entered(f, k, <<i, e>>)]
    BY <2>5
  <2>11. Drawn(d2, q, i, S2) = g
    BY <2>2, <2>3, <2>5, <2>9, <2>10
  <2> QED
    BY <2>1, <2>2, <2>11 DEF q, g
<1> HIDE DEF d, d2, S, S2
<1>8. n \in DOMAIN h /\ <<0, e>> \in DOMAIN h /\ h[<<0, e>>] = NodeOf(P, e, 0)
      /\ h[<<0, e>>] = Drawn(d2, e, i, S2)
  <2>1. NodeAt(i, S, e) = n
    BY <1>3 DEF NodeAt
  <2> HIDE DEF n
  <2> QED
    BY <1>1, <1>2, <1>3, <1>4, <2>1 DEF Shows
<1>9. /\ DOMAIN h2 = DOMAIN h /\ h2[n] = h[<<0, e>>]
      /\ \A m \in DOMAIN h : m # n => h2[m] = h[m]
  BY <1>8 DEF SetYNode
<1> DEFINE src == <<0, e>>
<1> HIDE DEF n, h2, src
<1>10. ASSUME NEW p \in DOMAIN d, ~IsPrefix(e, p)
       PROVE  NodeAt(i, S, p) \in DOMAIN h2 /\ h2[NodeAt(i, S, p)] = h[NodeAt(i, S, p)]
  <2>1. NodeAt(i, S, p) \in DOMAIN h
    BY <1>1 DEF Shows
  <2>2. NodeAt(i, S, p) # n
    BY <1>1, <1>2, <1>10 DEF NodeAt, n
  <2> QED
    BY <1>9, <2>1, <2>2
<1>11. ASSUME e # << >>
       PROVE  /\ NodeAt(i, S2, Front(e)) \in DOMAIN h2
              /\ h2[NodeAt(i, S2, Front(e))] = Drawn(d2, Front(e), i, S2)
  <2> DEFINE q == Front(e)
  <2>1. /\ q # e /\ <<i, q>> \in DOMAIN h /\ NodeAt(i, S2, q) = <<i, q>>
        /\ Drawn(d2, q, i, S2) = h[<<i, q>>]
    BY <1>7, <1>11
  <2> HIDE DEF q
  <2>2. <<i, q>> # n
    BY <2>1 DEF n
  <2>3. NodeAt(i, S2, q) \in DOMAIN h2 /\ h2[NodeAt(i, S2, q)] = Drawn(d2, q, i, S2)
    BY <1>9, <2>1, <2>2
  <2> QED
    BY <2>3 DEF q
<1>12. ASSUME NEW p \in DOMAIN d2, IsPrefix(e, p)
       PROVE  NodeAt(i, S2, p) \in DOMAIN h2 /\ h2[NodeAt(i, S2, p)] = Drawn(d2, p, i, S2)
  <2>1. p \in Path
    BY <1>2, TreeHas
  <2>2. p \in DOMAIN P /\ (p \in S2 <=> p # e)
    BY <1>5, <1>12, <2>1
  <2>3. CASE p = e
    <3>1. NodeAt(i, S2, e) = n
      BY <1>3 DEF NodeAt, n
    <3> QED
      BY <1>8, <1>9, <2>3, <3>1
  <2>4. CASE p # e
    <3>1. NodeAt(i, S2, p) = <<0, p>>
      BY <2>2, <2>4 DEF NodeAt
    <3>2. <<0, p>> # n
      BY <1>1 DEF n
    <3>3. <<0, p>> \in DOMAIN h /\ h[<<0, p>>] = Drawn(d2, p, i, S2)
      BY <1>4, <1>12, <2>2
    <3> QED
      BY <1>9, <3>1, <3>2, <3>3
  <2> QED
    BY <2>3, <2>4
<1>13. Shows(h2, i, d2, S2)
  BY <1>1, <1>2, <1>3, <1>6, <1>10, <1>11, <1>12, Regrafted
<1>14. Aside(h, h2, i)
  BY <1>9 DEF Aside, n
<1>15. Sound(h2)
  <2>1. ASSUME NEW m \in DOMAIN h2, NEW s \in DOMAIN h2[m].fields
        PROVE  h2[m].fields[s] \in DOMAIN h2 /\ h2[m].kind \in {"map", "list"}
    <3>1. PICK x \in DOMAIN h : h2[m] = h[x]
      BY <1>8, <1>9 DEF src
    <3> QED
      BY <1>1, <1>9, <2>1, <3>1 DEF Sound
  <2> QED
    BY <2>1 DEF Sound
<1>16. Holds(h2, 0, P)
  BY <1>1, <1>14, AsideHolds
<1>17. Merging(h2, i, t, P, E \cup {e})
  BY <1>1, <1>13, <1>15, <1>16 DEF Merging, d2, S2
<1> QED
  BY <1>14, <1>17 DEF h2, n

\* An edge that it does not have: the mapping above points to the patch's node.
LEMMA EdgeAttached ==
    ASSUME NEW h, NEW i, NEW t, NEW P, NEW E, Merging(h, i, t, P, E),
           NEW e \in Boundary(t, P), e \notin E, ~Gone(t, P, e), e \notin DOMAIN t
    PROVE  LET h2 == Attach(h, <<i, Front(e)>>, Last(e), <<0, e>>)
           IN  e # << >> /\ Merging(h2, i, t, P, E \cup {e}) /\ Aside(h, h2, i)
<1> DEFINE d  == Patched(t, P, E)
           d2 == Patched(t, P, E \cup {e})
           S  == Shared(t, P, E)
           S2 == Shared(t, P, E \cup {e})
           q  == Front(e)
           k  == Last(e)
           n  == <<i, q>>
           h2 == Attach(h, n, k, <<0, e>>)
<1>1. /\ i # 0 /\ IsTree(t) /\ Shallow(t) /\ t[<< >>].kind = "map"
      /\ IsTree(P) /\ Shallow(P) /\ E \in SUBSET Boundary(t, P)
      /\ Holds(h, 0, P) /\ Sound(h) /\ Shows(h, i, d, S)
  BY DEF Merging
<1>2. /\ NearEdge(t, P, E, e) /\ e \in Path /\ e \in DOMAIN P /\ IsPrefix(e, e)
      /\ IsTree(d) /\ IsTree(d2)
  BY EdgeNear
<1>3. e # << >>
  BY <1>1, TreeHas
<1>4. /\ q \in Path /\ ~IsPrefix(e, q) /\ q \in DOMAIN d /\ q \notin S
      /\ e \in S2
  BY <1>2, <1>3 DEF NearEdge
<1>5. /\ n \in DOMAIN h /\ h[n].kind = "map" /\ NodeAt(i, S2, q) = n
      /\ Drawn(d2, q, i, S2) = [h[n] EXCEPT !.fields = Entered(@, k, NodeAt(i, S2, e))]
  <2>1. AboveEdge(h, i, t, P, E, e)
    BY <1>3, EdgeAbove
  <2> QED
    BY <2>1 DEF AboveEdge
<1>6. NodeAt(i, S2, e) = <<0, e>>
  BY <1>4 DEF NodeAt
<1>7. << >> \notin S2
  <2>1. << >> \notin S
    BY <1>1 DEF Shows
  <2>2. << >> \in Path /\ ~IsPrefix(e, << >>)
    BY <1>1, <1>2, <1>3, TreeHas, PrefixOrder
  <2>3. \A p \in Path : ~IsPrefix(e, p) => (p \in S2 <=> p \in S)
    BY <1>2 DEF NearEdge
  <2> HIDE DEF d, d2, S, S2
  <2> QED
    BY <2>1, <2>2, <2>3
<1>8. /\ \A p \in DOMAIN P : IsPrefix(e, p) =>
           /\ Drawn(d2, p, i, S2) = NodeOf(P, p, 0)
           /\ <<0, p>> \in DOMAIN h /\ h[<<0, p>>] = NodeOf(P, p, 0)
  BY EdgeBelow
<1>9. \A p \in Path : IsPrefix(e, p) =>
        /\ p \in DOMAIN d2 <=> p \in DOMAIN P
        /\ p \in S2 <=> p \in DOMAIN P
  BY <1>2 DEF NearEdge
<1>10. \A p \in Path : ~IsPrefix(e, p) =>
         /\ p \in DOMAIN d2 <=> p \in DOMAIN d
         /\ p \in DOMAIN d => d2[p] = d[p]
         /\ p \in S2 <=> p \in S
  BY <1>2 DEF NearEdge
<1> HIDE DEF d, d2, S, S2
<1> DEFINE new == [h[n] EXCEPT !.fields = Entered(@, k, <<0, e>>)]
<1>11. /\ DOMAIN h2 = DOMAIN h /\ h2[n] = new
       /\ \A m \in DOMAIN h : m # n => h2[m] = h[m]
  <2> HIDE DEF n
  <2> QED
    BY <1>5 DEF Attach
<1>12. new = Drawn(d2, q, i, S2)
  BY <1>5, <1>6
<1> HIDE DEF n, h2, q, k, new
<1>13. ASSUME NEW p \in DOMAIN d, ~IsPrefix(e, p), p # q
       PROVE  NodeAt(i, S, p) \in DOMAIN h2 /\ h2[NodeAt(i, S, p)] = h[NodeAt(i, S, p)]
  <2>1. NodeAt(i, S, p) \in DOMAIN h
    BY <1>1 DEF Shows
  <2>2. NodeAt(i, S, p) # n
    BY <1>1, <1>13 DEF NodeAt, n
  <2> QED
    BY <1>11, <2>1, <2>2
<1>14. NodeAt(i, S2, q) \in DOMAIN h2 /\ h2[NodeAt(i, S2, q)] = Drawn(d2, q, i, S2)
  BY <1>5, <1>11, <1>12
<1>15. ASSUME NEW p \in DOMAIN d2, IsPrefix(e, p)
       PROVE  NodeAt(i, S2, p) \in DOMAIN h2 /\ h2[NodeAt(i, S2, p)] = Drawn(d2, p, i, S2)
  <2>1. p \in Path
    BY <1>2, TreeHas
  <2>2. p \in DOMAIN P /\ p \in S2
    BY <1>9, <1>15, <2>1
  <2>3. NodeAt(i, S2, p) = <<0, p>>
    BY <2>2 DEF NodeAt
  <2>4. <<0, p>> # n
    BY <1>1 DEF n
  <2>5. <<0, p>> \in DOMAIN h /\ h[<<0, p>>] = Drawn(d2, p, i, S2)
    BY <1>8, <1>15, <2>2
  <2> QED
    BY <1>11, <2>3, <2>4, <2>5
<1>16. Shows(h2, i, d2, S2)
  <2>1. \A p \in DOMAIN d : ~IsPrefix(e, p) /\ (e = << >> \/ p # Front(e)) =>
          NodeAt(i, S, p) \in DOMAIN h2 /\ h2[NodeAt(i, S, p)] = h[NodeAt(i, S, p)]
    BY <1>3, <1>13 DEF q
  <2>2. NodeAt(i, S2, Front(e)) \in DOMAIN h2
        /\ h2[NodeAt(i, S2, Front(e))] = Drawn(d2, Front(e), i, S2)
    BY <1>14 DEF q
  <2> QED
    BY <1>1, <1>2, <1>7, <1>10, <1>15, <2>1, <2>2, Regrafted
<1>17. Aside(h, h2, i)
  BY <1>11 DEF Aside, n
<1>18. Sound(h2)
  <2>1. <<0, e>> \in DOMAIN h
    BY <1>2, <1>8
  <2>2. new.kind = "map" /\ \A s \in DOMAIN new.fields :
          (s \in DOMAIN h[n].fields /\ new.fields[s] = h[n].fields[s]) \/ new.fields[s] = <<0, e>>
    <3>1. n \in DOMAIN h /\ h[n] = Drawn(d, q, i, S)
      <4>1. NodeAt(i, S, q) = n
        BY <1>4 DEF NodeAt, n
      <4> QED
        BY <1>1, <1>4, <4>1 DEF Shows
    <3> DEFINE f == h[n].fields
               f2 == Entered(f, k, <<0, e>>)
    <3>2. new = [h[n] EXCEPT !.fields = f2]
      BY DEF new
    <3>3. \A s \in DOMAIN f2 : (s \in DOMAIN f /\ f2[s] = f[s]) \/ f2[s] = <<0, e>>
      BY DEF Entered
    <3> HIDE DEF f2
    <3>4. new.kind = h[n].kind /\ new.fields = f2
      BY <3>1, <3>2 DEF Drawn
    <3> QED
      BY <1>5, <3>3, <3>4
  <2>3. ASSUME NEW m \in DOMAIN h2, NEW s \in DOMAIN h2[m].fields
        PROVE  h2[m].fields[s] \in DOMAIN h2 /\ h2[m].kind \in {"map", "list"}
    <3>1. CASE m # n
      BY <1>1, <1>11, <2>3, <3>1 DEF Sound
    <3>2. CASE m = n
      <4>1. s \in DOMAIN new.fields /\ h2[m].fields[s] = new.fields[s] /\ h2[m].kind = "map"
        BY <1>11, <2>2, <2>3, <3>2
      <4>2. CASE s \in DOMAIN h[n].fields /\ new.fields[s] = h[n].fields[s]
        BY <1>1, <1>5, <1>11, <4>1, <4>2 DEF Sound
      <4>3. CASE new.fields[s] = <<0, e>>
        BY <1>11, <2>1, <4>1, <4>3
      <4> QED
        BY <2>2, <4>1, <4>2, <4>3
    <3> QED
      BY <3>1, <3>2
  <2> QED
    BY <2>3 DEF Sound
<1>19. Holds(h2, 0, P)
  BY <1>1, <1>17, AsideHolds
<1>20. Merging(h2, i, t, P, E \cup {e})
  BY <1>1, <1>16, <1>18, <1>19 DEF Merging, d2, S2
<1> QED
  BY <1>3, <1>17, <1>20 DEF h2, n, q, k

-----------------------------------------------------------------------------
(* The stack of calls of the merge.                                        *)

\* Calls, the path that one is at, and the fields that their loops have left.
Nodes == Nat \X Path
Calls == [dst : Nodes, src : Nodes, fields : SUBSET STRING]
At(f) == f.src[2]
Left(fs) == UNION {{Append(At(fs[d]), k) : k \in fs[d].fields} : d \in DOMAIN fs}

\* What a call of the merge looks like: document and patch have the path, and
\* mappings on the way to it.
Called(f, i, t, P) ==
    /\ f.dst = <<i, At(f)>> /\ f.src = <<0, At(f)>>
    /\ At(f) \in DOMAIN t /\ At(f) \in DOMAIN P /\ ~Absent(t, At(f))
    /\ f.fields \subseteq Keys(P, At(f)) /\ (f.fields # {} => Both(t, P, At(f)))
    /\ \A r \in Path : IsPrefix(r, At(f)) /\ r # At(f) => Both(t, P, r)

\* A field of the patch that the merge comes to, and fails at.
Stopped(t, P, p) ==
    /\ p \in DOMAIN P /\ p # << >> /\ Last(p) \in Positions
    /\ \A r \in Path : IsPrefix(r, p) /\ r # p => Both(t, P, r)

\* No field that is left is on the way to another, or to a call; and there is
\* one wherever the merge will fail.
Stack(fs, i, t, P) ==
    /\ fs \in Seq(Calls)
    /\ \A d \in DOMAIN fs :
         /\ Called(fs[d], i, t, P) /\ Len(At(fs[d])) = d - 1
         /\ d < Len(fs) => Both(t, P, At(fs[d]))
    /\ \A r \in Left(fs), s \in Left(fs) : IsPrefix(r, s) => r = s
    /\ \A r \in Left(fs), d \in DOMAIN fs : ~IsPrefix(r, At(fs[d]))
    /\ \A p \in DOMAIN P : Stopped(t, P, p) => \E r \in Left(fs) : IsPrefix(r, p)

\* The boundary as far as the merge has come.
Done(fs, t, P) ==
    {e \in Boundary(t, P) :
       /\ \A r \in Left(fs) : ~IsPrefix(r, e)
       /\ fs # << >> => e # At(Last(fs))}

\* A patch is refused if the merge stops.
LEMMA PatchRefused ==
    ASSUME NEW cmd, Asked(cmd), cmd.op = "patch", NEW t
    PROVE  Refused(cmd, t) <=> \E p \in DOMAIN cmd.patch : Stopped(t, cmd.patch, p)
<1> DEFINE P == cmd.patch
<1>1. DOMAIN P \subseteq Path
  BY TreeHas DEF Asked
<1>2. ASSUME NEW p \in DOMAIN P
      PROVE  (\A n \in 0..Len(p) - 1 : Both(t, P, SubSeq(p, 1, n)))
               <=> \A r \in Path : IsPrefix(r, p) /\ r # p => Both(t, P, r)
  <2>1. {SubSeq(p, 1, n) : n \in 0..Len(p) - 1} = {r \in Path : IsPrefix(r, p) /\ r # p}
    BY <1>1, PrefixesAre
  <2> DEFINE L == {SubSeq(p, 1, n) : n \in 0..Len(p) - 1}
             R == {r \in Path : IsPrefix(r, p) /\ r # p}
  <2>2. (\A n \in 0..Len(p) - 1 : Both(t, P, SubSeq(p, 1, n))) <=> \A r \in L : Both(t, P, r)
    OBVIOUS
  <2>3. (\A r \in R : Both(t, P, r)) <=> \A r \in Path : IsPrefix(r, p) /\ r # p => Both(t, P, r)
    OBVIOUS
  <2> HIDE DEF L, R, P
  <2> QED
    BY <2>1, <2>2, <2>3 DEF L, R
<1>3. Targets(cmd, t) = {}
  BY DEF Targets
<1>4. Refused(cmd, t) <=> \E p \in DOMAIN P :
        /\ p # << >> /\ Last(p) \in Positions
        /\ \A n \in 0..Len(p) - 1 : Both(t, P, SubSeq(p, 1, n))
  BY <1>3 DEF Refused, Both
<1>5. ASSUME NEW p \in DOMAIN P
      PROVE  Stopped(t, P, p) <=>
        /\ p # << >> /\ Last(p) \in Positions
        /\ \A n \in 0..Len(p) - 1 : Both(t, P, SubSeq(p, 1, n))
  BY <1>2 DEF Stopped
<1> HIDE DEF P
<1>6. Refused(cmd, t) <=> \E p \in DOMAIN P : Stopped(t, P, p)
  BY <1>4, <1>5
<1> QED
  BY <1>6 DEF P

\* The patch is as it was made.
LEMMA PatchAt ==
    ASSUME NEW P, IsTree(P), NEW h, Holds(h, 0, P), NEW p \in DOMAIN P
    PROVE  /\ <<0, p>> \in DOMAIN h /\ h[<<0, p>>].kind = P[p].kind
           /\ DOMAIN h[<<0, p>>].fields = Keys(P, p)
           /\ \A k \in Keys(P, p) : /\ h[<<0, p>>].fields[k] = <<0, Append(p, k)>>
                                    /\ k \in STRING /\ Append(p, k) \in DOMAIN P
           /\ P[p].kind \in nodeKinds
<1>1. Keys(P, p) \subseteq STRING /\ P[p].kind \in nodeKinds
  BY TreeHas
<1>2. \A k \in Keys(P, p) : Append(p, k) \in DOMAIN P
  BY <1>1, TreeHas
<1>3. <<0, p>> \in DOMAIN h /\ h[<<0, p>>] = NodeOf(P, p, 0)
  BY DEF Holds
<1>4. /\ h[<<0, p>>].kind = P[p].kind /\ DOMAIN h[<<0, p>>].fields = Keys(P, p)
      /\ \A k \in Keys(P, p) : h[<<0, p>>].fields[k] = <<0, Append(p, k)>>
  BY <1>3 DEF NodeOf
<1> QED
  BY <1>1, <1>2, <1>3, <1>4

\* There is a key to every path below another one.
LEMMA PathBelow ==
    ASSUME NEW P, IsTree(P), NEW q \in Path, NEW p \in DOMAIN P, IsPrefix(q, p), p # q
    PROVE  \E k \in Keys(P, q) : k \in STRING /\ IsPrefix(Append(q, k), p)
<1> DEFINE N == {n \in Nat : \A r \in DOMAIN P : Len(r) = n =>
                   (IsPrefix(q, r) /\ r # q =>
                      \E k \in Keys(P, q) : k \in STRING /\ IsPrefix(Append(q, k), r))}
<1>1. DOMAIN P \subseteq Path /\ Len(<< >>) = 0
  BY TreeHas
<1>2. 0 \in N
  <2> SUFFICES ASSUME NEW r \in DOMAIN P, Len(r) = 0, IsPrefix(q, r), r # q
               PROVE  FALSE
    OBVIOUS
  <2>1. r = << >>
    BY <1>1, EmptySeq DEF Path
  <2> QED
    BY <2>1, PrefixOrder
<1>3. ASSUME NEW n \in N
      PROVE  n + 1 \in N
  <2> SUFFICES ASSUME NEW r \in DOMAIN P, Len(r) = n + 1, IsPrefix(q, r), r # q
               PROVE  \E k \in Keys(P, q) : k \in STRING /\ IsPrefix(Append(q, k), r)
    OBVIOUS
  <2>1. r \in Path /\ n \in Nat /\ n + 1 # 0
    BY <1>1
  <2>2. r # << >>
    BY <1>1, <2>1
  <2> DEFINE u == Front(r)
             x == Last(r)
  <2>3. u \in Path /\ x \in STRING /\ r = Append(u, x) /\ Len(u) = Len(r) - 1
    BY <2>1, <2>2, PathEnd
  <2> HIDE DEF u, x
  <2>4. IsPrefix(q, u)
    BY <2>3, PrefixOfNext
  <2>5. u \in DOMAIN P
    BY <2>3, TreeNext
  <2>6. Len(u) = n
    BY <2>1, <2>3
  <2>7. CASE u = q
    <3>1. x \in Keys(P, q)
      BY <2>3, <2>5, <2>7, TreeHas
    <3>2. IsPrefix(Append(q, x), r)
      BY <2>1, <2>3, <2>7, PrefixOrder
    <3> QED
      BY <2>3, <3>1, <3>2
  <2>8. CASE u # q
    <3>1. PICK k \in Keys(P, q) : k \in STRING /\ IsPrefix(Append(q, k), u)
      BY <2>4, <2>5, <2>6, <2>8
    <3>2. Append(q, k) \in Path
      BY <3>1, PathStep
    <3>3. IsPrefix(Append(q, k), Append(u, x))
      <4> DEFINE a == Append(q, k)
      <4> HIDE DEF a
      <4>1. IsPrefix(a, Append(u, x))
        BY <2>3, <3>1, <3>2, PrefixOfNext DEF a
      <4> QED
        BY <4>1 DEF a
    <3> QED
      BY <2>3, <3>1, <3>3
  <2> QED
    BY <2>7, <2>8
<1>4. N = Nat
  <2> HIDE DEF N
  <2>1. N \in SUBSET Nat
    BY DEF N
  <2> QED
    BY <1>2, <1>3, <2>1, Induction
<1>5. Len(p) \in Nat
  BY <1>1, LenProperties DEF Path
<1> QED
  BY <1>4, <1>5

\* What is left, one by one.
LEMMA LeftIs ==
    ASSUME NEW fs, NEW r
    PROVE  r \in Left(fs) <=> \E d \in DOMAIN fs : \E k \in fs[d].fields : r = Append(At(fs[d]), k)
  BY DEF Left

\* The mappings on the way to what is left are there.
LEMMA LeftHas ==
    ASSUME NEW fs, NEW i, NEW t, IsTree(t), NEW P, IsTree(P), Stack(fs, i, t, P),
           NEW r \in Left(fs)
    PROVE  /\ r \in Path /\ r \in DOMAIN P
           /\ \A s \in Path : IsPrefix(s, r) /\ s # r => Both(t, P, s)
<1>1. PICK d \in DOMAIN fs : \E k \in fs[d].fields : r = Append(At(fs[d]), k)
  BY LeftIs
<1>2. PICK k \in fs[d].fields : r = Append(At(fs[d]), k)
  BY <1>1
<1>3. Called(fs[d], i, t, P)
  BY DEF Stack
<1> DEFINE p == At(fs[d])
<1>4. /\ p \in DOMAIN P /\ k \in Keys(P, p) /\ Both(t, P, p)
      /\ \A s \in Path : IsPrefix(s, p) /\ s # p => Both(t, P, s)
  BY <1>2, <1>3 DEF Called
<1>5. r = Append(p, k)
  BY <1>2
<1> HIDE DEF p
<1>6. p \in Path /\ k \in STRING /\ Append(p, k) \in DOMAIN P /\ Append(p, k) \in Path
  BY <1>4, TreeHas
<1>7. ASSUME NEW s \in Path, IsPrefix(s, r), s # r
      PROVE  Both(t, P, s)
  <2>1. IsPrefix(s, p)
    BY <1>5, <1>6, <1>7, PrefixOfNext
  <2> QED
    BY <1>4, <2>1
<1> QED
  BY <1>5, <1>6, <1>7

\* Where a call is the document is as it was read.
AsRead(h, fs, i, t, P) ==
    LET q == At(Last(fs))
        d == Patched(t, P, Done(fs, t, P))
        S == Shared(t, P, Done(fs, t, P))
    IN  /\ Called(Last(fs), i, t, P) /\ q \in Path
        /\ q \in DOMAIN d /\ d[q] = t[q] /\ q \notin S
        /\ <<i, q>> \in DOMAIN h /\ h[<<i, q>>] = Drawn(d, q, i, S)
        /\ h[<<i, q>>].kind = "map" <=> Kind(t, q) = "map"
        /\ h[<<0, q>>].kind = "map" <=> Kind(P, q) = "map"

\* It is.
LEMMA CallAt ==
    ASSUME NEW h, NEW fs, NEW i, NEW t, NEW P, Stack(fs, i, t, P), fs # << >>,
           Merging(h, i, t, P, Done(fs, t, P))
    PROVE  AsRead(h, fs, i, t, P)
<1> DEFINE q == At(Last(fs))
           E == Done(fs, t, P)
           d == Patched(t, P, E)
           S == Shared(t, P, E)
<1>1. /\ IsTree(t) /\ IsTree(P) /\ E \subseteq Boundary(t, P) /\ Holds(h, 0, P)
      /\ Shows(h, i, d, S)
  BY DEF Merging
<1>2. Called(Last(fs), i, t, P)
  <2>1. fs \in Seq(Calls) /\ \A x \in DOMAIN fs : Called(fs[x], i, t, P)
    BY DEF Stack
  <2>2. Len(fs) \in DOMAIN fs /\ Last(fs) = fs[Len(fs)]
    BY <2>1 DEF Last
  <2> QED
    BY <2>1, <2>2
<1>3. /\ q \in DOMAIN t /\ q \in DOMAIN P
      /\ \A r \in Path : IsPrefix(r, q) /\ r # q => Both(t, P, r)
  BY <1>2 DEF Called
<1>4. q \in Path
  BY <1>1, <1>3, TreeHas
<1>5. \A e \in E : ~IsPrefix(e, q)
  <2> SUFFICES ASSUME NEW e \in E, IsPrefix(e, q)
               PROVE  FALSE
    OBVIOUS
  <2>1. e \in Boundary(t, P) /\ e # q
    BY DEF Done
  <2>2. e \in Path /\ ~Both(t, P, e)
    BY <1>1, <2>1, BoundaryIs
  <2> HIDE DEF q, E
  <2> QED
    BY <1>3, <2>1, <2>2
<1>6. q \in DOMAIN d /\ d[q] = t[q]
  <2> HIDE DEF q, E
  <2>1. /\ q \in DOMAIN d <=>
                \/ q \in DOMAIN t /\ \A e \in E : ~IsPrefix(e, q)
                \/ q \in DOMAIN P /\ \E e \in E : ~Gone(t, P, e) /\ IsPrefix(e, q)
        /\ q \in DOMAIN d => d[q] = IF \E e \in E : IsPrefix(e, q) THEN P[q] ELSE t[q]
    BY PatchedHas
  <2> QED
    BY <1>3, <1>5, <2>1
<1>7. q \notin S
  BY <1>5 DEF Shared
<1> HIDE DEF q, E, d, S
<1>8. <<i, q>> \in DOMAIN h /\ h[<<i, q>>] = Drawn(d, q, i, S)
  <2>1. NodeAt(i, S, q) = <<i, q>>
    BY <1>7 DEF NodeAt
  <2> QED
    BY <1>1, <1>6, <2>1 DEF Shows
<1>9. h[<<i, q>>].kind = "map" <=> Kind(t, q) = "map"
  BY <1>3, <1>6, <1>8 DEF Drawn, Kind, Has
<1>10. h[<<0, q>>].kind = "map" <=> Kind(P, q) = "map"
  BY <1>1, <1>3, PatchAt DEF Kind, Has
<1> QED
  BY <1>2, <1>4, <1>6, <1>7, <1>8, <1>9, <1>10 DEF AsRead, q, E, d, S

\* What the merge finds in the document at a field of the patch.
Finds(h, fs, i, t, k) ==
    LET q == At(Last(fs))
        r == Append(q, k)
    IN  /\ k \in STRING /\ r \in Left(fs)
        /\ h[<<0, q>>].fields[k] = <<0, r>>
        /\ r \in DOMAIN t => h[<<i, r>>].kind = t[r].kind
        /\ LookupPart(h, <<i, q>>, k) =
             IF k \in Positions THEN Bad ELSE IF Absent(t, r) THEN Nil ELSE <<i, r>>

\* It does.
LEMMA CallFinds ==
    ASSUME NEW h, NEW fs, NEW i \in Nat, NEW t, NEW P, Stack(fs, i, t, P), fs # << >>,
           Merging(h, i, t, P, Done(fs, t, P)), NEW k \in Last(fs).fields
    PROVE  Finds(h, fs, i, t, k)
<1> DEFINE q == At(Last(fs))
           r == Append(q, k)
           E == Done(fs, t, P)
           d == Patched(t, P, E)
           S == Shared(t, P, E)
           n == <<i, q>>
<1>1. /\ i # 0 /\ IsTree(t) /\ Shallow(t) /\ t[<< >>].kind = "map"
      /\ IsTree(P) /\ Shallow(P) /\ E \subseteq Boundary(t, P) /\ Holds(h, 0, P)
      /\ Shows(h, i, d, S)
  BY DEF Merging
<1>2. /\ Called(Last(fs), i, t, P) /\ q \in Path
      /\ q \in DOMAIN d /\ d[q] = t[q] /\ q \notin S
      /\ n \in DOMAIN h /\ h[n] = Drawn(d, q, i, S)
      /\ h[n].kind = "map" <=> Kind(t, q) = "map"
  <2>1. AsRead(h, fs, i, t, P)
    BY CallAt
  <2> QED
    BY <2>1 DEF AsRead
<1>3. /\ q \in DOMAIN t /\ q \in DOMAIN P /\ k \in Keys(P, q) /\ Both(t, P, q)
      /\ \A s \in Path : IsPrefix(s, q) /\ s # q => Both(t, P, s)
  BY <1>2 DEF Called
<1>4. k \in STRING /\ h[<<0, q>>].fields[k] = <<0, r>> /\ r \in DOMAIN P
  <2>1. IsTree(P) /\ Holds(h, 0, P) /\ q \in DOMAIN P /\ k \in Keys(P, q)
    BY <1>1, <1>3
  <2> HIDE DEF q
  <2>2. \A x \in Keys(P, q) : /\ h[<<0, q>>].fields[x] = <<0, Append(q, x)>>
                              /\ x \in STRING /\ Append(q, x) \in DOMAIN P
    BY <2>1, PatchAt
  <2> QED
    BY <2>1, <2>2
<1>5. r \in Left(fs)
  <2>1. fs \in Seq(Calls)
    BY DEF Stack
  <2>2. Len(fs) \in DOMAIN fs /\ Last(fs) = fs[Len(fs)]
    BY <2>1 DEF Last
  <2> QED
    BY <2>2, LeftIs
<1>6. r \in Path
  BY <1>2, <1>4, PathStep
<1>7. \A e \in E : ~IsPrefix(e, r)
  <2> SUFFICES ASSUME NEW e \in E, IsPrefix(e, r)
               PROVE  FALSE
    OBVIOUS
  <2>1. e \in Boundary(t, P) /\ ~IsPrefix(r, e)
    BY <1>5 DEF Done
  <2>2. e \in Path /\ ~Both(t, P, e)
    BY <1>1, <2>1, BoundaryIs
  <2>3. e = r \/ IsPrefix(e, q)
    BY <1>2, <1>4, <2>2, PrefixOfNext
  <2> HIDE DEF q, E, r
  <2>4. e # r
    BY <1>6, <2>1, PrefixOrder
  <2> QED
    BY <1>3, <2>2, <2>3, <2>4
<1>8. /\ r \in DOMAIN d <=> r \in DOMAIN t
      /\ r \in DOMAIN d => d[r] = t[r]
  <2> HIDE DEF q, E, r
  <2>1. /\ r \in DOMAIN d <=>
                \/ r \in DOMAIN t /\ \A e \in E : ~IsPrefix(e, r)
                \/ r \in DOMAIN P /\ \E e \in E : ~Gone(t, P, e) /\ IsPrefix(e, r)
        /\ r \in DOMAIN d => d[r] = IF \E e \in E : IsPrefix(e, r) THEN P[r] ELSE t[r]
    BY PatchedHas
  <2> QED
    BY <1>7, <2>1
<1>9. r \notin S
  BY <1>7 DEF Shared
<1>10. IsTree(d)
  <2> HIDE DEF E
  <2> QED
    BY <1>1, PatchedTree
<1> HIDE DEF E, d, S
<1>11. k \in Keys(d, q) <=> r \in DOMAIN t
  BY <1>2, <1>4, <1>8, <1>10, TreeHas
<1>12. NodeAt(i, S, r) = <<i, r>>
  BY <1>9 DEF NodeAt
<1>13. DOMAIN h[n].fields = Keys(d, q) /\ (k \in Keys(d, q) => h[n].fields[k] = <<i, r>>)
  BY <1>2, <1>12 DEF Drawn
<1>14. h[n].kind = "map" /\ n # Nil /\ n # Bad
  BY <1>2, <1>3 DEF Both, Nil, Bad
<1>15. r \in DOMAIN t => h[<<i, r>>].kind = t[r].kind
  <2> HIDE DEF r
  <2>1. r \in DOMAIN t => h[<<i, r>>] = Drawn(d, r, i, S)
    BY <1>1, <1>8, <1>12 DEF Shows
  <2> QED
    BY <1>8, <2>1 DEF Drawn
<1>16. Absent(t, r) <=> (r \notin DOMAIN t \/ t[r].kind = "null")
  BY <1>1, AbsentIs
<1> HIDE DEF r, n
<1>17. LookupPart(h, n, k) =
         IF k \in Positions THEN Bad ELSE IF Absent(t, r) THEN Nil ELSE <<i, r>>
  <2>1. CASE k \in Positions
    BY <1>14, <2>1 DEF LookupPart
  <2>2. CASE k \notin Positions /\ r \notin DOMAIN t
    BY <1>11, <1>13, <1>14, <1>16, <2>2 DEF LookupPart
  <2>3. CASE k \notin Positions /\ r \in DOMAIN t
    BY <1>11, <1>13, <1>14, <1>15, <1>16, <2>3 DEF LookupPart
  <2> QED
    BY <2>1, <2>2, <2>3
<1> QED
  BY <1>4, <1>5, <1>15, <1>17 DEF Finds, r, n, q

\* A call's loop has taken a field.
TakenFrom(fs, g, k) ==
    /\ g \in Seq(Calls) /\ g # << >> /\ Len(g) = Len(fs) /\ DOMAIN g = DOMAIN fs
    /\ \A d \in DOMAIN fs :
         /\ g[d].dst = fs[d].dst /\ g[d].src = fs[d].src
         /\ g[d].fields = IF d = Len(fs) THEN fs[d].fields \ {k} ELSE fs[d].fields

\* The loop takes a field off the top of the stack.
LEMMA TakenIs ==
    ASSUME NEW fs \in Seq(Calls), fs # << >>, NEW k
    PROVE  TakenFrom(fs, [fs EXCEPT ![Len(fs)].fields = @ \ {k}], k)
<1> DEFINE n == Len(fs)
           c == fs[n]
           c2 == [c EXCEPT !.fields = @ \ {k}]
           g == [fs EXCEPT ![n].fields = @ \ {k}]
<1>1. n \in DOMAIN fs /\ DOMAIN fs = 1..n /\ n \in Nat /\ c \in Calls
  <2>1. n \in Nat /\ n # 0 /\ DOMAIN fs = 1..n
    BY EmptySeq, LenProperties
  <2>2. n \in 1..n
    BY <2>1
  <2> QED
    BY <2>1, <2>2, ElementOfSeq
<1>2. /\ c2 = [dst |-> c.dst, src |-> c.src, fields |-> c.fields \ {k}]
      /\ c2 \in Calls /\ c2.dst = c.dst /\ c2.src = c.src /\ c2.fields = c.fields \ {k}
  <2> DEFINE F == c.fields \ {k}
             a == c.dst
             b == c.src
  <2>1. c = [dst |-> a, src |-> b, fields |-> c.fields]
        /\ a \in Nodes /\ b \in Nodes /\ F \in SUBSET STRING
    BY <1>1 DEF Calls
  <2>2. c2 = [c EXCEPT !.fields = F]
    OBVIOUS
  <2> HIDE DEF c, a, b, F, c2
  <2>3. c2 = [dst |-> a, src |-> b, fields |-> F]
    BY <2>1, <2>2
  <2>4. c2 \in Calls
    BY <2>1, <2>3 DEF Calls
  <2> QED
    BY <2>3, <2>4 DEF a, b, F
<1>3. g = [fs EXCEPT ![n] = c2]
  OBVIOUS
<1> HIDE DEF c2, n
<1>4. g \in Seq(Calls) /\ Len(g) = n /\ DOMAIN g = DOMAIN fs /\ g[n] = c2
      /\ \A d \in DOMAIN fs : d # n => g[d] = fs[d]
  <2> HIDE DEF c
  <2>1. DOMAIN g = DOMAIN fs /\ g[n] = c2 /\ \A d \in DOMAIN fs : d # n => g[d] = fs[d]
    BY <1>1, <1>3
  <2>2. g \in Seq(Calls) /\ Len(g) = Len(fs)
    <3> DEFINE f == [fs EXCEPT ![n] = c2]
    <3>1. n \in 1..Len(fs) /\ c2 \in Calls
      BY <1>1, <1>2 DEF n
    <3>2. f \in Seq(Calls) /\ Len(f) = Len(fs)
      BY <3>1, ExceptSeq
    <3> QED
      BY <1>3, <3>2
  <2> QED
    BY <2>1, <2>2 DEF n
<1>5. g # << >>
  BY <1>1, <1>4
<1> HIDE DEF g
<1>6. \A d \in DOMAIN fs :
         /\ g[d].dst = fs[d].dst /\ g[d].src = fs[d].src
         /\ g[d].fields = IF d = n THEN fs[d].fields \ {k} ELSE fs[d].fields
  BY <1>2, <1>4
<1>7. TakenFrom(fs, g, k)
  BY <1>4, <1>5, <1>6 DEF TakenFrom, n
<1> QED
  BY <1>7 DEF g, n

\* It is left no more.
LEMMA LeftTaken ==
    ASSUME NEW fs, NEW i, NEW t, IsTree(t), NEW P, IsTree(P), Stack(fs, i, t, P), NEW g, NEW k \in Last(fs).fields,
           TakenFrom(fs, g, k), fs # << >>
    PROVE  /\ At(Last(g)) = At(Last(fs))
           /\ Left(g) = Left(fs) \ {Append(At(Last(fs)), k)}
<1> DEFINE n == Len(fs)
           q == At(Last(fs))
<1>1. /\ fs \in Seq(Calls) /\ n \in DOMAIN fs /\ Last(fs) = fs[n] /\ Last(g) = g[n]
  <2>1. fs \in Seq(Calls)
    BY DEF Stack
  <2>2. n \in DOMAIN fs /\ Last(fs) = fs[n]
    BY <2>1 DEF Last
  <2> QED
    BY <2>1, <2>2 DEF TakenFrom, Last
<1>2. DOMAIN g = DOMAIN fs /\ \A d \in DOMAIN fs :
         /\ At(g[d]) = At(fs[d])
         /\ g[d].fields = IF d = n THEN fs[d].fields \ {k} ELSE fs[d].fields
  BY DEF TakenFrom, At
<1>3. \A d \in DOMAIN fs : /\ Len(At(fs[d])) = d - 1 /\ d \in Nat
                           /\ Called(fs[d], i, t, P)
  BY <1>1 DEF Stack
<1>4. \A d \in DOMAIN fs : At(fs[d]) \in Path /\ fs[d].fields \subseteq STRING
  BY <1>3, TreeHas DEF Called
<1>5. ASSUME NEW d \in DOMAIN fs, NEW x \in fs[d].fields, Append(At(fs[d]), x) = Append(q, k)
      PROVE  d = n /\ x = k
  <2> DEFINE p == At(fs[d])
  <2>1. p \in Path /\ q \in Path /\ x \in STRING /\ k \in STRING
    BY <1>1, <1>4
  <2>2. Append(p, x) = Append(q, k)
    BY <1>5
  <2>3. Len(p) = d - 1 /\ Len(q) = n - 1 /\ d \in Nat /\ n \in Nat
    BY <1>1, <1>3
  <2> HIDE DEF p, q, n
  <2>4. p = q /\ x = k
    <3>1. Front(Append(p, x)) = p /\ Last(Append(p, x)) = x
      BY <2>1, PathStep
    <3>2. Front(Append(q, k)) = q /\ Last(Append(q, k)) = k
      BY <2>1, PathStep
    <3> QED
      BY <2>2, <3>1, <3>2
  <2> QED
    BY <2>3, <2>4
<1>6. ASSUME NEW r
      PROVE  r \in Left(g) <=> r \in Left(fs) /\ r # Append(q, k)
  <2>1. r \in Left(fs) <=> \E d \in DOMAIN fs : \E x \in fs[d].fields : r = Append(At(fs[d]), x)
    BY LeftIs
  <2>2. r \in Left(g) <=> \E d \in DOMAIN g : \E x \in g[d].fields : r = Append(At(g[d]), x)
    BY LeftIs
  <2>3. ASSUME r \in Left(g)
        PROVE  r \in Left(fs) /\ r # Append(q, k)
    <3>1. PICK d \in DOMAIN fs : \E x \in g[d].fields : r = Append(At(g[d]), x)
      BY <1>2, <2>2, <2>3
    <3>2. PICK x \in g[d].fields : r = Append(At(g[d]), x)
      BY <3>1
    <3>3. x \in fs[d].fields /\ r = Append(At(fs[d]), x) /\ (d = n => x # k)
      BY <1>2, <3>2
    <3> HIDE DEF q, n
    <3> QED
      BY <1>5, <2>1, <3>3
  <2>4. ASSUME r \in Left(fs), r # Append(q, k)
        PROVE  r \in Left(g)
    <3>1. PICK d \in DOMAIN fs : \E x \in fs[d].fields : r = Append(At(fs[d]), x)
      BY <2>1, <2>4
    <3>2. PICK x \in fs[d].fields : r = Append(At(fs[d]), x)
      BY <3>1
    <3>3. d = n => x # k
      BY <1>1, <2>4, <3>2
    <3>4. x \in g[d].fields
      BY <1>2, <3>2, <3>3
    <3> QED
      BY <1>2, <2>2, <3>2, <3>4
  <2> QED
    BY <2>3, <2>4
<1>7. At(Last(g)) = q
  BY <1>1, <1>2
<1> QED
  BY <1>6, <1>7 DEF q

\* The calls are what they were.
LEMMA CalledTaken ==
    ASSUME NEW fs, NEW i, NEW t, NEW P, Stack(fs, i, t, P), NEW g, NEW k,
           TakenFrom(fs, g, k)
    PROVE  \A d \in DOMAIN g :
             /\ Called(g[d], i, t, P) /\ Len(At(g[d])) = d - 1
             /\ d \in DOMAIN fs /\ At(g[d]) = At(fs[d])
             /\ d < Len(g) => Both(t, P, At(g[d]))
<1> SUFFICES ASSUME NEW d \in DOMAIN g
             PROVE  /\ Called(g[d], i, t, P) /\ Len(At(g[d])) = d - 1
                    /\ d \in DOMAIN fs /\ At(g[d]) = At(fs[d])
                    /\ d < Len(g) => Both(t, P, At(g[d]))
  OBVIOUS
<1>1. d \in DOMAIN fs /\ Len(g) = Len(fs)
  BY DEF TakenFrom
<1>2. Called(fs[d], i, t, P) /\ Len(At(fs[d])) = d - 1 /\ (d < Len(fs) => Both(t, P, At(fs[d])))
  BY <1>1 DEF Stack
<1>3. /\ At(g[d]) = At(fs[d]) /\ g[d].dst = fs[d].dst /\ g[d].src = fs[d].src
      /\ g[d].fields \subseteq fs[d].fields
  BY <1>1 DEF TakenFrom, At
<1>4. Called(g[d], i, t, P)
  BY <1>2, <1>3 DEF Called
<1> QED
  BY <1>1, <1>2, <1>3, <1>4

\* A field that is done with: the merge will not fail below it.
Settled(fs, g, i, t, P, r) ==
    /\ Stack(g, i, t, P)
    /\ r \in Boundary(t, P) /\ r \notin Done(fs, t, P)
    /\ Done(g, t, P) = Done(fs, t, P) \cup {r}

\* It is.
LEMMA StackTaken ==
    ASSUME NEW fs, NEW i, NEW t, IsTree(t), NEW P, IsTree(P), Stack(fs, i, t, P), fs # << >>,
           NEW g, NEW k \in Last(fs).fields, TakenFrom(fs, g, k),
           NEW r, r = Append(At(Last(fs)), k), ~Both(t, P, r), k \notin Positions
    PROVE  Settled(fs, g, i, t, P, r)
<1>1. At(Last(g)) = At(Last(fs)) /\ Left(g) = Left(fs) \ {r}
  BY LeftTaken
<1>2. /\ fs \in Seq(Calls) /\ Len(fs) \in DOMAIN fs /\ Last(fs) = fs[Len(fs)]
      /\ g \in Seq(Calls) /\ g # << >> /\ DOMAIN g = DOMAIN fs
  <2>1. fs \in Seq(Calls)
    BY DEF Stack
  <2>2. Len(fs) \in DOMAIN fs /\ Last(fs) = fs[Len(fs)]
    BY <2>1 DEF Last
  <2> QED
    BY <2>1, <2>2 DEF TakenFrom
<1>3. r \in Left(fs)
  BY <1>2, LeftIs
<1>5. \A a \in Left(fs) :
        /\ a \in Path /\ a \in DOMAIN P
        /\ \A s \in Path : IsPrefix(s, a) /\ s # a => Both(t, P, s)
  BY LeftHas
<1>4. /\ r \in Path /\ r \in DOMAIN P
      /\ \A s \in Path : IsPrefix(s, r) /\ s # r => Both(t, P, s)
  BY <1>3, <1>5
<1>6. DOMAIN P \subseteq Path
  BY TreeHas
<1>7. \A p \in DOMAIN P : Stopped(t, P, p) => ~IsPrefix(r, p)
  <2> SUFFICES ASSUME NEW p \in DOMAIN P, Stopped(t, P, p), IsPrefix(r, p)
               PROVE  FALSE
    OBVIOUS
  <2>1. r = p
    BY <1>4 DEF Stopped
  <2>2. Last(p) \in Positions
    BY DEF Stopped
  <2>3. At(Last(fs)) \in Path /\ k \in STRING
    <3>1. Called(Last(fs), i, t, P)
      BY <1>2 DEF Stack
    <3> QED
      BY <3>1, TreeHas DEF Called
  <2>4. Last(r) = k
    BY <2>3, PathStep
  <2> QED
    BY <2>1, <2>2, <2>4
<1>8. Stack(g, i, t, P)
  <2>1. \A d \in DOMAIN g :
          /\ Called(g[d], i, t, P) /\ Len(At(g[d])) = d - 1
          /\ d \in DOMAIN fs /\ At(g[d]) = At(fs[d])
          /\ d < Len(g) => Both(t, P, At(g[d]))
    BY CalledTaken
  <2>2. \A a \in Left(g), b \in Left(g) : IsPrefix(a, b) => a = b
    BY <1>1 DEF Stack
  <2>3. \A a \in Left(g), d \in DOMAIN g : ~IsPrefix(a, At(g[d]))
    BY <1>1, <2>1 DEF Stack
  <2>4. \A p \in DOMAIN P : Stopped(t, P, p) => \E a \in Left(g) : IsPrefix(a, p)
    BY <1>1, <1>7 DEF Stack
  <2> QED
    BY <1>2, <2>1, <2>2, <2>3, <2>4 DEF Stack
<1>9. \A e : e \in Boundary(t, P) <=>
        /\ e \in DOMAIN P /\ e \in Path /\ ~Both(t, P, e)
        /\ \A s \in Path : IsPrefix(s, e) /\ s # e => Both(t, P, s)
  BY BoundaryIs
<1>10. r \in Boundary(t, P)
  BY <1>4, <1>9
<1>11. IsPrefix(r, r) /\ r \notin Done(fs, t, P)
  BY <1>3, <1>4, PrefixOrder DEF Done
<1>12. r # At(Last(fs))
  <2>1. ~IsPrefix(r, At(Last(fs)))
    BY <1>2, <1>3 DEF Stack
  <2> QED
    BY <1>11, <2>1
<1>13. \A e \in Boundary(t, P) : IsPrefix(r, e) => e = r
  BY <1>10, BoundaryIs
<1>14. ASSUME NEW e \in Boundary(t, P)
       PROVE  e \in Done(g, t, P) <=> e \in Done(fs, t, P) \/ e = r
  <2>1. e \in Done(g, t, P) <=> (\A s \in Left(fs) \ {r} : ~IsPrefix(s, e)) /\ e # At(Last(fs))
    BY <1>1, <1>2 DEF Done
  <2>2. e \in Done(fs, t, P) <=> (\A s \in Left(fs) : ~IsPrefix(s, e)) /\ e # At(Last(fs))
    BY DEF Done
  <2>3. CASE e = r
    <3>1. \A s \in Left(fs) \ {r} : ~IsPrefix(s, r)
      BY <1>3 DEF Stack
    <3> QED
      BY <1>12, <2>1, <2>3, <3>1
  <2>4. CASE e # r
    BY <1>13, <2>1, <2>2, <2>4
  <2> QED
    BY <2>3, <2>4
<1>15. Done(g, t, P) \subseteq Boundary(t, P) /\ Done(fs, t, P) \subseteq Boundary(t, P)
  BY DEF Done
<1>16. Done(g, t, P) = Done(fs, t, P) \cup {r}
  BY <1>10, <1>14, <1>15
<1> QED
  BY <1>8, <1>10, <1>11, <1>16 DEF Settled

\* A call more.
LEMMA LeftPushed ==
    ASSUME NEW g \in Seq(Calls), NEW f \in Calls
    PROVE  /\ Append(g, f) \in Seq(Calls) /\ Append(g, f) # << >> /\ Last(Append(g, f)) = f
           /\ Len(Append(g, f)) = Len(g) + 1 /\ Len(g) \in Nat /\ DOMAIN g = 1..Len(g)
           /\ DOMAIN Append(g, f) = 1..Len(g) + 1
           /\ \A d \in 1..Len(g) : Append(g, f)[d] = g[d]
           /\ Append(g, f)[Len(g) + 1] = f
           /\ \A y : y \in Left(Append(g, f)) <=>
                y \in Left(g) \/ \E x \in f.fields : y = Append(At(f), x)
<1> DEFINE G == Append(g, f)
           n == Len(g)
<1>1. /\ G \in Seq(Calls) /\ G # << >> /\ Len(G) = n + 1
      /\ \A d \in 1..n : G[d] = g[d]
      /\ G[n + 1] = f
  BY AppendIs
<1>2. n \in Nat /\ DOMAIN g = 1..n
  BY LenProperties
<1>3. DOMAIN G = 1..n + 1 /\ Last(G) = f
  BY <1>1, LenProperties DEF Last
<1> HIDE DEF G, n
<1>4. ASSUME NEW y
      PROVE  y \in Left(G) <=> y \in Left(g) \/ \E x \in f.fields : y = Append(At(f), x)
  <2>1. y \in Left(G) <=> \E d \in 1..n + 1 : \E x \in G[d].fields : y = Append(At(G[d]), x)
    <3>1. y \in Left(G) <=> \E d \in DOMAIN G : \E x \in G[d].fields : y = Append(At(G[d]), x)
      BY LeftIs
    <3> QED
      BY <1>3, <3>1, Zenon
  <2>2. y \in Left(g) <=> \E d \in 1..n : \E x \in g[d].fields : y = Append(At(g[d]), x)
    <3>1. y \in Left(g) <=> \E d \in DOMAIN g : \E x \in g[d].fields : y = Append(At(g[d]), x)
      BY LeftIs
    <3> QED
      BY <1>2, <3>1, Zenon
  <2>3. \A d \in 1..n + 1 : d \in 1..n \/ d = n + 1
    BY <1>2
  <2>4. n + 1 \in 1..n + 1 /\ \A d \in 1..n : d \in 1..n + 1
    BY <1>2
  <2> QED
    BY <1>1, <2>1, <2>2, <2>3, <2>4
<1> QED
  BY <1>1, <1>2, <1>3, <1>4 DEF G, n

\* The merge goes on with other calls, and has done what it had.
GoesOn(fs, g, i, t, P) == Stack(g, i, t, P) /\ Done(g, t, P) = Done(fs, t, P)

\* A field that the merge goes down to.
LEMMA StackPushed ==
    ASSUME NEW fs, NEW i \in Nat, NEW t, IsTree(t), NEW P, IsTree(P), Stack(fs, i, t, P), fs # << >>,
           NEW g, NEW k \in Last(fs).fields, TakenFrom(fs, g, k), k \notin Positions,
           NEW r, r = Append(At(Last(fs)), k), ~Absent(t, r),
           NEW f, f.dst = <<i, r>>, f.src = <<0, r>>,
           f.fields = (IF Both(t, P, r) THEN Keys(P, r) ELSE {}), f \in Calls
    PROVE  GoesOn(fs, Append(g, f), i, t, P)
<1> DEFINE G == Append(g, f)
           n == Len(g)
           q == At(Last(fs))
<1>1. At(Last(g)) = q /\ Left(g) = Left(fs) \ {r}
  BY LeftTaken
<1>2. /\ fs \in Seq(Calls) /\ n \in DOMAIN fs /\ Last(fs) = fs[n] /\ Len(fs) = n
      /\ g \in Seq(Calls) /\ g # << >> /\ DOMAIN g = DOMAIN fs
  <2>1. fs \in Seq(Calls)
    BY DEF Stack
  <2>2. Len(fs) \in DOMAIN fs /\ Last(fs) = fs[Len(fs)]
    BY <2>1 DEF Last
  <2> QED
    BY <2>1, <2>2 DEF TakenFrom
<1>3. r \in Left(fs)
  BY <1>2, LeftIs
<1>4. \A a \in Left(fs) :
        /\ a \in Path /\ a \in DOMAIN P
        /\ \A s \in Path : IsPrefix(s, a) /\ s # a => Both(t, P, s)
  BY LeftHas
<1>5. /\ r \in Path /\ r \in DOMAIN P /\ IsPrefix(r, r)
      /\ \A s \in Path : IsPrefix(s, r) /\ s # r => Both(t, P, s)
  BY <1>3, <1>4, PrefixOrder
<1>6. r \in DOMAIN t
  BY AbsentIs
<1>7. At(f) = r
  BY DEF At
<1>8. /\ G \in Seq(Calls) /\ G # << >> /\ Last(G) = f /\ Len(G) = n + 1 /\ n \in Nat
      /\ DOMAIN g = 1..n /\ DOMAIN G = 1..n + 1
      /\ \A d \in 1..n : G[d] = g[d]
      /\ G[n + 1] = f
      /\ \A y : y \in Left(G) <=> y \in Left(g) \/ \E x \in f.fields : y = Append(At(f), x)
  BY <1>2, LeftPushed
<1>9. Called(Last(fs), i, t, P) /\ Len(q) = n - 1 /\ Both(t, P, q) /\ q \in Path /\ k \in STRING
  <2>1. Called(Last(fs), i, t, P) /\ Len(q) = n - 1
    BY <1>2 DEF Stack
  <2> QED
    BY <2>1, TreeHas DEF Called
<1>10. Len(r) = n
  <2>1. Len(r) = Len(q) + 1
    BY <1>9, PathStep
  <2> QED
    BY <1>8, <1>9, <2>1
<1>11. \A y \in Left(G) : y \in Path /\ ((y \in Left(fs) /\ y # r)
         \/ \E x \in f.fields : x \in STRING /\ y = Append(r, x) /\ Both(t, P, r))
  <2>1. f.fields \subseteq STRING /\ (f.fields # {} => Both(t, P, r))
    BY <1>5, TreeHas
  <2>2. \A x \in f.fields : Append(r, x) \in Path
    BY <1>5, <2>1, PathStep
  <2> SUFFICES ASSUME NEW y \in Left(G)
               PROVE  y \in Path /\ ((y \in Left(fs) /\ y # r)
                        \/ \E x \in f.fields : x \in STRING /\ y = Append(r, x) /\ Both(t, P, r))
    OBVIOUS
  <2>3. y \in Left(g) \/ \E x \in f.fields : y = Append(r, x)
    BY <1>7, <1>8
  <2>4. CASE y \in Left(g)
    BY <1>1, <1>4, <2>4
  <2>5. CASE \E x \in f.fields : y = Append(r, x)
    BY <2>1, <2>2, <2>5
  <2> QED
    BY <2>3, <2>4, <2>5
<1> DEFINE Below(y) == y \in Path /\ IsPrefix(r, y) /\ y # r
<1>12. ASSUME NEW x \in STRING
       PROVE  Below(Append(r, x)) /\ \A e \in Path : IsPrefix(e, Append(r, x)) => e = Append(r, x) \/ IsPrefix(e, r)
  <2> DEFINE y == Append(r, x)
  <2>1. y \in Path /\ ~IsPrefix(y, r) /\ IsPrefix(r, y)
    BY <1>5, PathStep, PrefixOfNext
  <2>2. \A e \in Path : IsPrefix(e, y) => e = y \/ IsPrefix(e, r)
    BY <1>5, PrefixOfNext
  <2> HIDE DEF y
  <2>3. y # r
    BY <1>5, <2>1
  <2> QED
    BY <2>1, <2>2, <2>3 DEF y
<1> HIDE DEF G, n, q, Below
<1>13. Called(f, i, t, P)
  BY <1>5, <1>6, <1>7 DEF Called
<1>14. ASSUME NEW d \in DOMAIN G
       PROVE  /\ Called(G[d], i, t, P) /\ Len(At(G[d])) = d - 1
              /\ d < Len(G) => Both(t, P, At(G[d]))
  <2>1. CASE d = n + 1
    BY <1>7, <1>8, <1>10, <1>13, <2>1
  <2>2. CASE d \in 1..n
    <3>1. /\ Called(g[d], i, t, P) /\ Len(At(g[d])) = d - 1
          /\ d < Len(g) => Both(t, P, At(g[d]))
      BY <1>8, <2>2, CalledTaken
    <3>2. d = n => At(g[d]) = q
      BY <1>1, <1>2 DEF Last, n
    <3> QED
      BY <1>8, <1>9, <2>2, <3>1, <3>2 DEF n
  <2> QED
    BY <1>8, <2>1, <2>2
<1>15. \A d \in DOMAIN G : At(G[d]) = r \/ \E c \in DOMAIN fs : At(G[d]) = At(fs[c])
  <2> SUFFICES ASSUME NEW d \in DOMAIN G
               PROVE  At(G[d]) = r \/ \E c \in DOMAIN fs : At(G[d]) = At(fs[c])
    OBVIOUS
  <2>1. CASE d = n + 1
    BY <1>7, <1>8, <2>1
  <2>2. CASE d \in 1..n
    <3>1. d \in DOMAIN fs /\ At(g[d]) = At(fs[d])
      BY <1>8, <2>2, CalledTaken
    <3> QED
      BY <1>8, <2>2, <3>1
  <2> QED
    BY <1>8, <2>1, <2>2
<1>16. \A a \in Left(fs), b \in Left(fs) : IsPrefix(a, b) => a = b
  BY DEF Stack
<1>17. \A a \in Left(fs), d \in DOMAIN fs : ~IsPrefix(a, At(fs[d]))
  BY DEF Stack
<1>18. ASSUME NEW a \in Left(G), NEW b \in Left(G), IsPrefix(a, b)
       PROVE  a = b
  <2>1. a \in Path /\ b \in Path
    BY <1>11
  <2>2. CASE a \in Left(fs) /\ a # r /\ b \in Left(fs) /\ b # r
    BY <1>16, <1>18, <2>2
  <2>3. CASE a \in Left(fs) /\ a # r /\ \E x \in f.fields : x \in STRING /\ b = Append(r, x)
    <3>1. PICK x \in f.fields : x \in STRING /\ b = Append(r, x)
      BY <2>3
    <3>2. a = b \/ IsPrefix(a, r)
      BY <1>12, <1>18, <2>1, <3>1
    <3> QED
      BY <1>3, <1>16, <2>3, <3>2
  <2>4. CASE b \in Left(fs) /\ b # r /\ \E x \in f.fields : x \in STRING /\ a = Append(r, x)
    <3>1. IsPrefix(r, a)
      BY <1>12, <2>4 DEF Below
    <3>2. IsPrefix(r, b)
      BY <1>5, <1>18, <2>1, <3>1, PrefixOrder
    <3> QED
      BY <1>3, <1>16, <2>4, <3>2
  <2>5. CASE /\ \E x \in f.fields : x \in STRING /\ a = Append(r, x)
             /\ \E x \in f.fields : x \in STRING /\ b = Append(r, x)
    <3>1. PICK x \in f.fields : x \in STRING /\ b = Append(r, x)
      BY <2>5
    <3>2. a = b \/ IsPrefix(a, r)
      BY <1>12, <1>18, <2>1, <3>1
    <3>3. IsPrefix(r, a) /\ a # r
      BY <1>12, <2>5 DEF Below
    <3> QED
      BY <1>5, <2>1, <3>2, <3>3, PrefixOrder
  <2> QED
    BY <1>11, <2>2, <2>3, <2>4, <2>5
<1>19. ASSUME NEW a \in Left(G), NEW d \in DOMAIN G, IsPrefix(a, At(G[d]))
       PROVE  FALSE
  <2> DEFINE u == At(G[d])
  <2>1. a \in Path /\ u \in Path
    BY <1>11, <1>14, TreeHas DEF Called
  <2>2. u = r \/ \E c \in DOMAIN fs : u = At(fs[c])
    BY <1>15
  <2>3. IsPrefix(a, u)
    BY <1>19
  <2> HIDE DEF u
  <2>4. CASE a \in Left(fs) /\ a # r
    BY <1>3, <1>16, <1>17, <2>2, <2>3, <2>4
  <2>5. CASE \E x \in f.fields : x \in STRING /\ a = Append(r, x)
    <3>1. IsPrefix(r, a) /\ a # r
      BY <1>12, <2>5 DEF Below
    <3>2. IsPrefix(r, u)
      BY <1>5, <2>1, <2>3, <3>1, PrefixOrder
    <3>3. u = r
      BY <1>3, <1>17, <2>2, <3>2
    <3> QED
      BY <1>5, <2>1, <2>3, <3>1, <3>3, PrefixOrder
  <2> QED
    BY <1>11, <2>4, <2>5
<1>20. ASSUME NEW p \in DOMAIN P, IsPrefix(r, p), p # r, Both(t, P, r)
       PROVE  \E a \in Left(G) : IsPrefix(a, p)
  <2>1. PICK x \in Keys(P, r) : x \in STRING /\ IsPrefix(Append(r, x), p)
    BY <1>5, <1>20, PathBelow
  <2>2. x \in f.fields
    BY <1>20
  <2> QED
    BY <1>7, <1>8, <2>1, <2>2
<1>21. Last(r) = k
  BY <1>9, PathStep DEF q
<1>22. ASSUME NEW p \in DOMAIN P, Stopped(t, P, p)
       PROVE  \E a \in Left(G) : IsPrefix(a, p)
  <2>1. PICK a \in Left(fs) : IsPrefix(a, p)
    BY <1>22 DEF Stack
  <2>2. CASE a # r
    BY <1>1, <1>8, <2>1, <2>2
  <2>3. CASE a = r
    <3>1. p # r
      BY <1>21, <1>22 DEF Stopped
    <3>2. Both(t, P, r)
      BY <1>5, <1>22, <2>1, <2>3, <3>1 DEF Stopped
    <3> QED
      BY <1>20, <2>1, <2>3, <3>1, <3>2
  <2> QED
    BY <2>2, <2>3
<1>23. Stack(G, i, t, P)
  BY <1>8, <1>14, <1>18, <1>19, <1>22 DEF Stack
<1>24. /\ \A e \in Boundary(t, P) :
             /\ e \in DOMAIN P /\ e \in Path /\ ~Both(t, P, e)
             /\ \A s \in Path : IsPrefix(s, e) /\ s # e => Both(t, P, s)
  BY BoundaryIs
<1>25. ASSUME NEW e \in Boundary(t, P)
       PROVE  e \in Done(G, t, P) <=> e \in Done(fs, t, P)
  <2>1. e \in Done(fs, t, P) <=> \A a \in Left(fs) : ~IsPrefix(a, e)
    <3>1. e # q
      BY <1>9, <1>24
    <3> QED
      BY <3>1 DEF Done, q
  <2>2. e \in Done(G, t, P) <=> (\A a \in Left(G) : ~IsPrefix(a, e)) /\ e # r
    BY <1>7, <1>8 DEF Done
  <2>3. ASSUME \A a \in Left(fs) : ~IsPrefix(a, e)
        PROVE  (\A a \in Left(G) : ~IsPrefix(a, e)) /\ e # r
    <3>1. ~IsPrefix(r, e) /\ e # r
      BY <1>3, <1>5, <2>3
    <3>2. ASSUME NEW a \in Left(G), IsPrefix(a, e)
          PROVE  FALSE
      <4>1. CASE a \in Left(fs)
        BY <2>3, <3>2, <4>1
      <4>2. CASE \E x \in f.fields : x \in STRING /\ a = Append(r, x)
        <5>1. IsPrefix(r, a) /\ a \in Path
          BY <1>12, <4>2 DEF Below
        <5>2. IsPrefix(r, e)
          BY <1>5, <1>24, <3>2, <5>1, PrefixOrder
        <5> QED
          BY <3>1, <5>2
      <4> QED
        BY <1>11, <4>1, <4>2
    <3> QED
      BY <3>1, <3>2
  <2>4. ASSUME \A a \in Left(G) : ~IsPrefix(a, e), e # r, NEW a \in Left(fs), IsPrefix(a, e)
        PROVE  FALSE
    <3>1. a = r
      BY <1>1, <1>8, <2>4
    <3>2. Both(t, P, r)
      BY <1>5, <1>24, <2>4, <3>1
    <3> QED
      BY <1>20, <1>24, <2>4, <3>1, <3>2
  <2> QED
    BY <2>1, <2>2, <2>3, <2>4
<1>26. Done(G, t, P) = Done(fs, t, P)
  BY <1>25 DEF Done
<1> QED
  BY <1>23, <1>26 DEF G, GoesOn

\* All calls but the last.
LEMMA FrontOf ==
    ASSUME NEW fs \in Seq(Calls), fs # << >>
    PROVE  LET g == Front(fs)
           IN  /\ g \in Seq(Calls) /\ Len(fs) \in Nat /\ Len(g) = Len(fs) - 1
               /\ DOMAIN fs = 1..Len(fs) /\ DOMAIN g = 1..Len(fs) - 1 /\ Len(fs) \in DOMAIN fs
               /\ \A d \in 1..Len(fs) - 1 : g[d] = fs[d]
               /\ g # << >> => Last(g) = fs[Len(fs) - 1] /\ Len(fs) - 1 \in 1..Len(fs) - 1
<1>1. PICK s \in Seq(Calls), c \in Calls : fs = Append(s, c)
  BY SequenceEmptyOrAppend
<1> DEFINE a == Append(s, c)
           n == Len(s)
<1>2. /\ Len(a) = n + 1 /\ \A i \in 1..n : a[i] = s[i]
  BY AppendIs
<1>3. Front(a) = s
  BY FrontIs
<1>4. n \in Nat /\ DOMAIN s = 1..n /\ (n = 0 => s = << >>)
  BY EmptySeq, LenProperties
<1>5. DOMAIN fs = 1..Len(fs)
  BY LenProperties
<1> HIDE DEF a, n
<1>6. fs = a
  BY <1>1 DEF a
<1>7. Len(fs) = n + 1 /\ (\A i \in 1..n : fs[i] = s[i]) /\ Front(fs) = s
  BY <1>2, <1>3, <1>6
<1>8. s # << >> => Last(s) = fs[n] /\ n \in 1..n
  <2> SUFFICES ASSUME s # << >>
               PROVE  Last(s) = fs[n] /\ n \in 1..n
    OBVIOUS
  <2>1. n \in 1..n
    BY <1>4
  <2>2. Last(s) = s[n]
    BY DEF Last, n
  <2> QED
    BY <1>7, <2>1, <2>2
<1>9. (n + 1) - 1 = n /\ n + 1 \in Nat /\ n + 1 \in 1..n + 1
  BY <1>4
<1>10. Len(s) = n
  BY DEF n
<1> QED
  BY <1>1, <1>4, <1>5, <1>7, <1>8, <1>9, <1>10

\* What they leave.
LEMMA LeftPopped ==
    ASSUME NEW fs \in Seq(Calls), fs # << >>, Last(fs).fields = {}
    PROVE  Left(Front(fs)) = Left(fs)
<1> DEFINE g == Front(fs)
           n == Len(fs)
<1>1. /\ n \in Nat /\ DOMAIN fs = 1..n /\ DOMAIN g = 1..n - 1
      /\ \A d \in 1..n - 1 : g[d] = fs[d]
  BY FrontOf
<1>2. Last(fs) = fs[n]
  BY DEF Last
<1> HIDE DEF g, n
<1>3. ASSUME NEW y
      PROVE  y \in Left(g) <=> y \in Left(fs)
  <2>1. y \in Left(g) <=> \E d \in DOMAIN g : \E x \in g[d].fields : y = Append(At(g[d]), x)
    BY LeftIs
  <2>2. y \in Left(fs) <=> \E d \in DOMAIN fs : \E x \in fs[d].fields : y = Append(At(fs[d]), x)
    BY LeftIs
  <2>3. \A d \in DOMAIN fs : d \in DOMAIN g \/ d = n
    BY <1>1
  <2>4. \A d \in DOMAIN g : d \in DOMAIN fs /\ g[d] = fs[d]
    BY <1>1
  <2> QED
    BY <1>2, <2>1, <2>2, <2>3, <2>4
<1> QED
  BY <1>3 DEF g

\* A call that returns.
LEMMA StackPopped ==
    ASSUME NEW fs, NEW i, NEW t, IsTree(t), NEW P, IsTree(P), Stack(fs, i, t, P), fs # << >>,
           Last(fs).fields = {}
    PROVE  /\ Stack(Front(fs), i, t, P)
           /\ Both(t, P, At(Last(fs))) => Done(Front(fs), t, P) = Done(fs, t, P)
           /\ ~Both(t, P, At(Last(fs))) =>
                /\ At(Last(fs)) \in Boundary(t, P) /\ At(Last(fs)) \notin Done(fs, t, P)
                /\ Done(Front(fs), t, P) = Done(fs, t, P) \cup {At(Last(fs))}
<1> DEFINE g == Front(fs)
           n == Len(fs)
           q == At(Last(fs))
<1>1. fs \in Seq(Calls)
  BY DEF Stack
<1>2. /\ g \in Seq(Calls) /\ n \in Nat /\ Len(g) = n - 1
      /\ DOMAIN fs = 1..n /\ DOMAIN g = 1..n - 1 /\ n \in DOMAIN fs
      /\ \A d \in 1..n - 1 : g[d] = fs[d]
      /\ g # << >> => Last(g) = fs[n - 1] /\ n - 1 \in 1..n - 1
  BY <1>1, FrontOf
<1>3. Left(g) = Left(fs)
  BY <1>1, LeftPopped
<1>4. Last(fs) = fs[n]
  BY DEF Last
<1>5. Called(Last(fs), i, t, P)
  BY <1>2, <1>4 DEF Stack
<1> HIDE DEF g, n
<1>6. \A d \in 1..n - 1 : d \in DOMAIN fs /\ d < n
  BY <1>2
<1>7. \A d \in DOMAIN fs : /\ Called(fs[d], i, t, P) /\ Len(At(fs[d])) = d - 1
                           /\ d < n => Both(t, P, At(fs[d]))
  BY DEF Stack, n
<1>8. Stack(g, i, t, P)
  <2>1. ASSUME NEW d \in DOMAIN g
        PROVE  /\ Called(g[d], i, t, P) /\ Len(At(g[d])) = d - 1
               /\ d < Len(g) => Both(t, P, At(g[d]))
    BY <1>2, <1>6, <1>7
  <2>2. \A r \in Left(g), d \in DOMAIN g : ~IsPrefix(r, At(g[d]))
    BY <1>2, <1>3, <1>6 DEF Stack
  <2> QED
    BY <1>2, <1>3, <2>1, <2>2 DEF Stack
<1>9. \A e : e \in Boundary(t, P) <=>
             /\ e \in DOMAIN P /\ e \in Path /\ ~Both(t, P, e)
             /\ \A s \in Path : IsPrefix(s, e) /\ s # e => Both(t, P, s)
  BY BoundaryIs
<1>10. ASSUME NEW e \in Boundary(t, P)
       PROVE  e \in Done(g, t, P) <=> \A r \in Left(fs) : ~IsPrefix(r, e)
  <2>1. g # << >> => e # At(Last(g))
    <3>1. g # << >> => Both(t, P, At(Last(g)))
      BY <1>2, <1>6, <1>7
    <3> QED
      BY <1>9, <3>1
  <2> QED
    BY <1>3, <2>1 DEF Done
<1>11. ASSUME NEW e \in Boundary(t, P)
       PROVE  e \in Done(fs, t, P) <=> (\A r \in Left(fs) : ~IsPrefix(r, e)) /\ e # q
  BY DEF Done
<1>12. Done(g, t, P) \subseteq Boundary(t, P) /\ Done(fs, t, P) \subseteq Boundary(t, P)
  BY DEF Done
<1> HIDE DEF q
<1>13. ASSUME Both(t, P, q)
       PROVE  Done(g, t, P) = Done(fs, t, P)
  <2>1. \A e \in Boundary(t, P) : e # q
    BY <1>9, <1>13
  <2> QED
    BY <1>10, <1>11, <1>12, <2>1
<1>14. ASSUME ~Both(t, P, q)
       PROVE  /\ q \in Boundary(t, P) /\ q \notin Done(fs, t, P)
              /\ Done(g, t, P) = Done(fs, t, P) \cup {q}
  <2>1. q \in DOMAIN P /\ q \in Path /\ \A s \in Path : IsPrefix(s, q) /\ s # q => Both(t, P, s)
    BY <1>5, TreeHas DEF Called, q
  <2>2. q \in Boundary(t, P)
    BY <1>9, <1>14, <2>1
  <2>3. \A r \in Left(fs) : ~IsPrefix(r, q)
    BY <1>2, <1>4 DEF Stack, q
  <2>4. q \in Done(g, t, P) /\ q \notin Done(fs, t, P)
    BY <1>10, <1>11, <2>2, <2>3
  <2>5. \A e \in Boundary(t, P) : e \in Done(g, t, P) <=> e \in Done(fs, t, P) \/ e = q
    BY <1>10, <1>11, <2>3
  <2> QED
    BY <1>12, <2>2, <2>4, <2>5
<1> QED
  BY <1>8, <1>13, <1>14 DEF g, q

\* The merge is through.
LEMMA StackEmpty ==
    ASSUME NEW i, NEW t, NEW P, Stack(<< >>, i, t, P)
    PROVE  /\ Done(<< >>, t, P) = Boundary(t, P)
           /\ \A p \in DOMAIN P : ~Stopped(t, P, p)
<1>1. Left(<< >>) = {}
  BY DEF Left
<1> QED
  BY <1>1 DEF Done, Stack

\* It begins.
LEMMA StackBegun ==
    ASSUME NEW i \in Nat, NEW t, IsTree(t), t[<< >>].kind = "map", NEW P, IsTree(P),
           NEW f, f.dst = Root(i), f.src = Patch,
           f.fields = (IF Both(t, P, << >>) THEN Keys(P, << >>) ELSE {}), f \in Calls
    PROVE  Stack(<<f>>, i, t, P) /\ Done(<<f>>, t, P) = {}
<1> DEFINE e0 == << >>
           g  == << >>
           G  == <<f>>
<1>1. e0 \in Path /\ e0 \in DOMAIN t /\ e0 \in DOMAIN P /\ Len(e0) = 0
  BY TreeHas
<1>2. At(f) = e0
  BY DEF At, Patch
<1>3. g \in Seq(Calls) /\ Len(g) = 0 /\ Left(g) = {} /\ G = Append(g, f)
  BY DEF Left
<1>4. /\ G \in Seq(Calls) /\ Last(G) = f /\ G # << >> /\ Len(G) = 1
      /\ DOMAIN G = 1..1 /\ G[1] = f
  BY DEF Last
<1>5. \A y : y \in Left(Append(g, f)) <=>
                y \in Left(g) \/ \E x \in f.fields : y = Append(At(f), x)
  <2> HIDE DEF g
  <2> QED
    BY <1>3, LeftPushed
<1>6. \A y : y \in Left(G) <=> \E x \in f.fields : y = Append(e0, x)
  BY <1>2, <1>3, <1>5
<1>7. f.fields \subseteq STRING /\ (f.fields # {} => Both(t, P, e0)) /\ f.fields \subseteq Keys(P, e0)
  BY <1>1, TreeHas
<1>8. ~Absent(t, e0)
  BY <1>1, AbsentIs
<1>9. \A p \in Path : (IsPrefix(p, e0) => p = e0) /\ IsPrefix(e0, p)
  BY <1>1, PrefixOrder
<1>10. Called(f, i, t, P)
  BY <1>1, <1>2, <1>7, <1>8, <1>9 DEF Called, Root, Patch
<1>11. \A x \in STRING : /\ Append(e0, x) \in Path /\ Append(e0, x) # e0
                         /\ \A p \in Path : IsPrefix(p, Append(e0, x)) => p = Append(e0, x) \/ p = e0
  BY <1>1, <1>9, PathStep, PrefixOfNext
<1> HIDE DEF e0, g, G
<1>12. Stack(G, i, t, P)
  <2>1. \A d \in DOMAIN G : /\ d = 1 /\ G[d] = f
                            /\ Called(G[d], i, t, P) /\ Len(At(G[d])) = d - 1
                            /\ d < Len(G) => Both(t, P, At(G[d]))
    BY <1>1, <1>2, <1>4, <1>10
  <2>2. ASSUME NEW a \in Left(G), NEW b \in Left(G), IsPrefix(a, b)
        PROVE  a = b
    <3>1. PICK x \in STRING : a = Append(e0, x)
      BY <1>6, <1>7
    <3>2. PICK y \in STRING : b = Append(e0, y)
      BY <1>6, <1>7
    <3>3. a = b \/ a = e0
      BY <1>11, <2>2, <3>1, <3>2
    <3> QED
      BY <1>11, <3>1, <3>3
  <2>3. ASSUME NEW a \in Left(G), NEW d \in DOMAIN G
        PROVE  ~IsPrefix(a, At(G[d]))
    BY <1>2, <1>6, <1>7, <1>9, <1>11, <2>1
  <2>4. ASSUME NEW p \in DOMAIN P, Stopped(t, P, p)
        PROVE  \E a \in Left(G) : IsPrefix(a, p)
    <3>1. p \in Path /\ p # e0 /\ IsPrefix(e0, p)
      BY <1>9, <2>4, TreeHas DEF Stopped, e0
    <3>2. Both(t, P, e0)
      BY <1>1, <2>4, <3>1 DEF Stopped
    <3>3. PICK x \in Keys(P, e0) : x \in STRING /\ IsPrefix(Append(e0, x), p)
      BY <1>1, <3>1, PathBelow
    <3>4. x \in f.fields
      BY <3>2 DEF e0
    <3> QED
      BY <1>6, <3>3, <3>4
  <2> QED
    BY <1>4, <2>1, <2>2, <2>3, <2>4 DEF Stack
<1>13. Done(G, t, P) = {}
  <2> SUFFICES ASSUME NEW e \in Done(G, t, P)
               PROVE  FALSE
    OBVIOUS
  <2>1. e \in Boundary(t, P) /\ (\A r \in Left(G) : ~IsPrefix(r, e)) /\ e # e0
    BY <1>2, <1>4 DEF Done
  <2>2. /\ e \in DOMAIN P /\ e \in Path /\ \A s \in Path : IsPrefix(s, e) /\ s # e => Both(t, P, s)
    BY <2>1, BoundaryIs
  <2>3. Both(t, P, e0)
    BY <1>1, <1>9, <2>1, <2>2
  <2>4. PICK x \in Keys(P, e0) : x \in STRING /\ IsPrefix(Append(e0, x), e)
    BY <1>1, <1>9, <2>1, <2>2, PathBelow
  <2>5. x \in f.fields
    BY <2>3 DEF e0
  <2> QED
    BY <1>6, <2>1, <2>4, <2>5
<1> QED
  BY <1>12, <1>13 DEF G

\* The merge of document i, as far as it has come.
Underway(h, fs, i, t, P) ==
    Stack(fs, i, t, P) /\ Merging(h, i, t, P, Done(fs, t, P))

\* It refuses the patch.
LEMMA FieldStops ==
    ASSUME NEW h, NEW fs, NEW i \in Nat, NEW t, NEW P, Underway(h, fs, i, t, P), fs # << >>,
           NEW k \in Last(fs).fields, LookupPart(h, Last(fs).dst, k) = Bad
    PROVE  \E p \in DOMAIN P : Stopped(t, P, p)
<1> DEFINE q == At(Last(fs))
           r == Append(q, k)
<1>1. Stack(fs, i, t, P) /\ Merging(h, i, t, P, Done(fs, t, P)) /\ IsTree(t) /\ IsTree(P)
  BY DEF Underway, Merging
<1>2. Called(Last(fs), i, t, P) /\ q \in Path
  <2>1. AsRead(h, fs, i, t, P)
    BY <1>1, CallAt
  <2> QED
    BY <2>1 DEF AsRead
<1>3. Last(fs).dst = <<i, q>>
  BY <1>2 DEF Called
<1>4. /\ k \in STRING /\ r \in Left(fs)
      /\ LookupPart(h, <<i, q>>, k) =
           IF k \in Positions THEN Bad ELSE IF Absent(t, r) THEN Nil ELSE <<i, r>>
  <2>1. Finds(h, fs, i, t, k)
    BY <1>1, CallFinds
  <2> QED
    BY <2>1 DEF Finds
<1>5. k \in Positions
  <2>1. <<i, r>> # Bad /\ Nil # Bad
    BY DEF Nil, Bad
  <2> QED
    BY <1>3, <1>4, <2>1
<1>6. r # << >> /\ Last(r) = k
  BY <1>2, <1>4, PathStep
<1> HIDE DEF r, q
<1>7. r \in DOMAIN P /\ \A s \in Path : IsPrefix(s, r) /\ s # r => Both(t, P, s)
  <2>1. \A a \in Left(fs) :
          a \in DOMAIN P /\ \A s \in Path : IsPrefix(s, a) /\ s # a => Both(t, P, s)
    BY <1>1, LeftHas
  <2> QED
    BY <1>4, <2>1
<1>8. Stopped(t, P, r)
  BY <1>5, <1>6, <1>7 DEF Stopped
<1> QED
  BY <1>7, <1>8

\* A field that is missing or null in the document is done with.
LEMMA FieldTaken ==
    ASSUME NEW h, NEW fs, NEW i \in Nat, NEW t, NEW P, Underway(h, fs, i, t, P), fs # << >>,
           NEW k \in Last(fs).fields, LookupPart(h, Last(fs).dst, k) = Nil,
           NEW g, TakenFrom(fs, g, k)
    PROVE  LET h2 == SetField(h, Last(fs).dst, k, h[Last(fs).src].fields[k])
           IN  Underway(h2, g, i, t, P) /\ Aside(h, h2, i)
<1> DEFINE q == At(Last(fs))
           r == Append(q, k)
           E == Done(fs, t, P)
           n == <<i, q>>
           src == <<0, r>>
           h2 == SetField(h, n, k, src)
<1>1. Stack(fs, i, t, P) /\ Merging(h, i, t, P, E) /\ IsTree(t) /\ IsTree(P) /\ Holds(h, 0, P)
  BY DEF Underway, Merging
<1>2. Called(Last(fs), i, t, P) /\ q \in Path
  <2>1. AsRead(h, fs, i, t, P)
    BY <1>1, CallAt
  <2> QED
    BY <2>1 DEF AsRead
<1>3. Last(fs).dst = n /\ Last(fs).src = <<0, q>>
  BY <1>2 DEF Called
<1>4. /\ k \in STRING /\ r \in Left(fs) /\ h[<<0, q>>].fields[k] = src
      /\ LookupPart(h, n, k) =
           IF k \in Positions THEN Bad ELSE IF Absent(t, r) THEN Nil ELSE <<i, r>>
  <2>1. Finds(h, fs, i, t, k)
    BY <1>1, CallFinds
  <2> QED
    BY <2>1 DEF Finds
<1>5. k \notin Positions /\ Absent(t, r)
  <2>1. <<i, r>> # Nil /\ Nil # Bad
    BY DEF Nil, Bad
  <2> QED
    BY <1>3, <1>4, <2>1
<1>6. r # << >> /\ Front(r) = q /\ Last(r) = k /\ r \in Path
  BY <1>2, <1>4, PathStep
<1>7. r \in DOMAIN P
  BY <1>1, <1>4, LeftHas
<1>8. ~Both(t, P, r)
  BY <1>5 DEF Both, Absent
<1>9. /\ Stack(g, i, t, P) /\ r \in Boundary(t, P) /\ r \notin E
      /\ Done(g, t, P) = E \cup {r}
  <2>1. r = Append(At(Last(fs)), k)
    OBVIOUS
  <2> HIDE DEF r, q
  <2>2. Settled(fs, g, i, t, P, r)
    BY <1>1, <1>5, <1>8, <2>1, StackTaken
  <2> QED
    BY <2>2 DEF Settled
<1>10. h[src].kind = P[r].kind /\ (Kind(P, r) = "null" <=> P[r].kind = "null")
  <2>1. h[src].kind = P[r].kind
    <3> HIDE DEF r, q
    <3> QED
      BY <1>1, <1>7, PatchAt
  <2> QED
    BY <1>7, <2>1 DEF Kind, Has
<1> HIDE DEF E, r, q
<1>11. Merging(h2, i, t, P, E \cup {r}) /\ Aside(h, h2, i)
  <2>1. CASE Gone(t, P, r)
    <3>1. h[src].kind = "null"
      BY <1>10, <2>1 DEF Gone
    <3>2. h2 = Clear(h, n, k)
      BY <3>1 DEF SetField
    <3>3. LET h3 == Clear(h, <<i, Front(r)>>, Last(r))
          IN  Merging(h3, i, t, P, E \cup {r}) /\ Aside(h, h3, i)
      BY <1>1, <1>9, <2>1, EdgeCleared
    <3> QED
      BY <1>6, <3>2, <3>3
  <2>2. CASE ~Gone(t, P, r)
    <3>1. h[src].kind # "null"
      BY <1>5, <1>10, <2>2 DEF Gone
    <3>2. AboveEdge(h, i, t, P, E, r)
      BY <1>1, <1>6, <1>9, <2>2, EdgeAbove
    <3>3. /\ k \in DOMAIN h[n].fields <=> r \in DOMAIN t
          /\ r \in DOMAIN t => h[n].fields[k] = <<i, r>>
      BY <1>6, <3>2 DEF AboveEdge
    <3>4. CASE r \in DOMAIN t
      <4>1. h2 = SetYNode(h, <<i, r>>, <<0, r>>)
        BY <3>1, <3>3, <3>4 DEF SetField
      <4>2. LET h3 == SetYNode(h, <<i, r>>, <<0, r>>)
            IN  Merging(h3, i, t, P, E \cup {r}) /\ Aside(h, h3, i)
        BY <1>1, <1>9, <2>2, <3>4, EdgeCopied
      <4> QED
        BY <4>1, <4>2
    <3>5. CASE r \notin DOMAIN t
      <4>1. h2 = Attach(h, n, k, <<0, r>>)
        BY <3>1, <3>3, <3>5 DEF SetField
      <4>2. LET h3 == Attach(h, <<i, Front(r)>>, Last(r), <<0, r>>)
            IN  Merging(h3, i, t, P, E \cup {r}) /\ Aside(h, h3, i)
        BY <1>1, <1>9, <2>2, <3>5, EdgeAttached
      <4> QED
        BY <1>6, <4>1, <4>2
    <3> QED
      BY <3>4, <3>5
  <2> QED
    BY <2>1, <2>2
<1> HIDE DEF h2
<1>12. Underway(h2, g, i, t, P)
  BY <1>9, <1>11 DEF Underway
<1>13. h2 = SetField(h, Last(fs).dst, k, h[Last(fs).src].fields[k])
  BY <1>3, <1>4 DEF h2
<1> QED
  BY <1>11, <1>12, <1>13

\* What a call is made with.
LEMMA FrameIs ==
    ASSUME NEW i \in Nat, NEW t, NEW P, NEW r \in Path, r \in DOMAIN t, r \in DOMAIN P,
           heap[<<i, r>>].kind = t[r].kind, heap[<<0, r>>].kind = P[r].kind,
           DOMAIN heap[<<0, r>>].fields = Keys(P, r), Keys(P, r) \subseteq STRING
    PROVE  LET f == Frame(<<i, r>>, <<0, r>>)
           IN  /\ f \in Calls /\ f.dst = <<i, r>> /\ f.src = <<0, r>>
               /\ f.fields = (IF Both(t, P, r) THEN Keys(P, r) ELSE {})
<1> DEFINE m == <<i, r>>
           n == <<0, r>>
           F == IF BothMappings(m, n) THEN DOMAIN heap[n].fields ELSE {}
<1>1. BothMappings(m, n) <=> Both(t, P, r)
  BY DEF BothMappings, IsMapping, Both, Kind, Has
<1>2. F = (IF Both(t, P, r) THEN Keys(P, r) ELSE {}) /\ F \in SUBSET STRING
  BY <1>1
<1>3. m \in Nodes /\ n \in Nodes
  BY DEF Nodes
<1>4. Frame(m, n) = [dst |-> m, src |-> n, fields |-> F]
  BY DEF Frame
<1> HIDE DEF m, n, F
<1>5. Frame(m, n) \in Calls /\ Frame(m, n).dst = m /\ Frame(m, n).src = n /\ Frame(m, n).fields = F
  BY <1>2, <1>3, <1>4 DEF Calls
<1> QED
  BY <1>2, <1>5 DEF m, n

\* A field that both have: the merge goes down.
LEMMA FieldPushed ==
    ASSUME NEW fs, NEW i \in Nat, NEW t, NEW P, Underway(heap, fs, i, t, P), fs # << >>,
           NEW k \in Last(fs).fields, LookupPart(heap, Last(fs).dst, k) \notin {Nil, Bad},
           NEW g, TakenFrom(fs, g, k)
    PROVE  Underway(heap, Append(g, Frame(LookupPart(heap, Last(fs).dst, k),
                                          heap[Last(fs).src].fields[k])), i, t, P)
<1> DEFINE q == At(Last(fs))
           r == Append(q, k)
           E == Done(fs, t, P)
           f == Frame(<<i, r>>, <<0, r>>)
<1>1. Stack(fs, i, t, P) /\ Merging(heap, i, t, P, E) /\ IsTree(t) /\ IsTree(P) /\ Holds(heap, 0, P)
  BY DEF Underway, Merging
<1>2. Called(Last(fs), i, t, P) /\ q \in Path
  <2>1. AsRead(heap, fs, i, t, P)
    BY <1>1, CallAt
  <2> QED
    BY <2>1 DEF AsRead
<1>3. Last(fs).dst = <<i, q>> /\ Last(fs).src = <<0, q>>
  BY <1>2 DEF Called
<1>4. /\ k \in STRING /\ r \in Left(fs) /\ heap[<<0, q>>].fields[k] = <<0, r>>
      /\ r \in DOMAIN t => heap[<<i, r>>].kind = t[r].kind
      /\ LookupPart(heap, <<i, q>>, k) =
           IF k \in Positions THEN Bad ELSE IF Absent(t, r) THEN Nil ELSE <<i, r>>
  <2>1. Finds(heap, fs, i, t, k)
    BY <1>1, CallFinds
  <2> QED
    BY <2>1 DEF Finds
<1>5. k \notin Positions /\ ~Absent(t, r) /\ LookupPart(heap, <<i, q>>, k) = <<i, r>>
  BY <1>3, <1>4
<1>6. r \in Path /\ r \in DOMAIN t
  <2>1. r \in Path
    BY <1>2, <1>4, PathStep
  <2> QED
    BY <1>1, <1>5, <2>1, AbsentIs
<1>7. r \in DOMAIN P
  BY <1>1, <1>4, LeftHas
<1> HIDE DEF r, q, E
<1>8. /\ heap[<<0, r>>].kind = P[r].kind /\ DOMAIN heap[<<0, r>>].fields = Keys(P, r)
      /\ Keys(P, r) \subseteq STRING
  BY <1>1, <1>7, PatchAt
<1>9. /\ f \in Calls /\ f.dst = <<i, r>> /\ f.src = <<0, r>>
      /\ f.fields = (IF Both(t, P, r) THEN Keys(P, r) ELSE {})
  BY <1>4, <1>6, <1>7, <1>8, FrameIs
<1> HIDE DEF f
<1>10. Stack(Append(g, f), i, t, P) /\ Done(Append(g, f), t, P) = E
  <2>1. r = Append(At(Last(fs)), k)
    BY DEF r, q
  <2>2. GoesOn(fs, Append(g, f), i, t, P)
    BY <1>1, <1>5, <1>9, <2>1, StackPushed
  <2> QED
    BY <2>2 DEF GoesOn, E
<1>11. Underway(heap, Append(g, f), i, t, P)
  BY <1>1, <1>10 DEF Underway
<1>12. f = Frame(LookupPart(heap, Last(fs).dst, k), heap[Last(fs).src].fields[k])
  BY <1>3, <1>4, <1>5 DEF f
<1> QED
  BY <1>11, <1>12

\* What is no mapping on both sides is replaced.
LEMMA NodeReplaced ==
    ASSUME NEW h, NEW fs, NEW i \in Nat, NEW t, NEW P, Underway(h, fs, i, t, P), fs # << >>,
           ~(IsMapping(h, Last(fs).dst) /\ IsMapping(h, Last(fs).src))
    PROVE  LET h2 == SetYNode(h, Last(fs).dst, Last(fs).src)
           IN  Underway(h2, Front(fs), i, t, P) /\ Aside(h, h2, i)
<1> DEFINE q == At(Last(fs))
           E == Done(fs, t, P)
           h2 == SetYNode(h, <<i, q>>, <<0, q>>)
           g == Front(fs)
<1>1. Stack(fs, i, t, P) /\ Merging(h, i, t, P, E) /\ IsTree(t) /\ IsTree(P)
  BY DEF Underway, Merging
<1>2. /\ Called(Last(fs), i, t, P) /\ q \in Path
      /\ h[<<i, q>>].kind = "map" <=> Kind(t, q) = "map"
      /\ h[<<0, q>>].kind = "map" <=> Kind(P, q) = "map"
  <2>1. AsRead(h, fs, i, t, P)
    BY <1>1, CallAt
  <2> QED
    BY <2>1 DEF AsRead
<1>3. /\ Last(fs).dst = <<i, q>> /\ Last(fs).src = <<0, q>> /\ ~Absent(t, q) /\ q \in DOMAIN t
      /\ (Last(fs).fields # {} => Both(t, P, q))
  BY <1>2 DEF Called
<1>4. ~Both(t, P, q)
  BY <1>2, <1>3 DEF IsMapping, Both
<1>5. /\ Stack(g, i, t, P) /\ q \in Boundary(t, P) /\ q \notin E
      /\ Done(g, t, P) = E \cup {q}
  BY <1>1, <1>3, <1>4, StackPopped
<1>6. ~Gone(t, P, q)
  BY <1>3 DEF Gone
<1> HIDE DEF q, E, g
<1>7. Merging(h2, i, t, P, E \cup {q}) /\ Aside(h, h2, i)
  BY <1>1, <1>3, <1>5, <1>6, EdgeCopied
<1> HIDE DEF h2
<1>8. Underway(h2, g, i, t, P)
  BY <1>5, <1>7 DEF Underway
<1>9. h2 = SetYNode(h, Last(fs).dst, Last(fs).src)
  BY <1>3 DEF h2
<1> QED
  BY <1>7, <1>8, <1>9 DEF g

\* The fields of a mapping are merged.
LEMMA LoopEnded ==
    ASSUME NEW h, NEW fs, NEW i \in Nat, NEW t, NEW P, Underway(h, fs, i, t, P), fs # << >>,
           IsMapping(h, Last(fs).dst) /\ IsMapping(h, Last(fs).src), Last(fs).fields = {}
    PROVE  Underway(h, Front(fs), i, t, P)
<1> DEFINE q == At(Last(fs))
           E == Done(fs, t, P)
           g == Front(fs)
<1>1. Stack(fs, i, t, P) /\ Merging(h, i, t, P, E) /\ IsTree(t) /\ IsTree(P)
  BY DEF Underway, Merging
<1>2. /\ Called(Last(fs), i, t, P) /\ q \in Path
      /\ h[<<i, q>>].kind = "map" <=> Kind(t, q) = "map"
      /\ h[<<0, q>>].kind = "map" <=> Kind(P, q) = "map"
  <2>1. AsRead(h, fs, i, t, P)
    BY <1>1, CallAt
  <2> QED
    BY <2>1 DEF AsRead
<1>3. Last(fs).dst = <<i, q>> /\ Last(fs).src = <<0, q>>
  BY <1>2 DEF Called
<1>4. Both(t, P, q)
  BY <1>2, <1>3 DEF IsMapping, Both
<1>5. Stack(g, i, t, P) /\ Done(g, t, P) = E
  BY <1>1, <1>4, StackPopped
<1> HIDE DEF q, E, g
<1> QED
  BY <1>1, <1>5 DEF Underway, g

\* The merge begins with the document as it was read.
LEMMA MergeBegun ==
    ASSUME NEW i \in Nat, i # 0, NEW t, Own(heap, i, t), NEW P, IsTree(P), Shallow(P),
           Holds(heap, 0, P)
    PROVE  Underway(heap, <<Frame(Root(i), Patch)>>, i, t, P)
<1> DEFINE e0 == << >>
           f == Frame(Root(i), Patch)
<1>1. IsTree(t) /\ Shallow(t) /\ t[e0].kind = "map" /\ Holds(heap, i, t) /\ Sound(heap)
  BY DEF Own
<1>2. e0 \in Path /\ e0 \in DOMAIN t /\ e0 \in DOMAIN P
  BY <1>1, TreeHas
<1>3. Root(i) = <<i, e0>> /\ Patch = <<0, e0>>
  BY DEF Root, Patch
<1> HIDE DEF e0
<1>4. /\ heap[<<0, e0>>].kind = P[e0].kind /\ DOMAIN heap[<<0, e0>>].fields = Keys(P, e0)
      /\ Keys(P, e0) \subseteq STRING
  BY <1>2, PatchAt
<1>5. heap[<<i, e0>>].kind = t[e0].kind
  BY <1>1, <1>2, HeldAt
<1>6. LET c == Frame(<<i, e0>>, <<0, e0>>)
      IN  /\ c \in Calls /\ c.dst = <<i, e0>> /\ c.src = <<0, e0>>
          /\ c.fields = (IF Both(t, P, e0) THEN Keys(P, e0) ELSE {})
  BY <1>2, <1>4, <1>5, FrameIs
<1>7. /\ f \in Calls /\ f.dst = Root(i) /\ f.src = Patch
      /\ f.fields = (IF Both(t, P, e0) THEN Keys(P, e0) ELSE {})
  BY <1>3, <1>6
<1> HIDE DEF f
<1>8. Stack(<<f>>, i, t, P) /\ Done(<<f>>, t, P) = {}
  BY <1>1, <1>7, StackBegun DEF e0
<1>9. Patched(t, P, {}) = t /\ Shared(t, P, {}) = {}
  <2>1. Shared(t, P, {}) = {}
    BY DEF Shared
  <2>2. t = [p \in DOMAIN t |-> t[p]]
    BY <1>1, TreeHas
  <2>3. Patched(t, P, {}) = [p \in DOMAIN t |-> t[p]]
    BY DEF Patched
  <2> QED
    BY <2>1, <2>2, <2>3
<1>10. Shows(heap, i, t, {})
  BY <1>1, HoldsShows
<1>11. Merging(heap, i, t, P, {})
  BY <1>1, <1>9, <1>10 DEF Merging, e0
<1> QED
  BY <1>8, <1>11 DEF Underway, f

\* All nodes that calls are made with are there.
LEMMA CallsHeld ==
    ASSUME NEW h, NEW fs, NEW i, NEW t, NEW P, Underway(h, fs, i, t, P), NEW d \in DOMAIN fs
    PROVE  fs[d].dst \in DOMAIN h /\ fs[d].src \in DOMAIN h
<1> DEFINE q == At(fs[d])
           E == Done(fs, t, P)
           D == Patched(t, P, E)
           S == Shared(t, P, E)
<1>1. /\ Stack(fs, i, t, P) /\ Merging(h, i, t, P, E)
      /\ IsTree(t) /\ IsTree(P) /\ E \subseteq Boundary(t, P) /\ Holds(h, 0, P)
      /\ Shows(h, i, D, S)
  BY DEF Underway, Merging
<1>2. /\ fs \in Seq(Calls)
      /\ Called(fs[d], i, t, P)
      /\ d < Len(fs) => Both(t, P, q)
  BY <1>1 DEF Stack
<1>3. /\ fs[d].dst = <<i, q>> /\ fs[d].src = <<0, q>> /\ q \in DOMAIN t /\ q \in DOMAIN P
      /\ \A r \in Path : IsPrefix(r, q) /\ r # q => Both(t, P, r)
  BY <1>2 DEF Called
<1>4. fs # << >> /\ DOMAIN fs = 1..Len(fs) /\ Len(fs) \in Nat
  BY <1>2
<1>5. <<0, q>> \in DOMAIN h
  BY <1>1, <1>3 DEF Holds
<1>6. CASE d = Len(fs)
  <2>1. Last(fs) = fs[d]
    BY <1>6 DEF Last
  <2>2. <<i, At(Last(fs))>> \in DOMAIN h
    BY <1>1, <1>4, CallAt DEF AsRead
  <2> QED
    BY <1>3, <1>5, <2>1, <2>2
<1>7. CASE d # Len(fs)
  <2>1. Both(t, P, q)
    BY <1>2, <1>4, <1>7
  <2>2. ASSUME NEW e \in E
        PROVE  ~IsPrefix(e, q)
    <3>1. e \in Path /\ ~Both(t, P, e)
      BY <1>1, <2>2, BoundaryIs
    <3> QED
      BY <1>3, <2>1, <3>1
  <2>3. q \in DOMAIN D
    <3> HIDE DEF q, E
    <3>1. q \in DOMAIN D <=>
                \/ q \in DOMAIN t /\ \A e \in E : ~IsPrefix(e, q)
                \/ q \in DOMAIN P /\ \E e \in E : ~Gone(t, P, e) /\ IsPrefix(e, q)
      BY PatchedHas
    <3> QED
      BY <1>3, <2>2, <3>1
  <2>4. q \notin S
    BY <2>2 DEF Shared
  <2>5. NodeAt(i, S, q) = <<i, q>>
    BY <2>4 DEF NodeAt
  <2>6. <<i, q>> \in DOMAIN h
    <3> HIDE DEF q, D, S
    <3> QED
      BY <1>1, <2>3, <2>5 DEF Shows
  <2> QED
    BY <1>3, <1>5, <2>6
<1> QED
  BY <1>6, <1>7

\* The merge is through: the document is as the patch makes it.
LEMMA MergeEnded ==
    ASSUME NEW h, NEW i, NEW t, NEW P, Underway(h, << >>, i, t, P)
    PROVE  /\ IsTree(Merged(t, P)) /\ Shallow(Merged(t, P))
           /\ Shows(h, i, Merged(t, P), Shared(t, P, Boundary(t, P)))
           /\ \A p \in DOMAIN P : ~Stopped(t, P, p)
<1>1. Stack(<< >>, i, t, P) /\ Merging(h, i, t, P, Done(<< >>, t, P))
  BY DEF Underway
<1>2. Done(<< >>, t, P) = Boundary(t, P) /\ \A p \in DOMAIN P : ~Stopped(t, P, p)
  BY <1>1, StackEmpty
<1>3. Merging(h, i, t, P, Boundary(t, P))
  BY <1>1, <1>2
<1>4. Patched(t, P, Boundary(t, P)) = Merged(t, P)
  BY DEF Patched, Merged
<1>5. /\ IsTree(t) /\ Shallow(t) /\ t[<< >>].kind = "map" /\ IsTree(P) /\ Shallow(P)
      /\ Shows(h, i, Patched(t, P, Boundary(t, P)), Shared(t, P, Boundary(t, P)))
  BY <1>3 DEF Merging
<1>6. /\ IsTree(Patched(t, P, Boundary(t, P))) /\ Shallow(Patched(t, P, Boundary(t, P)))
  BY <1>5, PatchedTree
<1> QED
  BY <1>2, <1>4, <1>5, <1>6

\* The stack goes down one level at a time, and no path is longer than MaxDepth.
LEMMA StackBounded ==
    ASSUME NEW fs, NEW i, NEW t, Shallow(t), NEW P, Stack(fs, i, t, P)
    PROVE  Len(fs) <= MaxDepth + 1
<1>1. /\ fs \in Seq(Calls) /\ Len(fs) \in Nat /\ MaxDepth \in Nat
  BY DepthAssumption DEF Stack
<1>2. CASE fs = << >>
  BY <1>1, <1>2
<1>3. CASE fs # << >>
  <2>1. Len(fs) \in DOMAIN fs
    BY <1>1, <1>3
  <2>2. At(fs[Len(fs)]) \in DOMAIN t /\ Len(At(fs[Len(fs)])) = Len(fs) - 1
    BY <2>1 DEF Stack, Called
  <2>3. Len(At(fs[Len(fs)])) <= MaxDepth
    BY <2>2 DEF Shallow
  <2> QED
    BY <1>1, <2>2, <2>3
<1> QED
  BY <1>2, <1>3

\* What the reader makes of the documents and the patch.
LEMMA LoadedHolds ==
    ASSUME NEW n \in Nat, NEW docs, Len(docs) = n, DOMAIN docs = 1..n,
           \A i \in DOMAIN docs : IsTree(docs[i]), NEW P, IsTree(P)
    PROVE  LET h == Loaded(docs, P)
           IN  Sound(h) /\ Holds(h, 0, P) /\ \A i \in DOMAIN docs : Holds(h, i, docs[i])
<1> DEFINE trees == [i \in 0..n |-> IF i = 0 THEN P ELSE docs[i]]
           D == UNION {{<<i, p>> : p \in DOMAIN trees[i]} : i \in DOMAIN trees}
           h == [m \in D |-> NodeOf(trees[m[1]], m[2], m[1])]
<1>1. h = Loaded(docs, P)
  BY DEF Loaded, Load
<1>2. DOMAIN trees = 0..n /\ 0 \in 0..n /\ trees[0] = P
  OBVIOUS
<1>3. \A i \in 1..n : i \in 0..n /\ i # 0 /\ trees[i] = docs[i]
  OBVIOUS
<1>4. \A i \in 0..n : IsTree(trees[i])
  <2> SUFFICES ASSUME NEW i \in 0..n
               PROVE  IsTree(trees[i])
    OBVIOUS
  <2>1. CASE i = 0
    BY <1>2, <2>1
  <2>2. CASE i # 0
    BY <1>3, <2>2
  <2> QED
    BY <2>1, <2>2
<1> HIDE DEF trees
<1>5. \A i \in 0..n : \A p \in DOMAIN trees[i] : <<i, p>> \in D
  BY <1>2
<1>6. ASSUME NEW m \in D
      PROVE  m[1] \in 0..n /\ m[2] \in DOMAIN trees[m[1]] /\ m = <<m[1], m[2]>>
  BY <1>2
<1> HIDE DEF D
<1>7. DOMAIN h = D /\ \A m \in D : h[m] = NodeOf(trees[m[1]], m[2], m[1])
  OBVIOUS
<1> HIDE DEF h
<1>8. ASSUME NEW i \in 0..n
      PROVE  Holds(h, i, trees[i])
  <2> SUFFICES ASSUME NEW p \in DOMAIN trees[i]
               PROVE  <<i, p>> \in DOMAIN h /\ h[<<i, p>>] = NodeOf(trees[i], p, i)
    BY DEF Holds
  <2>1. <<i, p>> \in D /\ <<i, p>>[1] = i /\ <<i, p>>[2] = p
    BY <1>5
  <2>2. h[<<i, p>>] = NodeOf(trees[<<i, p>>[1]], <<i, p>>[2], <<i, p>>[1])
    BY <1>7, <2>1
  <2> QED
    BY <1>7, <2>1, <2>2
<1>9. Sound(h)
  <2> SUFFICES ASSUME NEW m \in DOMAIN h, NEW k \in DOMAIN h[m].fields
               PROVE  h[m].fields[k] \in DOMAIN h /\ h[m].kind \in {"map", "list"}
    BY DEF Sound
  <2> DEFINE i == m[1]
             p == m[2]
             t == trees[i]
  <2>1. i \in 0..n /\ p \in DOMAIN t /\ h[m] = NodeOf(t, p, i)
    BY <1>6, <1>7
  <2>2. IsTree(t)
    BY <1>4, <2>1
  <2> HIDE DEF i, p, t
  <2>3. /\ DOMAIN h[m].fields = Keys(t, p) /\ h[m].fields[k] = <<i, Append(p, k)>>
        /\ h[m].kind = t[p].kind
    BY <2>1 DEF NodeOf
  <2>4. k \in STRING /\ Append(p, k) \in DOMAIN t /\ t[p].kind \in {"map", "list"}
    <3>1. /\ \A q \in DOMAIN t, x \in STRING :
                /\ x \in Keys(t, q) <=> Append(q, x) \in DOMAIN t
                /\ x \in Keys(t, q) => \/ t[q].kind = "map"
                                       \/ t[q].kind = "list" /\ x \in Positions
          /\ \A q \in DOMAIN t : Keys(t, q) \subseteq STRING
      BY <2>2, TreeHas
    <3>2. k \in STRING /\ k \in Keys(t, p)
      BY <2>1, <2>3, <3>1
    <3> QED
      BY <2>1, <3>1, <3>2
  <2>5. <<i, Append(p, k)>> \in D
    BY <1>5, <2>1, <2>4 DEF t
  <2> QED
    BY <1>7, <2>3, <2>4, <2>5
<1> QED
  BY <1>1, <1>2, <1>3, <1>8, <1>9

-----------------------------------------------------------------------------
(* The invariant.                                                          *)

\* What becomes of a document, and the paths at which it is the patch's.
Result(cmd, t) == IF Selected(t, cmd.match) THEN Mutated(cmd, t) ELSE t

SharedBy(cmd, t) ==
    IF Selected(t, cmd.match) /\ cmd.op = "patch"
    THEN Shared(t, cmd.patch, Boundary(t, cmd.patch)) ELSE {}

\* A document as it was read or, after its turn, as the command leaves it.
Now(i) == IF i < turn THEN Result(command, read[i]) ELSE read[i]
PatchIn(i) == IF i < turn THEN SharedBy(command, read[i]) ELSE {}

\* A document that the command fails for.
Hopeless(cmd, t) == Selected(t, cmd.match) /\ Refused(cmd, t)

DocumentInv(i) ==
    /\ IsTree(Now(i)) /\ Shallow(Now(i))
    /\ i < turn => ~Hopeless(command, read[i])
    /\ frames = << >> \/ i # turn => Shows(heap, i, Now(i), PatchIn(i))

ReadInv ==
    /\ Asked(command)
    /\ Len(read) \in Nat /\ DOMAIN read = 1..Len(read)
    /\ read = [i \in DOMAIN read |-> read[i]]
    /\ \A i \in DOMAIN read : IsTree(read[i]) /\ Shallow(read[i])

LoopInv ==
    /\ turn \in 1..(Len(read) + 1) /\ pass \in 1..2
    /\ outcome \in {"parsing", "running", "failed", "written", "listed"}
    /\ outcome = "parsing" => turn = 1 /\ frames = << >>
    /\ outcome \in {"written", "listed"} => turn = Len(read) + 1 /\ frames = << >>

HeapInv ==
    /\ Sound(heap)
    /\ outcome # "parsing" =>
         Holds(heap, 0, command.patch) /\ \A i \in DOMAIN read : DocumentInv(i)

MergeInv == frames # << >> =>
    /\ outcome # "parsing" /\ turn \in DOMAIN read /\ command.op = "patch"
    /\ Selected(read[turn], command.match)
    /\ Underway(heap, frames, turn, read[turn], command.patch)

MutatorInv == ReadInv /\ LoopInv /\ HeapInv /\ MergeInv

\* A mutator is only applied to a mapping.
LEMMA SelectedMap ==
    ASSUME NEW t, IsTree(t), NEW opts, Selected(t, opts)
    PROVE  t[<< >>].kind = "map"
<1>1. << >> \in DOMAIN t
  BY TreeHas
<1>2. GetMeta(t).form = "mapping"
  BY DEF Selected, Readable
<1>3. GetMeta(t).form = IF Kind(t, << >>) = "map" THEN "mapping" ELSE "other"
  BY DEF GetMeta
<1> QED
  BY <1>1, <1>2, <1>3 DEF Kind, Has

\* What the writer would make of a document that no merge is at work on.
LEMMA TreeNow ==
    ASSUME MutatorInv, outcome # "parsing", NEW i \in DOMAIN read, frames = << >> \/ i # turn
    PROVE  Tree(i) = Now(i)
<1>1. IsTree(Now(i)) /\ Shallow(Now(i)) /\ Shows(heap, i, Now(i), PatchIn(i))
  BY DEF MutatorInv, HeapInv, DocumentInv
<1> QED
  BY <1>1, ShownTree DEF Tree

\* The document at the turn is as it was read.
LEMMA AtTurn ==
    ASSUME MutatorInv, Running
    PROVE  /\ turn \in DOMAIN read /\ turn \in Nat /\ turn # 0 /\ Tree(turn) = read[turn]
           /\ Now(turn) = read[turn] /\ PatchIn(turn) = {} /\ Shows(heap, turn, read[turn], {})
           /\ IsTree(read[turn]) /\ Shallow(read[turn]) /\ Sound(heap)
           /\ Holds(heap, 0, command.patch) /\ Asked(command) /\ outcome # "parsing"
<1>1. /\ outcome = "running" /\ frames = << >> /\ turn <= Len(read)
      /\ Asked(command) /\ Len(read) \in Nat /\ DOMAIN read = 1..Len(read)
      /\ turn \in 1..Len(read) + 1
      /\ Sound(heap) /\ Holds(heap, 0, command.patch) /\ \A i \in DOMAIN read : DocumentInv(i)
      /\ \A i \in DOMAIN read : IsTree(read[i]) /\ Shallow(read[i])
  BY DEF MutatorInv, ReadInv, LoopInv, HeapInv, Running
<1>2. turn \in DOMAIN read /\ turn \in Nat /\ turn # 0 /\ ~(turn < turn)
  BY <1>1
<1>3. Now(turn) = read[turn] /\ PatchIn(turn) = {}
  BY <1>2 DEF Now, PatchIn
<1>4. Shows(heap, turn, Now(turn), PatchIn(turn))
  BY <1>1, <1>2 DEF DocumentInv
<1>5. Tree(turn) = Now(turn)
  BY <1>1, <1>2, TreeNow
<1> QED
  BY <1>1, <1>2, <1>3, <1>4, <1>5

\* So it is all its own when a mutator is applied to it.
LEMMA Visited ==
    ASSUME MutatorInv, Visiting
    PROVE  /\ Own(heap, turn, read[turn]) /\ Selected(read[turn], command.match)
           /\ GetMeta(Tree(turn)).kind = Value(read[turn], <<"kind">>)
           /\ GetMeta(Tree(turn)).name = Value(read[turn], <<"metadata", "name">>)
<1>1. Running /\ Selected(Tree(turn), command.match)
  BY DEF Visiting
<1>2. /\ Tree(turn) = read[turn] /\ Shows(heap, turn, read[turn], {})
      /\ IsTree(read[turn]) /\ Shallow(read[turn]) /\ Sound(heap)
  BY <1>1, AtTurn
<1>3. Holds(heap, turn, read[turn])
  BY <1>2, HoldsShows
<1>4. read[turn][<< >>].kind = "map"
  BY <1>1, <1>2, SelectedMap
<1>5. /\ GetMeta(read[turn]).kind = Value(read[turn], <<"kind">>)
      /\ GetMeta(read[turn]).name = Value(read[turn], <<"metadata", "name">>)
  BY DEF GetMeta
<1> QED
  BY <1>1, <1>2, <1>3, <1>4, <1>5 DEF Own

-----------------------------------------------------------------------------
(* What the steps come to.                                                 *)

\* The document is done with.
Advances ==
    /\ outcome = "running" /\ turn \in DOMAIN read
    /\ turn' = turn + 1 /\ frames' = << >> /\ UNCHANGED <<command, read, pass, outcome>>
    /\ ~Hopeless(command, read[turn])
    /\ IsTree(Result(command, read[turn])) /\ Shallow(Result(command, read[turn]))
    /\ Aside(heap, heap', turn) /\ Sound(heap')
    /\ Shows(heap', turn, Result(command, read[turn]), SharedBy(command, read[turn]))

\* The command fails.
Refuses ==
    /\ outcome = "running" /\ turn \in DOMAIN read
    /\ outcome' = "failed" /\ UNCHANGED <<command, read, heap, turn, frames, pass>>
    /\ Hopeless(command, read[turn])

\* The merge goes on.
Continues ==
    /\ outcome = "running" /\ turn \in DOMAIN read
    /\ UNCHANGED <<command, read, turn, pass, outcome>>
    /\ frames' # << >> /\ command.op = "patch" /\ Selected(read[turn], command.match)
    /\ Aside(heap, heap', turn) /\ Underway(heap', frames', turn, read[turn], command.patch)

\* A mutator other than patch is applied.
LEMMA MutateFnDoes ==
    ASSUME MutatorInv, Visiting, command.op # "patch", NEW fails, NEW result,
           fails <=> Refused(command, read[turn]),
           ~Refused(command, read[turn]) =>
             Becomes(heap, result, turn, Mutated(command, read[turn])),
           MutateFn(fails, result)
    PROVE  Advances \/ Refuses
<1>1. Running
  BY DEF Visiting
<1>2. Selected(read[turn], command.match) /\ turn \in DOMAIN read /\ outcome = "running"
  BY <1>1, Visited, AtTurn DEF Running
<1>3. /\ Result(command, read[turn]) = Mutated(command, read[turn])
      /\ SharedBy(command, read[turn]) = {}
  BY <1>2 DEF Result, SharedBy
<1>4. Hopeless(command, read[turn]) <=> Refused(command, read[turn])
  BY <1>2 DEF Hopeless
<1>5. CASE fails
  <2>1. outcome' = "failed" /\ UNCHANGED <<command, read, heap, turn, frames, pass>>
    BY <1>5 DEF MutateFn
  <2> QED
    BY <1>2, <1>4, <1>5, <2>1 DEF Refuses
<1>6. CASE ~fails
  <2>1. /\ heap' = result /\ turn' = turn + 1 /\ UNCHANGED <<command, read, frames, pass, outcome>>
    BY <1>6 DEF MutateFn
  <2>2. Becomes(heap, heap', turn, Mutated(command, read[turn]))
    BY <1>6, <2>1
  <2>3. Shows(heap', turn, Mutated(command, read[turn]), {})
    BY <2>2, HoldsShows DEF Becomes
  <2>4. frames' = << >>
    BY <1>1, <2>1 DEF Running
  <2> QED
    BY <1>2, <1>3, <1>4, <1>6, <2>1, <2>2, <2>3, <2>4 DEF Advances, Becomes
<1> QED
  BY <1>5, <1>6

\* Each of the other mutators.
LEMMA LabelStep ==
    ASSUME MutatorInv, Label
    PROVE  Advances \/ Refuses
<1> DEFINE own   == LookupCreate(heap, Root(turn), <<"metadata", "labels">>)
           first == SetScalar(own.heap, {own.node}, command.key, command.value)
           tpl   == LookupCreate(first, Root(turn), <<"spec", "template", "metadata", "labels">>)
           pod   == Value(read[turn], <<"kind">>) \in workloadKinds
           fails == ~Settable(own.heap, own.node) \/ (pod /\ ~Settable(tpl.heap, tpl.node))
           last  == IF pod THEN SetScalar(tpl.heap, {tpl.node}, command.key, command.value) ELSE first
<1>1. command.op = "label" /\ Visiting
  BY DEF Label, LabelKinds
<1>2. /\ Own(heap, turn, read[turn]) /\ GetMeta(Tree(turn)).kind = Value(read[turn], <<"kind">>)
      /\ turn \in Nat /\ Asked(command)
  BY <1>1, Visited, AtTurn DEF Visiting
<1>3. MutateFn(fails, last)
  BY <1>2 DEF Label, LabelKinds
<1>4. /\ fails <=> Refused(command, read[turn])
      /\ ~Refused(command, read[turn]) => Becomes(heap, last, turn, Mutated(command, read[turn]))
  BY <1>1, <1>2, LabelDoes
<1> HIDE DEF fails, last
<1> QED
  BY <1>1, <1>3, <1>4, MutateFnDoes

\* Annotate makes one field.
LEMMA AnnotateStep ==
    ASSUME MutatorInv, Annotate
    PROVE  Advances \/ Refuses
<1> DEFINE own   == LookupCreate(heap, Root(turn), <<"metadata", "annotations">>)
           fails == ~Settable(own.heap, own.node)
           last  == SetScalar(own.heap, {own.node}, command.key, command.value)
<1>1. command.op = "annotate" /\ Visiting /\ MutateFn(fails, last)
  BY DEF Annotate
<1>2. Own(heap, turn, read[turn]) /\ turn \in Nat /\ Asked(command)
  BY <1>1, Visited, AtTurn DEF Visiting
<1>3. /\ fails <=> Refused(command, read[turn])
      /\ ~Refused(command, read[turn]) => Becomes(heap, last, turn, Mutated(command, read[turn]))
  BY <1>1, <1>2, AnnotateDoes
<1> HIDE DEF fails, last
<1> QED
  BY <1>1, <1>3, MutateFnDoes

\* So does SetNamespace.
LEMMA SetNamespaceStep ==
    ASSUME MutatorInv, SetNamespace
    PROVE  Advances \/ Refuses
<1> DEFINE own   == LookupCreate(heap, Root(turn), <<"metadata">>)
           fails == ~Settable(own.heap, own.node)
           last  == SetScalar(own.heap, {own.node}, "namespace", command.value)
<1>1. command.op = "set-namespace" /\ Visiting /\ MutateFn(fails, last)
  BY DEF SetNamespace
<1>2. Own(heap, turn, read[turn]) /\ turn \in Nat
  BY <1>1, Visited, AtTurn DEF Visiting
<1>3. /\ fails <=> Refused(command, read[turn])
      /\ ~Refused(command, read[turn]) => Becomes(heap, last, turn, Mutated(command, read[turn]))
  BY <1>1, <1>2, SetNamespaceDoes
<1> HIDE DEF fails, last
<1> QED
  BY <1>1, <1>3, MutateFnDoes

\* Rename fails for what has no metadata.
LEMMA RenameStep ==
    ASSUME MutatorInv, Rename
    PROVE  Advances \/ Refuses
<1> DEFINE meta    == Lookup(heap, Root(turn), <<"metadata">>)
           name    == Value(read[turn], <<"metadata", "name">>)
           newName == command.prefix \o name \o command.suffix
           same    == newName = name \/ meta \in {Nil, Bad}
           fails   == ~Settable(heap, meta)
           last    == SetScalar(heap, {meta}, "name", newName)
<1>1. command.op = "rename" /\ Visiting
  BY DEF Rename
<1>2. /\ Own(heap, turn, read[turn])
      /\ GetMeta(Tree(turn)).name = Value(read[turn], <<"metadata", "name">>) /\ turn \in Nat
  BY <1>1, Visited, AtTurn DEF Visiting
<1>3. IF same THEN MutateFn(FALSE, heap) ELSE MutateFn(fails, last)
  BY <1>2 DEF Rename
<1>4. IF same
      THEN ~Refused(command, read[turn]) /\ Becomes(heap, heap, turn, Mutated(command, read[turn]))
      ELSE /\ fails <=> Refused(command, read[turn])
           /\ ~Refused(command, read[turn]) =>
                Becomes(heap, last, turn, Mutated(command, read[turn]))
  BY <1>1, <1>2, RenameDoes
<1> HIDE DEF same, fails, last
<1>5. CASE same
  BY <1>1, <1>3, <1>4, <1>5, MutateFnDoes
<1>6. CASE ~same
  BY <1>1, <1>3, <1>4, <1>6, MutateFnDoes
<1> QED
  BY <1>5, <1>6

\* Scale takes only some kinds.
LEMMA ScaleStep ==
    ASSUME MutatorInv, Scale
    PROVE  Advances \/ Refuses
<1> DEFINE spec  == Lookup(heap, Root(turn), <<"spec">>)
           same  == spec \in {Nil, Bad}
           fails == ~command.number \/ ~Settable(heap, spec)
           last  == SetScalar(heap, {spec}, "replicas", command.value)
<1>1. command.op = "scale" /\ Visiting /\ IF same THEN MutateFn(FALSE, heap) ELSE MutateFn(fails, last)
  BY DEF Scale
<1>2. Own(heap, turn, read[turn]) /\ turn \in Nat
  BY <1>1, Visited, AtTurn DEF Visiting
<1>3. IF same
      THEN ~Refused(command, read[turn]) /\ Becomes(heap, heap, turn, Mutated(command, read[turn]))
      ELSE /\ fails <=> Refused(command, read[turn])
           /\ ~Refused(command, read[turn]) =>
                Becomes(heap, last, turn, Mutated(command, read[turn]))
  BY <1>1, <1>2, ScaleDoes
<1> HIDE DEF same, fails, last
<1>4. CASE same
  BY <1>1, <1>3, <1>4, MutateFnDoes
<1>5. CASE ~same
  BY <1>1, <1>3, <1>5, MutateFnDoes
<1> QED
  BY <1>4, <1>5

\* SetImage sets the images of the containers that it finds.
LEMMA SetImageStep ==
    ASSUME MutatorInv, SetImage
    PROVE  Advances \/ Refuses
<1> DEFINE fails == \E list \in ContainerLists : heap[list].kind # "list"
           last  == SetScalar(heap, ImageNodes(command.key), "image", command.value)
<1>1. command.op = "set-image" /\ Visiting /\ MutateFn(fails, last)
  BY DEF SetImage, ContainerLists, ImageNodes
<1>2. Own(heap, turn, read[turn]) /\ turn \in Nat
  BY <1>1, Visited, AtTurn DEF Visiting
<1>3. /\ fails <=> Refused(command, read[turn])
      /\ ~Refused(command, read[turn]) => Becomes(heap, last, turn, Mutated(command, read[turn]))
  BY <1>1, <1>2, SetImageDoes
<1> HIDE DEF fails, last
<1> QED
  BY <1>1, <1>3, MutateFnDoes

\* RemoveField clears what is there.
LEMMA RemoveFieldStep ==
    ASSUME MutatorInv, RemoveField
    PROVE  Advances \/ Refuses
<1> DEFINE parent == Lookup(heap, Root(turn), Front(command.path))
           field  == Last(command.path)
           same   == parent \in {Nil, Bad} \/ LookupPart(heap, parent, field) \in {Nil, Bad}
           fails  == ~Settable(heap, parent)
           last   == Clear(heap, parent, field)
<1>1. command.op = "remove" /\ Visiting /\ IF same THEN MutateFn(FALSE, heap) ELSE MutateFn(fails, last)
  BY DEF RemoveField
<1>2. Own(heap, turn, read[turn]) /\ turn \in Nat /\ Asked(command)
  BY <1>1, Visited, AtTurn DEF Visiting
<1>3. IF same
      THEN ~Refused(command, read[turn]) /\ Becomes(heap, heap, turn, Mutated(command, read[turn]))
      ELSE /\ fails <=> Refused(command, read[turn])
           /\ ~Refused(command, read[turn]) =>
                Becomes(heap, last, turn, Mutated(command, read[turn]))
  BY <1>1, <1>2, RemoveDoes
<1> HIDE DEF same, fails, last
<1>4. CASE same
  BY <1>1, <1>3, <1>4, MutateFnDoes
<1>5. CASE ~same
  BY <1>1, <1>3, <1>5, MutateFnDoes
<1> QED
  BY <1>4, <1>5

\* A document that is not in the scope.
LEMMA PassThroughStep ==
    ASSUME MutatorInv, PassThrough
    PROVE  Advances
<1>1. Running /\ ~Selected(Tree(turn), command.match)
  BY DEF PassThrough
<1>2. /\ turn \in DOMAIN read /\ turn \in Nat /\ Tree(turn) = read[turn]
      /\ Shows(heap, turn, read[turn], {})
      /\ IsTree(read[turn]) /\ Shallow(read[turn]) /\ Sound(heap)
  BY <1>1, AtTurn
<1>3. /\ Result(command, read[turn]) = read[turn] /\ SharedBy(command, read[turn]) = {}
      /\ ~Hopeless(command, read[turn])
  BY <1>1, <1>2 DEF Result, SharedBy, Hopeless
<1>4. outcome = "running" /\ frames = << >>
  BY <1>1 DEF Running
<1>5. turn' = turn + 1 /\ UNCHANGED <<command, read, heap, frames, pass, outcome>>
  BY DEF PassThrough
<1>6. Aside(heap, heap, turn)
  BY AsideTrans
<1> QED
  BY <1>2, <1>3, <1>4, <1>5, <1>6 DEF Advances

\* The merge is about the document at the turn.
LEMMA AtMerge ==
    ASSUME MutatorInv, outcome = "running", frames # << >>
    PROVE  /\ turn \in DOMAIN read /\ turn \in Nat /\ turn # 0 /\ command.op = "patch"
           /\ Selected(read[turn], command.match) /\ Asked(command)
           /\ Underway(heap, frames, turn, read[turn], command.patch)
           /\ frames \in Seq(Calls)
<1>1. /\ turn \in DOMAIN read /\ command.op = "patch" /\ Selected(read[turn], command.match)
      /\ Underway(heap, frames, turn, read[turn], command.patch)
      /\ Asked(command) /\ Len(read) \in Nat /\ DOMAIN read = 1..Len(read)
  BY DEF MutatorInv, MergeInv, ReadInv
<1>2. frames \in Seq(Calls)
  BY <1>1 DEF Underway, Stack
<1> QED
  BY <1>1, <1>2

\* It begins.
LEMMA StartMergeStep ==
    ASSUME MutatorInv, StartMerge
    PROVE  Continues
<1> DEFINE f == Frame(Root(turn), Patch)
<1>1. /\ Visiting /\ command.op = "patch" /\ frames' = <<f>>
      /\ UNCHANGED <<command, read, heap, turn, pass, outcome>>
  BY DEF StartMerge
<1>2. /\ Own(heap, turn, read[turn]) /\ Selected(read[turn], command.match)
      /\ turn \in Nat /\ turn # 0 /\ turn \in DOMAIN read
      /\ Asked(command) /\ Holds(heap, 0, command.patch) /\ outcome = "running"
  BY <1>1, Visited, AtTurn DEF Visiting, Running
<1>3. IsTree(command.patch) /\ Shallow(command.patch)
  BY <1>2 DEF Asked
<1>4. Underway(heap, <<f>>, turn, read[turn], command.patch)
  BY <1>2, <1>3, MergeBegun
<1> HIDE DEF f
<1>5. <<f>> # << >> /\ Aside(heap, heap, turn)
  BY AsideTrans
<1> QED
  BY <1>1, <1>2, <1>4, <1>5 DEF Continues

\* It goes on or it has come to its end.
LEMMA MergeGoesOn ==
    ASSUME MutatorInv, outcome = "running", frames # << >>,
           UNCHANGED <<command, read, pass, outcome>>, Aside(heap, heap', turn),
           Underway(heap', frames', turn, read[turn], command.patch),
           turn' = IF frames' = << >> THEN turn + 1 ELSE turn
    PROVE  Advances \/ Continues
<1>1. /\ turn \in DOMAIN read /\ command.op = "patch" /\ Selected(read[turn], command.match)
      /\ Asked(command)
  BY AtMerge
<1>2. CASE frames' # << >>
  BY <1>1, <1>2 DEF Continues
<1>3. CASE frames' = << >>
  <2> DEFINE t == read[turn]
             P == command.patch
  <2>1. Underway(heap', << >>, turn, t, P)
    BY <1>3
  <2> HIDE DEF t, P
  <2>2. /\ IsTree(Merged(t, P)) /\ Shallow(Merged(t, P))
        /\ Shows(heap', turn, Merged(t, P), Shared(t, P, Boundary(t, P)))
        /\ \A p \in DOMAIN P : ~Stopped(t, P, p)
    BY <2>1, MergeEnded
  <2>3. Sound(heap')
    BY <2>1 DEF Underway, Merging
  <2>4. ~Refused(command, t)
    BY <1>1, <2>2, PatchRefused DEF P
  <2>5. /\ Result(command, t) = Merged(t, P) /\ SharedBy(command, t) = Shared(t, P, Boundary(t, P))
        /\ ~Hopeless(command, t)
    BY <1>1, <2>4 DEF Result, SharedBy, Hopeless, Mutated, t, P
  <2> QED
    BY <1>1, <1>3, <2>2, <2>3, <2>5 DEF Advances, t
<1> QED
  BY <1>2, <1>3

\* A call returns.
LEMMA ReturnSteps ==
    ASSUME MutatorInv, ReplaceNode \/ FieldsMerged
    PROVE  Advances \/ Continues
<1>1. outcome = "running" /\ frames # << >> /\ Return
  BY DEF ReplaceNode, FieldsMerged
<1>2. /\ turn \in Nat /\ frames \in Seq(Calls)
      /\ Underway(heap, frames, turn, read[turn], command.patch)
  BY <1>1, AtMerge
<1>3. /\ frames' = Front(frames) /\ turn' = (IF Len(frames) = 1 THEN turn + 1 ELSE turn)
      /\ UNCHANGED <<command, read, pass, outcome>>
  BY <1>1 DEF Return
<1>4. Front(frames) \in Seq(Calls) /\ Len(Front(frames)) = Len(frames) - 1 /\ Len(frames) \in Nat
  BY <1>1, <1>2, FrontOf
<1>5. Front(frames) = << >> <=> Len(frames) = 1
  <2>1. \A g \in Seq(Calls) : g = << >> <=> Len(g) = 0
    BY EmptySeq
  <2> DEFINE g == Front(frames)
  <2> HIDE DEF g
  <2>2. g = << >> <=> Len(g) = 0
    BY <1>4, <2>1 DEF g
  <2> QED
    BY <1>4, <2>2 DEF g
<1>6. turn' = IF frames' = << >> THEN turn + 1 ELSE turn
  BY <1>3, <1>5
<1>7. CASE ReplaceNode
  <2>1. /\ ~(IsMapping(heap, Last(frames).dst) /\ IsMapping(heap, Last(frames).src))
        /\ heap' = SetYNode(heap, Last(frames).dst, Last(frames).src)
    BY <1>7 DEF ReplaceNode, BothMappings, Top
  <2>2. /\ Underway(heap', Front(frames), turn, read[turn], command.patch)
        /\ Aside(heap, heap', turn)
    BY <1>1, <1>2, <2>1, NodeReplaced
  <2> QED
    BY <1>1, <1>3, <1>6, <2>2, MergeGoesOn
<1>8. CASE FieldsMerged
  <2>1. /\ IsMapping(heap, Last(frames).dst) /\ IsMapping(heap, Last(frames).src)
        /\ Last(frames).fields = {} /\ heap' = heap
    BY <1>8 DEF FieldsMerged, BothMappings, Top
  <2>2. Underway(heap, Front(frames), turn, read[turn], command.patch)
    BY <1>1, <1>2, <2>1, LoopEnded
  <2>3. Underway(heap', frames', turn, read[turn], command.patch)
    BY <1>3, <2>1, <2>2
  <2>4. Aside(heap, heap', turn)
    BY <2>1, AsideTrans
  <2> QED
    BY <1>1, <1>3, <1>6, <2>3, <2>4, MergeGoesOn
<1> QED
  BY <1>7, <1>8

\* A field is merged.
LEMMA MergeFieldStep ==
    ASSUME MutatorInv, frames # << >>, NEW field \in Top.fields, MergeField(field)
    PROVE  Advances \/ Refuses \/ Continues
<1> DEFINE srcVal == heap[Last(frames).src].fields[field]
           dstVal == LookupPart(heap, Last(frames).dst, field)
           rest   == [frames EXCEPT ![Len(frames)].fields = @ \ {field}]
<1>1. /\ outcome = "running"
      /\ IF dstVal = Bad THEN outcome' = "failed" /\ UNCHANGED <<heap, frames>>
           ELSE IF dstVal = Nil
                THEN /\ heap' = SetField(heap, Last(frames).dst, field, srcVal)
                     /\ frames' = rest /\ UNCHANGED outcome
           ELSE /\ frames' = Append(rest, Frame(dstVal, srcVal))
                /\ UNCHANGED <<heap, outcome>>
      /\ UNCHANGED <<command, read, turn, pass>>
  BY DEF MergeField, MergeFieldBy, Top
<1>2. /\ turn \in Nat /\ turn \in DOMAIN read /\ frames \in Seq(Calls) /\ command.op = "patch"
      /\ Selected(read[turn], command.match) /\ Asked(command)
      /\ Underway(heap, frames, turn, read[turn], command.patch)
  BY <1>1, AtMerge
<1>3. TakenFrom(frames, rest, field)
  BY <1>2, TakenIs
<1>4. rest # << >> /\ rest \in Seq(Calls)
  BY <1>3 DEF TakenFrom
<1>5. field \in Last(frames).fields
  BY DEF Top
<1>6. CASE dstVal = Bad
  <2>1. \E p \in DOMAIN command.patch : Stopped(read[turn], command.patch, p)
    BY <1>2, <1>5, <1>6, FieldStops
  <2>2. Refused(command, read[turn])
    BY <1>2, <2>1, PatchRefused
  <2> QED
    BY <1>1, <1>2, <1>6, <2>2 DEF Refuses, Hopeless
<1>7. CASE dstVal = Nil
  <2>1. dstVal # Bad
    BY <1>7 DEF Nil, Bad
  <2> HIDE DEF rest
  <2>2. LET h2 == SetField(heap, Last(frames).dst, field, heap[Last(frames).src].fields[field])
        IN  Underway(h2, rest, turn, read[turn], command.patch) /\ Aside(heap, h2, turn)
    BY <1>2, <1>3, <1>5, <1>7, FieldTaken
  <2>3. /\ heap' = SetField(heap, Last(frames).dst, field, srcVal)
        /\ frames' = rest /\ UNCHANGED outcome
    BY <1>1, <1>7, <2>1
  <2>4. /\ Underway(heap', frames', turn, read[turn], command.patch) /\ Aside(heap, heap', turn)
        /\ frames' # << >>
    BY <1>4, <2>2, <2>3
  <2> HIDE DEF srcVal, dstVal
  <2> QED
    BY <1>1, <1>2, <2>3, <2>4 DEF Continues
<1>8. CASE dstVal \notin {Nil, Bad}
  <2> HIDE DEF rest
  <2>1. Underway(heap, Append(rest, Frame(dstVal, srcVal)), turn, read[turn], command.patch)
    BY <1>2, <1>3, <1>5, <1>8, FieldPushed
  <2> HIDE DEF srcVal, dstVal
  <2>2. frames' = Append(rest, Frame(dstVal, srcVal)) /\ UNCHANGED <<heap, outcome>>
    BY <1>1, <1>8
  <2>3. frames' # << >>
    <3> DEFINE f == Frame(dstVal, srcVal)
    <3> HIDE DEF f
    <3>1. Append(rest, f) # << >>
      <4>1. rest = << >> \/ rest # << >>
        OBVIOUS
      <4>2. DOMAIN Append(rest, f) = 1..Len(rest) + 1 /\ Len(rest) \in Nat
        BY <1>4
      <4>3. 1 \in DOMAIN Append(rest, f)
        BY <4>2
      <4> QED
        BY <4>3
    <3> QED
      BY <2>2, <3>1 DEF f
  <2>4. Aside(heap, heap', turn)
    BY <2>2, AsideTrans
  <2>5. Underway(heap', frames', turn, read[turn], command.patch)
    BY <2>1, <2>2
  <2> QED
    BY <1>1, <1>2, <2>2, <2>3, <2>4, <2>5 DEF Continues
<1> QED
  BY <1>6, <1>7, <1>8

\* That is all that happens between reading and writing.
LEMMA Steps ==
    ASSUME MutatorInv, [MutatorNext]_mutatorVars
    PROVE  \/ Advances \/ Refuses \/ Continues
           \/ ParseNodes \/ WriteYAML \/ WriteJSONList \/ Again \/ UNCHANGED mutatorVars
<1>1. CASE Label
  BY <1>1, LabelStep
<1>2. CASE Annotate
  BY <1>2, AnnotateStep
<1>3. CASE SetNamespace
  BY <1>3, SetNamespaceStep
<1>4. CASE Rename
  BY <1>4, RenameStep
<1>5. CASE Scale
  BY <1>5, ScaleStep
<1>6. CASE SetImage
  BY <1>6, SetImageStep
<1>7. CASE RemoveField
  BY <1>7, RemoveFieldStep
<1>8. CASE PassThrough
  BY <1>8, PassThroughStep
<1>9. CASE StartMerge
  BY <1>9, StartMergeStep
<1>10. CASE ReplaceNode \/ FieldsMerged
  BY <1>10, ReturnSteps
<1>11. CASE frames # << >> /\ \E field \in Top.fields : MergeField(field)
  BY <1>11, MergeFieldStep
<1> QED
  BY <1>1, <1>2, <1>3, <1>4, <1>5, <1>6, <1>7, <1>8, <1>9, <1>10, <1>11 DEF MutatorNext

-----------------------------------------------------------------------------
(* The invariant is kept.                                                  *)

\* What one document's turn means for all of them.
LEMMA AdvanceKeeps ==
    ASSUME MutatorInv, Advances
    PROVE  MutatorInv'
<1>1. /\ outcome = "running" /\ turn \in DOMAIN read
      /\ turn' = turn + 1 /\ frames' = << >> /\ UNCHANGED <<command, read, pass, outcome>>
      /\ ~Hopeless(command, read[turn])
      /\ IsTree(Result(command, read[turn])) /\ Shallow(Result(command, read[turn]))
      /\ Aside(heap, heap', turn) /\ Sound(heap')
      /\ Shows(heap', turn, Result(command, read[turn]), SharedBy(command, read[turn]))
  BY DEF Advances
<1>2. /\ Len(read) \in Nat /\ DOMAIN read = 1..Len(read) /\ turn \in Nat /\ turn # 0
      /\ Holds(heap, 0, command.patch) /\ \A i \in DOMAIN read : DocumentInv(i)
      /\ frames # << >> => Selected(read[turn], command.match)
  BY <1>1 DEF MutatorInv, ReadInv, HeapInv, MergeInv
<1>3. ReadInv'
  BY <1>1 DEF MutatorInv, ReadInv
<1>4. LoopInv'
  BY <1>1, <1>2 DEF MutatorInv, LoopInv
<1>5. Holds(heap', 0, command'.patch)
  BY <1>1, <1>2, AsideHolds
<1>6. ASSUME NEW i \in DOMAIN read
      PROVE  DocumentInv(i)'
  <2>1. CASE i = turn
    <3>1. turn < turn' /\ ~(turn < turn)
      BY <1>1, <1>2
    <3>2. Now(i)' = Result(command, read[turn]) /\ PatchIn(i)' = SharedBy(command, read[turn])
      BY <1>1, <2>1, <3>1 DEF Now, PatchIn
    <3> QED
      BY <1>1, <2>1, <3>2 DEF DocumentInv
  <2>2. CASE i # turn
    <3>1. i < turn' <=> i < turn
      BY <1>1, <1>2, <2>2
    <3>2. Now(i)' = Now(i) /\ PatchIn(i)' = PatchIn(i)
      BY <1>1, <3>1 DEF Now, PatchIn
    <3>3. Shows(heap, i, Now(i), PatchIn(i))
      BY <1>2, <2>2 DEF DocumentInv
    <3>4. Shows(heap', i, Now(i), PatchIn(i))
      BY <1>1, <1>2, <2>2, <3>3, AsideShows
    <3> QED
      BY <1>1, <1>2, <3>1, <3>2, <3>4 DEF DocumentInv
  <2> QED
    BY <2>1, <2>2
<1>7. HeapInv'
  BY <1>1, <1>5, <1>6 DEF HeapInv
<1>8. MergeInv'
  BY <1>1 DEF MergeInv
<1> QED
  BY <1>3, <1>4, <1>7, <1>8 DEF MutatorInv

\* A step of the merge leaves the others alone.
LEMMA ContinueKeeps ==
    ASSUME MutatorInv, Continues
    PROVE  MutatorInv'
<1>1. /\ outcome = "running" /\ turn \in DOMAIN read
      /\ UNCHANGED <<command, read, turn, pass, outcome>>
      /\ frames' # << >> /\ command.op = "patch" /\ Selected(read[turn], command.match)
      /\ Aside(heap, heap', turn) /\ Underway(heap', frames', turn, read[turn], command.patch)
  BY DEF Continues
<1>2. /\ Len(read) \in Nat /\ DOMAIN read = 1..Len(read) /\ turn \in Nat /\ turn # 0
      /\ Holds(heap, 0, command.patch) /\ \A i \in DOMAIN read : DocumentInv(i)
  BY <1>1 DEF MutatorInv, ReadInv, HeapInv
<1>3. ReadInv'
  BY <1>1 DEF MutatorInv, ReadInv
<1>4. LoopInv'
  BY <1>1 DEF MutatorInv, LoopInv
<1>5. Holds(heap', 0, command'.patch) /\ Sound(heap')
  BY <1>1, <1>2, AsideHolds DEF Underway, Merging
<1>6. ASSUME NEW i \in DOMAIN read
      PROVE  DocumentInv(i)'
  <2>1. Now(i)' = Now(i) /\ PatchIn(i)' = PatchIn(i)
    BY <1>1 DEF Now, PatchIn
  <2>2. i # turn => Shows(heap', i, Now(i), PatchIn(i))
    <3>1. i # turn => Shows(heap, i, Now(i), PatchIn(i))
      BY <1>2 DEF DocumentInv
    <3> QED
      BY <1>1, <1>2, <3>1, AsideShows
  <2> QED
    BY <1>1, <1>2, <2>1, <2>2 DEF DocumentInv
<1>7. HeapInv'
  BY <1>1, <1>5, <1>6 DEF HeapInv
<1>8. MergeInv'
  BY <1>1 DEF MergeInv
<1> QED
  BY <1>3, <1>4, <1>7, <1>8 DEF MutatorInv

\* A command that fails.
LEMMA RefuseKeeps ==
    ASSUME MutatorInv, Refuses
    PROVE  MutatorInv'
<1>1. /\ outcome = "running" /\ outcome' = "failed"
      /\ UNCHANGED <<command, read, heap, turn, frames, pass>>
  BY DEF Refuses
<1>2. ReadInv'
  BY <1>1 DEF MutatorInv, ReadInv
<1>3. LoopInv'
  BY <1>1 DEF MutatorInv, LoopInv
<1>4. \A i : DocumentInv(i)' <=> DocumentInv(i)
  BY <1>1 DEF DocumentInv, Now, PatchIn
<1>5. HeapInv'
  BY <1>1, <1>4 DEF MutatorInv, HeapInv
<1>6. MergeInv'
  BY <1>1 DEF MutatorInv, MergeInv
<1> QED
  BY <1>2, <1>3, <1>5, <1>6 DEF MutatorInv

\* So do the writers.
LEMMA OutputKeeps ==
    ASSUME MutatorInv, WriteYAML \/ WriteJSONList
    PROVE  MutatorInv'
<1>1. /\ outcome = "running" /\ frames = << >> /\ turn > Len(read)
      /\ outcome' \in {"written", "listed", "failed"}
      /\ UNCHANGED <<command, read, heap, turn, frames, pass>>
  BY DEF WriteYAML, WriteJSONList, Output
<1>2. ReadInv'
  BY <1>1 DEF MutatorInv, ReadInv
<1>3. LoopInv'
  BY <1>1 DEF MutatorInv, LoopInv, ReadInv
<1>4. \A i : DocumentInv(i)' <=> DocumentInv(i)
  BY <1>1 DEF DocumentInv, Now, PatchIn
<1>5. HeapInv'
  BY <1>1, <1>4 DEF MutatorInv, HeapInv
<1>6. MergeInv'
  BY <1>1 DEF MutatorInv, MergeInv
<1> QED
  BY <1>2, <1>3, <1>5, <1>6 DEF MutatorInv

\* The reader.
LEMMA ParseKeeps ==
    ASSUME MutatorInv, ParseNodes
    PROVE  MutatorInv'
<1>1. /\ outcome = "parsing" /\ heap' = Loaded(read, command.patch) /\ outcome' = "running"
      /\ UNCHANGED <<command, read, turn, frames, pass>>
  BY DEF ParseNodes
<1>2. /\ Len(read) \in Nat /\ DOMAIN read = 1..Len(read) /\ turn = 1 /\ frames = << >>
      /\ \A i \in DOMAIN read : IsTree(read[i]) /\ Shallow(read[i])
      /\ IsTree(command.patch)
  BY <1>1 DEF MutatorInv, ReadInv, LoopInv, Asked
<1>3. /\ Sound(heap') /\ Holds(heap', 0, command.patch)
      /\ \A i \in DOMAIN read : Holds(heap', i, read[i])
  BY <1>1, <1>2, LoadedHolds
<1>4. ReadInv'
  BY <1>1 DEF MutatorInv, ReadInv
<1>5. LoopInv'
  BY <1>1, <1>2 DEF MutatorInv, LoopInv
<1>6. ASSUME NEW i \in DOMAIN read
      PROVE  DocumentInv(i)'
  <2>1. ~(i < turn') /\ read' = read
    BY <1>1, <1>2
  <2>2. Now(i)' = read[i] /\ PatchIn(i)' = {}
    BY <2>1 DEF Now, PatchIn
  <2>3. Shows(heap', i, read[i], {})
    BY <1>3, HoldsShows
  <2> QED
    BY <1>2, <2>1, <2>2, <2>3 DEF DocumentInv
<1>7. HeapInv'
  BY <1>1, <1>3, <1>6 DEF HeapInv
<1>8. MergeInv'
  BY <1>1, <1>2 DEF MergeInv
<1> QED
  BY <1>4, <1>5, <1>7, <1>8 DEF MutatorInv

\* A function on the first m numbers has that length.
LEMMA ListOf ==
    ASSUME NEW m \in Nat, NEW s, s = [i \in 1..m |-> s[i]]
    PROVE  Len(s) = m /\ DOMAIN s = 1..m
<1> DEFINE T == {s[i] : i \in 1..m}
<1>1. s \in [1..m -> T]
  OBVIOUS
<1> HIDE DEF T
<1>2. s \in Seq(T)
  BY <1>1
<1> QED
  BY <1>1, <1>2

\* A document without its annotations, which had nothing below them.
Unannotated(t, u) ==
    /\ Keys(t, annotationsPath) = {}
    /\ \A p : /\ p \in DOMAIN u <=> p \in DOMAIN t /\ p # annotationsPath
              /\ p \in DOMAIN u => u[p] = t[p]

\* What the YAML writer makes of a document is one.
LEMMA WrittenTree ==
    ASSUME NEW t, IsTree(t)
    PROVE  LET u == YamlWritten(t)
           IN  /\ IsTree(u) /\ (Shallow(t) => Shallow(u))
               /\ Kind(u, << >>) = Kind(t, << >>)
               /\ IF Keys(t, annotationsPath) = {} THEN Unannotated(t, u) ELSE u = t
<1> DEFINE A == annotationsPath
           w == Without(t, A)
           e0 == << >>
<1>1. A \in Path /\ A # e0
  BY PathsAre DEF annotationsPath
<1>2. DOMAIN t \subseteq Path /\ e0 \in DOMAIN t
  BY TreeHas
<1>0. YamlWritten(t) = IF Keys(t, A) = {} THEN w ELSE t
  BY DEF YamlWritten
<1> HIDE DEF A, e0
<1>3. /\ IsTree(w)
      /\ \A p : /\ p \in DOMAIN w <=> p \in DOMAIN t /\ ~IsPrefix(A, p)
                /\ p \in DOMAIN w => w[p] = t[p]
  BY <1>1, WithoutHas DEF e0
<1> HIDE DEF w
<1>4. ASSUME Keys(t, A) = {}, NEW p \in DOMAIN t
      PROVE  IsPrefix(A, p) <=> p = A
  <2>1. p \in Path
    BY <1>2
  <2>2. IsPrefix(A, p) => p = A
    BY <1>1, <1>4, PathBelow
  <2>3. IsPrefix(A, A)
    BY <1>1, PrefixOrder
  <2> QED
    BY <2>2, <2>3
<1>5. CASE Keys(t, A) = {}
  <2>1. \A p : /\ p \in DOMAIN w <=> p \in DOMAIN t /\ p # A
               /\ p \in DOMAIN w => w[p] = t[p]
    BY <1>3, <1>4, <1>5
  <2>2. Unannotated(t, w)
    BY <1>5, <2>1 DEF Unannotated, A
  <2>3. Shallow(t) => Shallow(w)
    BY <2>1 DEF Shallow
  <2>4. Kind(w, e0) = Kind(t, e0)
    BY <1>1, <2>1 DEF Kind, Has
  <2> QED
    BY <1>0, <1>3, <1>5, <2>2, <2>3, <2>4 DEF A, e0
<1>6. CASE Keys(t, A) # {}
  BY <1>0, <1>6 DEF A
<1> QED
  BY <1>5, <1>6

\* What is read of what was written are documents of that kind.
LEMMA ReadBackIs ==
    ASSUME NEW n \in Nat, NEW ds, DOMAIN ds = 1..n
    PROVE  LET back == ReadBack(ds)
           IN  /\ Len(back) \in Nat /\ DOMAIN back = 1..Len(back)
               /\ back = [i \in DOMAIN back |-> back[i]]
               /\ \A i \in DOMAIN back : \E j \in DOMAIN ds :
                    Kind(ds[j], << >>) # "null" /\ back[i] = YamlWritten(ds[j])
<1> DEFINE P == {i \in DOMAIN ds : Kind(ds[i], << >>) # "null"}
           w == [i \in DOMAIN ds |-> YamlWritten(ds[i])]
           back == ElementsAt(w, P)
           m == Cardinality(P)
<1>1. P \in SUBSET (1..n)
  OBVIOUS
<1>2. \A j \in P : j \in DOMAIN ds /\ Kind(ds[j], << >>) # "null" /\ w[j] = YamlWritten(ds[j])
  OBVIOUS
<1>3. ReadBack(ds) = back
  BY DEF ReadBack
<1> HIDE DEF P, w
<1>4. Lists(back, w, P)
  BY <1>1, ElementsThere
<1> HIDE DEF back
<1>5. /\ m \in Nat /\ back = [k \in 1..m |-> back[k]]
      /\ \A k \in 1..m : \E j \in P : back[k] = w[j]
  BY <1>4 DEF Lists
<1> HIDE DEF m
<1>6. Len(back) = m /\ DOMAIN back = 1..m
  BY <1>5, ListOf
<1> QED
  BY <1>2, <1>3, <1>5, <1>6

\* What was written is read again.
LEMMA AgainKeeps ==
    ASSUME MutatorInv, Again
    PROVE  MutatorInv'
<1>1. /\ outcome = "written" /\ read' = ReadBack([i \in DOMAIN read |-> Tree(i)])
      /\ turn' = 1 /\ pass' = 2 /\ outcome' = "parsing"
      /\ UNCHANGED <<command, heap, frames>>
  BY DEF Again
<1>2. /\ Asked(command) /\ Len(read) \in Nat /\ DOMAIN read = 1..Len(read) /\ frames = << >>
      /\ \A i \in DOMAIN read : DocumentInv(i)
  BY <1>1 DEF MutatorInv, ReadInv, LoopInv, HeapInv
<1>3. \A i \in DOMAIN read : Tree(i) = Now(i)
  BY <1>1, <1>2, TreeNow
<1>4. \A i \in DOMAIN read : IsTree(Tree(i)) /\ Shallow(Tree(i))
  BY <1>2, <1>3 DEF DocumentInv
<1> DEFINE m == Len(read)
           ds == [i \in DOMAIN read |-> Tree(i)]
<1>5. DOMAIN ds = 1..m /\ \A i \in DOMAIN ds : IsTree(ds[i]) /\ Shallow(ds[i])
  BY <1>2, <1>4
<1>6. read' = ReadBack(ds) /\ m \in Nat
  BY <1>1, <1>2
<1> HIDE DEF ds, m
<1>7. /\ Len(read') \in Nat /\ DOMAIN read' = 1..Len(read')
      /\ read' = [i \in DOMAIN read' |-> read'[i]]
      /\ \A i \in DOMAIN read' : \E j \in DOMAIN ds : read'[i] = YamlWritten(ds[j])
  BY <1>5, <1>6, ReadBackIs
<1>8. ReadInv'
  <2>1. \A i \in DOMAIN read' : IsTree(read'[i]) /\ Shallow(read'[i])
    BY <1>5, <1>7, WrittenTree
  <2> QED
    BY <1>1, <1>2, <1>7, <2>1 DEF ReadInv
<1>9. LoopInv'
  BY <1>1, <1>2, <1>7 DEF LoopInv
<1>10. HeapInv' /\ MergeInv'
  BY <1>1, <1>2 DEF MutatorInv, HeapInv, MergeInv
<1> QED
  BY <1>8, <1>9, <1>10 DEF MutatorInv

\* So it holds.
LEMMA InvHolds == MutatorSpec => []MutatorInv
<1>1. MutatorInit => MutatorInv
  <2> SUFFICES ASSUME MutatorInit
               PROVE  MutatorInv
    OBVIOUS
  <2>1. command \in Commands /\ read \in Streams /\ turn = 1 /\ frames = << >> /\ pass = 1
        /\ outcome = "parsing"
    BY DEF MutatorInit
  <2>2. Asked(command)
    BY <2>1, CommandAssumption DEF Asked
  <2>3. /\ read \in Seq(ToSet(read))
        /\ \A i \in DOMAIN read : IsTree(read[i]) /\ Shallow(read[i])
    BY <2>1, StreamAssumption
  <2>4. Len(read) \in Nat /\ DOMAIN read = 1..Len(read) /\ read = [i \in DOMAIN read |-> read[i]]
    <3> DEFINE T == ToSet(read)
    <3> HIDE DEF T
    <3>1. read \in Seq(T)
      BY <2>3 DEF T
    <3> QED
      BY <3>1
  <2>5. ReadInv
    BY <2>2, <2>3, <2>4 DEF ReadInv
  <2>6. Sound(heap)
    BY DEF MutatorInit, Sound
  <2> QED
    BY <2>1, <2>4, <2>5, <2>6 DEF MutatorInv, LoopInv, HeapInv, MergeInv
<1>2. MutatorInv /\ [MutatorNext]_mutatorVars => MutatorInv'
  <2> SUFFICES ASSUME MutatorInv, [MutatorNext]_mutatorVars
               PROVE  MutatorInv'
    OBVIOUS
  <2>1. CASE UNCHANGED mutatorVars
    <3>1. \A i : DocumentInv(i)' <=> DocumentInv(i)
      BY <2>1 DEF DocumentInv, Now, PatchIn, mutatorVars
    <3> QED
      BY <2>1, <3>1 DEF MutatorInv, ReadInv, LoopInv, HeapInv, MergeInv, mutatorVars
  <2> QED
    BY <2>1, Steps, AdvanceKeeps, RefuseKeeps, ContinueKeeps, ParseKeeps, OutputKeeps, AgainKeeps
<1> QED
  BY <1>1, <1>2, PTL DEF MutatorSpec

-----------------------------------------------------------------------------
(* What follows from it.                                                   *)

\* Every document shows some tree, with nodes of its own and of the patch.
LEMMA DocumentShown ==
    ASSUME MutatorInv, outcome # "parsing", NEW i \in DOMAIN read
    PROVE  \E t, S : /\ IsTree(t) /\ Shallow(t) /\ Shows(heap, i, t, S)
                     /\ S \subseteq DOMAIN command.patch
<1>1. DocumentInv(i)
  BY DEF MutatorInv, HeapInv
<1>2. CASE frames = << >> \/ i # turn
  <2>1. IsTree(Now(i)) /\ Shallow(Now(i)) /\ Shows(heap, i, Now(i), PatchIn(i))
    BY <1>1, <1>2 DEF DocumentInv
  <2>2. PatchIn(i) \subseteq DOMAIN command.patch
    BY DEF PatchIn, SharedBy, Shared
  <2> QED
    BY <2>1, <2>2
<1>3. CASE frames # << >> /\ i = turn
  <2> DEFINE t == read[i]
             P == command.patch
             E == Done(frames, t, P)
  <2>1. Merging(heap, i, t, P, E)
    BY <1>3 DEF MutatorInv, MergeInv, Underway
  <2> HIDE DEF t, P, E
  <2>2. /\ IsTree(t) /\ Shallow(t) /\ t[<< >>].kind = "map" /\ IsTree(P) /\ Shallow(P)
        /\ E \in SUBSET Boundary(t, P) /\ Shows(heap, i, Patched(t, P, E), Shared(t, P, E))
    BY <2>1 DEF Merging
  <2>3. IsTree(Patched(t, P, E)) /\ Shallow(Patched(t, P, E))
    BY <2>2, PatchedTree
  <2>4. Shared(t, P, E) \subseteq DOMAIN P
    BY DEF Shared
  <2> QED
    BY <2>2, <2>3, <2>4 DEF P
<1> QED
  BY <1>2, <1>3

\* The nodes of a document, by their paths.
LEMMA NodesAre ==
    ASSUME NEW i, NEW t, IsTree(t), Shallow(t), NEW S, Shows(heap, i, t, S)
    PROVE  /\ \A x \in NodesOf(Root(i)) : \E p \in DOMAIN t : x = NodeAt(i, S, p)
           /\ \A p \in DOMAIN t : NodeAt(i, S, p) \in NodesOf(Root(i))
<1> DEFINE at == [p \in DOMAIN t |-> NodeAt(i, S, p)]
<1>1. Layout(at, heap, Root(i))
  BY ShownTree
<1>2. DOMAIN at = DOMAIN t /\ \A p \in DOMAIN t : at[p] = NodeAt(i, S, p)
  OBVIOUS
<1> HIDE DEF at
<1>3. Reached(heap, Root(i)) = {<<p, at[p]>> : p \in DOMAIN at}
  BY <1>1, ReachedIs
<1>4. ASSUME NEW x \in NodesOf(Root(i))
      PROVE  \E p \in DOMAIN t : x = NodeAt(i, S, p)
  <2>1. PICK y \in Reached(heap, Root(i)) : x = y[2]
    BY DEF NodesOf
  <2>2. PICK p \in DOMAIN at : y = <<p, at[p]>>
    BY <1>3, <2>1
  <2> QED
    BY <1>2, <2>1, <2>2
<1>5. ASSUME NEW p \in DOMAIN t
      PROVE  NodeAt(i, S, p) \in NodesOf(Root(i))
  <2>1. <<p, at[p]>> \in Reached(heap, Root(i)) /\ <<p, at[p]>>[2] = at[p]
    BY <1>2, <1>3
  <2>2. at[p] \in NodesOf(Root(i))
    BY <2>1 DEF NodesOf
  <2> QED
    BY <1>2, <2>2
<1> QED
  BY <1>4, <1>5

\* The patch says what it said, and its nodes are its paths'.
LEMMA PatchShown ==
    ASSUME MutatorInv, outcome # "parsing"
    PROVE  /\ IsTree(command.patch) /\ Shallow(command.patch)
           /\ Shows(heap, 0, command.patch, {}) /\ Patch = Root(0)
<1>1. Asked(command) /\ Holds(heap, 0, command.patch)
  BY DEF MutatorInv, ReadInv, HeapInv
<1> QED
  BY <1>1, HoldsShows DEF Asked, Patch, Root

\* The loop stays in the stream, the merge in its bounds, and no field, call or
\* document leads to a node that is not there, or from a value to one.
THEOREM NodesAreThere == MutatorSpec => []MutatorTypeOK
<1>1. MutatorInv => MutatorTypeOK
  <2> SUFFICES ASSUME MutatorInv
               PROVE  MutatorTypeOK
    OBVIOUS
  <2>1. ReadInv /\ LoopInv /\ Sound(heap)
    BY DEF MutatorInv, HeapInv
  <2>2. Len(frames) <= MaxDepth + 1 /\ (frames # << >> => turn <= Len(read))
    <3>1. CASE frames = << >>
      <4>1. Len(frames) = 0
        BY <3>1
      <4> QED
        BY <3>1, <4>1, DepthAssumption
    <3>2. CASE frames # << >>
      <4>1. /\ turn \in DOMAIN read /\ Stack(frames, turn, read[turn], command.patch)
            /\ Shallow(read[turn])
        BY <2>1, <3>2 DEF MutatorInv, MergeInv, Underway, ReadInv
      <4>2. Len(frames) <= MaxDepth + 1
        BY <4>1, StackBounded
      <4> QED
        BY <2>1, <4>1, <4>2 DEF ReadInv
    <3> QED
      BY <3>1, <3>2
  <2>3. ASSUME outcome # "parsing"
        PROVE  {Patch} \cup {Root(i) : i \in DOMAIN read} \subseteq DOMAIN heap
    <3>1. Patch \in DOMAIN heap
      <4>1. << >> \in DOMAIN command.patch /\ Holds(heap, 0, command.patch)
        BY <2>3, PatchShown, TreeHas, HoldsShows
      <4> QED
        BY <4>1 DEF Holds, Patch
    <3>2. ASSUME NEW i \in DOMAIN read
          PROVE  Root(i) \in DOMAIN heap
      <4>1. PICK t, S : IsTree(t) /\ Shallow(t) /\ Shows(heap, i, t, S)
        BY <2>3, DocumentShown
      <4>2. << >> \in DOMAIN t /\ << >> \notin S
        BY <4>1, TreeHas DEF Shows
      <4> QED
        BY <4>1, <4>2 DEF Shows, NodeAt, Root
    <3> QED
      BY <3>1, <3>2
  <2>4. \A n \in DOMAIN heap : \A k \in DOMAIN heap[n].fields :
          /\ heap[n].fields[k] \in DOMAIN heap
          /\ heap[n].kind \in {"map", "list"}
    BY <2>1 DEF Sound
  <2>5. ASSUME NEW d \in DOMAIN frames
        PROVE  {frames[d].dst, frames[d].src} \subseteq DOMAIN heap
    <3>1. frames # << >>
      OBVIOUS
    <3>2. Underway(heap, frames, turn, read[turn], command.patch)
      BY <3>1 DEF MutatorInv, MergeInv
    <3> QED
      BY <3>2, CallsHeld
  <2> QED
    BY <2>1, <2>2, <2>3, <2>4, <2>5 DEF LoopInv, MutatorTypeOK
<1> QED
  BY <1>1, InvHolds, PTL

\* Whatever fields were set, cleared and copied: two documents of the stream share
\* no nodes but the patch's, and the patch is never written to.
THEOREM OnlyThePatchIsShared == MutatorSpec => []SharedNodesArePatch
<1>1. MutatorInv => SharedNodesArePatch
  <2> SUFFICES ASSUME MutatorInv, outcome # "parsing"
               PROVE  /\ TreeAt(heap, Patch) = command.patch
                      /\ \A i, j \in DOMAIN read : i # j =>
                           NodesOf(Root(i)) \cap NodesOf(Root(j)) \subseteq NodesOf(Patch)
    BY DEF SharedNodesArePatch
  <2>1. /\ IsTree(command.patch) /\ Shallow(command.patch)
        /\ Shows(heap, 0, command.patch, {}) /\ Patch = Root(0)
    BY PatchShown
  <2>2. TreeAt(heap, Patch) = command.patch
    BY <2>1, ShownTree
  <2>3. ASSUME NEW i \in DOMAIN read, NEW j \in DOMAIN read, i # j,
               NEW x \in NodesOf(Root(i)), x \in NodesOf(Root(j))
        PROVE  x \in NodesOf(Patch)
    <3>1. i # 0 /\ j # 0
      BY DEF MutatorInv, ReadInv
    <3>2. PICK t, S : /\ IsTree(t) /\ Shallow(t) /\ Shows(heap, i, t, S)
                      /\ S \subseteq DOMAIN command.patch
      BY DocumentShown
    <3>3. PICK u, T : /\ IsTree(u) /\ Shallow(u) /\ Shows(heap, j, u, T)
                      /\ T \subseteq DOMAIN command.patch
      BY DocumentShown
    <3>4. PICK p \in DOMAIN t : x = NodeAt(i, S, p)
      BY <2>3, <3>2, NodesAre
    <3>5. PICK q \in DOMAIN u : x = NodeAt(j, T, q)
      BY <2>3, <3>3, NodesAre
    <3>6. p \in S /\ x = <<0, p>>
      BY <2>3, <3>1, <3>4, <3>5 DEF NodeAt
    <3>7. p \in DOMAIN command.patch /\ NodeAt(0, {}, p) = <<0, p>>
      BY <3>2, <3>6 DEF NodeAt
    <3>8. NodeAt(0, {}, p) \in NodesOf(Root(0))
      BY <2>1, <3>7, NodesAre
    <3> QED
      BY <2>1, <3>6, <3>7, <3>8
  <2> QED
    BY <2>2, <2>3
<1> QED
  BY <1>1, InvHolds, PTL

-----------------------------------------------------------------------------
(* The refinement.                                                         *)

\* Both modules have the same words for what a command is to make of a tree.
LEMMA SamePrefixes ==
    /\ \A s, t : Promise!IsPrefix(s, t) <=> IsPrefix(s, t)
    /\ \A p : Promise!PrefixesOf(p) = PrefixesOf(p) /\ Promise!Front(p) = Front(p)
              /\ Promise!Last(p) = Last(p)
    /\ \A s : Promise!ToSet(s) = ToSet(s)
<1>1. \A s, t : Promise!IsPrefix(s, t) <=> IsPrefix(s, t)
  BY DEF Promise!IsPrefix, IsPrefix
<1>2. \A p : Promise!PrefixesOf(p) = PrefixesOf(p)
  BY DEF Promise!PrefixesOf, PrefixesOf
<1>3. \A p : Promise!Front(p) = Front(p)
  BY DEF Promise!Front, Front
<1>4. \A p : Promise!Last(p) = Last(p)
  BY DEF Promise!Last, Last
<1>5. \A s : Promise!ToSet(s) = ToSet(s)
  BY DEF Promise!ToSet, ToSet
<1> QED
  BY <1>1, <1>2, <1>3, <1>4, <1>5

\* Mutation has its own instance of YamlTrees: its words mean the same of trees,
LEMMA SameTrees ==
    /\ \A t, p : /\ Promise!Has(t, p) <=> Has(t, p)
                 /\ Promise!Kind(t, p) = Kind(t, p)
                 /\ Promise!Absent(t, p) <=> Absent(t, p)
                 /\ Promise!Keys(t, p) = Keys(t, p)
                 /\ Promise!Value(t, p) = Value(t, p)
                 /\ Promise!Filled(t, p) <=> Filled(t, p)
                 /\ Promise!Without(t, p) = Without(t, p)
    /\ \A v : Promise!Scalar(v) = Scalar(v) /\ Promise!Bare(v) = Bare(v)
    /\ Promise!workloadKinds = workloadKinds /\ Promise!containerPaths = containerPaths
<1>1. \A t, p : Promise!Has(t, p) <=> Has(t, p)
  BY DEF Promise!Has, Has
<1>2. \A t, p : Promise!Kind(t, p) = Kind(t, p)
  BY <1>1 DEF Promise!Kind, Kind
<1>3. \A t, p : Promise!Absent(t, p) <=> Absent(t, p)
  BY <1>2 DEF Promise!Absent, Absent
<1>4. \A t, p : Promise!Keys(t, p) = Keys(t, p)
  BY SamePrefixes DEF Promise!Keys, Keys
<1>5. \A t, p : Promise!Value(t, p) = Value(t, p)
  BY <1>1 DEF Promise!Value, Value
<1>6. \A t, p : Promise!Filled(t, p) <=> Filled(t, p)
  BY <1>1, <1>2, <1>4 DEF Promise!Filled, Filled
<1>7. \A t, p : Promise!Without(t, p) = Without(t, p)
  BY SamePrefixes DEF Promise!Without, Without
<1>8. \A v : Promise!Scalar(v) = Scalar(v)
  BY DEF Promise!Scalar, Scalar
<1>9. \A v : Promise!Bare(v) = Bare(v)
  BY DEF Promise!Bare, Bare
<1>10. Promise!workloadKinds = workloadKinds
  BY DEF Promise!workloadKinds, workloadKinds
<1>11. Promise!containerPaths = containerPaths
  BY DEF Promise!containerPaths, containerPaths
<1> QED
  BY <1>1, <1>2, <1>3, <1>4, <1>5, <1>6, <1>7, <1>8, <1>9, <1>10, <1>11

\* of the documents that a command is for,
LEMMA SameScope == \A t, opts : Promise!Selected(t, opts) <=> Selected(t, opts)
<1>1. \A t : Promise!GetMeta(t) = GetMeta(t)
  BY SameTrees DEF Promise!GetMeta, GetMeta
<1>2. \A d : Promise!Readable(d) <=> Readable(d)
  BY DEF Promise!Readable, Readable
<1>3. \A opts : Promise!NoCriteria(opts) <=> NoCriteria(opts)
  BY DEF Promise!NoCriteria, NoCriteria, Promise!NoSelector, NoSelector
<1>4. \A d, r : Promise!ResourceMatches(d, r) <=> ResourceMatches(d, r)
  BY DEF Promise!ResourceMatches, ResourceMatches
<1>5. \A d, opts : Promise!matches(d, opts) = matches(d, opts)
  BY DEF Promise!matches, matches, Promise!ResourceMatches, ResourceMatches,
         Promise!NoSelector, NoSelector
<1>6. \A d, opts, mode : Promise!Match(d, opts, mode) <=> Match(d, opts, mode)
  BY <1>3, <1>5 DEF Promise!Match, Match
<1> QED
  BY <1>1, <1>2, <1>6 DEF Promise!Selected, Selected

\* of the fields that it sets,
LEMMA SameTargets ==
    \A cmd, t : /\ Promise!ValueOf(cmd, t) = ValueOf(cmd, t)
                /\ Promise!FieldOf(cmd) = FieldOf(cmd)
                /\ Promise!Targets(cmd, t) = Targets(cmd, t)
<1>1. \A cmd, t : Promise!ValueOf(cmd, t) = ValueOf(cmd, t)
  BY SameTrees DEF Promise!ValueOf, ValueOf
<1>2. \A cmd : Promise!FieldOf(cmd) = FieldOf(cmd)
  BY DEF Promise!FieldOf, FieldOf
<1>3. ASSUME NEW cmd, NEW t
      PROVE  Promise!Targets(cmd, t) = Targets(cmd, t)
  <2> DEFINE renamed == {p \in {<<"metadata">>} : ~Absent(t, p)
                           /\ ValueOf(cmd, t) # Value(t, <<"metadata", "name">>)}
             scaled  == {p \in {<<"spec">>} : ~Absent(t, p)}
             items   == {Append(c, i) : c \in ToSet(containerPaths), i \in Positions}
             images  == {p \in DOMAIN t : ~Absent(t, Append(p, "name"))
                                            /\ t[Append(p, "name")].text = cmd.key}
  <2>1. renamed = {p \in {<<"metadata">>} : ~Promise!Absent(t, p)
                     /\ Promise!ValueOf(cmd, t) # Promise!Value(t, <<"metadata", "name">>)}
    BY <1>1, SameTrees
  <2>2. scaled = {p \in {<<"spec">>} : ~Promise!Absent(t, p)}
    BY SameTrees
  <2>3. items = {Append(c, i) : c \in Promise!ToSet(Promise!containerPaths), i \in Positions}
    BY SameTrees, SamePrefixes
  <2>4. images = {p \in DOMAIN t : ~Promise!Absent(t, Append(p, "name"))
                                     /\ t[Append(p, "name")].text = cmd.key}
    BY SameTrees
  <2>5. Value(t, <<"kind">>) \in workloadKinds
          <=> Promise!Value(t, <<"kind">>) \in Promise!workloadKinds
    BY SameTrees
  <2> DEFINE pod == IF Value(t, <<"kind">>) \in workloadKinds
                    THEN {<<"spec", "template", "metadata", "labels">>} ELSE {}
             words == CASE cmd.op = "label"         -> {<<"metadata", "labels">>} \cup pod
                        [] cmd.op = "annotate"      -> {<<"metadata", "annotations">>}
                        [] cmd.op = "set-namespace" -> {<<"metadata">>}
                        [] cmd.op = "rename"        -> renamed
                        [] cmd.op = "scale"         -> scaled
                        [] cmd.op = "set-image"     -> items \cap images
                        [] cmd.op \in {"remove", "patch"} -> {}
  <2>6. Targets(cmd, t) = words
    BY DEF Targets
  <2>7. pod = IF Promise!Value(t, <<"kind">>) \in Promise!workloadKinds
              THEN {<<"spec", "template", "metadata", "labels">>} ELSE {}
    BY <2>5
  <2> HIDE DEF renamed, scaled, items, images, pod
  <2>8. Promise!Targets(cmd, t) = words
    BY <2>1, <2>2, <2>3, <2>4, <2>7 DEF Promise!Targets
  <2> QED
    BY <2>6, <2>8
<1> QED
  BY <1>1, <1>2, <1>3

\* and of what it makes of a document.
LEMMA SameEdits ==
    \A cmd, t : /\ Promise!Mutated(cmd, t) = Mutated(cmd, t)
                /\ Promise!Refused(cmd, t) <=> Refused(cmd, t)
<1>1. \A t, p : Promise!Blocked(t, p) <=> Blocked(t, p)
  BY SameTrees, SamePrefixes DEF Promise!Blocked, Blocked
<1>2. \A t, m, k, v : Promise!WithFields(t, m, k, v) = WithFields(t, m, k, v)
  BY <1>1, SameTrees, SamePrefixes DEF Promise!WithFields, WithFields
<1>3. \A t, P : Promise!Boundary(t, P) = Boundary(t, P)
  BY SameTrees DEF Promise!Boundary, Boundary
<1>4. \A t, P : Promise!Merged(t, P) = Merged(t, P)
  BY <1>3, SameTrees, SamePrefixes DEF Promise!Merged, Merged
<1>5. \A t, p : Promise!Leads(t, p) <=> Leads(t, p)
  BY SameTrees DEF Promise!Leads, Leads
<1>6. \A cmd, t : Promise!Mutated(cmd, t) = Mutated(cmd, t)
  BY <1>2, <1>4, <1>5, SameTrees, SameTargets DEF Promise!Mutated, Mutated
<1>7. \A cmd, t : Promise!Refused(cmd, t) <=> Refused(cmd, t)
  BY <1>5, SameTrees, SameTargets, SamePrefixes DEF Promise!Refused, Refused
<1> QED
  BY <1>6, <1>7

\* The writers take the same documents, and the reader the same of them.
LEMMA SameOutput ==
    /\ \A t : Promise!YamlWrites(t) <=> YamlWrites(t)
    /\ \A ds : Promise!ReadBack(ds) = ReadBack(ds)
<1>1. Promise!annotationsPath = annotationsPath
  BY DEF Promise!annotationsPath, annotationsPath
<1>2. ASSUME NEW t
      PROVE  Promise!YamlWrites(t) <=> YamlWrites(t)
  BY <1>1, SameTrees DEF Promise!YamlWrites, YamlWrites
<1>3. ASSUME NEW t
      PROVE  Promise!YamlWritten(t) = YamlWritten(t)
  BY <1>1, SameTrees DEF Promise!YamlWritten, YamlWritten
<1>4. \A S, rank : /\ Promise!Cardinality(S) = Cardinality(S)
                   /\ Promise!SortedBy(S, rank) = SortedBy(S, rank)
  <2>1. \A S : Promise!Cardinality(S) = Cardinality(S)
    BY DEF Promise!Cardinality, Cardinality
  <2>2. ASSUME NEW S, NEW rank
        PROVE  Promise!SortedBy(S, rank) = SortedBy(S, rank)
    <3> DEFINE size(x) == Cardinality({y \in S : rank[y] < rank[x]})
               most(x) == Promise!Cardinality({y \in S : rank[y] < rank[x]})
               here(i) == CHOOSE x \in S : size(x) = i - 1
               there(i) == CHOOSE x \in S : most(x) = i - 1
    <3>1. \A x : most(x) = size(x)
      BY <2>1
    <3> HIDE DEF size, most
    <3>2. \A i : there(i) = here(i)
      BY <3>1, Zenon
    <3> HIDE DEF here, there
    <3>3. [i \in 1..Promise!Cardinality(S) |-> there(i)] = [i \in 1..Cardinality(S) |-> here(i)]
      BY <2>1, <3>2
    <3> QED
      BY <3>3 DEF Promise!SortedBy, SortedBy, size, most, here, there
  <2> QED
    BY <2>1, <2>2
<1>5. ASSUME NEW ds
      PROVE  Promise!ReadBack(ds) = ReadBack(ds)
  <2> DEFINE w == [i \in DOMAIN ds |-> YamlWritten(ds[i])]
             P == {i \in DOMAIN ds : Kind(ds[i], << >>) # "null"}
  <2>1. ReadBack(ds) = ElementsAt(w, P)
    BY DEF ReadBack
  <2>2. w = [i \in DOMAIN ds |-> Promise!YamlWritten(ds[i])]
    BY <1>3
  <2>3. P = {i \in DOMAIN ds : Promise!Kind(ds[i], << >>) # "null"}
    BY SameTrees
  <2> HIDE DEF w, P
  <2>4. Promise!ReadBack(ds) = Promise!ElementsAt(w, P)
    BY <2>2, <2>3 DEF Promise!ReadBack
  <2>5. Promise!ElementsAt(w, P) = ElementsAt(w, P)
    BY <1>4 DEF Promise!ElementsAt, ElementsAt
  <2> QED
    BY <2>1, <2>4, <2>5
<1> QED
  BY <1>2, <1>5

\* The JSON writer refuses what is no mapping.
LEMMA MappingShown ==
    ASSUME MutatorInv, outcome # "parsing", frames = << >>, NEW i \in DOMAIN read
    PROVE  IsMapping(heap, Root(i)) <=> Kind(Now(i), << >>) = "map"
<1> DEFINE t == Now(i)
           S == PatchIn(i)
<1>1. IsTree(t) /\ Shows(heap, i, t, S)
  BY DEF MutatorInv, HeapInv, DocumentInv
<1> HIDE DEF t, S
<1>2. << >> \in DOMAIN t /\ << >> \notin S
  BY <1>1, TreeHas DEF Shows
<1>3. heap[Root(i)] = Drawn(t, << >>, i, S)
  BY <1>1, <1>2 DEF Shows, NodeAt, Root
<1> QED
  BY <1>2, <1>3 DEF Drawn, IsMapping, Kind, Has, t

\* The documents of the promise.
Docs == IF outcome = "failed" THEN << >> ELSE [i \in DOMAIN read |-> Now(i)]

\* They are those that the writer would find.
Written ==
    IF outcome = "failed" THEN << >>
    ELSE [i \in DOMAIN read |->
            IF outcome = "parsing" \/ (frames # << >> /\ i = turn) THEN read[i] ELSE Tree(i)]

\* Both ways to say it agree.
LEMMA WrittenIs == MutatorInv => Written = Docs
<1> SUFFICES ASSUME MutatorInv
             PROVE  Written = Docs
  OBVIOUS
<1>1. ASSUME NEW i \in DOMAIN read
      PROVE  (IF outcome = "parsing" \/ (frames # << >> /\ i = turn) THEN read[i] ELSE Tree(i))
               = Now(i)
  <2>1. /\ Len(read) \in Nat /\ DOMAIN read = 1..Len(read)
        /\ outcome = "parsing" => turn = 1
    BY DEF MutatorInv, ReadInv, LoopInv
  <2>2. CASE outcome = "parsing" \/ (frames # << >> /\ i = turn)
    <3>1. ~(i < turn)
      BY <2>1, <2>2
    <3> QED
      BY <2>2, <3>1 DEF Now
  <2>3. CASE ~(outcome = "parsing" \/ (frames # << >> /\ i = turn))
    BY <2>3, TreeNow
  <2> QED
    BY <2>2, <2>3
<1> QED
  BY <1>1 DEF Written, Docs

\* As many as there were.
LEMMA DocsAre ==
    ASSUME MutatorInv, outcome # "failed"
    PROVE  /\ Docs = [i \in DOMAIN read |-> Now(i)] /\ DOMAIN Docs = DOMAIN read
           /\ Len(Docs) = Len(read) /\ \A i \in DOMAIN read : Docs[i] = Now(i)
<1> DEFINE m == Len(read)
           d == Docs
<1>1. m \in Nat /\ DOMAIN read = 1..m
  BY DEF MutatorInv, ReadInv
<1>2. d = [i \in 1..m |-> Now(i)]
  BY <1>1 DEF Docs
<1> HIDE DEF d, m
<1>3. d = [i \in 1..m |-> d[i]] /\ \A i \in 1..m : d[i] = Now(i)
  BY <1>2
<1>4. Len(d) = m
  BY <1>1, <1>3, ListOf
<1> QED
  BY <1>1, <1>2, <1>3, <1>4 DEF d, m

\* A document that is done with is changed as the command says.
LEMMA AdvanceMutates ==
    ASSUME MutatorInv, Advances, Written = Docs, Written' = Docs'
    PROVE  Promise!MutateDocument
<1> DEFINE t == read[turn]
<1>1. /\ outcome = "running" /\ turn \in DOMAIN read
      /\ turn' = turn + 1 /\ UNCHANGED <<command, read, pass, outcome>>
      /\ ~Hopeless(command, t)
  BY DEF Advances
<1>2. Len(read) \in Nat /\ DOMAIN read = 1..Len(read) /\ turn \in Nat
  BY <1>1 DEF MutatorInv, ReadInv
<1>3. /\ Docs = [i \in DOMAIN read |-> Now(i)] /\ DOMAIN Docs = DOMAIN read
      /\ Len(Docs) = Len(read) /\ \A i \in DOMAIN read : Docs[i] = Now(i)
  BY <1>1, DocsAre
<1>4. Docs[turn] = t
  BY <1>1, <1>2, <1>3 DEF Now
<1>5. Docs' = [i \in DOMAIN read |-> Now(i)']
  BY <1>1 DEF Docs
<1>6. ASSUME NEW i \in DOMAIN read
      PROVE  Now(i)' = IF i = turn THEN Result(command, t) ELSE Now(i)
  <2>1. i < turn' <=> i < turn \/ i = turn
    BY <1>1, <1>2
  <2>2. ~(turn < turn)
    BY <1>2
  <2> QED
    BY <1>1, <2>1, <2>2 DEF Now
<1>7. Docs' = [i \in DOMAIN read |-> IF i = turn THEN Result(command, t) ELSE Now(i)]
  BY <1>5, <1>6
<1>8. ASSUME Selected(t, command.match)
      PROVE  ~Refused(command, t) /\ Docs' = [Docs EXCEPT ![turn] = Mutated(command, t)]
  <2>1. ~Refused(command, t) /\ Result(command, t) = Mutated(command, t)
    BY <1>1, <1>8 DEF Hopeless, Result
  <2>2. Docs' = [i \in DOMAIN read |-> IF i = turn THEN Mutated(command, t) ELSE Now(i)]
    BY <1>7, <2>1
  <2> HIDE DEF Docs
  <2>3. [Docs EXCEPT ![turn] = Mutated(command, t)]
          = [i \in DOMAIN read |-> IF i = turn THEN Mutated(command, t) ELSE Now(i)]
    BY <1>3
  <2> QED
    BY <2>1, <2>2, <2>3
<1>9. ASSUME ~Selected(t, command.match)
      PROVE  Docs' = Docs
  <2>1. Result(command, t) = Now(turn)
    BY <1>1, <1>2, <1>9 DEF Result, Now
  <2> HIDE DEF Docs
  <2> QED
    BY <1>3, <1>7, <2>1
<1>10. LET doc == Written[turn]
       IN  IF Promise!Selected(doc, command.match)
           THEN /\ ~Promise!Refused(command, doc)
                /\ Written' = [Written EXCEPT ![turn] = Promise!Mutated(command, doc)]
           ELSE Written' = Written
  <2>1. Written[turn] = t
    BY <1>4
  <2> HIDE DEF Docs, Written
  <2> QED
    BY <1>8, <1>9, <2>1, SameScope, SameEdits
<1>11. turn <= Len(Written) /\ (IF outcome = "parsing" THEN "running" ELSE outcome) = "running"
  BY <1>1, <1>2, <1>3
<1> QED
  BY <1>1, <1>10, <1>11 DEF Promise!MutateDocument, Written

\* One that cannot be changed is refused.
LEMMA RefuseRefuses ==
    ASSUME MutatorInv, Refuses, Written = Docs, Written' = Docs'
    PROVE  Promise!RefuseDocument
<1> DEFINE t == read[turn]
<1>1. /\ outcome = "running" /\ turn \in DOMAIN read /\ outcome' = "failed"
      /\ UNCHANGED <<command, read, heap, turn, frames, pass>> /\ Hopeless(command, t)
  BY DEF Refuses
<1>2. Len(read) \in Nat /\ DOMAIN read = 1..Len(read)
  BY DEF MutatorInv, ReadInv
<1>3. Len(Docs) = Len(read) /\ \A i \in DOMAIN read : Docs[i] = Now(i)
  BY <1>1, DocsAre
<1>4. Written[turn] = t
  BY <1>1, <1>2, <1>3 DEF Now
<1>5. Written' = << >>
  BY <1>1 DEF Docs
<1>6. Promise!Selected(Written[turn], command.match) /\ Promise!Refused(command, Written[turn])
  BY <1>1, <1>4, SameScope, SameEdits DEF Hopeless
<1>7. turn <= Len(Written)
  BY <1>1, <1>2, <1>3
<1> QED
  BY <1>1, <1>5, <1>6, <1>7 DEF Promise!RefuseDocument, Written

\* A writer takes what it would find, or fails.
LEMMA OutputDoes ==
    ASSUME MutatorInv, NEW taken \in BOOLEAN, NEW result \in {"written", "listed"},
           Output(taken, result)
    PROVE  /\ outcome = "running" /\ frames = << >> /\ turn > Len(Docs)
           /\ DOMAIN Docs = DOMAIN read /\ \A i \in DOMAIN read : Docs[i] = Now(i)
           /\ IF taken THEN outcome' = result /\ Docs' = Docs
              ELSE outcome' = "failed" /\ Docs' = << >>
           /\ UNCHANGED <<command, turn, pass>> /\ outcome' # "parsing"
<1>1. /\ outcome = "running" /\ frames = << >> /\ turn > Len(read)
      /\ outcome' = (IF taken THEN result ELSE "failed")
      /\ UNCHANGED <<command, read, heap, turn, frames, pass>>
  BY DEF Output
<1>2. /\ DOMAIN Docs = DOMAIN read /\ Len(Docs) = Len(read)
      /\ \A i \in DOMAIN read : Docs[i] = Now(i)
  BY <1>1, DocsAre
<1>3. taken => Docs' = Docs
  <2>1. \A i : Now(i)' = Now(i)
    BY <1>1 DEF Now
  <2> QED
    BY <1>1, <2>1 DEF Docs
<1>4. ~taken => Docs' = << >>
  BY <1>1 DEF Docs
<1> HIDE DEF Docs
<1> QED
  BY <1>1, <1>2, <1>3, <1>4

\* As YAML,
LEMMA YamlOutput ==
    ASSUME MutatorInv, WriteYAML, Written = Docs, Written' = Docs'
    PROVE  Promise!WriteStream
<1> DEFINE taken == \A i \in DOMAIN read : YamlWrites(Tree(i))
<1>1. Output(taken, "written") /\ outcome = "running" /\ frames = << >>
  BY DEF WriteYAML, Output
<1>2. \A i \in DOMAIN read : Tree(i) = Now(i)
  BY <1>1, TreeNow
<1> DEFINE b == taken
<1>3. b \in BOOLEAN /\ b <=> \A i \in DOMAIN read : Promise!YamlWrites(Now(i))
  BY <1>2, SameOutput
<1> HIDE DEF b
<1>4. /\ outcome = "running" /\ frames = << >> /\ turn > Len(Docs)
      /\ DOMAIN Docs = DOMAIN read /\ \A i \in DOMAIN read : Docs[i] = Now(i)
      /\ IF b THEN outcome' = "written" /\ Docs' = Docs
         ELSE outcome' = "failed" /\ Docs' = << >>
      /\ UNCHANGED <<command, turn, pass>> /\ outcome' # "parsing"
  BY <1>1, <1>3, OutputDoes DEF b
<1>5. b <=> \A i \in DOMAIN Written : Promise!YamlWrites(Written[i])
  BY <1>3, <1>4
<1>6. IF \A i \in DOMAIN Written : Promise!YamlWrites(Written[i])
      THEN outcome' = "written" /\ Written' = Written
      ELSE outcome' = "failed" /\ Written' = << >>
  <2> HIDE DEF Docs, Written
  <2> QED
    BY <1>4, <1>5
<1>7. turn > Len(Written)
  BY <1>4
<1> QED
  BY <1>4, <1>6, <1>7 DEF Promise!WriteStream, Promise!Write, Written

\* and as a list in JSON.
LEMMA JSONOutput ==
    ASSUME MutatorInv, WriteJSONList, Written = Docs, Written' = Docs'
    PROVE  Promise!WriteList
<1> DEFINE taken == \A i \in DOMAIN read : IsMapping(heap, Root(i))
<1>1. Output(taken, "listed") /\ outcome = "running" /\ frames = << >>
  BY DEF WriteJSONList, Output
<1>2. \A i \in DOMAIN read : IsMapping(heap, Root(i)) <=> Kind(Now(i), << >>) = "map"
  BY <1>1, MappingShown
<1> DEFINE b == taken
<1>3. b \in BOOLEAN /\ b <=> \A i \in DOMAIN read : Promise!Kind(Now(i), << >>) = "map"
  BY <1>2, SameTrees
<1> HIDE DEF b
<1>4. /\ outcome = "running" /\ frames = << >> /\ turn > Len(Docs)
      /\ DOMAIN Docs = DOMAIN read /\ \A i \in DOMAIN read : Docs[i] = Now(i)
      /\ IF b THEN outcome' = "listed" /\ Docs' = Docs
         ELSE outcome' = "failed" /\ Docs' = << >>
      /\ UNCHANGED <<command, turn, pass>> /\ outcome' # "parsing"
  BY <1>1, <1>3, OutputDoes DEF b
<1>5. b <=> \A i \in DOMAIN Written : Promise!Kind(Written[i], << >>) = "map"
  BY <1>3, <1>4
<1>6. IF \A i \in DOMAIN Written : Promise!Kind(Written[i], << >>) = "map"
      THEN outcome' = "listed" /\ Written' = Written
      ELSE outcome' = "failed" /\ Written' = << >>
  <2> HIDE DEF Docs, Written
  <2> QED
    BY <1>4, <1>5
<1>7. turn > Len(Written)
  BY <1>4
<1> QED
  BY <1>4, <1>6, <1>7 DEF Promise!WriteList, Promise!Write, Written

\* The output goes through the command once more.
LEMMA AgainPasses ==
    ASSUME MutatorInv, MutatorInv', Again, Written = Docs, Written' = Docs'
    PROVE  Promise!SecondPass
<1>1. /\ outcome = "written" /\ pass = 1 /\ read' = ReadBack([i \in DOMAIN read |-> Tree(i)])
      /\ turn' = 1 /\ pass' = 2 /\ outcome' = "parsing"
      /\ UNCHANGED <<command, heap, frames>>
  BY DEF Again
<1>2. frames = << >>
  BY <1>1 DEF MutatorInv, LoopInv
<1>3. Docs = [i \in DOMAIN read |-> Tree(i)]
  <2>1. \A i \in DOMAIN read : Tree(i) = Now(i)
    BY <1>1, <1>2, TreeNow
  <2> QED
    BY <1>1, <2>1 DEF Docs
<1>4. Docs' = read'
  <2>1. Docs' = [i \in DOMAIN read' |-> Now(i)']
    BY <1>1 DEF Docs
  <2>2. \A i \in DOMAIN read' : i \in Nat \ {0}
    BY DEF MutatorInv, ReadInv
  <2>3. \A i \in DOMAIN read' : Now(i)' = read'[i]
    <3> TAKE i \in DOMAIN read'
    <3>1. ~(i < turn')
      BY <1>1, <2>2
    <3> QED
      BY <3>1 DEF Now
  <2>4. read' = [i \in DOMAIN read' |-> read'[i]]
    BY DEF MutatorInv, ReadInv
  <2> QED
    BY <2>1, <2>3, <2>4
<1>5. Docs' = Promise!ReadBack(Docs)
  <2> HIDE DEF Docs
  <2> QED
    BY <1>1, <1>3, <1>4, SameOutput
<1> QED
  BY <1>1, <1>5 DEF Promise!SecondPass, Written

\* Nothing else is seen of the promise.
LEMMA NothingSeen ==
    ASSUME MutatorInv, Continues \/ ParseNodes \/ UNCHANGED mutatorVars,
           Written = Docs, Written' = Docs'
    PROVE  UNCHANGED Promise!mutationVars
<1>1. /\ UNCHANGED <<command, read, turn, pass>>
      /\ (IF outcome = "parsing" THEN "running" ELSE outcome)'
           = IF outcome = "parsing" THEN "running" ELSE outcome
      /\ outcome' = "failed" <=> outcome = "failed"
  BY DEF Continues, ParseNodes, mutatorVars
<1>2. \A i : Now(i)' = Now(i)
  BY <1>1 DEF Now
<1>3. Docs' = Docs
  BY <1>1, <1>2 DEF Docs
<1> QED
  BY <1>1, <1>3 DEF Promise!mutationVars, Written

\* Every mutating command keeps its promise: what becomes of a document depends on
\* the document and the command alone, whatever nodes it shares with the patch and
\* with documents before it.
THEOREM MutatorsKeepTheirPromise == MutatorSpec => ImplementsMutation
<1>1. MutatorInit => Promise!MutationInit
  <2> SUFFICES ASSUME MutatorInit
               PROVE  Promise!MutationInit
    OBVIOUS
  <2>1. command \in Commands /\ read \in Streams /\ turn = 1 /\ pass = 1 /\ outcome = "parsing"
    BY DEF MutatorInit
  <2>2. read = [i \in DOMAIN read |-> read[i]]
    <3> DEFINE T == ToSet(read)
    <3> HIDE DEF T
    <3>1. read \in Seq(T)
      BY <2>1, StreamAssumption DEF T
    <3> QED
      BY <3>1
  <2>3. Written = read
    BY <2>1, <2>2 DEF Written
  <2> QED
    BY <2>1, <2>3 DEF Promise!MutationInit, Written
<1>2. MutatorInv /\ MutatorInv' /\ [MutatorNext]_mutatorVars
        => [Promise!MutationNext]_Promise!mutationVars
  <2>1. (MutatorInv => Written = Docs)'
    BY WrittenIs, PTL
  <2> SUFFICES ASSUME MutatorInv, MutatorInv', [MutatorNext]_mutatorVars
               PROVE  [Promise!MutationNext]_Promise!mutationVars
    OBVIOUS
  <2>2. Written = Docs /\ Written' = Docs'
    BY <2>1, WrittenIs
  <2> QED
    BY <2>2, Steps, AdvanceMutates, RefuseRefuses, YamlOutput, JSONOutput, AgainPasses,
       NothingSeen
    DEF Promise!MutationNext
<1> QED
  BY <1>1, <1>2, InvHolds, PTL DEF MutatorSpec, ImplementsMutation, Promise!MutationSpec

-----------------------------------------------------------------------------
(* Commands that change nothing the second time.                           *)

\* A field that was set: the way to it is as open as it was, and setting it once
\* more changes nothing.
SetAgain(t, M, key, value) ==
    LET t2 == WithFields(t, M, key, value)
    IN  /\ WithFields(t2, M, key, value) = t2
        /\ \A m \in M : \A r \in PrefixesOf(m) :
             Kind(t2, r) = Kind(t, r) \/ (Kind(t, r) = "missing" /\ Kind(t2, r) = "map")

\* It is, if no mapping that gets it is below the field of another.
LEMMA FieldsAgain ==
    ASSUME NEW t, NEW M \in SUBSET Path, NEW key \in STRING, NEW value,
           \A m \in M, n \in M : ~IsPrefix(Append(m, key), n)
    PROVE  SetAgain(t, M, key, value)
<1> DEFINE t2 == WithFields(t, M, key, value)
           w  == WithFields(t2, M, key, value)
<1>1. \A r :
        /\ r \in DOMAIN t2 <=>
             \/ r \in DOMAIN t /\ \A m \in M : ~Blocked(t, m) => ~IsPrefix(Append(m, key), r)
             \/ \E m \in M : /\ ~Blocked(t, m)
                             /\ \/ r \in PrefixesOf(m) /\ r \notin DOMAIN t
                                \/ r = Append(m, key)
        /\ r \in DOMAIN t2 =>
             t2[r] = IF \E m \in M : ~Blocked(t, m) /\ r = Append(m, key) THEN Scalar(value)
                     ELSE IF r \in DOMAIN t THEN t[r] ELSE Bare("map")
  BY FieldsAt
<1> HIDE DEF t2
<1>2. \A r :
        /\ r \in DOMAIN w <=>
             \/ r \in DOMAIN t2 /\ \A m \in M : ~Blocked(t2, m) => ~IsPrefix(Append(m, key), r)
             \/ \E m \in M : /\ ~Blocked(t2, m)
                             /\ \/ r \in PrefixesOf(m) /\ r \notin DOMAIN t2
                                \/ r = Append(m, key)
        /\ r \in DOMAIN w =>
             w[r] = IF \E m \in M : ~Blocked(t2, m) /\ r = Append(m, key) THEN Scalar(value)
                    ELSE IF r \in DOMAIN t2 THEN t2[r] ELSE Bare("map")
  BY FieldsAt
<1>3. w = [r \in DOMAIN w |-> w[r]] /\ t2 = [r \in DOMAIN t2 |-> t2[r]]
  BY FieldsAt DEF t2
<1> HIDE DEF w
<1>4. \A m \in M : m \in Path /\ Append(m, key) \in Path
  BY PathStep
<1>5. ASSUME NEW m \in M, NEW n \in M, NEW r \in PrefixesOf(m)
      PROVE  ~IsPrefix(Append(n, key), r) /\ r # Append(n, key)
  <2>1. r \in Path /\ IsPrefix(r, m)
    BY <1>4, PrefixesAre
  <2>2. ~IsPrefix(Append(n, key), r)
    BY <1>4, <2>1, PrefixOrder
  <2> QED
    BY <1>4, <2>1, <2>2, PrefixOrder
<1>6. ASSUME NEW m \in M, NEW r \in PrefixesOf(m)
      PROVE  /\ r \in DOMAIN t => r \in DOMAIN t2 /\ t2[r] = t[r]
             /\ r \in DOMAIN t2 /\ r \notin DOMAIN t => t2[r] = Bare("map")
             /\ ~Blocked(t, m) => r \in DOMAIN t2
  BY <1>1, <1>5
<1>7. Bare("map").kind = "map"
  BY DEF Bare
<1>8. ASSUME NEW m \in M, NEW r \in PrefixesOf(m)
      PROVE  Kind(t2, r) = Kind(t, r) \/ (Kind(t, r) = "missing" /\ Kind(t2, r) = "map")
  BY <1>6, <1>7 DEF Kind, Has
<1>9. \A m \in M : Blocked(t2, m) <=> Blocked(t, m)
  BY <1>8 DEF Blocked
<1>10. ASSUME NEW r \in DOMAIN t2, NEW m \in M, ~Blocked(t, m), IsPrefix(Append(m, key), r)
       PROVE  r = Append(m, key)
  <2>1. PICK n \in M : /\ ~Blocked(t, n)
                       /\ \/ r \in PrefixesOf(n) /\ r \notin DOMAIN t
                          \/ r = Append(n, key)
    BY <1>1, <1>10
  <2>2. r = Append(n, key)
    BY <1>5, <1>10, <2>1
  <2>3. Append(m, key) = Append(n, key) \/ IsPrefix(Append(m, key), n)
    BY <1>4, <1>10, <2>2, PrefixOfNext
  <2> QED
    BY <2>2, <2>3
<1>11. ASSUME NEW r
       PROVE  r \in DOMAIN w <=> r \in DOMAIN t2
  <2>1. r \in DOMAIN w <=>
             \/ r \in DOMAIN t2 /\ \A m \in M : ~Blocked(t, m) => ~IsPrefix(Append(m, key), r)
             \/ \E m \in M : /\ ~Blocked(t, m)
                             /\ \/ r \in PrefixesOf(m) /\ r \notin DOMAIN t2
                                \/ r = Append(m, key)
    BY <1>2, <1>9
  <2>2. \A m \in M : ~Blocked(t, m) =>
          (r \in PrefixesOf(m) => r \in DOMAIN t2) /\ (r = Append(m, key) => r \in DOMAIN t2)
    BY <1>1, <1>6
  <2> QED
    BY <1>10, <2>1, <2>2
<1>12. ASSUME NEW r \in DOMAIN t2
       PROVE  w[r] = t2[r]
  BY <1>1, <1>2, <1>9, <1>11
<1>13. DOMAIN w = DOMAIN t2
  BY <1>11
<1>14. w = t2
  BY <1>3, <1>12, <1>13
<1> QED
  BY <1>8, <1>14 DEF SetAgain, w, t2

\* What begins with another key is as it was.
LEMMA FieldElsewhere ==
    ASSUME NEW t, NEW M \in SUBSET Path, NEW key \in STRING, NEW value,
           NEW r \in Path, r # << >>, \A m \in M : m # << >> /\ m[1] # r[1]
    PROVE  LET t2 == WithFields(t, M, key, value)
           IN  (r \in DOMAIN t2 <=> r \in DOMAIN t) /\ (r \in DOMAIN t => t2[r] = t[r])
<1>1. ASSUME NEW m \in M
      PROVE  /\ ~IsPrefix(Append(m, key), r) /\ r \notin PrefixesOf(m) /\ r # Append(m, key)
  <2>1. m \in Path /\ r \notin Beginning(m[1])
    BY DEF Beginning
  <2> QED
    BY <2>1, FirstKey
<1> DEFINE t2 == WithFields(t, M, key, value)
<1>2. /\ r \in DOMAIN t2 <=>
             \/ r \in DOMAIN t /\ \A m \in M : ~Blocked(t, m) => ~IsPrefix(Append(m, key), r)
             \/ \E m \in M : /\ ~Blocked(t, m)
                             /\ \/ r \in PrefixesOf(m) /\ r \notin DOMAIN t
                                \/ r = Append(m, key)
      /\ r \in DOMAIN t2 =>
             t2[r] = IF \E m \in M : ~Blocked(t, m) /\ r = Append(m, key) THEN Scalar(value)
                     ELSE IF r \in DOMAIN t THEN t[r] ELSE Bare("map")
  BY FieldsAt
<1> HIDE DEF t2
<1>3. (r \in DOMAIN t2 <=> r \in DOMAIN t) /\ (r \in DOMAIN t => t2[r] = t[r])
  BY <1>1, <1>2
<1> QED
  BY <1>3 DEF t2

\* A command that is not refused then changes nothing the second time.
Repeatable(cmd, t) ==
    LET t2 == Mutated(cmd, t) IN ~Refused(cmd, t2) /\ Mutated(cmd, t2) = t2

\* Annotations, and the namespace.
LEMMA OneFieldAgain ==
    ASSUME NEW t, NEW cmd, Asked(cmd), cmd.op \in {"annotate", "set-namespace"}, ~Refused(cmd, t)
    PROVE  Repeatable(cmd, t)
<1> DEFINE p == IF cmd.op = "annotate" THEN <<"metadata", "annotations">> ELSE <<"metadata">>
           k == FieldOf(cmd)
           v == cmd.value
           M == {p}
           t2 == WithFields(t, M, k, v)
<1>1. p \in Path
  BY PathsAre
<1>2. k \in STRING
  BY PositionAssumption DEF FieldOf, Asked
<1>3. ASSUME NEW u
      PROVE  Targets(cmd, u) = M /\ ValueOf(cmd, u) = v
  <2>1. CASE cmd.op = "annotate"
    BY <2>1 DEF Targets, ValueOf
  <2>2. CASE cmd.op = "set-namespace"
    BY <2>2 DEF Targets, ValueOf
  <2> QED
    BY <2>1, <2>2
<1> HIDE DEF p, k, v
<1>4. ASSUME NEW u
      PROVE  (Refused(cmd, u) <=> Barring(u, p)) /\ Mutated(cmd, u) = WithFields(u, M, k, v)
  BY <1>3, OneTarget DEF k
<1>5. ~IsPrefix(Append(p, k), p)
  BY <1>1, <1>2, PrefixOfNext
<1>6. SetAgain(t, M, k, v)
  BY <1>1, <1>2, <1>5, FieldsAgain
<1>7. /\ WithFields(t2, M, k, v) = t2
      /\ \A r \in PrefixesOf(p) :
           Kind(t2, r) = Kind(t, r) \/ (Kind(t, r) = "missing" /\ Kind(t2, r) = "map")
  BY <1>6 DEF SetAgain
<1>8. Mutated(cmd, t) = t2
  BY <1>4
<1> HIDE DEF t2, M
<1>9. ~Barring(t2, p)
  BY <1>4, <1>7 DEF Barring
<1> QED
  BY <1>4, <1>7, <1>8, <1>9 DEF Repeatable

\* Labels.
LEMMA LabelAgain ==
    ASSUME NEW t, NEW cmd, Asked(cmd), cmd.op = "label", ~Refused(cmd, t)
    PROVE  Repeatable(cmd, t)
<1> DEFINE m == <<"metadata", "labels">>
           n == <<"spec", "template", "metadata", "labels">>
           kind == <<"kind">>
           pod(u) == Value(u, kind) \in workloadKinds
           M(u) == IF pod(u) THEN {m, n} ELSE {m}
           k == cmd.key
           v == cmd.value
           t2 == WithFields(t, M(t), k, v)
<1>1. m \in Path /\ n \in Path /\ m # << >> /\ n # << >>
  BY PathsAre
<1>2. k \in STRING
  BY DEF Asked
<1>3. kind \in Path /\ kind # << >>
  <2>1. "kind" \in STRING
    BY PositionAssumption
  <2> QED
    BY <2>1 DEF Path
<1>4. m[1] # n[1] /\ m[1] # kind[1] /\ n[1] # kind[1]
  OBVIOUS
<1>5. ASSUME NEW u
      PROVE  Targets(cmd, u) = M(u) /\ ValueOf(cmd, u) = v /\ FieldOf(cmd) = k
  BY DEF Targets, ValueOf, FieldOf
<1> HIDE DEF m, n, kind, k, v
<1>6. ASSUME NEW u
      PROVE  /\ Refused(cmd, u) <=> \E p \in M(u) : Barring(u, p)
             /\ Mutated(cmd, u) = WithFields(u, M(u), k, v)
  <2> HIDE DEF M
  <2> QED
    BY <1>5 DEF Refused, Mutated, Barring
<1>7. \A p \in {m, n}, q \in {m, n} : ~IsPrefix(Append(p, k), q)
  <2>1. ~IsPrefix(Append(m, k), m) /\ ~IsPrefix(Append(n, k), n)
    BY <1>1, <1>2, PrefixOfNext
  <2>2. ~IsPrefix(Append(m, k), n)
    <3>1. n \notin Beginning(m[1])
      BY <1>4 DEF Beginning
    <3> QED
      BY <1>1, <1>2, <3>1, FirstKey
  <2>3. ~IsPrefix(Append(n, k), m)
    <3>1. m \notin Beginning(n[1])
      BY <1>4 DEF Beginning
    <3> QED
      BY <1>1, <1>2, <3>1, FirstKey
  <2> QED
    BY <2>1, <2>2, <2>3
<1> DEFINE N == M(t)
<1>8. N \in SUBSET Path /\ N \subseteq {m, n} /\ t2 = WithFields(t, N, k, v)
  BY <1>1
<1>9. M(t2) = N
  <2>1. \A p \in N : p # << >> /\ p[1] # kind[1]
    BY <1>1, <1>4, <1>8
  <2> HIDE DEF N, t2
  <2>2. (kind \in DOMAIN t2 <=> kind \in DOMAIN t) /\ (kind \in DOMAIN t => t2[kind] = t[kind])
    BY <1>2, <1>3, <1>8, <2>1, FieldElsewhere
  <2>3. Value(t2, kind) = Value(t, kind)
    BY <2>2 DEF Value, Has
  <2> QED
    BY <2>3 DEF N
<1> HIDE DEF N, M, t2
<1>10. SetAgain(t, N, k, v)
  BY <1>2, <1>7, <1>8, FieldsAgain
<1>11. /\ WithFields(t2, N, k, v) = t2
       /\ \A p \in N : \A r \in PrefixesOf(p) :
            Kind(t2, r) = Kind(t, r) \/ (Kind(t, r) = "missing" /\ Kind(t2, r) = "map")
  BY <1>8, <1>10 DEF SetAgain
<1>12. Mutated(cmd, t) = t2
  BY <1>6, <1>8 DEF N
<1>13. \A p \in N : ~Barring(t, p)
  BY <1>6 DEF N
<1>14. \A p \in N : ~Barring(t2, p)
  BY <1>11, <1>13 DEF Barring
<1> QED
  BY <1>6, <1>9, <1>11, <1>12, <1>14 DEF Repeatable

\* The number of replicas.
LEMMA ScaleAgain ==
    ASSUME NEW t, IsTree(t), NEW cmd, cmd.op = "scale", ~Refused(cmd, t)
    PROVE  Repeatable(cmd, t)
<1> DEFINE p == <<"spec">>
           k == "replicas"
           v == cmd.value
           t2 == WithFields(t, {p}, k, v)
<1>1. p \in Path /\ p # << >> /\ k \in STRING
  BY PathsAre
<1>2. ASSUME NEW u
      PROVE  /\ Targets(cmd, u) = (IF Absent(u, p) THEN {} ELSE {p})
             /\ ValueOf(cmd, u) = v /\ FieldOf(cmd) = k
  BY DEF Targets, ValueOf, FieldOf
<1> HIDE DEF p, k, v
<1>3. ASSUME NEW u
      PROVE  /\ Absent(u, p) => ~Refused(cmd, u) /\ Mutated(cmd, u) = WithFields(u, {}, k, v)
             /\ ~Absent(u, p) => /\ Refused(cmd, u) <=> Barring(u, p) \/ ~cmd.number
                                 /\ Mutated(cmd, u) = WithFields(u, {p}, k, v)
  BY <1>2 DEF Refused, Mutated, Barring
<1>4. CASE Absent(t, p)
  BY <1>3, <1>4, NoFields DEF Repeatable
<1>5. CASE ~Absent(t, p)
  <2>1. ~IsPrefix(Append(p, k), p)
    BY <1>1, PrefixOfNext
  <2> DEFINE M == {p}
  <2>2. SetAgain(t, M, k, v)
    BY <1>1, <2>1, FieldsAgain
  <2>3. /\ WithFields(t2, {p}, k, v) = t2
        /\ \A r \in PrefixesOf(p) :
             Kind(t2, r) = Kind(t, r) \/ (Kind(t, r) = "missing" /\ Kind(t2, r) = "map")
    BY <2>2 DEF SetAgain
  <2>4. p \in PrefixesOf(p)
    BY <1>1, PrefixesAre, PrefixOrder
  <2>5. Mutated(cmd, t) = t2
    BY <1>3, <1>5
  <2> HIDE DEF t2
  <2>6. ~Absent(t2, p)
    BY <1>5, <2>3, <2>4 DEF Absent
  <2>7. ~Barring(t, p) /\ cmd.number
    BY <1>3, <1>5
  <2>8. ~Barring(t2, p)
    BY <2>3, <2>7 DEF Barring
  <2> QED
    BY <1>3, <2>3, <2>5, <2>6, <2>7, <2>8 DEF Repeatable
<1> QED
  BY <1>4, <1>5

\* What is no field of an item that an image is set in, nor below one.
LEMMA BesideImages ==
    ASSUME NEW t, IsTree(t), NEW cmd, cmd.op = "set-image", NEW m \in Targets(cmd, t),
           NEW d \in ToSet(containerPaths)
    PROVE  /\ ~IsPrefix(Append(m, "image"), d)
           /\ \A l \in Positions, k \in STRING : Append(d, l) \in Path /\ k # "image" =>
                /\ ~IsPrefix(Append(m, "image"), Append(d, l))
                /\ ~IsPrefix(Append(m, "image"), Append(Append(d, l), k))
<1> DEFINE g == "image"
<1>1. g \in STRING /\ g \notin Positions
  BY PositionAssumption
<1> HIDE DEF g
<1>2. PICK c \in ToSet(containerPaths), j \in Positions : m = Append(c, j) /\ j \in STRING
  BY ImageTarget
<1>3. c \in Path /\ d \in Path /\ Plain(d) /\ m \in Path
  BY ImageTarget, ContainerPathsAre
<1>4. Append(m, g) \in Path /\ Append(m, g) # << >>
  BY <1>1, <1>3, PathStep
<1>5. ~IsPrefix(Append(m, g), d)
  <2> SUFFICES ASSUME IsPrefix(Append(m, g), d)
               PROVE  FALSE
    OBVIOUS
  <2>1. IsPrefix(m, Append(m, g))
    BY <1>1, <1>3, PrefixOfNext, PrefixOrder
  <2>2. IsPrefix(m, d)
    BY <1>3, <1>4, <2>1, PrefixOrder
  <2>3. Len(m) <= Len(d) /\ \A i \in 1..Len(m) : m[i] = d[i]
    BY <1>3, <2>2, PrefixIs
  <2>4. Len(m) = Len(c) + 1 /\ m[Len(c) + 1] = j /\ Len(c) \in Nat /\ Len(d) \in Nat
    BY <1>2, <1>3, PathAppend DEF Path
  <2>5. Len(c) + 1 \in 1..Len(m) /\ Len(c) + 1 \in 1..Len(d)
    BY <2>3, <2>4
  <2>6. d[Len(c) + 1] = j
    BY <2>3, <2>4, <2>5
  <2> QED
    BY <1>2, <1>3, <2>5, <2>6 DEF Plain
<1>6. ASSUME NEW l \in Positions, NEW k \in STRING, Append(d, l) \in Path, k # g
      PROVE  /\ ~IsPrefix(Append(m, g), Append(d, l))
             /\ ~IsPrefix(Append(m, g), Append(Append(d, l), k))
  <2>1. l \in STRING
    BY <1>3, <1>6, ItemPath
  <2>2. Append(m, g) # Append(d, l)
    BY <1>1, <1>3, <1>6, <2>1, SameField
  <2>3. ~IsPrefix(Append(m, g), Append(d, l))
    BY <1>3, <1>4, <1>5, <2>1, <2>2, PrefixOfNext
  <2> DEFINE n == Append(d, l)
  <2>4. n \in Path
    BY <1>6
  <2> HIDE DEF n
  <2>5. Append(m, g) # Append(n, k)
    BY <1>1, <1>3, <1>6, <2>4, SameField
  <2>6. ~IsPrefix(Append(m, g), Append(n, k))
    BY <1>4, <1>6, <2>3, <2>4, <2>5, PrefixOfNext DEF n
  <2> QED
    BY <2>3, <2>6 DEF n
<1> QED
  BY <1>5, <1>6 DEF g

\* Images.
LEMMA ImageAgain ==
    ASSUME NEW t, IsTree(t), NEW cmd, cmd.op = "set-image", ~Refused(cmd, t)
    PROVE  Repeatable(cmd, t)
<1> DEFINE g == "image"
           v == cmd.value
           M == Targets(cmd, t)
           t2 == WithFields(t, M, g, v)
<1>1. g \in STRING /\ g \notin Positions /\ "name" \in STRING /\ "name" # g
  BY PositionAssumption
<1>2. Apart(t, M, g)
  BY ImagesApart
<1>3. M \in SUBSET Path /\ \A m \in M, n \in M : ~IsPrefix(Append(m, g), n)
  BY <1>2, TreeHas DEF Apart
<1>4. ASSUME NEW u
      PROVE  /\ Mutated(cmd, u) = WithFields(u, Targets(cmd, u), g, v)
             /\ Refused(cmd, u) <=>
                  \E c \in ToSet(containerPaths) : Kind(u, c) \in {"scalar", "map"}
  BY DEF Mutated, Refused, FieldOf, ValueOf
<1> HIDE DEF M
<1>5. WithFields(t2, M, g, v) = t2
  BY <1>1, <1>3, FieldsAgain DEF SetAgain
<1>6. t2 = WithScalars(t, M, g, v)
  BY <1>1, <1>2, FieldsScalars
<1> HIDE DEF t2
<1>7. /\ \A m \in M : Append(m, g) \in DOMAIN t2
      /\ \A p \in DOMAIN t2 :
           \/ \E m \in M : p = Append(m, g)
           \/ /\ p \in DOMAIN t /\ t2[p] = t[p]
              /\ \A m \in M : ~IsPrefix(Append(m, g), p)
      /\ \A p \in DOMAIN t : (\A m \in M : ~IsPrefix(Append(m, g), p)) =>
           p \in DOMAIN t2 /\ t2[p] = t[p]
  BY <1>1, <1>2, <1>6, ScalarsHave
<1>8. \A m \in M : Append(m, g) \in Path /\ IsPrefix(Append(m, g), Append(m, g))
  BY <1>1, <1>3, PathStep, PrefixOrder
<1>9. ASSUME NEW p, \A m \in M : ~IsPrefix(Append(m, g), p)
      PROVE  (p \in DOMAIN t2 <=> p \in DOMAIN t) /\ (p \in DOMAIN t => t2[p] = t[p])
  <2>1. ~\E m \in M : p = Append(m, g)
    BY <1>8, <1>9
  <2>2. p \in DOMAIN t2 => p \in DOMAIN t /\ t2[p] = t[p]
    BY <1>7, <2>1
  <2>3. p \in DOMAIN t => p \in DOMAIN t2 /\ t2[p] = t[p]
    BY <1>7, <1>9
  <2> QED
    BY <2>2, <2>3
<1>10. DOMAIN t \subseteq Path /\ DOMAIN t2 \subseteq Path
  <2>1. DOMAIN t \subseteq Path
    BY TreeHas
  <2>2. ASSUME NEW p \in DOMAIN t2
        PROVE  p \in Path
    <3>1. (\E m \in M : p = Append(m, g)) \/ p \in DOMAIN t
      BY <1>7
    <3> QED
      BY <1>8, <2>1, <3>1
  <2> QED
    BY <2>1, <2>2
<1>11. ASSUME NEW c \in ToSet(containerPaths)
       PROVE  /\ Kind(t2, c) = Kind(t, c)
              /\ \A k \in Positions : Append(c, k) \in Path =>
                   LET p == Append(c, k)
                   IN  /\ p \in DOMAIN t2 <=> p \in DOMAIN t
                       /\ Absent(t2, Append(p, "name")) <=> Absent(t, Append(p, "name"))
                       /\ ~Absent(t, Append(p, "name")) =>
                            t2[Append(p, "name")] = t[Append(p, "name")]
  <2>1. ASSUME NEW m \in M
        PROVE  /\ ~IsPrefix(Append(m, g), c)
               /\ \A k \in Positions : Append(c, k) \in Path =>
                    /\ ~IsPrefix(Append(m, g), Append(c, k))
                    /\ ~IsPrefix(Append(m, g), Append(Append(c, k), "name"))
    BY <1>1, BesideImages DEF M
  <2>2. Kind(t2, c) = Kind(t, c)
    BY <1>9, <2>1 DEF Kind, Has
  <2>3. ASSUME NEW k \in Positions, Append(c, k) \in Path
        PROVE  LET p == Append(c, k)
               IN  /\ p \in DOMAIN t2 <=> p \in DOMAIN t
                   /\ Absent(t2, Append(p, "name")) <=> Absent(t, Append(p, "name"))
                   /\ ~Absent(t, Append(p, "name")) =>
                        t2[Append(p, "name")] = t[Append(p, "name")]
    <3> DEFINE p == Append(c, k)
               q == Append(p, "name")
    <3>1. \A m \in M : ~IsPrefix(Append(m, g), p) /\ ~IsPrefix(Append(m, g), q)
      BY <2>1, <2>3
    <3> HIDE DEF p, q
    <3>2. /\ p \in DOMAIN t2 <=> p \in DOMAIN t
          /\ q \in DOMAIN t2 <=> q \in DOMAIN t
          /\ q \in DOMAIN t => t2[q] = t[q]
      BY <1>9, <3>1
    <3>3. (Absent(t2, q) <=> Absent(t, q)) /\ (~Absent(t, q) => t2[q] = t[q])
      BY <3>2 DEF Absent, Kind, Has
    <3> QED
      BY <3>2, <3>3 DEF p, q
  <2> QED
    BY <2>2, <2>3
<1>12. ASSUME NEW p
       PROVE  p \in Targets(cmd, t2) <=> p \in M
  <2> DEFINE q == Append(p, "name")
  <2>1. ASSUME NEW u
        PROVE  p \in Targets(cmd, u) <=>
                 /\ p \in DOMAIN u
                 /\ ~Absent(u, q) /\ u[q].text = cmd.key
                 /\ \E c \in ToSet(containerPaths), k \in Positions : p = Append(c, k)
    BY ImageTargets
  <2>2. CASE \E c \in ToSet(containerPaths), k \in Positions : p = Append(c, k) /\ p \in Path
    <3>1. PICK c \in ToSet(containerPaths), k \in Positions : p = Append(c, k) /\ p \in Path
      BY <2>2
    <3>2. /\ p \in DOMAIN t2 <=> p \in DOMAIN t
          /\ Absent(t2, q) <=> Absent(t, q)
          /\ ~Absent(t, q) => t2[q] = t[q]
      BY <1>11, <3>1
    <3> HIDE DEF q
    <3> QED
      BY <2>1, <3>2 DEF M
  <2>3. CASE ~\E c \in ToSet(containerPaths), k \in Positions : p = Append(c, k) /\ p \in Path
    <3> HIDE DEF q
    <3> QED
      BY <1>10, <2>1, <2>3 DEF M
  <2> QED
    BY <2>2, <2>3
<1>13. Targets(cmd, t2) = M
  BY <1>12
<1>14. Mutated(cmd, t) = t2
  BY <1>4 DEF t2, M
<1>15. ~Refused(cmd, t2)
  BY <1>4, <1>11
<1> QED
  BY <1>4, <1>5, <1>13, <1>14, <1>15 DEF Repeatable

\* Fields that are removed.
LEMMA RemoveAgain ==
    ASSUME NEW t, NEW cmd, Asked(cmd), cmd.op = "remove", ~Refused(cmd, t)
    PROVE  Repeatable(cmd, t)
<1> DEFINE p == cmd.path
           t2 == Without(t, p)
<1>1. p \in Path
  BY DEF Asked, Path
<1>2. ASSUME NEW u
      PROVE  /\ Mutated(cmd, u) = IF Leads(u, p) THEN Without(u, p) ELSE u
             /\ Refused(cmd, u) => Leads(u, p)
  BY DEF Mutated, Refused, Targets
<1> HIDE DEF p
<1>3. CASE ~Leads(t, p)
  BY <1>2, <1>3 DEF Repeatable
<1>4. CASE Leads(t, p)
  <2>1. IsPrefix(p, p)
    BY <1>1, PrefixOrder
  <2>2. p \notin DOMAIN t2
    BY <2>1 DEF Without
  <2> HIDE DEF t2
  <2>3. ~Leads(t2, p)
    BY <2>2 DEF Leads, Absent, Kind, Has
  <2>4. Mutated(cmd, t) = t2
    BY <1>2, <1>4 DEF t2
  <2> QED
    BY <1>2, <2>3, <2>4 DEF Repeatable
<1> QED
  BY <1>3, <1>4

\* Below mappings alone a patch that can be repeated has fields that are not null,
\* under keys.
LEMMA RepeatableField ==
    ASSUME NEW P, IsTree(P), ~Unrepeatable(P), NEW p \in DOMAIN P, p # << >>,
           \A r \in Path : IsPrefix(r, p) /\ r # p => Kind(P, r) = "map"
    PROVE  Kind(P, p) # "null" /\ Last(p) \notin Positions
<1>1. p \in Path
  BY TreeHas
<1>2. {SubSeq(p, 1, n) : n \in 0..Len(p) - 1} = {r \in Path : IsPrefix(r, p) /\ r # p}
  BY <1>1, PrefixesAre
<1> DEFINE S == {SubSeq(p, 1, n) : n \in 0..Len(p) - 1}
           R == {r \in Path : IsPrefix(r, p) /\ r # p}
<1>3. S = R
  BY <1>2
<1>4. \A r \in R : Kind(P, r) = "map"
  OBVIOUS
<1>5. \A n \in 0..Len(p) - 1 : SubSeq(p, 1, n) \in S
  OBVIOUS
<1> HIDE DEF S, R
<1>6. \A n \in 0..Len(p) - 1 : Kind(P, SubSeq(p, 1, n)) = "map"
  BY <1>3, <1>4, <1>5
<1> QED
  BY <1>6 DEF Unrepeatable

\* Either there is a boundary on the way to a path of the patch, or mappings only.
LEMMA BoundaryAbove ==
    ASSUME NEW t, NEW P, IsTree(P), NEW p \in DOMAIN P,
           \A e \in Boundary(t, P) : ~IsPrefix(e, p)
    PROVE  Both(t, P, p)
<1> DEFINE N == {q \in Path : q \in DOMAIN P /\ IsPrefix(q, p) =>
                   \A r \in Path : IsPrefix(r, q) => Both(t, P, r)}
           E == Boundary(t, P)
<1>1. p \in Path /\ DOMAIN P \subseteq Path /\ << >> \in DOMAIN P /\ << >> \in Path
  BY TreeHas DEF Path
<1>2. \A e : e \in E <=>
        /\ e \in DOMAIN P /\ e \in Path /\ ~Both(t, P, e)
        /\ \A r \in Path : IsPrefix(r, e) /\ r # e => Both(t, P, r)
  BY BoundaryIs
<1> HIDE DEF E
<1>3. ASSUME NEW q \in Path, q \in DOMAIN P, IsPrefix(q, p),
             \A r \in Path : IsPrefix(r, q) /\ r # q => Both(t, P, r)
      PROVE  \A r \in Path : IsPrefix(r, q) => Both(t, P, r)
  <2>1. q \notin E
    BY <1>3 DEF E
  <2>2. Both(t, P, q)
    BY <1>2, <1>3, <2>1
  <2> QED
    BY <1>3, <2>2
<1>4. << >> \in N
  <2>1. \A r \in Path : IsPrefix(r, << >>) => r = << >>
    BY PrefixOrder
  <2> DEFINE e0 == << >>
  <2>2. \A r \in Path : IsPrefix(r, e0) /\ r # e0 => Both(t, P, r)
    BY <2>1
  <2>3. e0 \in Path /\ e0 \in DOMAIN P
    BY <1>1
  <2> HIDE DEF e0
  <2>4. e0 \in N
    BY <1>3, <2>2, <2>3
  <2> QED
    BY <2>4 DEF e0
<1>5. ASSUME NEW q \in N, NEW k \in STRING
      PROVE  Append(q, k) \in N
  <2> DEFINE s == Append(q, k)
  <2>1. s \in Path /\ q \in Path /\ Front(s) = q /\ s # << >>
    BY PathStep
  <2>2. \A r \in Path : IsPrefix(r, s) => r = s \/ IsPrefix(r, q)
    BY <2>1, PrefixOfNext
  <2>3. IsPrefix(q, s)
    BY <2>1, PrefixOfNext, PrefixOrder
  <2> HIDE DEF s
  <2>4. ASSUME s \in DOMAIN P, IsPrefix(s, p)
        PROVE  \A r \in Path : IsPrefix(r, s) => Both(t, P, r)
    <3>1. q \in DOMAIN P
      BY <2>1, <2>4 DEF IsTree
    <3>2. IsPrefix(q, p)
      BY <1>1, <2>1, <2>3, <2>4, PrefixOrder
    <3>3. \A r \in Path : IsPrefix(r, q) => Both(t, P, r)
      BY <3>1, <3>2
    <3>4. \A r \in Path : IsPrefix(r, s) /\ r # s => Both(t, P, r)
      BY <2>2, <3>3
    <3> QED
      BY <1>3, <2>1, <2>4, <3>4
  <2>5. s \in N
    BY <2>1, <2>4
  <2> QED
    BY <2>5 DEF s
<1>6. N = Path
  <2> HIDE DEF N
  <2>1. N \in SUBSET Path
    BY DEF N
  <2> QED
    BY <1>4, <1>5, <2>1, PathInduction
<1>7. p \in N
  BY <1>1, <1>6
<1>8. IsPrefix(p, p)
  BY <1>1, PrefixOrder
<1> QED
  BY <1>1, <1>7, <1>8

\* A patch that can be repeated.
LEMMA PatchAgain ==
    ASSUME NEW t, IsTree(t), t[<< >>].kind = "map", NEW cmd, Asked(cmd), cmd.op = "patch",
           ~Unrepeatable(cmd.patch), Kind(Mutated(cmd, t), << >>) = "map"
    PROVE  Repeatable(cmd, t)
<1> DEFINE P  == cmd.patch
           E  == Boundary(t, P)
           t2 == Patched(t, P, E)
           F  == Boundary(t2, P)
           w  == Patched(t2, P, F)
           e0 == << >>
<1>1. IsTree(P) /\ DOMAIN P \subseteq Path /\ e0 \in DOMAIN P /\ e0 \in Path /\ e0 \in DOMAIN t
  BY TreeHas DEF Asked, Path
<1>2. Mutated(cmd, t) = t2 /\ Mutated(cmd, t2) = w
  BY DEF Mutated, Merged, Patched
<1>3. /\ t2 = [p \in DOMAIN t2 |-> t2[p]]
      /\ \A p :
           /\ p \in DOMAIN t2 <=>
                \/ p \in DOMAIN t /\ \A e \in E : ~IsPrefix(e, p)
                \/ p \in DOMAIN P /\ \E e \in E : ~Gone(t, P, e) /\ IsPrefix(e, p)
           /\ p \in DOMAIN t2 => t2[p] = IF \E e \in E : IsPrefix(e, p) THEN P[p] ELSE t[p]
  BY PatchedHas
<1>4. \A e : e \in E <=>
         /\ e \in DOMAIN P /\ e \in Path /\ ~Both(t, P, e)
         /\ \A r \in Path : IsPrefix(r, e) /\ r # e => Both(t, P, r)
  BY <1>1, BoundaryIs
<1>5. ASSUME NEW p \in DOMAIN P, \A e \in E : ~IsPrefix(e, p)
      PROVE  Both(t, P, p)
  BY <1>1, <1>5, BoundaryAbove
<1>6. Kind(t2, e0) = "map" /\ Kind(t, e0) = "map" /\ ~Absent(t, e0)
  BY <1>1, <1>2 DEF Kind, Has, Absent
<1> HIDE DEF t2, E, P, e0
<1>7. /\ w = [p \in DOMAIN w |-> w[p]]
      /\ \A p :
           /\ p \in DOMAIN w <=>
                \/ p \in DOMAIN t2 /\ \A f \in F : ~IsPrefix(f, p)
                \/ p \in DOMAIN P /\ \E f \in F : ~Gone(t2, P, f) /\ IsPrefix(f, p)
           /\ p \in DOMAIN w => w[p] = IF \E f \in F : IsPrefix(f, p) THEN P[p] ELSE t2[p]
  BY PatchedHas
<1>8. \A f : f \in F <=>
         /\ f \in DOMAIN P /\ f \in Path /\ ~Both(t2, P, f)
         /\ \A r \in Path : IsPrefix(r, f) /\ r # f => Both(t2, P, r)
  BY <1>1, BoundaryIs
<1> HIDE DEF w, F
<1>9. ASSUME NEW e \in E
      PROVE  ~Gone(t, P, e)
  <2>1. CASE e = e0
    BY <1>6, <2>1 DEF Gone
  <2>2. CASE e # e0
    <3>1. e \in DOMAIN P /\ \A r \in Path : IsPrefix(r, e) /\ r # e => Kind(P, r) = "map"
      BY <1>4 DEF Both
    <3>2. Kind(P, e) # "null"
      BY <1>1, <2>2, <3>1, RepeatableField DEF P, e0
    <3> QED
      BY <3>2 DEF Gone
  <2> QED
    BY <2>1, <2>2
<1>10. ASSUME NEW p \in DOMAIN P, NEW e \in E, IsPrefix(e, p)
       PROVE  p \in DOMAIN t2 /\ t2[p] = P[p]
  BY <1>3, <1>9, <1>10
<1>11. ASSUME NEW f \in F
       PROVE  \E e \in E : IsPrefix(e, f)
  <2> SUFFICES ASSUME \A e \in E : ~IsPrefix(e, f)
               PROVE  FALSE
    OBVIOUS
  <2>1. f \in DOMAIN P /\ ~Both(t2, P, f)
    BY <1>8
  <2>2. Both(t, P, f)
    BY <1>5, <2>1
  <2>3. f \in DOMAIN t
    BY <2>2 DEF Both, Kind, Has
  <2>4. f \in DOMAIN t2 /\ t2[f] = t[f]
    BY <1>3, <2>3
  <2>5. Both(t2, P, f)
    BY <2>2, <2>3, <2>4 DEF Both, Kind, Has
  <2> QED
    BY <2>1, <2>5
<1>12. ASSUME NEW f \in F
       PROVE  ~Gone(t2, P, f)
  <2>1. CASE f = e0
    BY <1>6, <2>1 DEF Gone, Absent
  <2>2. CASE f # e0
    <3>1. f \in DOMAIN P /\ \A r \in Path : IsPrefix(r, f) /\ r # f => Kind(P, r) = "map"
      BY <1>8 DEF Both
    <3>2. Kind(P, f) # "null"
      BY <1>1, <2>2, <3>1, RepeatableField DEF P, e0
    <3> QED
      BY <3>2 DEF Gone
  <2> QED
    BY <2>1, <2>2
<1>13. ASSUME NEW p \in DOMAIN t2, NEW f \in F, IsPrefix(f, p)
       PROVE  p \in DOMAIN P /\ t2[p] = P[p]
  <2>1. PICK e \in E : IsPrefix(e, f)
    BY <1>11
  <2>2. e \in Path /\ f \in Path
    BY <1>4, <1>8
  <2>3. p \in Path
    <3>1. p \in DOMAIN t \/ p \in DOMAIN P
      BY <1>3
    <3>2. DOMAIN t \subseteq Path
      BY TreeHas
    <3> QED
      BY <1>1, <3>1, <3>2
  <2>4. IsPrefix(e, p)
    BY <1>13, <2>1, <2>2, <2>3, PrefixOrder
  <2> QED
    BY <1>3, <2>4
<1>14. ASSUME NEW p \in DOMAIN P, NEW f \in F, IsPrefix(f, p)
       PROVE  p \in DOMAIN t2
  <2>1. PICK e \in E : IsPrefix(e, f)
    BY <1>11
  <2>2. e \in Path /\ f \in Path /\ p \in Path
    BY <1>1, <1>4, <1>8
  <2>3. IsPrefix(e, p)
    BY <1>14, <2>1, <2>2, PrefixOrder
  <2> QED
    BY <1>10, <2>3
<1>15. ASSUME NEW p
       PROVE  p \in DOMAIN w <=> p \in DOMAIN t2
  BY <1>7, <1>12, <1>13, <1>14
<1>16. ASSUME NEW p \in DOMAIN t2
       PROVE  w[p] = t2[p]
  BY <1>7, <1>13, <1>15
<1>17. DOMAIN w = DOMAIN t2
  BY <1>15
<1>18. w = t2
  BY <1>3, <1>7, <1>16, <1>17
<1>19. ~Refused(cmd, t2)
  <2> SUFFICES ASSUME Refused(cmd, t2)
               PROVE  FALSE
    OBVIOUS
  <2>1. PICK p \in DOMAIN P : Stopped(t2, P, p)
    BY PatchRefused DEF P
  <2>2. /\ p # e0 /\ Last(p) \in Positions
        /\ \A r \in Path : IsPrefix(r, p) /\ r # p => Kind(P, r) = "map"
    BY <2>1 DEF Stopped, Both, e0
  <2>3. Last(p) \notin Positions
    BY <1>1, <2>2, RepeatableField DEF P, e0
  <2> QED
    BY <2>2, <2>3
<1> QED
  BY <1>2, <1>18, <1>19 DEF Repeatable

\* Every command that is said to be idempotent.
LEMMA CommandAgain ==
    ASSUME NEW cmd, Asked(cmd), Idempotent(cmd.op), ~Unrepeatable(cmd.patch),
           NEW t, IsTree(t), ~Hopeless(cmd, t), Kind(Result(cmd, t), << >>) = "map"
    PROVE  ~Hopeless(cmd, Result(cmd, t)) /\ Result(cmd, Result(cmd, t)) = Result(cmd, t)
<1>1. CASE ~Selected(t, cmd.match)
  BY <1>1 DEF Result, Hopeless
<1>2. CASE Selected(t, cmd.match)
  <2>1. Result(cmd, t) = Mutated(cmd, t) /\ ~Refused(cmd, t) /\ t[<< >>].kind = "map"
    BY <1>2, SelectedMap DEF Result, Hopeless
  <2>2. Kind(Mutated(cmd, t), << >>) = "map"
    BY <2>1
  <2>3. Repeatable(cmd, t)
    <3>1. cmd.op \in {"label", "annotate", "set-image", "patch", "remove", "scale", "set-namespace"}
      BY DEF Idempotent
    <3>2. CASE cmd.op = "label"
      BY <2>1, <3>2, LabelAgain
    <3>3. CASE cmd.op \in {"annotate", "set-namespace"}
      BY <2>1, <3>3, OneFieldAgain
    <3>4. CASE cmd.op = "scale"
      BY <2>1, <3>4, ScaleAgain
    <3>5. CASE cmd.op = "set-image"
      BY <2>1, <3>5, ImageAgain
    <3>6. CASE cmd.op = "remove"
      BY <2>1, <3>6, RemoveAgain
    <3>7. CASE cmd.op = "patch"
      BY <2>1, <2>2, <3>7, PatchAgain
    <3> QED
      BY <3>1, <3>2, <3>3, <3>4, <3>5, <3>6, <3>7
  <2> DEFINE t2 == Mutated(cmd, t)
  <2>4. ~Refused(cmd, t2) /\ Mutated(cmd, t2) = t2
    BY <2>3 DEF Repeatable
  <2> HIDE DEF t2
  <2>5. ~Hopeless(cmd, t2) /\ Result(cmd, t2) = t2
    BY <2>4 DEF Hopeless, Result
  <2> QED
    BY <2>1, <2>5 DEF t2
<1> QED
  BY <1>1, <1>2

-----------------------------------------------------------------------------
(* Documents without their annotations.                                    *)

\* They are the same everywhere else.
LEMMA OtherPaths ==
    ASSUME NEW t, NEW u, Unannotated(t, u), NEW p, p # annotationsPath
    PROVE  /\ p \in DOMAIN u <=> p \in DOMAIN t
           /\ p \in DOMAIN t => u[p] = t[p]
           /\ Kind(u, p) = Kind(t, p) /\ Value(u, p) = Value(t, p)
           /\ Absent(u, p) <=> Absent(t, p)
<1>1. (p \in DOMAIN u <=> p \in DOMAIN t) /\ (p \in DOMAIN t => u[p] = t[p])
  BY DEF Unannotated
<1>2. Kind(u, p) = Kind(t, p)
  BY <1>1 DEF Kind, Has
<1>3. Value(u, p) = Value(t, p)
  BY <1>1 DEF Value, Has
<1> QED
  BY <1>1, <1>2, <1>3 DEF Absent

\* The annotations of a document are the second of two keys.
LEMMA AnnotationsAre ==
    LET A == annotationsPath
    IN  /\ A \in Path /\ A # << >> /\ Len(A) = 2 /\ A[1] = "metadata" /\ A[2] = "annotations"
        /\ Front(A) # A /\ Front(<< >>) # A
<1> DEFINE A == annotationsPath
           m == "metadata"
           n == "annotations"
<1>1. A \in Path /\ A # << >> /\ Len(A) = 2 /\ A[1] = m /\ A[2] = n
  BY PathsAre DEF annotationsPath
<1> HIDE DEF A
<1>2. Len(Front(A)) = Len(A) - 1
  BY <1>1, PathEnd
<1>3. Front(A) # A
  BY <1>1, <1>2
<1>4. Front(<< >>) # A
  <2>1. Front(<< >>) = << >>
    BY DEF Front
  <2> QED
    BY <1>1, <2>1
<1> QED
  BY <1>1, <1>3, <1>4 DEF A

\* What is the same everywhere else is written without the annotations.
LEMMA DroppedAgain ==
    ASSUME NEW t, IsTree(t), NEW u, Unannotated(t, u), u = [p \in DOMAIN u |-> u[p]],
           NEW w, \A p : p # annotationsPath =>
                    (p \in DOMAIN w <=> p \in DOMAIN t) /\ (p \in DOMAIN w => w[p] = t[p])
    PROVE  YamlWritten(w) = u
<1> DEFINE A == annotationsPath
           v == Without(w, A)
<1>1. A \in Path /\ Front(A) # A /\ Keys(t, A) = {} /\ DOMAIN t \subseteq Path /\ IsPrefix(A, A)
  BY AnnotationsAre, TreeHas, PrefixOrder DEF Unannotated
<1>2. \A p : p # A => (p \in DOMAIN w <=> p \in DOMAIN t) /\ (p \in DOMAIN w => w[p] = t[p])
  OBVIOUS
<1>3. \A p : (p \in DOMAIN u <=> p \in DOMAIN t /\ p # A) /\ (p \in DOMAIN u => u[p] = t[p])
  BY DEF Unannotated
<1>0. YamlWritten(w) = IF Keys(w, A) = {} THEN v ELSE w
  BY DEF YamlWritten
<1>4. v = [p \in {q \in DOMAIN w : ~IsPrefix(A, q)} |-> w[p]]
  BY DEF Without
<1> HIDE DEF A, v
<1>5. Keys(w, A) = {}
  <2> SUFFICES ASSUME NEW q \in DOMAIN w, q # << >>, Front(q) = A
               PROVE  FALSE
    BY DEF Keys
  <2>1. q \in DOMAIN t
    BY <1>1, <1>2
  <2>2. Last(q) \in Keys(t, A)
    BY <2>1 DEF Keys
  <2> QED
    BY <1>1, <2>2
<1>6. ASSUME NEW p
      PROVE  p \in DOMAIN w /\ ~IsPrefix(A, p) <=> p \in DOMAIN u
  <2>1. CASE p = A
    BY <1>1, <1>3, <2>1
  <2>2. CASE p # A
    <3>1. p \in DOMAIN t => ~IsPrefix(A, p)
      BY <1>1, <2>2, PathBelow
    <3> QED
      BY <1>2, <1>3, <2>2, <3>1
  <2> QED
    BY <2>1, <2>2
<1>7. DOMAIN v = DOMAIN u
  BY <1>4, <1>6
<1>8. ASSUME NEW p \in DOMAIN u
      PROVE  v[p] = u[p]
  BY <1>2, <1>3, <1>4, <1>6
<1>9. v = u
  BY <1>4, <1>7, <1>8
<1> QED
  BY <1>0, <1>5, <1>9

\* No command is for a document that it was not for with its annotations.
LEMMA UnannotatedScope ==
    ASSUME NEW t, IsTree(t), NEW u, IsTree(u), Unannotated(t, u), NEW opts, Selected(u, opts)
    PROVE  Selected(t, opts)
<1> DEFINE A == annotationsPath
           L == <<"metadata", "labels">>
           e0 == << >>
<1>1. /\ A \in Path /\ Len(A) = 2 /\ A[2] = "annotations" /\ A # e0
      /\ L \in Path /\ Len(L) = 2 /\ L[2] = "labels" /\ e0 \in Path
  BY AnnotationsAre, PathsAre DEF Path
<1>2. ASSUME NEW p, p # A
      PROVE  /\ p \in DOMAIN u <=> p \in DOMAIN t
             /\ Kind(u, p) = Kind(t, p) /\ Value(u, p) = Value(t, p)
  BY <1>2, OtherPaths
<1>3. \A k \in {"apiVersion", "kind", "metadata"} : <<k>> # A
  BY <1>1
<1>4. <<"metadata", "name">> # A /\ <<"metadata", "namespace">> # A
  BY <1>1
<1> HIDE DEF A, L, e0
<1>5. \A k \in STRING : Append(L, k) \in Path /\ Append(L, k) # A
  <2> TAKE k \in STRING
  <2>1. Append(L, k) \in Path /\ Len(Append(L, k)) = Len(L) + 1
    BY <1>1, PathStep
  <2> QED
    BY <1>1, <2>1
<1>6. ASSUME NEW p, p # A
      PROVE  Filled(u, p) => Filled(t, p)
  <2>1. Keys(u, p) \subseteq Keys(t, p)
    <3>1. \A q \in DOMAIN u : q \in DOMAIN t
      BY DEF Unannotated
    <3> QED
      BY <3>1 DEF Keys
  <2> QED
    BY <1>2, <1>6, <2>1 DEF Filled, Has
<1>7. Keys(u, L) = Keys(t, L)
  <2>1. /\ Keys(u, L) = {k \in STRING : Append(L, k) \in DOMAIN u}
        /\ Keys(t, L) = {k \in STRING : Append(L, k) \in DOMAIN t}
    BY <1>1, KeysAre
  <2>2. \A k \in STRING : Append(L, k) \in DOMAIN u <=> Append(L, k) \in DOMAIN t
    BY <1>2, <1>5
  <2> QED
    BY <2>1, <2>2
<1>8. {<<k, Value(u, Append(L, k))>> : k \in Keys(u, L)}
        = {<<k, Value(t, Append(L, k))>> : k \in Keys(t, L)}
  <2>1. Keys(t, L) \subseteq STRING
    BY <1>1, KeysAre
  <2>2. \A k \in Keys(t, L) : Value(u, Append(L, k)) = Value(t, Append(L, k))
    BY <1>2, <1>5, <2>1
  <2> QED
    BY <1>7, <2>2
<1> DEFINE d == GetMeta(u)
           c == GetMeta(t)
<1>9. d.form = c.form
  BY <1>1, <1>2 DEF GetMeta, e0
<1>10. d.group = c.group /\ d.kind = c.kind /\ d.name = c.name /\ d.ns = c.ns
  BY <1>2, <1>3, <1>4 DEF GetMeta
<1>11. d.labels = c.labels
  BY <1>8 DEF GetMeta, L
<1>12. d.hasMeta => c.hasMeta
  <2>1. \A k \in {"apiVersion", "kind", "metadata"} : Filled(u, <<k>>) => Filled(t, <<k>>)
    BY <1>3, <1>6
  <2>2. /\ d.hasMeta <=> \E k \in {"apiVersion", "kind", "metadata"} : Filled(u, <<k>>)
        /\ c.hasMeta <=> \E k \in {"apiVersion", "kind", "metadata"} : Filled(t, <<k>>)
    BY DEF GetMeta
  <2> QED
    BY <2>1, <2>2
<1> HIDE DEF c, d
<1>13. Readable(d) => Readable(c)
  BY <1>9, <1>12 DEF Readable
<1>14. matches(d, opts) = matches(c, opts)
  BY <1>10, <1>11 DEF matches, ResourceMatches
<1>15. Match(d, opts, "and") <=> Match(c, opts, "and")
  BY <1>14 DEF Match
<1> QED
  BY <1>13, <1>15 DEF Selected, c, d

\* A mapping that gets a field, and the field, are not the annotations.
Beside(m, key) == annotationsPath \notin PrefixesOf(m) /\ Append(m, key) # annotationsPath

\* It is as open without them.
LEMMA BesideKinds ==
    ASSUME NEW t, NEW u, Unannotated(t, u), NEW m, NEW key, Beside(m, key)
    PROVE  /\ \A r \in PrefixesOf(m) : Kind(u, r) = Kind(t, r)
           /\ Blocked(u, m) <=> Blocked(t, m)
           /\ Barring(u, m) <=> Barring(t, m)
<1>1. \A r \in PrefixesOf(m) : Kind(u, r) = Kind(t, r)
  BY OtherPaths DEF Beside
<1> QED
  BY <1>1 DEF Blocked, Barring

\* What the fields were set in stays as it is without the annotations.
LEMMA FieldsUnannotated ==
    ASSUME NEW t, NEW u, Unannotated(t, u), u = [p \in DOMAIN u |-> u[p]],
           NEW M, NEW key, NEW value, \A m \in M : Beside(m, key),
           WithFields(t, M, key, value) = t
    PROVE  WithFields(u, M, key, value) = u
<1> DEFINE A == annotationsPath
           w == WithFields(u, M, key, value)
<1>1. \A r :
        /\ r \in DOMAIN t <=>
             \/ r \in DOMAIN t /\ \A m \in M : ~Blocked(t, m) => ~IsPrefix(Append(m, key), r)
             \/ \E m \in M : /\ ~Blocked(t, m)
                             /\ \/ r \in PrefixesOf(m) /\ r \notin DOMAIN t
                                \/ r = Append(m, key)
        /\ r \in DOMAIN t =>
             t[r] = IF \E m \in M : ~Blocked(t, m) /\ r = Append(m, key) THEN Scalar(value)
                    ELSE IF r \in DOMAIN t THEN t[r] ELSE Bare("map")
  BY FieldsAt
<1>2. /\ w = [r \in DOMAIN w |-> w[r]]
      /\ \A r :
           /\ r \in DOMAIN w <=>
                \/ r \in DOMAIN u /\ \A m \in M : ~Blocked(u, m) => ~IsPrefix(Append(m, key), r)
                \/ \E m \in M : /\ ~Blocked(u, m)
                                /\ \/ r \in PrefixesOf(m) /\ r \notin DOMAIN u
                                   \/ r = Append(m, key)
           /\ r \in DOMAIN w =>
                w[r] = IF \E m \in M : ~Blocked(u, m) /\ r = Append(m, key) THEN Scalar(value)
                       ELSE IF r \in DOMAIN u THEN u[r] ELSE Bare("map")
  BY FieldsAt
<1>3. \A m \in M : Blocked(u, m) <=> Blocked(t, m)
  BY BesideKinds
<1>4. \A m \in M : A \notin PrefixesOf(m) /\ A # Append(m, key)
  BY DEF Beside
<1>5. \A r : /\ r \in DOMAIN u <=> r \in DOMAIN t /\ r # A
             /\ r \in DOMAIN u => u[r] = t[r]
  BY DEF Unannotated
<1> HIDE DEF w, A
<1>6. ASSUME NEW r
      PROVE  r \in DOMAIN w <=> r \in DOMAIN u
  <2>1. CASE r = A
    BY <1>2, <1>4, <1>5, <2>1
  <2>2. CASE r # A
    <3>1. r \in DOMAIN w <=>
             \/ r \in DOMAIN t /\ \A m \in M : ~Blocked(t, m) => ~IsPrefix(Append(m, key), r)
             \/ \E m \in M : /\ ~Blocked(t, m)
                             /\ \/ r \in PrefixesOf(m) /\ r \notin DOMAIN t
                                \/ r = Append(m, key)
      BY <1>2, <1>3, <1>5, <2>2
    <3>2. r \in DOMAIN w <=> r \in DOMAIN t
      BY <1>1, <3>1
    <3> QED
      BY <1>5, <2>2, <3>2
  <2> QED
    BY <2>1, <2>2
<1>7. ASSUME NEW r \in DOMAIN u
      PROVE  w[r] = u[r]
  <2>1. w[r] = IF \E m \in M : ~Blocked(t, m) /\ r = Append(m, key) THEN Scalar(value) ELSE t[r]
    BY <1>2, <1>3, <1>5, <1>6
  <2>2. t[r] = IF \E m \in M : ~Blocked(t, m) /\ r = Append(m, key) THEN Scalar(value) ELSE t[r]
    BY <1>1, <1>5
  <2> QED
    BY <1>5, <2>1, <2>2
<1>8. DOMAIN w = DOMAIN u
  BY <1>6
<1>9. w = u
  BY <1>2, <1>7, <1>8
<1> QED
  BY <1>9 DEF w

\* Paths that begin with another key are not the annotations,
LEMMA OtherKey ==
    ASSUME NEW m \in Path, m # << >>, m[1] # "metadata", NEW key \in STRING
    PROVE  Beside(m, key)
<1>1. annotationsPath \notin Beginning(m[1])
  BY AnnotationsAre DEF Beginning
<1>2. PrefixesOf(m) \subseteq Beginning(m[1]) /\ Append(m, key) \in Beginning(m[1])
  BY FirstKey
<1> QED
  BY <1>1, <1>2 DEF Beside

\* nor are the labels and the namespace.
LEMMA OtherMetadata ==
    /\ \A key \in STRING : Beside(<<"metadata", "labels">>, key)
    /\ Beside(<<"metadata">>, "namespace")
<1> DEFINE A == annotationsPath
           L == <<"metadata", "labels">>
           m == <<"metadata">>
<1>1. A \in Path /\ Len(A) = 2 /\ A[2] = "annotations"
  BY AnnotationsAre
<1>2. L \in Path /\ m \in Path /\ Len(L) = 2 /\ L[2] = "labels" /\ Len(m) = 1
  BY PathsAre
<1>3. Append(m, "namespace")[2] = "namespace"
  BY <1>2, PathAppend, PathsAre
<1>4. "annotations" # "labels" /\ "annotations" # "namespace"
  OBVIOUS
<1> HIDE DEF A, L, m
<1>5. ~IsPrefix(A, L) /\ ~IsPrefix(A, m)
  BY <1>1, <1>2, <1>4, PrefixIs
<1>6. A \notin PrefixesOf(L) /\ A \notin PrefixesOf(m)
  BY <1>2, <1>5, PrefixesAre
<1>7. \A key \in STRING : Append(L, key) # A
  <2> TAKE key \in STRING
  <2>1. Len(Append(L, key)) = Len(L) + 1
    BY <1>2, PathStep
  <2> QED
    BY <1>1, <1>2, <2>1
<1>8. Append(m, "namespace") # A
  BY <1>1, <1>3, <1>4
<1> QED
  BY <1>6, <1>7, <1>8 DEF Beside, A, L, m

\* The mappings that get a field are the same without the annotations.
LEMMA TargetsUnannotated ==
    ASSUME NEW t, IsTree(t), NEW u, Unannotated(t, u), NEW cmd, Asked(cmd),
           cmd.op \in {"label", "set-namespace", "scale", "set-image"}
    PROVE  /\ Targets(cmd, u) = Targets(cmd, t)
           /\ \A m \in Targets(cmd, t) : Beside(m, FieldOf(cmd))
<1> DEFINE L == <<"metadata", "labels">>
           n == <<"spec", "template", "metadata", "labels">>
           e == <<"spec">>
<1>1. /\ n \in Path /\ n # << >> /\ n[1] # "metadata" /\ e \in Path /\ e # << >> /\ e[1] # "metadata"
      /\ {"namespace", "name", "replicas", "image"} \subseteq STRING \ Positions
  BY PathsAre
<1>2. annotationsPath # <<"kind">> /\ annotationsPath # e
  <2>1. Len(annotationsPath) = 2
    BY AnnotationsAre
  <2> QED
    BY <2>1
<1>3. CASE cmd.op = "label"
  <2>1. Value(u, <<"kind">>) = Value(t, <<"kind">>)
    BY <1>2, OtherPaths
  <2>2. Targets(cmd, u) = Targets(cmd, t)
    BY <1>3, <2>1 DEF Targets
  <2>3. FieldOf(cmd) = cmd.key /\ cmd.key \in STRING /\ Targets(cmd, t) \subseteq {L, n}
    BY <1>3 DEF FieldOf, Asked, Targets
  <2>4. Beside(L, cmd.key) /\ Beside(n, cmd.key)
    BY <1>1, <2>3, OtherKey, OtherMetadata
  <2> HIDE DEF L, n
  <2> QED
    BY <2>2, <2>3, <2>4
<1>4. CASE cmd.op = "set-namespace"
  BY <1>4, OtherMetadata DEF Targets, FieldOf
<1>5. CASE cmd.op = "scale"
  <2>1. Absent(u, e) <=> Absent(t, e)
    BY <1>2, OtherPaths
  <2>2. Targets(cmd, u) = Targets(cmd, t) /\ Targets(cmd, t) \subseteq {e} /\ FieldOf(cmd) = "replicas"
    BY <1>5, <2>1 DEF Targets, FieldOf
  <2>3. Beside(e, "replicas")
    BY <1>1, OtherKey
  <2> HIDE DEF e
  <2> QED
    BY <2>2, <2>3
<1>6. CASE cmd.op = "set-image"
  <2>1. \A c \in ToSet(containerPaths) : c \in Path /\ c # << >> /\ c[1] = "spec"
    <3>1. \A c \in ToSet(containerPaths) : c # << >> /\ c[1] = "spec"
      BY DEF ToSet, containerPaths
    <3> QED
      BY <3>1, ContainerPathsAre
  <2>2. FieldOf(cmd) = "image"
    BY <1>6 DEF FieldOf
  <2>3. ASSUME NEW c \in ToSet(containerPaths), NEW k \in Positions, Append(c, k) \in Path
        PROVE  LET m == Append(c, k)
               IN  m # annotationsPath /\ Append(m, "name") # annotationsPath /\ Beside(m, "image")
    <3> DEFINE m == Append(c, k)
               A == annotationsPath
    <3>1. k \in STRING
      BY <2>1, <2>3, ItemPath
    <3>2. m \in Path /\ m # << >> /\ m[1] = "spec"
      <4>1. Len(c) \in Nat \ {0}
        BY <2>1, PathEnd
      <4>2. \A i \in 1..Len(c) : m[i] = c[i]
        BY <2>1, <3>1, PathAppend
      <4>3. m \in Path /\ m # << >>
        BY <2>1, <3>1, PathStep
      <4>4. 1 \in 1..Len(c)
        BY <4>1
      <4> HIDE DEF m
      <4> QED
        BY <2>1, <4>2, <4>3, <4>4
    <3>3. A[1] = "metadata"
      BY AnnotationsAre
    <3>4. Append(m, "name")[1] = "spec"
      <4>1. \A i \in 1..Len(m) : Append(m, "name")[i] = m[i]
        BY <1>1, <3>2, PathAppend
      <4>2. 1 \in 1..Len(m)
        BY <3>2, PathEnd
      <4> HIDE DEF m
      <4> QED
        BY <3>2, <4>1, <4>2
    <3>5. Beside(m, "image")
      BY <1>1, <3>2, OtherKey
    <3> HIDE DEF m, A
    <3>6. m # A /\ Append(m, "name") # A
      BY <3>2, <3>3, <3>4
    <3> QED
      BY <3>5, <3>6 DEF m, A
  <2>4. ASSUME NEW m
        PROVE  m \in Targets(cmd, u) <=> m \in Targets(cmd, t)
    <3> DEFINE q == Append(m, "name")
    <3>1. ASSUME NEW v
          PROVE  m \in Targets(cmd, v) <=>
                   /\ m \in DOMAIN v
                   /\ ~Absent(v, q) /\ v[q].text = cmd.key
                   /\ \E c \in ToSet(containerPaths), k \in Positions : m = Append(c, k)
      BY <1>6, ImageTargets
    <3>2. DOMAIN t \subseteq Path /\ \A r \in DOMAIN u : r \in DOMAIN t
      BY TreeHas DEF Unannotated
    <3>3. CASE m \in Path /\ \E c \in ToSet(containerPaths), k \in Positions : m = Append(c, k)
      <4>1. m # annotationsPath /\ q # annotationsPath
        BY <2>3, <3>3
      <4>2. (m \in DOMAIN u <=> m \in DOMAIN t) /\ (Absent(u, q) <=> Absent(t, q))
            /\ (q \in DOMAIN t => u[q] = t[q])
        BY <4>1, OtherPaths
      <4>3. ~Absent(t, q) => q \in DOMAIN t
        BY DEF Absent, Kind, Has
      <4> HIDE DEF q
      <4> QED
        BY <3>1, <4>2, <4>3
    <3>4. CASE ~(m \in Path /\ \E c \in ToSet(containerPaths), k \in Positions : m = Append(c, k))
      <4> HIDE DEF q
      <4> QED
        BY <3>1, <3>2, <3>4
    <3> QED
      BY <3>3, <3>4
  <2>5. Targets(cmd, u) = Targets(cmd, t)
    BY <2>4
  <2>6. ASSUME NEW m \in Targets(cmd, t)
        PROVE  Beside(m, "image")
    <3>1. m \in Path /\ \E c \in ToSet(containerPaths), k \in Positions : m = Append(c, k)
      BY <1>6, ImageTarget
    <3> QED
      BY <2>3, <3>1
  <2> QED
    BY <2>2, <2>5, <2>6
<1> QED
  BY <1>3, <1>4, <1>5, <1>6

\* So these commands do to a document what they do to it with its annotations: nothing.
LEMMA SetUnannotated ==
    ASSUME NEW t, IsTree(t), NEW u, IsTree(u), Unannotated(t, u), NEW cmd, Asked(cmd),
           cmd.op \in {"label", "set-namespace", "scale", "set-image"},
           ~Refused(cmd, t), Mutated(cmd, t) = t
    PROVE  ~Refused(cmd, u) /\ Mutated(cmd, u) = u
<1> DEFINE M == Targets(cmd, t)
           k == FieldOf(cmd)
           v == cmd.value
<1>1. Targets(cmd, u) = M /\ \A m \in M : Beside(m, k)
  BY TargetsUnannotated
<1>2. ASSUME NEW x
      PROVE  Mutated(cmd, x) = WithFields(x, Targets(cmd, x), k, v)
  BY DEF Mutated, ValueOf
<1>3. u = [p \in DOMAIN u |-> u[p]]
  BY TreeHas
<1>4. Mutated(cmd, u) = u
  <2> HIDE DEF M, k, v
  <2>1. WithFields(t, M, k, v) = t
    BY <1>2 DEF M
  <2>2. WithFields(u, M, k, v) = u
    BY <1>1, <1>3, <2>1, FieldsUnannotated
  <2> QED
    BY <1>1, <1>2, <2>2
<1>5. \A m \in M : \A r \in PrefixesOf(m) : Kind(u, r) = Kind(t, r)
  BY <1>1, BesideKinds
<1>6. \A c \in ToSet(containerPaths) : Kind(u, c) = Kind(t, c)
  <2>1. \A c \in ToSet(containerPaths) : Len(c) # 2 \/ c[1] = "spec"
    BY DEF ToSet, containerPaths
  <2>2. \A c \in ToSet(containerPaths) : c # annotationsPath
    BY <2>1, AnnotationsAre
  <2> QED
    BY <2>2, OtherPaths
<1> HIDE DEF M
<1>7. ~Refused(cmd, u)
  BY <1>1, <1>5, <1>6 DEF Refused, M
<1> QED
  BY <1>4, <1>7

\* Nor is anything removed that was not.
LEMMA RemoveUnannotated ==
    ASSUME NEW t, IsTree(t), NEW u, IsTree(u), Unannotated(t, u), NEW cmd, Asked(cmd),
           cmd.op = "remove", Mutated(cmd, t) = t
    PROVE  ~Refused(cmd, u) /\ Mutated(cmd, u) = u
<1> DEFINE p == cmd.path
           A == annotationsPath
<1>1. p \in Path /\ A \notin DOMAIN u
  BY DEF Asked, Path, Unannotated
<1>2. ASSUME NEW x
      PROVE  /\ Mutated(cmd, x) = IF Leads(x, p) THEN Without(x, p) ELSE x
             /\ Refused(cmd, x) => Leads(x, p)
  BY DEF Mutated, Refused, Targets
<1>3. \A x : Leads(x, p) <=>
        /\ ~Absent(x, p)
        /\ \A n \in 1..Len(p) : p[n] \in Positions <=> Kind(x, SubSeq(p, 1, n - 1)) = "list"
  BY DEF Leads
<1> HIDE DEF p, A
<1>4. ~Leads(u, p)
  <2> SUFFICES ASSUME Leads(u, p)
               PROVE  FALSE
    OBVIOUS
  <2>1. p \in DOMAIN u
    BY DEF Leads, Absent, Kind, Has
  <2>2. \A r \in Path : IsPrefix(r, p) => r # A
    BY <1>1, <2>1, TreeDown
  <2>3. \A n \in 1..Len(p) : SubSeq(p, 1, n - 1) # A
    <3>1. {SubSeq(p, 1, n) : n \in 0..Len(p)} = {r \in Path : IsPrefix(r, p)}
      BY <1>1, PrefixesAre
    <3> DEFINE S == {SubSeq(p, 1, n) : n \in 0..Len(p)}
    <3>2. A \notin S
      BY <2>2, <3>1
    <3>3. \A n \in 0..Len(p) : SubSeq(p, 1, n) \in S
      OBVIOUS
    <3>4. \A n \in 1..Len(p) : n - 1 \in 0..Len(p)
      BY <1>1, LenProperties DEF Path
    <3> HIDE DEF S
    <3> QED
      BY <3>2, <3>3, <3>4
  <2>4. p # A
    BY <1>1, <2>1
  <2>5. \A n \in 1..Len(p) : Kind(u, SubSeq(p, 1, n - 1)) = Kind(t, SubSeq(p, 1, n - 1))
    BY <2>3, OtherPaths DEF A
  <2>6. Leads(t, p) /\ p \in DOMAIN t
    BY <1>3, <2>1, <2>4, <2>5, OtherPaths DEF A
  <2>7. t = Without(t, p)
    BY <1>2, <2>6
  <2>8. p \notin DOMAIN Without(t, p)
    BY <1>1, PrefixOrder DEF Without
  <2> QED
    BY <2>6, <2>7, <2>8
<1> QED
  BY <1>2, <1>4

\* Only annotate makes annotations: where there were none it fails no more than before,
\* and what is above them stays what it is.
LEMMA AnnotateUnannotated ==
    ASSUME NEW t, IsTree(t), NEW u, IsTree(u), Unannotated(t, u), NEW cmd, Asked(cmd),
           cmd.op = "annotate", ~Refused(cmd, t), YamlWrites(t), Kind(t, << >>) = "map"
    PROVE  /\ ~Refused(cmd, u)
           /\ YamlWrites(Mutated(cmd, u)) /\ Kind(Mutated(cmd, u), << >>) = "map"
<1> DEFINE A == annotationsPath
           m == <<"metadata">>
           k == cmd.key
           w == WithFields(u, {A}, k, cmd.value)
           e0 == << >>
<1>1. A \in Path /\ A # e0 /\ m \in Path /\ m # A /\ e0 # A /\ e0 \in Path /\ k \in STRING
  <2>1. Len(m) = 1 /\ Len(e0) = 0
    OBVIOUS
  <2>2. e0 \in Path
    BY DEF Path
  <2>3. m \in Path
    BY PathsAre
  <2>4. k \in STRING
    BY DEF Asked
  <2>5. A \in Path /\ A # e0 /\ Len(A) = 2
    BY AnnotationsAre
  <2> HIDE DEF A, m, k, e0
  <2>6. m # A /\ e0 # A
    BY <2>1, <2>5
  <2> QED
    BY <2>2, <2>3, <2>4, <2>5, <2>6
<1>2. ASSUME NEW x
      PROVE  (Refused(cmd, x) <=> Barring(x, A)) /\ Mutated(cmd, x) = WithFields(x, {A}, k, cmd.value)
  <2>1. Targets(cmd, x) = {A}
    BY DEF Targets, annotationsPath
  <2> HIDE DEF A
  <2>2. FieldOf(cmd) = k /\ ValueOf(cmd, x) = cmd.value
    BY DEF FieldOf, ValueOf
  <2> HIDE DEF k, A
  <2>3. Refused(cmd, x) <=> Barring(x, A)
    BY <2>1 DEF Refused, Barring
  <2>4. Mutated(cmd, x) = WithFields(x, {A}, FieldOf(cmd), ValueOf(cmd, x))
    BY <2>1 DEF Mutated
  <2> QED
    BY <2>2, <2>3, <2>4
<1>3. m \in PrefixesOf(A) /\ A \in PrefixesOf(A)
  <2>1. PrefixesOf(A) = {r \in Path : r # << >> /\ IsPrefix(r, A)}
    BY <1>1, PrefixesAre
  <2>2. IsPrefix(A, A)
    BY <1>1, PrefixOrder
  <2>3. Len(m) = 1 /\ m[1] = "metadata" /\ m # << >>
    OBVIOUS
  <2>4. Len(A) = 2 /\ A[1] = "metadata"
    BY AnnotationsAre
  <2> HIDE DEF A, m
  <2>5. IsPrefix(m, A)
    <3>1. \A i \in 1..Len(m) : m[i] = A[i]
      BY <2>3, <2>4
    <3>2. m \in Path /\ A \in Path /\ Len(m) <= Len(A)
      BY <1>1, <2>3, <2>4
    <3>3. IsPrefix(m, A) <=> Len(m) <= Len(A) /\ \A i \in 1..Len(m) : m[i] = A[i]
      BY <3>2, PrefixIs
    <3> QED
      BY <3>1, <3>2, <3>3
  <2> QED
    BY <1>1, <2>1, <2>2, <2>3, <2>5
<1>4. A \notin DOMAIN u /\ Kind(u, A) = "missing"
  BY DEF Unannotated, Kind, Has
<1>5. Kind(u, m) = Kind(t, m) /\ Kind(u, e0) = "map"
  BY <1>1, OtherPaths
<1>6. \A r \in PrefixesOf(A) : r # A => Kind(u, r) = Kind(t, r)
  BY OtherPaths
<1>7. Kind(t, m) \in {"missing", "null", "map"}
  BY DEF YamlWrites
<1> HIDE DEF A, m, k
<1>8. ~Refused(cmd, u)
  BY <1>2, <1>4, <1>6 DEF Barring
<1>9. SetAgain(u, {A}, k, cmd.value)
  <2>1. ~IsPrefix(Append(A, k), A)
    BY <1>1, PrefixOfNext
  <2> QED
    BY <1>1, <2>1, FieldsAgain
<1>10. \A r \in PrefixesOf(A) :
         Kind(w, r) = Kind(u, r) \/ (Kind(u, r) = "missing" /\ Kind(w, r) = "map")
  BY <1>9 DEF SetAgain
<1>11. Kind(w, m) \in {"missing", "null", "map"} /\ Kind(w, A) \in {"missing", "null", "map"}
  BY <1>3, <1>4, <1>5, <1>7, <1>10
<1>12. Kind(w, e0) = "map"
  <2>1. ~IsPrefix(Append(A, k), e0) /\ e0 # Append(A, k)
    BY <1>1, PathStep, PrefixOrder
  <2>2. e0 \in DOMAIN u /\ u[e0].kind = "map"
    BY <1>5 DEF Kind, Has
  <2>3. /\ e0 \in DOMAIN w
        /\ w[e0] = IF \E n \in {A} : ~Blocked(u, n) /\ e0 = Append(n, k) THEN Scalar(cmd.value)
                   ELSE IF e0 \in DOMAIN u THEN u[e0] ELSE Bare("map")
    <3> HIDE DEF w, e0
    <3>1. /\ e0 \in DOMAIN w <=>
               \/ e0 \in DOMAIN u /\ \A n \in {A} : ~Blocked(u, n) => ~IsPrefix(Append(n, k), e0)
               \/ \E n \in {A} : /\ ~Blocked(u, n)
                                 /\ \/ e0 \in PrefixesOf(n) /\ e0 \notin DOMAIN u
                                    \/ e0 = Append(n, k)
          /\ e0 \in DOMAIN w =>
               w[e0] = IF \E n \in {A} : ~Blocked(u, n) /\ e0 = Append(n, k) THEN Scalar(cmd.value)
                       ELSE IF e0 \in DOMAIN u THEN u[e0] ELSE Bare("map")
      BY FieldsAt DEF w
    <3> QED
      BY <2>1, <2>2, <3>1
  <2> HIDE DEF w, e0
  <2> QED
    BY <2>1, <2>2, <2>3 DEF Kind, Has
<1>13. YamlWrites(w)
  <2> HIDE DEF w
  <2> QED
    BY <1>11, <1>12 DEF YamlWrites, A, m
<1> QED
  BY <1>2, <1>8, <1>12, <1>13

\* A patch may have annotations, with nothing below them.
LEMMA PatchUnannotated ==
    ASSUME NEW t, IsTree(t), NEW u, IsTree(u), Unannotated(t, u), Kind(t, << >>) = "map",
           NEW cmd, Asked(cmd), cmd.op = "patch", ~Unrepeatable(cmd.patch), Mutated(cmd, t) = t
    PROVE  LET w == Mutated(cmd, u)
           IN  /\ ~Refused(cmd, u)
               /\ \A p : p # annotationsPath =>
                    (p \in DOMAIN w <=> p \in DOMAIN t) /\ (p \in DOMAIN w => w[p] = t[p])
               /\ Kind(w, annotationsPath) \in {"missing", Kind(t, annotationsPath)}
<1> DEFINE P  == cmd.patch
           A  == annotationsPath
           E  == Boundary(t, P)
           F  == Boundary(u, P)
           v  == Patched(t, P, E)
           w  == Patched(u, P, F)
           e0 == << >>
<1>1. /\ IsTree(P) /\ DOMAIN P \subseteq Path /\ e0 \in DOMAIN P /\ e0 \in Path
      /\ DOMAIN t \subseteq Path /\ A \in Path /\ e0 # A
  BY TreeHas, AnnotationsAre DEF Asked, Path
<1>2. Mutated(cmd, t) = v /\ Mutated(cmd, u) = w /\ v = t
  BY DEF Mutated, Merged, Patched
<1>3. \A p :
        /\ p \in DOMAIN v <=>
             \/ p \in DOMAIN t /\ \A e \in E : ~IsPrefix(e, p)
             \/ p \in DOMAIN P /\ \E e \in E : ~Gone(t, P, e) /\ IsPrefix(e, p)
        /\ p \in DOMAIN v => v[p] = IF \E e \in E : IsPrefix(e, p) THEN P[p] ELSE t[p]
  BY PatchedHas
<1>4. \A p :
        /\ p \in DOMAIN w <=>
             \/ p \in DOMAIN u /\ \A f \in F : ~IsPrefix(f, p)
             \/ p \in DOMAIN P /\ \E f \in F : ~Gone(u, P, f) /\ IsPrefix(f, p)
        /\ p \in DOMAIN w => w[p] = IF \E f \in F : IsPrefix(f, p) THEN P[p] ELSE u[p]
  BY PatchedHas
<1>5. \A e : e \in E <=>
         /\ e \in DOMAIN P /\ e \in Path /\ ~Both(t, P, e)
         /\ \A r \in Path : IsPrefix(r, e) /\ r # e => Both(t, P, r)
  BY <1>1, BoundaryIs
<1>6. \A f : f \in F <=>
         /\ f \in DOMAIN P /\ f \in Path /\ ~Both(u, P, f)
         /\ \A r \in Path : IsPrefix(r, f) /\ r # f => Both(u, P, r)
  BY <1>1, BoundaryIs
<1>7. \A p \in DOMAIN P : (\A e \in E : ~IsPrefix(e, p)) => Both(t, P, p)
  BY <1>1, BoundaryAbove
<1>8. /\ Kind(t, e0) = "map" /\ ~Absent(t, e0) /\ ~Absent(u, e0)
      /\ \A p : p # A => /\ p \in DOMAIN u <=> p \in DOMAIN t
                         /\ p \in DOMAIN t => u[p] = t[p]
                         /\ Kind(u, p) = Kind(t, p)
      /\ A \notin DOMAIN u /\ Keys(t, A) = {}
  <2>1. \A p : p # A => /\ p \in DOMAIN u <=> p \in DOMAIN t
                        /\ p \in DOMAIN t => u[p] = t[p]
                        /\ Kind(u, p) = Kind(t, p)
    BY OtherPaths
  <2> QED
    BY <1>1, <2>1 DEF Absent, Unannotated
<1> HIDE DEF P, A, E, F, v, w, e0
<1>9. ASSUME NEW x, ~Absent(x, e0), NEW e \in DOMAIN P,
             \A r \in Path : IsPrefix(r, e) /\ r # e => Kind(P, r) = "map"
      PROVE  ~Gone(x, P, e)
  <2>1. CASE e = e0
    BY <1>9, <2>1 DEF Gone
  <2>2. CASE e # e0
    <3>1. Kind(P, e) # "null"
      BY <1>1, <1>9, <2>2, RepeatableField DEF P, e0
    <3> QED
      BY <3>1 DEF Gone
  <2> QED
    BY <2>1, <2>2
<1>10. \A e \in E : ~Gone(t, P, e)
  BY <1>5, <1>8, <1>9 DEF Both
<1>11. \A f \in F : ~Gone(u, P, f)
  BY <1>6, <1>8, <1>9 DEF Both
<1>12. ASSUME NEW p \in DOMAIN P
       PROVE  p \in DOMAIN t /\ t[p].kind = P[p].kind
  <2>1. CASE \E e \in E : IsPrefix(e, p)
    BY <1>2, <1>3, <1>10, <2>1
  <2>2. CASE ~\E e \in E : IsPrefix(e, p)
    BY <1>7, <2>2 DEF Both, Kind, Has
  <2> QED
    BY <2>1, <2>2
<1>13. ASSUME NEW p, p \in DOMAIN P \/ p \in DOMAIN t, IsPrefix(A, p)
       PROVE  p = A
  <2>1. p \in DOMAIN t
    BY <1>12, <1>13
  <2> QED
    BY <1>1, <1>8, <1>13, <2>1, PathBelow
<1>14. \A p : p # A => (Both(u, P, p) <=> Both(t, P, p))
  BY <1>8 DEF Both
<1>15. ASSUME NEW f, f # A
       PROVE  f \in F <=> f \in E
  <2>1. CASE f \in DOMAIN P
    <3>1. \A r \in Path : IsPrefix(r, f) /\ r # f => r # A
      BY <1>13, <1>15, <2>1
    <3> QED
      BY <1>5, <1>6, <1>14, <1>15, <3>1
  <2>2. CASE f \notin DOMAIN P
    BY <1>5, <1>6, <2>2
  <2> QED
    BY <2>1, <2>2
<1>16. ASSUME NEW p, p # A, p \in DOMAIN P \/ p \in DOMAIN t
       PROVE  (\E f \in F : IsPrefix(f, p)) <=> \E e \in E : IsPrefix(e, p)
  <2>1. ~IsPrefix(A, p)
    BY <1>13, <1>16
  <2> QED
    BY <1>15, <2>1
<1>17. ASSUME NEW p, p # A
       PROVE  (p \in DOMAIN w <=> p \in DOMAIN t) /\ (p \in DOMAIN w => w[p] = t[p])
  <2>1. CASE p \in DOMAIN P \/ p \in DOMAIN t
    <3> DEFINE a == \E e \in E : IsPrefix(e, p)
    <3>1. (\E f \in F : IsPrefix(f, p)) <=> a
      BY <1>16, <1>17, <2>1
    <3>2. /\ p \in DOMAIN t <=> (p \in DOMAIN t /\ ~a) \/ (p \in DOMAIN P /\ a)
          /\ p \in DOMAIN t => t[p] = IF a THEN P[p] ELSE t[p]
      BY <1>2, <1>3, <1>10
    <3> HIDE DEF a
    <3>3. /\ p \in DOMAIN w <=> (p \in DOMAIN u /\ ~a) \/ (p \in DOMAIN P /\ a)
          /\ p \in DOMAIN w => w[p] = IF a THEN P[p] ELSE u[p]
      BY <1>4, <1>11, <3>1
    <3> QED
      BY <1>8, <1>17, <3>2, <3>3
  <2>2. CASE ~(p \in DOMAIN P \/ p \in DOMAIN t)
    BY <1>4, <1>8, <1>17, <2>2
  <2> QED
    BY <2>1, <2>2
<1>18. Kind(w, A) \in {"missing", Kind(t, A)}
  <2>1. A \in DOMAIN w => A \in DOMAIN P /\ w[A] = P[A]
    BY <1>4, <1>8
  <2>2. A \in DOMAIN w => Kind(w, A) = Kind(t, A)
    BY <1>12, <2>1 DEF Kind, Has
  <2>3. A \notin DOMAIN w => Kind(w, A) = "missing"
    BY DEF Kind, Has
  <2> QED
    BY <2>2, <2>3
<1>19. ~Refused(cmd, u)
  <2> SUFFICES ASSUME Refused(cmd, u)
               PROVE  FALSE
    OBVIOUS
  <2>1. PICK p \in DOMAIN P : Stopped(u, P, p)
    BY PatchRefused DEF P
  <2>2. /\ p # e0 /\ Last(p) \in Positions
        /\ \A r \in Path : IsPrefix(r, p) /\ r # p => Kind(P, r) = "map"
    BY <2>1 DEF Stopped, Both, e0
  <2>3. Last(p) \notin Positions
    BY <1>1, <2>2, RepeatableField DEF P, e0
  <2> QED
    BY <2>2, <2>3
<1> QED
  BY <1>2, <1>17, <1>18, <1>19 DEF A

-----------------------------------------------------------------------------
(* The second pass.                                                        *)

\* The command leaves a document so that it is written as it was; if there is none,
\* annotate makes annotations.
Quiet(cmd, u) ==
    LET w == Result(cmd, u)
    IN  /\ YamlWrites(w) /\ Kind(w, << >>) = "map"
        /\ YamlWritten(w) = u \/ (cmd.op = "annotate" /\ ~Has(u, annotationsPath))

\* A document that the command has changed and the YAML writer has written.
Mutant(cmd, d) ==
    \E t : /\ IsTree(t) /\ ~Hopeless(cmd, t) /\ IsTree(Result(cmd, t))
           /\ YamlWrites(Result(cmd, t)) /\ Kind(Result(cmd, t), << >>) = "map"
           /\ d = YamlWritten(Result(cmd, t))

AgainInv ==
    /\ outcome = "written" => \A i \in DOMAIN read : YamlWrites(Now(i))
    /\ pass = 2 => \A i \in DOMAIN read : Mutant(command, read[i])
    /\ pass = 2 /\ Idempotent(command.op) /\ ~Unrepeatable(command.patch) => outcome # "failed"

\* A document that the command leaves as it is, once it is written: if annotations
\* with nothing below them are gone, the command makes none but by annotate.
LEMMA TidyAgain ==
    ASSUME NEW cmd, Asked(cmd), Idempotent(cmd.op), ~Unrepeatable(cmd.patch),
           NEW t, IsTree(t), ~Hopeless(cmd, t), Result(cmd, t) = t,
           YamlWrites(t), Kind(t, << >>) = "map"
    PROVE  ~Hopeless(cmd, YamlWritten(t)) /\ Quiet(cmd, YamlWritten(t))
<1> DEFINE A == annotationsPath
           u == YamlWritten(t)
           w == Mutated(cmd, u)
           e0 == << >>
<1>1. /\ IsTree(u) /\ Kind(u, e0) = "map"
      /\ IF Keys(t, A) = {} THEN Unannotated(t, u) ELSE u = t
  BY WrittenTree
<1>2. u = YamlWritten(t)
  OBVIOUS
<1> SUFFICES ~Hopeless(cmd, u) /\ Quiet(cmd, u)
  OBVIOUS
<1> HIDE DEF u
<1>3. CASE Keys(t, A) # {}
  <2>1. u = t
    BY <1>1, <1>3
  <2> QED
    BY <1>2, <2>1 DEF Quiet
<1>4. CASE Keys(t, A) = {}
  <2>1. Unannotated(t, u) /\ u = [p \in DOMAIN u |-> u[p]]
    BY <1>1, <1>4, TreeHas
  <2>2. ~Has(u, A) /\ Kind(u, A) = "missing"
    BY <2>1 DEF Unannotated, Has, Kind
  <2>3. A # e0 /\ A # <<"metadata">>
    <3>1. Len(e0) = 0 /\ Len(<<"metadata">>) = 1
      OBVIOUS
    <3> QED
      BY <3>1, AnnotationsAre
  <2>4. Kind(t, <<"metadata">>) \in {"missing", "null", "map"} /\ Kind(t, A) \in {"missing", "null", "map"}
    BY DEF YamlWrites
  <2>5. ASSUME NEW x, Kind(x, e0) = "map", Kind(x, <<"metadata">>) = Kind(t, <<"metadata">>),
               Kind(x, A) \in {"missing", "null", "map"}
        PROVE  YamlWrites(x)
    BY <2>4, <2>5 DEF YamlWrites
  <2>6. ASSUME NEW x, \A p : p # A =>
                 (p \in DOMAIN x <=> p \in DOMAIN t) /\ (p \in DOMAIN x => x[p] = t[p])
        PROVE  YamlWritten(x) = u
    BY <2>1, <2>6, DroppedAgain
  <2>7. \A p : p # A => (p \in DOMAIN u <=> p \in DOMAIN t) /\ (p \in DOMAIN u => u[p] = t[p])
    BY <2>1 DEF Unannotated
  <2>8. YamlWritten(u) = u /\ YamlWrites(u)
    <3>1. Kind(u, <<"metadata">>) = Kind(t, <<"metadata">>)
      BY <2>1, <2>3, OtherPaths
    <3>2. YamlWritten(u) = u
      BY <2>6, <2>7
    <3>3. YamlWrites(u)
      BY <1>1, <2>2, <2>5, <3>1
    <3> QED
      BY <3>2, <3>3
  <2>9. CASE Result(cmd, u) = u /\ ~Hopeless(cmd, u)
    BY <1>1, <1>2, <2>8, <2>9 DEF Quiet
  <2>10. CASE ~Selected(u, cmd.match)
    BY <2>9, <2>10 DEF Result, Hopeless
  <2>11. CASE Selected(u, cmd.match)
    <3>1. Mutated(cmd, t) = t /\ ~Refused(cmd, t)
      <4>1. Selected(t, cmd.match)
        BY <1>1, <2>1, <2>11, UnannotatedScope
      <4> QED
        BY <4>1 DEF Result, Hopeless
    <3>2. Result(cmd, u) = w /\ (Hopeless(cmd, u) <=> Refused(cmd, u))
      BY <2>11 DEF Result, Hopeless
    <3> HIDE DEF w
    <3>3. ASSUME ~Refused(cmd, u), w = u
          PROVE  ~Hopeless(cmd, u) /\ Quiet(cmd, u)
      BY <2>9, <3>2, <3>3
    <3>4. CASE cmd.op \in {"label", "set-namespace", "scale", "set-image"}
      BY <1>1, <2>1, <3>1, <3>3, <3>4, SetUnannotated DEF w
    <3>5. CASE cmd.op = "remove"
      BY <1>1, <2>1, <3>1, <3>3, <3>5, RemoveUnannotated DEF w
    <3>6. CASE cmd.op = "annotate"
      <4>1. ~Refused(cmd, u) /\ YamlWrites(w) /\ Kind(w, e0) = "map"
        BY <1>1, <2>1, <3>1, <3>6, AnnotateUnannotated DEF w
      <4> QED
        BY <2>2, <3>2, <3>6, <4>1 DEF Quiet
    <3>7. CASE cmd.op = "patch"
      <4>1. /\ ~Refused(cmd, u)
            /\ \A p : p # A =>
                 (p \in DOMAIN w <=> p \in DOMAIN t) /\ (p \in DOMAIN w => w[p] = t[p])
            /\ Kind(w, A) \in {"missing", Kind(t, A)}
        BY <1>1, <2>1, <3>1, <3>7, PatchUnannotated DEF w
      <4>2. YamlWritten(w) = u
        BY <2>6, <4>1
      <4>3. Kind(w, e0) = Kind(t, e0) /\ Kind(w, <<"metadata">>) = Kind(t, <<"metadata">>)
        BY <2>3, <4>1 DEF Kind, Has
      <4>4. YamlWrites(w)
        BY <2>4, <2>5, <4>1, <4>3
      <4> QED
        BY <3>2, <4>1, <4>2, <4>3, <4>4 DEF Quiet
    <3> QED
      BY <3>4, <3>5, <3>6, <3>7 DEF Idempotent
  <2> QED
    BY <2>10, <2>11
<1> QED
  BY <1>3, <1>4

\* A document that has been written is not refused, and written as it was.
LEMMA MutantKept ==
    ASSUME NEW cmd, Asked(cmd), Idempotent(cmd.op), ~Unrepeatable(cmd.patch),
           NEW d, Mutant(cmd, d)
    PROVE  ~Hopeless(cmd, d) /\ Quiet(cmd, d)
<1>1. PICK t : /\ IsTree(t) /\ ~Hopeless(cmd, t) /\ IsTree(Result(cmd, t))
               /\ YamlWrites(Result(cmd, t)) /\ Kind(Result(cmd, t), << >>) = "map"
               /\ d = YamlWritten(Result(cmd, t))
  BY DEF Mutant
<1> DEFINE t2 == Result(cmd, t)
<1>2. ~Hopeless(cmd, t2) /\ Result(cmd, t2) = t2
  BY <1>1, CommandAgain
<1>3. IsTree(t2) /\ YamlWrites(t2) /\ Kind(t2, << >>) = "map" /\ d = YamlWritten(t2)
  BY <1>1
<1> HIDE DEF t2
<1> QED
  BY <1>2, <1>3, TidyAgain

\* The second pass leaves the documents so that they are written as they were.
LEMMA NowAgain ==
    ASSUME MutatorInv, AgainInv, pass = 2, Idempotent(command.op),
           ~Unrepeatable(command.patch), NEW i \in DOMAIN read
    PROVE  ~Hopeless(command, read[i]) /\ (i < turn => Now(i) = Result(command, read[i])) /\ Quiet(command, read[i])
<1>1. Asked(command) /\ Mutant(command, read[i])
  BY DEF MutatorInv, ReadInv, AgainInv
<1>2. ~Hopeless(command, read[i]) /\ Quiet(command, read[i])
  BY <1>1, MutantKept
<1> QED
  BY <1>2 DEF Now

\* A writer takes what is tidy.
LEMMA WriterTakes ==
    ASSUME MutatorInv, AgainInv, WriteYAML \/ WriteJSONList
    PROVE  AgainInv'
<1>1. /\ outcome = "running" /\ frames = << >> /\ turn > Len(read)
      /\ UNCHANGED <<command, read, heap, turn, frames, pass>>
  BY DEF WriteYAML, WriteJSONList, Output
<1>2. /\ Len(read) \in Nat /\ DOMAIN read = 1..Len(read) /\ turn \in Nat
  BY DEF MutatorInv, ReadInv, LoopInv
<1>3. ASSUME NEW i \in DOMAIN read
      PROVE  /\ i < turn /\ Tree(i) = Now(i)
             /\ IsMapping(heap, Root(i)) <=> Kind(Now(i), << >>) = "map"
  <2>1. i < turn
    BY <1>1, <1>2
  <2>2. Tree(i) = Now(i)
    BY <1>1, TreeNow
  <2>3. IsMapping(heap, Root(i)) <=> Kind(Now(i), << >>) = "map"
    BY <1>1, MappingShown
  <2> QED
    BY <2>1, <2>2, <2>3
<1>4. \/ outcome' = IF \A i \in DOMAIN read : YamlWrites(Tree(i)) THEN "written" ELSE "failed"
      \/ outcome' = IF \A i \in DOMAIN read : IsMapping(heap, Root(i)) THEN "listed" ELSE "failed"
  BY DEF WriteYAML, WriteJSONList, Output
<1>5. \A i : Now(i)' = Now(i)
  BY <1>1 DEF Now
<1>6. outcome' = "written" => \A i \in DOMAIN read' : YamlWrites(Now(i)')
  BY <1>1, <1>3, <1>4, <1>5
<1>7. pass' = 2 => \A i \in DOMAIN read' : Mutant(command', read'[i])
  BY <1>1 DEF AgainInv
<1>8. ASSUME pass' = 2, Idempotent(command'.op), ~Unrepeatable(command'.patch)
      PROVE  outcome' # "failed"
  <2>1. pass = 2 /\ Idempotent(command.op) /\ ~Unrepeatable(command.patch)
    BY <1>1, <1>8
  <2>2. ASSUME NEW i \in DOMAIN read
        PROVE  YamlWrites(Now(i)) /\ Kind(Now(i), << >>) = "map"
    <3>1. Now(i) = Result(command, read[i]) /\ Quiet(command, read[i])
      BY <1>3, <2>1, NowAgain
    <3> QED
      BY <3>1 DEF Quiet
  <2> QED
    BY <1>3, <1>4, <2>2
<1> QED
  BY <1>6, <1>7, <1>8 DEF AgainInv

\* What is read again has been written.
LEMMA ReadsMutants ==
    ASSUME MutatorInv, AgainInv, Again
    PROVE  AgainInv'
<1> DEFINE ds == [i \in DOMAIN read |-> Tree(i)]
<1>1. /\ outcome = "written" /\ read' = ReadBack(ds)
      /\ pass' = 2 /\ outcome' = "parsing" /\ UNCHANGED <<command, heap, frames>>
  BY DEF Again
<1>2. /\ Len(read) \in Nat /\ DOMAIN read = 1..Len(read) /\ frames = << >>
      /\ turn = Len(read) + 1 /\ \A i \in DOMAIN read : DocumentInv(i)
      /\ \A i \in DOMAIN read : IsTree(read[i])
  BY <1>1 DEF MutatorInv, ReadInv, LoopInv, HeapInv
<1>3. DOMAIN ds = 1..Len(read) /\ \A j \in DOMAIN ds : j \in DOMAIN read /\ ds[j] = Tree(j)
  BY <1>2
<1> HIDE DEF ds
<1>4. \A i \in DOMAIN read' : \E j \in DOMAIN ds :
        Kind(ds[j], << >>) # "null" /\ read'[i] = YamlWritten(ds[j])
  BY <1>1, <1>2, <1>3, ReadBackIs
<1>5. ASSUME NEW j \in DOMAIN read, Kind(Tree(j), << >>) # "null"
      PROVE  Mutant(command, YamlWritten(Tree(j)))
  <2>1. Tree(j) = Now(j) /\ YamlWrites(Now(j))
    BY <1>1, <1>2, TreeNow DEF AgainInv
  <2>2. j < turn
    BY <1>2
  <2>3. /\ ~Hopeless(command, read[j]) /\ Now(j) = Result(command, read[j])
        /\ IsTree(Now(j)) /\ IsTree(read[j])
    BY <1>2, <2>2 DEF DocumentInv, Now
  <2>4. Kind(Now(j), << >>) = "map"
    BY <1>5, <2>1 DEF YamlWrites
  <2> QED
    BY <2>1, <2>3, <2>4 DEF Mutant
<1>6. \A i \in DOMAIN read' : Mutant(command', read'[i])
  BY <1>1, <1>3, <1>4, <1>5
<1> QED
  BY <1>1, <1>6 DEF AgainInv

\* Every step keeps it.
LEMMA AgainInvKept ==
    ASSUME MutatorInv, AgainInv, [MutatorNext]_mutatorVars
    PROVE  AgainInv'
<1>1. CASE Advances \/ Continues \/ ParseNodes
  <2>1. UNCHANGED <<command, read, pass>> /\ outcome' = "running"
    BY <1>1 DEF Advances, Continues, ParseNodes
  <2> QED
    BY <2>1 DEF AgainInv
<1>2. CASE Refuses
  <2>1. /\ turn \in DOMAIN read /\ Hopeless(command, read[turn]) /\ outcome' = "failed"
        /\ UNCHANGED <<command, read, pass>>
    BY <1>2 DEF Refuses
  <2>2. ~(pass = 2 /\ Idempotent(command.op) /\ ~Unrepeatable(command.patch))
    BY <2>1, NowAgain
  <2> QED
    BY <2>1, <2>2 DEF AgainInv
<1>3. CASE UNCHANGED mutatorVars
  BY <1>3 DEF mutatorVars, AgainInv, Now
<1> QED
  BY <1>1, <1>2, <1>3, Steps, WriterTakes, ReadsMutants

\* A command that is called idempotent changes nothing when its output goes through
\* it once more, and does not fail then, whatever the documents hold; but for patches
\* that put in a null or a position, and annotations that were null before annotate.
THEOREM SecondPassIsQuiet == MutatorSpec => []SecondPassChangesNothing
<1>1. MutatorInit => AgainInv
  BY DEF MutatorInit, AgainInv
<1>2. MutatorInv /\ AgainInv /\ [MutatorNext]_mutatorVars => AgainInv'
  BY AgainInvKept
<1>3. MutatorInv /\ AgainInv => SecondPassChangesNothing
  <2> SUFFICES ASSUME MutatorInv, AgainInv, pass = 2, Idempotent(command.op),
                      ~Unrepeatable(command.patch)
               PROVE  /\ outcome # "failed"
                      /\ outcome \in {"written", "listed"} => \A i \in DOMAIN read :
                           YamlWritten(Tree(i)) = read[i] \/ AnnotatedLate(read[i])
    BY DEF SecondPassChangesNothing
  <2>1. outcome # "failed"
    BY DEF AgainInv
  <2>2. ASSUME outcome \in {"written", "listed"}, NEW i \in DOMAIN read
        PROVE  YamlWritten(Tree(i)) = read[i] \/ AnnotatedLate(read[i])
    <3>1. /\ frames = << >> /\ turn = Len(read) + 1 /\ Len(read) \in Nat /\ outcome # "parsing"
          /\ DOMAIN read = 1..Len(read)
      BY <2>2 DEF MutatorInv, LoopInv, ReadInv
    <3>2. i < turn
      BY <3>1
    <3>3. Tree(i) = Now(i)
      BY <2>2, <3>1, TreeNow
    <3>4. Now(i) = Result(command, read[i]) /\ Quiet(command, read[i])
      BY <3>2, NowAgain
    <3> QED
      BY <3>3, <3>4 DEF Quiet, AnnotatedLate
  <2> QED
    BY <2>1, <2>2
<1> QED
  BY <1>1, <1>2, <1>3, InvHolds, PTL DEF MutatorSpec
=============================================================================
