----------------------------- MODULE NodeProofs -----------------------------
(***************************************************************************)
(* Lemmas about YAML trees, the nodes that show them and what each command *)
(* but patch does to the nodes of a document, for every document that is no *)
(* deeper than MaxDepth.                                                   *)
(***************************************************************************)
EXTENDS Mutators, TreeEdits, FoldProofs, SequenceTheorems

-----------------------------------------------------------------------------
(* Paths.                                                                  *)

Path == Seq(STRING)

\* What Append adds can be taken off.
LEMMA AppendIs ==
    ASSUME NEW S, NEW p \in Seq(S), NEW k \in S
    PROVE  /\ Append(p, k) \in Seq(S) /\ Append(p, k) # << >>
           /\ Len(Append(p, k)) = Len(p) + 1
           /\ \A i \in 1..Len(p) : Append(p, k)[i] = p[i]
           /\ Append(p, k)[Len(p) + 1] = k
  BY AppendProperties

\* What is before it is the sequence that it was added to.
LEMMA FrontIs ==
    ASSUME NEW S, NEW p \in Seq(S), NEW k \in S
    PROVE  Front(Append(p, k)) = p /\ Last(Append(p, k)) = k
<1> DEFINE q == Append(p, k)
           n == Len(p)
<1>1. /\ q \in Seq(S) /\ q # << >> /\ Len(q) = n + 1
      /\ \A i \in 1..n : q[i] = p[i]
      /\ q[n + 1] = k
  BY AppendIs
<1>2. n \in Nat
  BY LenProperties
<1> HIDE DEF q
<1>3. Last(q) = k
  BY <1>1, <1>2 DEF Last
<1>4. Front(q) = SubSeq(q, 1, n)
  BY <1>1, <1>2 DEF Front
<1>5. \A i \in 1..n : p[i] \in S
  BY ElementOfSeq
<1>6. n \in Int /\ 1 \in Int /\ \A i \in 1..n : q[i] \in S
  BY <1>1, <1>2, <1>5
<1> HIDE DEF n
<1>7. /\ SubSeq(q, 1, n) \in Seq(S)
      /\ Len(SubSeq(q, 1, n)) = IF 1 <= n THEN n - 1 + 1 ELSE 0
      /\ \A i \in 1..n - 1 + 1 : SubSeq(q, 1, n)[i] = q[1 + i - 1]
  BY <1>6, SubSeqProperties
<1> DEFINE s == SubSeq(q, 1, n)
<1> HIDE DEF s
<1>8. s \in Seq(S) /\ Len(s) = n /\ \A i \in 1..n : s[i] = q[i]
  BY <1>2, <1>7 DEF s
<1>9. Len(s) = Len(p) /\ \A i \in 1..Len(s) : s[i] = p[i]
  BY <1>1, <1>8 DEF n
<1>10. s = p
  BY <1>8, <1>9, SeqEqual
<1> QED
  BY <1>3, <1>4, <1>10 DEF q, s

\* The path to a field.
LEMMA PathStep ==
    ASSUME NEW p \in Path, NEW k \in STRING
    PROVE  /\ Append(p, k) \in Path /\ Append(p, k) # << >>
           /\ Len(p) \in Nat /\ Len(Append(p, k)) = Len(p) + 1
           /\ Front(Append(p, k)) = p /\ Last(Append(p, k)) = k
<1>1. p \in Seq(STRING)
  BY DEF Path
<1>2. Append(p, k) \in Seq(STRING) /\ Append(p, k) # << >> /\ Len(Append(p, k)) = Len(p) + 1
  BY <1>1, AppendIs, Zenon
<1>3. Front(Append(p, k)) = p /\ Last(Append(p, k)) = k
  BY <1>1, FrontIs, Zenon
<1>4. Len(p) \in Nat
  BY <1>1, LenProperties
<1> QED
  BY <1>2, <1>3, <1>4 DEF Path

\* Every path but the empty one is one.
LEMMA PathEnd ==
    ASSUME NEW p \in Path, p # << >>
    PROVE  /\ Front(p) \in Path /\ Last(p) \in STRING /\ p = Append(Front(p), Last(p))
           /\ Len(p) \in Nat \ {0} /\ Len(Front(p)) = Len(p) - 1
<1>1. p \in Seq(STRING)
  BY DEF Path
<1>2. PICK s \in Seq(STRING), k \in STRING : p = Append(s, k)
  BY <1>1, SequenceEmptyOrAppend
<1>3. s \in Path
  BY DEF Path
<1>4. Front(p) = s /\ Last(p) = k /\ Len(s) \in Nat /\ Len(p) = Len(s) + 1
  BY <1>2, <1>3, PathStep
<1>5. Len(p) \in Nat \ {0} /\ Len(s) = Len(p) - 1
  BY ONLY <1>4
<1> QED
  BY <1>2, <1>3, <1>4, <1>5, Zenon

\* A path and its first keys.
LEMMA PrefixIs ==
    ASSUME NEW s \in Path, NEW t \in Path
    PROVE  IsPrefix(s, t) <=> Len(s) <= Len(t) /\ \A i \in 1..Len(s) : s[i] = t[i]
<1>1. /\ Len(s) \in Nat /\ Len(t) \in Nat
      /\ \A i \in 1..Len(s) : s[i] \in STRING
      /\ \A i \in 1..Len(t) : t[i] \in STRING
  BY LenProperties, ElementOfSeq DEF Path
<1> SUFFICES ASSUME Len(s) <= Len(t)
             PROVE  SubSeq(s, 1, Len(s)) = SubSeq(t, 1, Len(s))
                      <=> \A i \in 1..Len(s) : s[i] = t[i]
  BY DEF IsPrefix
<1> DEFINE n == Len(s)
           u == SubSeq(t, 1, n)
<1>2. SubSeq(s, 1, n) = s
  BY SubSeqFull DEF Path
<1>3. u \in Seq(STRING) /\ Len(u) = n /\ \A i \in 1..n : u[i] = t[i]
  <2>1. n \in Int /\ 1 \in Int /\ n \in Nat /\ \A i \in 1..n : t[i] \in STRING
    BY <1>1
  <2> HIDE DEF n
  <2>2. /\ SubSeq(t, 1, n) \in Seq(STRING)
        /\ Len(SubSeq(t, 1, n)) = IF 1 <= n THEN n - 1 + 1 ELSE 0
        /\ \A i \in 1..n - 1 + 1 : SubSeq(t, 1, n)[i] = t[1 + i - 1]
    BY <2>1, SubSeqProperties
  <2> HIDE DEF u
  <2>3. Len(u) = n /\ \A i \in 1..n : u[i] = t[i]
    BY <2>1, <2>2 DEF u
  <2> QED
    BY <2>2, <2>3 DEF u
<1> HIDE DEF u
<1>4. s = u <=> \A i \in 1..n : s[i] = t[i]
  <2>1. ASSUME \A i \in 1..n : s[i] = t[i]
        PROVE  s = u
    <3>1. s \in Seq(STRING) /\ Len(s) = Len(u) /\ \A i \in 1..Len(s) : s[i] = u[i]
      BY <1>3, <2>1 DEF Path
    <3> QED
      BY <1>3, <3>1, SeqEqual
  <2> QED
    BY <1>3, <2>1
<1> QED
  BY <1>2, <1>4 DEF u

\* The same, of paths.
LEMMA PathAppend ==
    ASSUME NEW p \in Path, NEW k \in STRING
    PROVE  /\ Append(p, k) \in Seq(STRING) /\ Append(p, k) # << >>
           /\ Len(Append(p, k)) = Len(p) + 1
           /\ \A i \in 1..Len(p) : Append(p, k)[i] = p[i]
           /\ Append(p, k)[Len(p) + 1] = k
<1>1. p \in Seq(STRING)
  BY DEF Path
<1>2. /\ Append(p, k) \in Seq(STRING) /\ Append(p, k) # << >>
      /\ Len(Append(p, k)) = Len(p) + 1
  BY <1>1, AppendIs, Zenon
<1>3. \A i \in 1..Len(p) : Append(p, k)[i] = p[i]
  BY <1>1, AppendProperties
<1>4. Append(p, k)[Len(p) + 1] = k
  BY <1>1, AppendIs, Zenon
<1> QED
  BY <1>2, <1>3, <1>4

\* The first keys of a path.
LEMMA PrefixAt ==
    ASSUME NEW p \in Path, NEW i \in 0..Len(p)
    PROVE  /\ SubSeq(p, 1, i) \in Path /\ Len(SubSeq(p, 1, i)) = i
           /\ \A j \in 1..i : SubSeq(p, 1, i)[j] = p[j]
           /\ SubSeq(p, 1, 0) = << >> /\ SubSeq(p, 1, Len(p)) = p
<1>1. p \in Seq(STRING) /\ Len(p) \in Nat
  BY LenProperties DEF Path
<1>2. SubSeq(p, 1, 0) = << >> /\ SubSeq(p, 1, Len(p)) = p
  BY <1>1, SubSeqEmpty, SubSeqFull
<1>3. 1 \in Int /\ i \in Int /\ i \in Nat /\ \A j \in 1..i : p[j] \in STRING
  BY <1>1, ElementOfSeq
<1>4. /\ SubSeq(p, 1, i) \in Seq(STRING)
      /\ Len(SubSeq(p, 1, i)) = IF 1 <= i THEN i - 1 + 1 ELSE 0
      /\ \A j \in 1..i - 1 + 1 : SubSeq(p, 1, i)[j] = p[1 + j - 1]
  BY <1>3, SubSeqProperties
<1> DEFINE s == SubSeq(p, 1, i)
<1> HIDE DEF s
<1>5. s \in Seq(STRING) /\ Len(s) = i /\ \A j \in 1..i : s[j] = p[j]
  BY <1>3, <1>4 DEF s
<1> QED
  BY <1>2, <1>5 DEF s, Path

\* The next prefix of a path.
LEMMA PrefixNext ==
    ASSUME NEW p \in Path, NEW i \in 0..Len(p) - 1
    PROVE  /\ p[i + 1] \in STRING
           /\ SubSeq(p, 1, i + 1) = Append(SubSeq(p, 1, i), p[i + 1])
<1> DEFINE s == SubSeq(p, 1, i)
           t == SubSeq(p, 1, i + 1)
           k == p[i + 1]
<1>1. Len(p) \in Nat /\ i \in 0..Len(p) /\ i + 1 \in 0..Len(p) /\ i + 1 \in 1..Len(p)
  BY LenProperties DEF Path
<1>2. k \in STRING
  BY <1>1, ElementOfSeq DEF Path
<1>3. s \in Seq(STRING) /\ Len(s) = i /\ \A j \in 1..i : s[j] = p[j]
  BY <1>1, PrefixAt DEF Path
<1>4. t \in Seq(STRING) /\ Len(t) = i + 1 /\ \A j \in 1..i + 1 : t[j] = p[j]
  BY <1>1, PrefixAt DEF Path
<1> HIDE DEF s, t, k
<1>5. /\ Append(s, k) \in Seq(STRING)
      /\ Len(Append(s, k)) = i + 1
      /\ \A j \in 1..i : Append(s, k)[j] = s[j]
      /\ Append(s, k)[i + 1] = k
  <2>1. /\ Append(s, k) \in Seq(STRING)
        /\ Len(Append(s, k)) = Len(s) + 1
        /\ \A j \in 1..Len(s) : Append(s, k)[j] = s[j]
        /\ Append(s, k)[Len(s) + 1] = k
    <3>1. s \in Path /\ k \in STRING
      BY <1>2, <1>3 DEF Path
    <3> QED
      BY <3>1, PathAppend
  <2> QED
    BY <2>1, <1>3
<1>6. \A j \in 1..Len(t) : t[j] = Append(s, k)[j]
  <2> SUFFICES ASSUME NEW j \in 1..Len(t)
               PROVE  t[j] = Append(s, k)[j]
    OBVIOUS
  <2>1. j \in 1..i \/ j = i + 1
    BY <1>1, <1>4
  <2>2. t[j] = p[j]
    BY <1>4
  <2> QED
    BY <2>1, <2>2, <1>3, <1>5 DEF k
<1>7. t = Append(s, k)
  BY <1>4, <1>5, <1>6, SeqEqual
<1> QED
  BY <1>2, <1>7 DEF s, t, k

\* Which paths begin like which.
LEMMA PrefixOrder ==
    ASSUME NEW p \in Path
    PROVE  /\ IsPrefix(p, p) /\ IsPrefix(<< >>, p)
           /\ IsPrefix(p, << >>) => p = << >>
           /\ \A q \in Path, r \in Path :
                /\ IsPrefix(p, q) /\ IsPrefix(q, r) => IsPrefix(p, r)
                /\ IsPrefix(p, q) /\ IsPrefix(q, p) => p = q
                /\ IsPrefix(p, r) /\ IsPrefix(q, r) => IsPrefix(p, q) \/ IsPrefix(q, p)
                /\ IsPrefix(p, q) => Len(p) <= Len(q)
<1>1. << >> \in Path /\ Len(<< >>) = 0
  BY DEF Path
<1>2. \A q \in Path : Len(q) \in Nat
  BY LenProperties DEF Path
<1>3. IsPrefix(p, p) /\ IsPrefix(<< >>, p)
  <2>1. IsPrefix(p, p)
    BY <1>2, PrefixIs
  <2>2. IsPrefix(<< >>, p)
    BY <1>1, <1>2, PrefixIs
  <2> QED
    BY <2>1, <2>2
<1>4. IsPrefix(p, << >>) => p = << >>
  <2>1. IsPrefix(p, << >>) => Len(p) = 0
    BY <1>1, <1>2, PrefixIs
  <2> QED
    BY <2>1, EmptySeq DEF Path
<1>5. ASSUME NEW q \in Path, NEW r \in Path
      PROVE  /\ IsPrefix(p, q) /\ IsPrefix(q, r) => IsPrefix(p, r)
             /\ IsPrefix(p, q) /\ IsPrefix(q, p) => p = q
             /\ IsPrefix(p, r) /\ IsPrefix(q, r) => IsPrefix(p, q) \/ IsPrefix(q, p)
             /\ IsPrefix(p, q) => Len(p) <= Len(q)
  <2>1. /\ IsPrefix(p, q) <=> Len(p) <= Len(q) /\ \A i \in 1..Len(p) : p[i] = q[i]
        /\ IsPrefix(q, p) <=> Len(q) <= Len(p) /\ \A i \in 1..Len(q) : q[i] = p[i]
        /\ IsPrefix(p, r) <=> Len(p) <= Len(r) /\ \A i \in 1..Len(p) : p[i] = r[i]
        /\ IsPrefix(q, r) <=> Len(q) <= Len(r) /\ \A i \in 1..Len(q) : q[i] = r[i]
    BY PrefixIs
  <2>2. Len(p) \in Nat /\ Len(q) \in Nat /\ Len(r) \in Nat
    BY <1>2
  <2>3. IsPrefix(p, q) /\ IsPrefix(q, r) => IsPrefix(p, r)
    BY <2>1, <2>2
  <2>4. ASSUME IsPrefix(p, q) /\ IsPrefix(q, p)
        PROVE  p = q
    <3>1. p \in Seq(STRING) /\ q \in Seq(STRING) /\ Len(p) = Len(q)
          /\ \A i \in 1..Len(p) : p[i] = q[i]
      BY <2>1, <2>2, <2>4 DEF Path
    <3> QED
      BY <3>1, SeqEqual
  <2>5. IsPrefix(p, r) /\ IsPrefix(q, r) => IsPrefix(p, q) \/ IsPrefix(q, p)
    BY <2>1, <2>2
  <2> QED
    BY <2>1, <2>3, <2>4, <2>5
<1> QED
  BY <1>3, <1>4, <1>5

\* What begins a path that is one key longer.
LEMMA PrefixOfNext ==
    ASSUME NEW p \in Path, NEW k \in STRING, NEW e \in Path
    PROVE  /\ IsPrefix(e, Append(p, k)) <=> (e = Append(p, k) \/ IsPrefix(e, p))
           /\ ~IsPrefix(Append(p, k), p)
<1> DEFINE q == Append(p, k)
<1>1. /\ q \in Seq(STRING) /\ Len(q) = Len(p) + 1
      /\ \A i \in 1..Len(p) : q[i] = p[i]
  BY PathAppend
<1>2. Len(p) \in Nat /\ Len(e) \in Nat /\ q \in Path
  BY <1>1, LenProperties DEF Path
<1> HIDE DEF q
<1>3. /\ IsPrefix(e, q) <=> Len(e) <= Len(q) /\ \A i \in 1..Len(e) : e[i] = q[i]
      /\ IsPrefix(e, p) <=> Len(e) <= Len(p) /\ \A i \in 1..Len(e) : e[i] = p[i]
      /\ IsPrefix(q, p) <=> Len(q) <= Len(p) /\ \A i \in 1..Len(q) : q[i] = p[i]
  BY <1>2, PrefixIs
<1>4. ASSUME IsPrefix(e, q), Len(e) = Len(q)
      PROVE  e = q
  <2>1. e \in Seq(STRING) /\ \A i \in 1..Len(e) : e[i] = q[i]
    BY <1>3, <1>4 DEF Path
  <2> QED
    BY <1>1, <1>4, <2>1, SeqEqual
<1>5. IsPrefix(e, q) /\ Len(e) # Len(q) => IsPrefix(e, p)
  BY <1>1, <1>2, <1>3
<1>6. IsPrefix(e, p) => IsPrefix(e, q)
  BY <1>1, <1>2, <1>3
<1>7. IsPrefix(q, q)
  BY <1>2, PrefixOrder
<1>8. ~IsPrefix(q, p)
  BY <1>1, <1>2, <1>3
<1> QED
  BY <1>4, <1>5, <1>6, <1>7, <1>8 DEF q

\* What a path begins with, in the ways it is written.
LEMMA PrefixesAre ==
    ASSUME NEW p \in Path
    PROVE  /\ PrefixesOf(p) = {r \in Path : r # << >> /\ IsPrefix(r, p)}
           /\ {SubSeq(p, 1, n) : n \in 0..Len(p)} = {r \in Path : IsPrefix(r, p)}
           /\ {SubSeq(p, 1, n) : n \in 0..Len(p) - 1} = {r \in Path : IsPrefix(r, p) /\ r # p}
<1>1. Len(p) \in Nat /\ Len(<< >>) = 0
  BY LenProperties DEF Path
<1>2. ASSUME NEW n \in 0..Len(p)
      PROVE  SubSeq(p, 1, n) \in Path /\ Len(SubSeq(p, 1, n)) = n /\ IsPrefix(SubSeq(p, 1, n), p)
  <2> DEFINE s == SubSeq(p, 1, n)
  <2>1. s \in Path /\ Len(s) = n /\ \A j \in 1..n : s[j] = p[j]
    BY PrefixAt
  <2> HIDE DEF s
  <2>2. IsPrefix(s, p)
    BY <1>1, <2>1, PrefixIs
  <2> QED
    BY <2>1, <2>2 DEF s
<1>3. ASSUME NEW r \in Path, IsPrefix(r, p)
      PROVE  /\ Len(r) \in 0..Len(p) /\ r = SubSeq(p, 1, Len(r))
             /\ (Len(r) = 0 <=> r = << >>) /\ (Len(r) = Len(p) <=> r = p)
  <2> DEFINE n == Len(r)
  <2>1. n \in 0..Len(p) /\ \A j \in 1..n : r[j] = p[j]
    <3>1. n \in Nat
      BY LenProperties DEF Path
    <3> QED
      BY <1>1, <1>3, <3>1, PrefixIs
  <2> HIDE DEF n
  <2>2. SubSeq(p, 1, n) \in Path /\ Len(SubSeq(p, 1, n)) = n
        /\ \A j \in 1..n : SubSeq(p, 1, n)[j] = p[j]
    BY <2>1, PrefixAt
  <2> DEFINE s == SubSeq(p, 1, n)
  <2> HIDE DEF s
  <2>3. s \in Path /\ Len(s) = n /\ \A j \in 1..n : s[j] = p[j]
    BY <2>2 DEF s
  <2>4. r \in Seq(STRING) /\ s \in Seq(STRING) /\ Len(r) = Len(s)
        /\ \A j \in 1..Len(r) : r[j] = s[j]
    BY <2>1, <2>3 DEF n, Path
  <2>5. r = s
    BY <2>4, SeqEqual
  <2>6. Len(r) = 0 <=> r = << >>
    BY <2>4, EmptySeq
  <2>7. SubSeq(p, 1, 0) = << >> /\ SubSeq(p, 1, Len(p)) = p
    BY <2>1, PrefixAt
  <2>8. Len(r) = Len(p) => r = p
    BY <2>5, <2>7 DEF s, n
  <2> QED
    BY <2>1, <2>5, <2>6, <2>8 DEF s, n
<1>4. {SubSeq(p, 1, n) : n \in 0..Len(p)} = {r \in Path : IsPrefix(r, p)}
  <2>1. \A n \in 0..Len(p) : SubSeq(p, 1, n) \in Path /\ IsPrefix(SubSeq(p, 1, n), p)
    BY <1>2
  <2>2. \A r \in Path : IsPrefix(r, p) => \E n \in 0..Len(p) : r = SubSeq(p, 1, n)
    BY <1>3
  <2> QED
    BY ONLY <2>1, <2>2, Zenon
<1>5. PrefixesOf(p) = {r \in Path : r # << >> /\ IsPrefix(r, p)}
  <2>1. ASSUME NEW n \in 1..Len(p)
        PROVE  SubSeq(p, 1, n) \in Path /\ IsPrefix(SubSeq(p, 1, n), p) /\ SubSeq(p, 1, n) # << >>
    <3>1. n \in 0..Len(p) /\ n # 0
      BY <1>1
    <3>2. SubSeq(p, 1, n) \in Path /\ IsPrefix(SubSeq(p, 1, n), p) /\ Len(SubSeq(p, 1, n)) = n
      BY <1>2, <3>1
    <3> DEFINE s == SubSeq(p, 1, n)
    <3> HIDE DEF s
    <3>3. s \in Path /\ IsPrefix(s, p) /\ Len(s) # 0
      BY <3>1, <3>2 DEF s
    <3> QED
      BY <3>3, <1>3 DEF s
  <2>2. ASSUME NEW r \in Path, IsPrefix(r, p), r # << >>
        PROVE  \E n \in 1..Len(p) : r = SubSeq(p, 1, n)
    <3>1. Len(r) \in 0..Len(p) /\ Len(r) # 0 /\ r = SubSeq(p, 1, Len(r))
      BY <1>3, <2>2
    <3>2. Len(r) \in 1..Len(p)
      BY <1>1, <3>1
    <3> QED
      BY <3>1, <3>2, Zenon
  <2>3. \A r \in Path : IsPrefix(r, p) /\ r # << >> => \E n \in 1..Len(p) : r = SubSeq(p, 1, n)
    BY <2>2, Zenon
  <2>4. \A n \in 1..Len(p) : SubSeq(p, 1, n) \in Path /\ IsPrefix(SubSeq(p, 1, n), p)
                             /\ SubSeq(p, 1, n) # << >>
    BY <2>1, Zenon
  <2>5. {SubSeq(p, 1, n) : n \in 1..Len(p)} = {r \in Path : r # << >> /\ IsPrefix(r, p)}
    BY ONLY <2>3, <2>4, Zenon
  <2> QED
    BY <2>5 DEF PrefixesOf
<1>6. {SubSeq(p, 1, n) : n \in 0..Len(p) - 1} = {r \in Path : IsPrefix(r, p) /\ r # p}
  <2>1. ASSUME NEW n \in 0..Len(p) - 1
        PROVE  SubSeq(p, 1, n) \in Path /\ IsPrefix(SubSeq(p, 1, n), p) /\ SubSeq(p, 1, n) # p
    <3>1. n \in 0..Len(p) /\ n # Len(p)
      BY <1>1
    <3>2. SubSeq(p, 1, n) \in Path /\ IsPrefix(SubSeq(p, 1, n), p) /\ Len(SubSeq(p, 1, n)) = n
      BY <1>2, <3>1
    <3> QED
      BY <3>1, <3>2
  <2>2. ASSUME NEW r \in Path, IsPrefix(r, p), r # p
        PROVE  \E n \in 0..Len(p) - 1 : r = SubSeq(p, 1, n)
    <3>1. Len(r) \in 0..Len(p) /\ Len(r) # Len(p) /\ r = SubSeq(p, 1, Len(r))
      BY <1>3, <2>2
    <3>2. Len(r) \in 0..Len(p) - 1
      BY <1>1, <3>1
    <3> QED
      BY <3>1, <3>2, Zenon
  <2>3. \A r \in Path : IsPrefix(r, p) /\ r # p => \E n \in 0..Len(p) - 1 : r = SubSeq(p, 1, n)
    BY <2>2, Zenon
  <2>4. \A n \in 0..Len(p) - 1 : SubSeq(p, 1, n) \in Path /\ IsPrefix(SubSeq(p, 1, n), p)
                             /\ SubSeq(p, 1, n) # p
    BY <2>1, Zenon
  <2> QED
    BY ONLY <2>3, <2>4, Zenon
<1> QED
  BY <1>4, <1>5, <1>6

\* What a path that is one key longer begins with.
LEMMA PrefixesNext ==
    ASSUME NEW p \in Path, NEW k \in STRING
    PROVE  /\ PrefixesOf(<< >>) = {}
           /\ PrefixesOf(Append(p, k)) = PrefixesOf(p) \cup {Append(p, k)}
           /\ Append(p, k) \notin PrefixesOf(p)
           /\ p # << >> => p \in PrefixesOf(p)
           /\ PrefixesOf(p) \subseteq Path
<1>1. Append(p, k) \in Path /\ Append(p, k) # << >>
  BY PathStep
<1>2. PrefixesOf(p) = {r \in Path : r # << >> /\ IsPrefix(r, p)}
  BY PrefixesAre
<1> DEFINE q == Append(p, k)
<1>3. \A r \in Path : IsPrefix(r, q) <=> (r = q \/ IsPrefix(r, p))
  BY PrefixOfNext
<1>4. ~IsPrefix(q, p)
  BY PrefixOfNext, <1>1
<1> HIDE DEF q
<1>5. PrefixesOf(q) = {r \in Path : r # << >> /\ IsPrefix(r, q)}
  BY <1>1, PrefixesAre DEF q
<1>6. IsPrefix(p, p)
  BY PrefixOrder
<1>7. PrefixesOf(<< >>) = {}
  BY DEF PrefixesOf
<1> QED
  BY <1>1, <1>2, <1>3, <1>4, <1>5, <1>6, <1>7 DEF q

-----------------------------------------------------------------------------
(* The nodes below a node.                                                 *)

\* The nodes that the paths of a document lead to.
Layout(at, h, node) ==
    /\ DOMAIN at \subseteq Path /\ << >> \in DOMAIN at /\ at[<< >>] = node
    /\ \A p \in DOMAIN at :
         /\ Len(p) <= MaxDepth
         /\ DOMAIN h[at[p]].fields \subseteq STRING
         /\ \A k \in DOMAIN h[at[p]].fields :
              Append(p, k) \in DOMAIN at /\ at[Append(p, k)] = h[at[p]].fields[k]
    /\ \A p \in DOMAIN at \ {<< >>} :
         Front(p) \in DOMAIN at /\ Last(p) \in DOMAIN h[at[Front(p)]].fields

\* Those that are not too deep, with their paths.
Within(at, d) == {<<p, at[p]>> : p \in {q \in DOMAIN at : Len(q) <= d}}

Under(h, x) == {<<Append(x[1], k), h[x[2]].fields[k]>> : k \in DOMAIN h[x[2]].fields}

\* A step further down.
LEMMA WithinNext ==
    ASSUME NEW at, NEW h, NEW node, Layout(at, h, node), NEW d \in Nat
    PROVE  /\ Within(at, 0) = {<< << >>, node>>}
           /\ Within(at, d + 1) = {<< << >>, node>>} \cup UNION {Under(h, x) : x \in Within(at, d)}
<1>1. Len(<< >>) = 0 /\ << >> \in DOMAIN at /\ at[<< >>] = node /\ DOMAIN at \subseteq Path
  BY DEF Layout
<1>2. \A p \in DOMAIN at : p # << >> =>
        /\ Front(p) \in DOMAIN at /\ Last(p) \in DOMAIN h[at[Front(p)]].fields
        /\ p = Append(Front(p), Last(p))
        /\ Len(p) \in Nat \ {0} /\ Len(Front(p)) = Len(p) - 1
        /\ at[p] = h[at[Front(p)]].fields[Last(p)]
  <2> SUFFICES ASSUME NEW p \in DOMAIN at, p # << >>
               PROVE  /\ Front(p) \in DOMAIN at /\ Last(p) \in DOMAIN h[at[Front(p)]].fields
                      /\ p = Append(Front(p), Last(p))
                      /\ Len(p) \in Nat \ {0} /\ Len(Front(p)) = Len(p) - 1
                      /\ at[p] = h[at[Front(p)]].fields[Last(p)]
    OBVIOUS
  <2>1. p \in Path
    BY <1>1
  <2>2. /\ p = Append(Front(p), Last(p))
        /\ Len(p) \in Nat \ {0} /\ Len(Front(p)) = Len(p) - 1
    BY <2>1, PathEnd
  <2>3. Front(p) \in DOMAIN at /\ Last(p) \in DOMAIN h[at[Front(p)]].fields
    BY DEF Layout
  <2>4. at[Append(Front(p), Last(p))] = h[at[Front(p)]].fields[Last(p)]
    BY <2>3, Zenon DEF Layout
  <2> QED
    BY <2>2, <2>3, <2>4, Zenon
<1>3. ASSUME NEW p \in DOMAIN at, NEW k \in DOMAIN h[at[p]].fields
      PROVE  /\ Append(p, k) \in DOMAIN at /\ at[Append(p, k)] = h[at[p]].fields[k]
             /\ Len(p) \in Nat /\ Len(Append(p, k)) = Len(p) + 1
  <2>1. p \in Path /\ k \in STRING
    BY <1>1 DEF Layout
  <2>2. Len(p) \in Nat /\ Len(Append(p, k)) = Len(p) + 1
    BY <2>1, PathStep
  <2> QED
    BY <2>2, Zenon DEF Layout
<1>4. Within(at, 0) = {<< << >>, node>>}
  <2>1. \A p \in DOMAIN at : Len(p) <= 0 <=> p = << >>
    BY <1>1, <1>2
  <2> QED
    BY <1>1, <2>1 DEF Within
<1>5. ASSUME NEW y \in Within(at, d + 1)
      PROVE  y \in {<< << >>, node>>} \cup UNION {Under(h, x) : x \in Within(at, d)}
  <2>1. PICK p \in DOMAIN at : Len(p) <= d + 1 /\ y = <<p, at[p]>>
    BY DEF Within
  <2>2. CASE p = << >>
    BY <1>1, <2>1, <2>2
  <2>3. CASE p # << >>
    <3> DEFINE x == <<Front(p), at[Front(p)]>>
    <3>1. Len(Front(p)) <= d /\ Front(p) \in DOMAIN at
      BY <1>2, <2>1, <2>3
    <3>2. x \in Within(at, d)
      BY <3>1 DEF Within
    <3>3. y \in Under(h, x)
      BY <1>2, <2>1, <2>3 DEF Under
    <3> QED
      BY <3>2, <3>3
  <2> QED
    BY <2>2, <2>3
<1>6. ASSUME NEW x \in Within(at, d), NEW y \in Under(h, x)
      PROVE  y \in Within(at, d + 1)
  <2>1. PICK p \in DOMAIN at : Len(p) <= d /\ x = <<p, at[p]>>
    BY DEF Within
  <2>2. PICK k \in DOMAIN h[at[p]].fields : y = <<Append(p, k), h[at[p]].fields[k]>>
    BY <2>1 DEF Under
  <2>3. /\ Append(p, k) \in DOMAIN at /\ y = <<Append(p, k), at[Append(p, k)]>>
        /\ Len(Append(p, k)) <= d + 1
    BY <1>3, <2>1, <2>2
  <2> QED
    BY <2>3 DEF Within
<1>7. << << >>, node>> \in Within(at, d + 1)
  BY <1>1 DEF Within
<1> QED
  BY <1>4, <1>5, <1>6, <1>7

\* The walk finds every node once, by its path.
LEMMA ReachedIs ==
    ASSUME NEW at, NEW h, NEW node, Layout(at, h, node)
    PROVE  Reached(h, node) = {<<p, at[p]>> : p \in DOMAIN at}
<1> DEFINE Body(g) == [d \in 0..MaxDepth |->
             {<< << >>, node>>} \cup IF d = 0 THEN {}
                                  ELSE UNION {Under(h, x) : x \in g[d - 1]}]
           upTo == CHOOSE g : g = Body(g)
           U == [d \in 0..MaxDepth |-> Within(at, d)]
<1>1. MaxDepth \in Nat
  BY DepthAssumption
<1>2. U = Body(U)
  <2>1. ASSUME NEW d \in 0..MaxDepth
        PROVE  Within(at, d) = {<< << >>, node>>} \cup IF d = 0 THEN {}
                                  ELSE UNION {Under(h, x) : x \in U[d - 1]}
    <3>1. CASE d = 0
      BY <3>1, WithinNext
    <3>2. CASE d # 0
      <4>1. d - 1 \in Nat /\ d - 1 \in 0..MaxDepth /\ (d - 1) + 1 = d
        BY <1>1, <3>2
      <4>2. U[d - 1] = Within(at, d - 1)
        BY <4>1
      <4>3. Within(at, (d - 1) + 1)
              = {<< << >>, node>>} \cup UNION {Under(h, x) : x \in Within(at, d - 1)}
        BY <4>1, WithinNext
      <4> HIDE DEF U
      <4> QED
        BY <3>2, <4>1, <4>2, <4>3
    <3> QED
      BY <3>1, <3>2
  <2> QED
    BY <2>1, Zenon
<1>3. upTo = Body(upTo)
  <2> HIDE DEF Body
  <2> QED
    BY <1>2
<1>4. Reached(h, node) = upTo[MaxDepth]
  BY DEF Reached, Under
<1> HIDE DEF upTo
<1> DEFINE N == {d \in Nat : d <= MaxDepth => upTo[d] = Within(at, d)}
<1>5. 0 \in N
  <2>1. 0 \in 0..MaxDepth
    BY <1>1
  <2>2. upTo[0] = {<< << >>, node>>}
    BY <1>3, <2>1
  <2> QED
    BY <2>2, WithinNext
<1>6. ASSUME NEW d \in N
      PROVE  d + 1 \in N
  <2> SUFFICES ASSUME d + 1 <= MaxDepth
               PROVE  upTo[d + 1] = Within(at, d + 1)
    OBVIOUS
  <2>1. d \in Nat /\ d + 1 \in 0..MaxDepth /\ d + 1 # 0 /\ (d + 1) - 1 = d /\ d <= MaxDepth
    BY <1>1
  <2>2. upTo[d] = Within(at, d)
    BY <2>1
  <2>3. upTo[d + 1] = {<< << >>, node>>} \cup UNION {Under(h, x) : x \in upTo[d]}
    BY <1>3, <2>1
  <2> QED
    BY <2>1, <2>2, <2>3, WithinNext
<1>7. N = Nat
  <2> HIDE DEF N
  <2>1. N \in SUBSET Nat
    BY DEF N
  <2> QED
    BY <1>5, <1>6, <2>1, Induction
<1>8. upTo[MaxDepth] = Within(at, MaxDepth)
  BY <1>1, <1>7
<1>9. \A p \in DOMAIN at : Len(p) <= MaxDepth
  BY DEF Layout
<1> QED
  BY <1>4, <1>8, <1>9 DEF Within

-----------------------------------------------------------------------------
(* Going along a path, key by key.                                         *)

\* The node that a path leads to.
LEMMA FollowAlong ==
    ASSUME NEW h, NEW start, NEW path, path \in Seq(STRING), NEW W,
           W[0] = start,
           \A i \in 0..Len(path) - 1 : W[i + 1] = h[W[i]].fields[path[i + 1]]
    PROVE  Follow(h, start, path) = W[Len(path)]
<1> DEFINE n == Len(path)
           Body(g, m) == [s \in SUBSET (1..m) |->
                            IF s = {} THEN start
                            ELSE h[g[s \ {Max(s)}]].fields[path[Max(s)]]]
           iter == CHOOSE g : g = Body(g, n)
           N == {m \in Nat : m <= n => \E g : g = Body(g, m)}
           A == {m \in Nat : m <= n => iter[1..m] = W[m]}
<1>1. n \in Nat /\ DOMAIN path = 1..n
  BY LenProperties
<1>2. 0 \in N
  <2> DEFINE g0 == [s \in SUBSET (1..0) |-> start]
  <2>1. \A s \in SUBSET (1..0) : s = {}
    OBVIOUS
  <2>2. g0 = Body(g0, 0)
    BY <2>1
  <2> QED
    BY <2>2
<1>3. ASSUME NEW m \in N
      PROVE  m + 1 \in N
  <2> SUFFICES ASSUME m + 1 <= n
               PROVE  \E g : g = Body(g, m + 1)
    <3> HIDE DEF Body
    <3> QED
      OBVIOUS
  <2>1. m \in Nat /\ m <= n
    BY <1>1
  <2>2. PICK g : g = Body(g, m)
    <3> HIDE DEF Body
    <3> QED
      BY <2>1
  <2> DEFINE k == m + 1
  <2>K. k \in Nat /\ k \in 1..k /\ (1..k) \ {k} = 1..m
    BY <2>1
  <2> DEFINE v(f, s) == IF s = {} THEN start
                        ELSE h[f[s \ {Max(s)}]].fields[path[Max(s)]]
             G == [s \in SUBSET (1..m + 1) |->
                     IF m + 1 \in s THEN v(g, s) ELSE g[s]]
  <2>3. ASSUME NEW s \in SUBSET (1..m + 1)
        PROVE  (IF m + 1 \in s THEN v(g, s) ELSE g[s]) = v(G, s)
    <3>1. CASE m + 1 \in s
      <4>1. s # {} /\ Max(s) \in s /\ k <= Max(s)
        <5>1. k \in Nat /\ s \in SUBSET (1..k) /\ k \in s
          BY <2>K, <3>1
        <5> HIDE DEF k
        <5> QED
          BY <5>1, LargestOf
      <4>2. Max(s) = m + 1
        <5> DEFINE x == Max(s)
        <5>1. x \in 1..k /\ k <= x
          BY <4>1
        <5> HIDE DEF x
        <5>2. x = m + 1
          BY <2>1, <5>1
        <5> QED
          BY <5>2 DEF x
      <4>3. s \ {Max(s)} \in SUBSET (1..m + 1) /\ m + 1 \notin s \ {Max(s)}
        BY <4>2
      <4>4. G[s \ {Max(s)}] = g[s \ {Max(s)}]
        BY <4>3
      <4> HIDE DEF G
      <4> QED
        BY <3>1, <4>1, <4>4
    <3>2. CASE m + 1 \notin s
      <4>1. s \in SUBSET (1..m)
        BY <2>1, <3>2
      <4>2. g[s] = v(g, s)
        BY <2>2, <4>1
      <4>3. s # {} => G[s \ {Max(s)}] = g[s \ {Max(s)}]
        <5>1. s \ {Max(s)} \in SUBSET (1..m + 1) /\ m + 1 \notin s \ {Max(s)}
          BY <3>2
        <5> QED
          BY <5>1
      <4> HIDE DEF G
      <4> QED
        BY <3>2, <4>2, <4>3
    <3> QED
      BY <3>1, <3>2
  <2>4. G = Body(G, m + 1)
    BY <2>3, Zenon
  <2> HIDE DEF G, Body
  <2> QED
    BY <2>4
<1>4. N = Nat
  <2> HIDE DEF N
  <2>1. N \in SUBSET Nat
    BY DEF N
  <2> QED
    BY <1>2, <1>3, <2>1, Induction
<1>5. iter = Body(iter, n)
  <2> HIDE DEF Body
  <2>1. \E g : g = Body(g, n)
    BY <1>1, <1>4
  <2> QED
    BY <2>1
<1>6. Follow(h, start, path) = iter[1..n]
  BY <1>1 DEF Follow, FoldLeft, MapThenFoldSet
<1> HIDE DEF iter
<1>7. 0 \in A
  <2>1. 1..0 = {} /\ {} \in SUBSET (1..n)
    OBVIOUS
  <2>2. iter[{}] = start
    BY <1>5, <2>1
  <2> QED
    BY <2>1, <2>2
<1>8. ASSUME NEW m \in A
      PROVE  m + 1 \in A
  <2> SUFFICES ASSUME m + 1 <= n
               PROVE  iter[1..(m + 1)] = W[m + 1]
    OBVIOUS
  <2>1. m \in Nat /\ m + 1 \in 0..n /\ m + 1 # 0 /\ (m + 1) - 1 = m /\ m \in 0..n - 1
    BY <1>1
  <2>2. /\ (1..(m + 1)) \in SUBSET (1..n) /\ (1..(m + 1)) # {} /\ Max(1..(m + 1)) = m + 1
        /\ (1..(m + 1)) \ {m + 1} = 1..m
    <3> HIDE DEF n
    <3> QED
      BY <1>1, <2>1, Segments
  <2>3. iter[1..(m + 1)] = h[iter[1..m]].fields[path[m + 1]]
    <3> DEFINE t == 1..(m + 1)
    <3>1. iter[t] = IF t = {} THEN start ELSE h[iter[t \ {Max(t)}]].fields[path[Max(t)]]
      <4>1. t \in SUBSET (1..n)
        BY <2>2
      <4> HIDE DEF t
      <4> QED
        BY <1>5, <4>1
    <3> QED
      BY <2>2, <3>1
  <2>4. iter[1..m] = W[m]
    BY <2>1
  <2> QED
    BY <2>1, <2>3, <2>4
<1>9. A = Nat
  <2> HIDE DEF A
  <2>1. A \in SUBSET Nat
    BY DEF A
  <2> QED
    BY <1>7, <1>8, <2>1, Induction
<1> QED
  BY <1>1, <1>6, <1>9

\* What a lookup comes to, part by part.
LEMMA LookupAlong ==
    ASSUME NEW h, NEW start, NEW path, path \in Seq(STRING), NEW W,
           W[0] = start,
           \A i \in 0..Len(path) - 1 : W[i + 1] = LookupPart(h, W[i], path[i + 1])
    PROVE  Lookup(h, start, path) = W[Len(path)]
<1> DEFINE n == Len(path)
           Body(g, m) == [s \in SUBSET (1..m) |->
                            IF s = {} THEN start
                            ELSE LookupPart(h, g[s \ {Max(s)}], path[Max(s)])]
           iter == CHOOSE g : g = Body(g, n)
           N == {m \in Nat : m <= n => \E g : g = Body(g, m)}
           A == {m \in Nat : m <= n => iter[1..m] = W[m]}
<1>1. n \in Nat /\ DOMAIN path = 1..n
  BY LenProperties
<1>2. 0 \in N
  <2> DEFINE g0 == [s \in SUBSET (1..0) |-> start]
  <2>1. \A s \in SUBSET (1..0) : s = {}
    OBVIOUS
  <2>2. g0 = Body(g0, 0)
    BY <2>1
  <2> QED
    BY <2>2
<1>3. ASSUME NEW m \in N
      PROVE  m + 1 \in N
  <2> SUFFICES ASSUME m + 1 <= n
               PROVE  \E g : g = Body(g, m + 1)
    <3> HIDE DEF Body
    <3> QED
      OBVIOUS
  <2>1. m \in Nat /\ m <= n
    BY <1>1
  <2>2. PICK g : g = Body(g, m)
    <3> HIDE DEF Body
    <3> QED
      BY <2>1
  <2> DEFINE k == m + 1
  <2>K. k \in Nat /\ k \in 1..k /\ (1..k) \ {k} = 1..m
    BY <2>1
  <2> DEFINE v(f, s) == IF s = {} THEN start
                        ELSE LookupPart(h, f[s \ {Max(s)}], path[Max(s)])
             G == [s \in SUBSET (1..m + 1) |->
                     IF m + 1 \in s THEN v(g, s) ELSE g[s]]
  <2>3. ASSUME NEW s \in SUBSET (1..m + 1)
        PROVE  (IF m + 1 \in s THEN v(g, s) ELSE g[s]) = v(G, s)
    <3>1. CASE m + 1 \in s
      <4>1. s # {} /\ Max(s) \in s /\ k <= Max(s)
        <5>1. k \in Nat /\ s \in SUBSET (1..k) /\ k \in s
          BY <2>K, <3>1
        <5> HIDE DEF k
        <5> QED
          BY <5>1, LargestOf
      <4>2. Max(s) = m + 1
        <5> DEFINE x == Max(s)
        <5>1. x \in 1..k /\ k <= x
          BY <4>1
        <5> HIDE DEF x
        <5>2. x = m + 1
          BY <2>1, <5>1
        <5> QED
          BY <5>2 DEF x
      <4>3. s \ {Max(s)} \in SUBSET (1..m + 1) /\ m + 1 \notin s \ {Max(s)}
        BY <4>2
      <4>4. G[s \ {Max(s)}] = g[s \ {Max(s)}]
        BY <4>3
      <4> HIDE DEF G
      <4> QED
        BY <3>1, <4>1, <4>4
    <3>2. CASE m + 1 \notin s
      <4>1. s \in SUBSET (1..m)
        BY <2>1, <3>2
      <4>2. g[s] = v(g, s)
        BY <2>2, <4>1
      <4>3. s # {} => G[s \ {Max(s)}] = g[s \ {Max(s)}]
        <5>1. s \ {Max(s)} \in SUBSET (1..m + 1) /\ m + 1 \notin s \ {Max(s)}
          BY <3>2
        <5> QED
          BY <5>1
      <4> HIDE DEF G
      <4> QED
        BY <3>2, <4>2, <4>3
    <3> QED
      BY <3>1, <3>2
  <2>4. G = Body(G, m + 1)
    BY <2>3, Zenon
  <2> HIDE DEF G, Body
  <2> QED
    BY <2>4
<1>4. N = Nat
  <2> HIDE DEF N
  <2>1. N \in SUBSET Nat
    BY DEF N
  <2> QED
    BY <1>2, <1>3, <2>1, Induction
<1>5. iter = Body(iter, n)
  <2> HIDE DEF Body
  <2>1. \E g : g = Body(g, n)
    BY <1>1, <1>4
  <2> QED
    BY <2>1
<1>6. Lookup(h, start, path) = iter[1..n]
  BY <1>1 DEF Lookup, FoldLeft, MapThenFoldSet
<1> HIDE DEF iter
<1>7. 0 \in A
  <2>1. 1..0 = {} /\ {} \in SUBSET (1..n)
    OBVIOUS
  <2>2. iter[{}] = start
    BY <1>5, <2>1
  <2> QED
    BY <2>1, <2>2
<1>8. ASSUME NEW m \in A
      PROVE  m + 1 \in A
  <2> SUFFICES ASSUME m + 1 <= n
               PROVE  iter[1..(m + 1)] = W[m + 1]
    OBVIOUS
  <2>1. m \in Nat /\ m + 1 \in 0..n /\ m + 1 # 0 /\ (m + 1) - 1 = m /\ m \in 0..n - 1
    BY <1>1
  <2>2. /\ (1..(m + 1)) \in SUBSET (1..n) /\ (1..(m + 1)) # {} /\ Max(1..(m + 1)) = m + 1
        /\ (1..(m + 1)) \ {m + 1} = 1..m
    <3> HIDE DEF n
    <3> QED
      BY <1>1, <2>1, Segments
  <2>3. iter[1..(m + 1)] = LookupPart(h, iter[1..m], path[m + 1])
    <3> DEFINE t == 1..(m + 1)
    <3>1. iter[t] = IF t = {} THEN start ELSE LookupPart(h, iter[t \ {Max(t)}], path[Max(t)])
      <4>1. t \in SUBSET (1..n)
        BY <2>2
      <4> HIDE DEF t
      <4> QED
        BY <1>5, <4>1
    <3> QED
      BY <2>2, <3>1
  <2>4. iter[1..m] = W[m]
    BY <2>1
  <2> QED
    BY <2>1, <2>3, <2>4
<1>9. A = Nat
  <2> HIDE DEF A
  <2>1. A \in SUBSET Nat
    BY DEF A
  <2> QED
    BY <1>7, <1>8, <2>1, Induction
<1> QED
  BY <1>1, <1>6, <1>9

\* A step of LookupCreate.
CreateStep(s, part) ==
    IF s.node = Nil \/ LookupPart(s.heap, s.node, part) # Nil
         \/ part \in DOMAIN s.heap[s.node].fields
    THEN [s EXCEPT !.node = LookupPart(s.heap, s.node, part)]
    ELSE [heap |-> Attach(Entered(s.heap, Child(s.node, part), NewNode("map")), s.node, part,
                          Child(s.node, part)),
          node |-> Child(s.node, part)]

\* What it comes to, part by part.
LEMMA CreateAlong ==
    ASSUME NEW h, NEW start, NEW path, path \in Seq(STRING), NEW W,
           W[0] = [heap |-> h, node |-> start],
           \A i \in 0..Len(path) - 1 : W[i + 1] = CreateStep(W[i], path[i + 1])
    PROVE  LookupCreate(h, start, path) = W[Len(path)]
<1> DEFINE n == Len(path)
           Body(g, m) == [s \in SUBSET (1..m) |->
                            IF s = {} THEN [heap |-> h, node |-> start]
                            ELSE CreateStep(g[s \ {Max(s)}], path[Max(s)])]
           iter == CHOOSE g : g = Body(g, n)
           N == {m \in Nat : m <= n => \E g : g = Body(g, m)}
           A == {m \in Nat : m <= n => iter[1..m] = W[m]}
<1>1. n \in Nat /\ DOMAIN path = 1..n
  BY LenProperties
<1>2. 0 \in N
  <2> DEFINE g0 == [s \in SUBSET (1..0) |-> [heap |-> h, node |-> start]]
  <2>1. \A s \in SUBSET (1..0) : s = {}
    OBVIOUS
  <2>2. g0 = Body(g0, 0)
    BY <2>1
  <2> QED
    BY <2>2
<1>3. ASSUME NEW m \in N
      PROVE  m + 1 \in N
  <2> SUFFICES ASSUME m + 1 <= n
               PROVE  \E g : g = Body(g, m + 1)
    <3> HIDE DEF Body
    <3> QED
      OBVIOUS
  <2>1. m \in Nat /\ m <= n
    BY <1>1
  <2>2. PICK g : g = Body(g, m)
    <3> HIDE DEF Body
    <3> QED
      BY <2>1
  <2> DEFINE k == m + 1
  <2>K. k \in Nat /\ k \in 1..k /\ (1..k) \ {k} = 1..m
    BY <2>1
  <2> DEFINE v(f, s) == IF s = {} THEN [heap |-> h, node |-> start]
                        ELSE CreateStep(f[s \ {Max(s)}], path[Max(s)])
             G == [s \in SUBSET (1..m + 1) |->
                     IF m + 1 \in s THEN v(g, s) ELSE g[s]]
  <2>3. ASSUME NEW s \in SUBSET (1..m + 1)
        PROVE  (IF m + 1 \in s THEN v(g, s) ELSE g[s]) = v(G, s)
    <3>1. CASE m + 1 \in s
      <4>1. s # {} /\ Max(s) \in s /\ k <= Max(s)
        <5>1. k \in Nat /\ s \in SUBSET (1..k) /\ k \in s
          BY <2>K, <3>1
        <5> HIDE DEF k
        <5> QED
          BY <5>1, LargestOf
      <4>2. Max(s) = m + 1
        <5> DEFINE x == Max(s)
        <5>1. x \in 1..k /\ k <= x
          BY <4>1
        <5> HIDE DEF x
        <5>2. x = m + 1
          BY <2>1, <5>1
        <5> QED
          BY <5>2 DEF x
      <4>3. s \ {Max(s)} \in SUBSET (1..m + 1) /\ m + 1 \notin s \ {Max(s)}
        BY <4>2
      <4>4. G[s \ {Max(s)}] = g[s \ {Max(s)}]
        BY <4>3
      <4> HIDE DEF G
      <4> QED
        BY <3>1, <4>1, <4>4
    <3>2. CASE m + 1 \notin s
      <4>1. s \in SUBSET (1..m)
        BY <2>1, <3>2
      <4>2. g[s] = v(g, s)
        BY <2>2, <4>1
      <4>3. s # {} => G[s \ {Max(s)}] = g[s \ {Max(s)}]
        <5>1. s \ {Max(s)} \in SUBSET (1..m + 1) /\ m + 1 \notin s \ {Max(s)}
          BY <3>2
        <5> QED
          BY <5>1
      <4> HIDE DEF G
      <4> QED
        BY <3>2, <4>2, <4>3
    <3> QED
      BY <3>1, <3>2
  <2>4. G = Body(G, m + 1)
    BY <2>3, Zenon
  <2> HIDE DEF G, Body
  <2> QED
    BY <2>4
<1>4. N = Nat
  <2> HIDE DEF N
  <2>1. N \in SUBSET Nat
    BY DEF N
  <2> QED
    BY <1>2, <1>3, <2>1, Induction
<1>5. iter = Body(iter, n)
  <2> HIDE DEF Body
  <2>1. \E g : g = Body(g, n)
    BY <1>1, <1>4
  <2> QED
    BY <2>1
<1>6. LookupCreate(h, start, path) = iter[1..n]
  BY <1>1 DEF LookupCreate, CreateStep, FoldLeft, MapThenFoldSet
<1> HIDE DEF iter
<1>7. 0 \in A
  <2>1. 1..0 = {} /\ {} \in SUBSET (1..n)
    OBVIOUS
  <2>2. iter[{}] = [heap |-> h, node |-> start]
    BY <1>5, <2>1
  <2> QED
    BY <2>1, <2>2
<1>8. ASSUME NEW m \in A
      PROVE  m + 1 \in A
  <2> SUFFICES ASSUME m + 1 <= n
               PROVE  iter[1..(m + 1)] = W[m + 1]
    OBVIOUS
  <2>1. m \in Nat /\ m + 1 \in 0..n /\ m + 1 # 0 /\ (m + 1) - 1 = m /\ m \in 0..n - 1
    BY <1>1
  <2>2. /\ (1..(m + 1)) \in SUBSET (1..n) /\ (1..(m + 1)) # {} /\ Max(1..(m + 1)) = m + 1
        /\ (1..(m + 1)) \ {m + 1} = 1..m
    <3> HIDE DEF n
    <3> QED
      BY <1>1, <2>1, Segments
  <2>3. iter[1..(m + 1)] = CreateStep(iter[1..m], path[m + 1])
    <3> DEFINE t == 1..(m + 1)
    <3>1. iter[t] = IF t = {} THEN [heap |-> h, node |-> start] ELSE CreateStep(iter[t \ {Max(t)}], path[Max(t)])
      <4>1. t \in SUBSET (1..n)
        BY <2>2
      <4> HIDE DEF t
      <4> QED
        BY <1>5, <4>1
    <3> QED
      BY <2>2, <3>1
  <2>4. iter[1..m] = W[m]
    BY <2>1
  <2> QED
    BY <2>1, <2>3, <2>4
<1>9. A = Nat
  <2> HIDE DEF A
  <2>1. A \in SUBSET Nat
    BY DEF A
  <2> QED
    BY <1>7, <1>8, <2>1, Induction
<1> QED
  BY <1>1, <1>6, <1>9

\* What holds of the empty path, and of a path with a key more if it holds of the
\* path, holds of all.
LEMMA PathInduction ==
    ASSUME NEW N \in SUBSET Path, << >> \in N,
           \A p \in N, k \in STRING : Append(p, k) \in N
    PROVE  N = Path
<1> DEFINE M == {n \in Nat : \A p \in Path : Len(p) = n => p \in N}
<1>1. 0 \in M
  BY EmptySeq DEF Path
<1>2. ASSUME NEW n \in M
      PROVE  n + 1 \in M
  <2> SUFFICES ASSUME NEW p \in Path, Len(p) = n + 1
               PROVE  p \in N
    OBVIOUS
  <2>1. p # << >>
    <3>1. Len(<< >>) = 0 /\ n + 1 # 0
      OBVIOUS
    <3> QED
      BY <3>1
  <2> DEFINE u == Front(p)
             k == Last(p)
  <2>2. u \in Path /\ k \in STRING /\ p = Append(u, k) /\ Len(u) = Len(p) - 1
    BY <2>1, PathEnd
  <2> HIDE DEF u, k
  <2>3. Len(u) = n
    BY <2>2
  <2> QED
    BY <2>2, <2>3
<1>3. M = Nat
  <2> HIDE DEF M
  <2>1. M \in SUBSET Nat
    BY DEF M
  <2> QED
    BY <1>1, <1>2, <2>1, Induction
<1> QED
  BY <1>3, LenProperties DEF Path

\* Lookup of no path stays where it is.
LEMMA LookupNone ==
    ASSUME NEW h, NEW start
    PROVE  Lookup(h, start, << >>) = start
<1> DEFINE e == << >>
           U == [j \in {0} |-> start]
<1>1. e \in Seq(STRING) /\ Len(e) = 0
  OBVIOUS
<1>2. U[0] = start
  OBVIOUS
<1> HIDE DEF e, U
<1>3. \A i \in 0..Len(e) - 1 : U[i + 1] = LookupPart(h, U[i], e[i + 1])
  BY <1>1
<1>4. Lookup(h, start, e) = U[Len(e)]
  <2>1. ASSUME NEW path \in Seq(STRING), NEW V2, V2[0] = start,
               \A i \in 0..Len(path) - 1 : V2[i + 1] = LookupPart(h, V2[i], path[i + 1])
        PROVE  Lookup(h, start, path) = V2[Len(path)]
    BY <2>1, LookupAlong
  <2> QED
    BY <1>1, <1>2, <1>3, <2>1
<1> QED
  BY <1>1, <1>2, <1>4 DEF e

\* Lookup goes on by a key.
LEMMA LookupNext ==
    ASSUME NEW h, NEW start, NEW p \in Path, NEW k \in STRING
    PROVE  Lookup(h, start, Append(p, k)) = LookupPart(h, Lookup(h, start, p), k)
<1> DEFINE q == Append(p, k)
           n == Len(p)
           N == {m \in Nat : m <= n => \E W : /\ W[0] = start
                                             /\ \A i \in 0..m - 1 :
                                                  W[i + 1] = LookupPart(h, W[i], p[i + 1])}
<1>1. p \in Seq(STRING) /\ n \in Nat
  BY LenProperties DEF Path
<1>2. /\ q \in Seq(STRING) /\ Len(q) = n + 1
      /\ \A i \in 1..n : q[i] = p[i]
      /\ q[n + 1] = k
  BY PathAppend
<1> HIDE DEF q, n
<1>3. 0 \in N
  <2> DEFINE W == [j \in {0} |-> start]
  <2>1. W[0] = start /\ \A i \in 0..0 - 1 : W[i + 1] = LookupPart(h, W[i], p[i + 1])
    OBVIOUS
  <2> HIDE DEF W
  <2> QED
    BY <2>1
<1>4. ASSUME NEW m \in N
      PROVE  m + 1 \in N
  <2> SUFFICES ASSUME m + 1 <= n
               PROVE  \E W : /\ W[0] = start
                             /\ \A i \in 0..(m + 1) - 1 :
                                  W[i + 1] = LookupPart(h, W[i], p[i + 1])
    OBVIOUS
  <2>1. m \in Nat /\ m <= n
    BY <1>1
  <2>2. PICK V : /\ V[0] = start
                 /\ \A i \in 0..m - 1 : V[i + 1] = LookupPart(h, V[i], p[i + 1])
    BY <2>1
  <2> DEFINE W == [j \in 0..m + 1 |-> IF j <= m THEN V[j] ELSE LookupPart(h, V[m], p[m + 1])]
  <2>3. /\ \A j \in 0..m : W[j] = V[j]
        /\ W[m + 1] = LookupPart(h, V[m], p[m + 1])
    BY <2>1
  <2> HIDE DEF W
  <2>4. W[0] = start
    BY <2>1, <2>2, <2>3
  <2>5. ASSUME NEW i \in 0..(m + 1) - 1
        PROVE  W[i + 1] = LookupPart(h, W[i], p[i + 1])
    <3>1. i \in 0..m /\ (i = m \/ (i \in 0..m - 1 /\ i + 1 \in 0..m))
      BY <2>1
    <3>2. CASE i = m
      BY <2>3, <3>1, <3>2
    <3>3. CASE i \in 0..m - 1 /\ i + 1 \in 0..m
      BY <2>2, <2>3, <3>1, <3>3
    <3> QED
      BY <3>1, <3>2, <3>3
  <2> QED
    BY <2>4, <2>5
<1>5. N = Nat
  <2> HIDE DEF N
  <2>1. N \in SUBSET Nat
    BY DEF N
  <2> QED
    BY <1>3, <1>4, <2>1, Induction
<1> HIDE DEF N
<1>6. PICK W : /\ W[0] = start
               /\ \A i \in 0..n - 1 : W[i + 1] = LookupPart(h, W[i], p[i + 1])
  <2>1. n \in N /\ n <= n
    BY <1>1, <1>5
  <2> QED
    BY <2>1 DEF N
<1>7. Lookup(h, start, p) = W[n]
  BY <1>1, <1>6, LookupAlong DEF n
<1> DEFINE V == [j \in 0..n + 1 |-> IF j <= n THEN W[j] ELSE LookupPart(h, W[n], k)]
<1>8. /\ \A j \in 0..n : V[j] = W[j]
      /\ V[n + 1] = LookupPart(h, W[n], k)
  <2>1. n + 1 \in 0..n + 1 /\ ~(n + 1 <= n)
    BY <1>1
  <2>2. V[n + 1] = LookupPart(h, W[n], k)
    BY <2>1
  <2>3. \A j \in 0..n : j \in 0..n + 1 /\ j <= n
    BY <1>1
  <2> QED
    BY <2>2, <2>3
<1> HIDE DEF V
<1>9. V[0] = start
  BY <1>1, <1>6, <1>8
<1>10. ASSUME NEW i \in 0..Len(q) - 1
       PROVE  V[i + 1] = LookupPart(h, V[i], q[i + 1])
  <2>1. i \in 0..n /\ (i = n \/ (i \in 0..n - 1 /\ i + 1 \in 0..n /\ i + 1 \in 1..n))
    BY <1>1, <1>2
  <2>2. CASE i = n
    BY <1>2, <1>8, <2>1, <2>2
  <2>3. CASE i \in 0..n - 1 /\ i + 1 \in 0..n /\ i + 1 \in 1..n
    BY <1>2, <1>6, <1>8, <2>1, <2>3
  <2> QED
    BY <2>1, <2>2, <2>3
<1>11. Lookup(h, start, q) = V[Len(q)]
  BY <1>2, <1>9, <1>10, LookupAlong
<1>12. Lookup(h, start, q) = LookupPart(h, W[n], k)
  BY <1>2, <1>8, <1>11
<1> QED
  BY <1>7, <1>12 DEF q

\* LookupCreate goes on by a key.
LEMMA CreateNext ==
    ASSUME NEW h, NEW start, NEW p \in Path, NEW k \in STRING
    PROVE  /\ LookupCreate(h, start, << >>) = [heap |-> h, node |-> start]
           /\ LookupCreate(h, start, Append(p, k)) = CreateStep(LookupCreate(h, start, p), k)
<1> DEFINE q == Append(p, k)
           n == Len(p)
           N == {m \in Nat : m <= n => \E W : /\ W[0] = [heap |-> h, node |-> start]
                                             /\ \A i \in 0..m - 1 :
                                                  W[i + 1] = CreateStep(W[i], p[i + 1])}
<1>1. p \in Seq(STRING) /\ n \in Nat
  BY LenProperties DEF Path
<1>2. /\ q \in Seq(STRING) /\ Len(q) = n + 1
      /\ \A i \in 1..n : q[i] = p[i]
      /\ q[n + 1] = k
  BY PathAppend
<1> HIDE DEF q, n
<1>3. 0 \in N
  <2> DEFINE W == [j \in {0} |-> [heap |-> h, node |-> start]]
  <2>1. W[0] = [heap |-> h, node |-> start] /\ \A i \in 0..0 - 1 : W[i + 1] = CreateStep(W[i], p[i + 1])
    OBVIOUS
  <2> HIDE DEF W
  <2> QED
    BY <2>1
<1>4. ASSUME NEW m \in N
      PROVE  m + 1 \in N
  <2> SUFFICES ASSUME m + 1 <= n
               PROVE  \E W : /\ W[0] = [heap |-> h, node |-> start]
                             /\ \A i \in 0..(m + 1) - 1 :
                                  W[i + 1] = CreateStep(W[i], p[i + 1])
    OBVIOUS
  <2>1. m \in Nat /\ m <= n
    BY <1>1
  <2>2. PICK V : /\ V[0] = [heap |-> h, node |-> start]
                 /\ \A i \in 0..m - 1 : V[i + 1] = CreateStep(V[i], p[i + 1])
    BY <2>1
  <2> DEFINE W == [j \in 0..m + 1 |-> IF j <= m THEN V[j] ELSE CreateStep(V[m], p[m + 1])]
  <2>3. /\ \A j \in 0..m : W[j] = V[j]
        /\ W[m + 1] = CreateStep(V[m], p[m + 1])
    BY <2>1
  <2> HIDE DEF W
  <2>4. W[0] = [heap |-> h, node |-> start]
    BY <2>1, <2>2, <2>3
  <2>5. ASSUME NEW i \in 0..(m + 1) - 1
        PROVE  W[i + 1] = CreateStep(W[i], p[i + 1])
    <3>1. i \in 0..m /\ (i = m \/ (i \in 0..m - 1 /\ i + 1 \in 0..m))
      BY <2>1
    <3>2. CASE i = m
      BY <2>3, <3>1, <3>2
    <3>3. CASE i \in 0..m - 1 /\ i + 1 \in 0..m
      BY <2>2, <2>3, <3>1, <3>3
    <3> QED
      BY <3>1, <3>2, <3>3
  <2> QED
    BY <2>4, <2>5
<1>5. N = Nat
  <2> HIDE DEF N
  <2>1. N \in SUBSET Nat
    BY DEF N
  <2> QED
    BY <1>3, <1>4, <2>1, Induction
<1> HIDE DEF N
<1>6. PICK W : /\ W[0] = [heap |-> h, node |-> start]
               /\ \A i \in 0..n - 1 : W[i + 1] = CreateStep(W[i], p[i + 1])
  <2>1. n \in N /\ n <= n
    BY <1>1, <1>5
  <2> QED
    BY <2>1 DEF N
<1>7. LookupCreate(h, start, p) = W[n]
  BY <1>1, <1>6, CreateAlong DEF n
<1> DEFINE V == [j \in 0..n + 1 |-> IF j <= n THEN W[j] ELSE CreateStep(W[n], k)]
<1>8. /\ \A j \in 0..n : V[j] = W[j]
      /\ V[n + 1] = CreateStep(W[n], k)
  <2>1. n + 1 \in 0..n + 1 /\ ~(n + 1 <= n)
    BY <1>1
  <2>2. V[n + 1] = CreateStep(W[n], k)
    BY <2>1
  <2>3. \A j \in 0..n : j \in 0..n + 1 /\ j <= n
    BY <1>1
  <2> QED
    BY <2>2, <2>3
<1> HIDE DEF V
<1>9. V[0] = [heap |-> h, node |-> start]
  BY <1>1, <1>6, <1>8
<1>10. ASSUME NEW i \in 0..Len(q) - 1
       PROVE  V[i + 1] = CreateStep(V[i], q[i + 1])
  <2>1. i \in 0..n /\ (i = n \/ (i \in 0..n - 1 /\ i + 1 \in 0..n /\ i + 1 \in 1..n))
    BY <1>1, <1>2
  <2>2. CASE i = n
    BY <1>2, <1>8, <2>1, <2>2
  <2>3. CASE i \in 0..n - 1 /\ i + 1 \in 0..n /\ i + 1 \in 1..n
    BY <1>2, <1>6, <1>8, <2>1, <2>3
  <2> QED
    BY <2>1, <2>2, <2>3
<1>11. LookupCreate(h, start, q) = V[Len(q)]
  BY <1>2, <1>9, <1>10, CreateAlong
<1>12. LookupCreate(h, start, q) = CreateStep(W[n], k)
  BY <1>2, <1>8, <1>11
<1>13. LookupCreate(h, start, << >>) = [heap |-> h, node |-> start]
  <2>1. ASSUME NEW e, e \in Seq(STRING), NEW U, U[0] = [heap |-> h, node |-> start],
               \A i \in 0..Len(e) - 1 : U[i + 1] = CreateStep(U[i], e[i + 1])
        PROVE  LookupCreate(h, start, e) = U[Len(e)]
    BY <2>1, CreateAlong
  <2> DEFINE U == [j \in {0} |-> [heap |-> h, node |-> start]]
  <2>2. << >> \in Seq(STRING) /\ Len(<< >>) = 0 /\ U[0] = [heap |-> h, node |-> start]
    OBVIOUS
  <2> HIDE DEF U
  <2>3. \A i \in 0..Len(<< >>) - 1 : U[i + 1] = CreateStep(U[i], << >>[i + 1])
    BY <2>2
  <2> QED
    BY <2>1, <2>2, <2>3, Zenon
<1> QED
  BY <1>7, <1>12, <1>13 DEF q

-----------------------------------------------------------------------------
(* Trees and the nodes that show them.                                     *)

\* The keys of a node are those that lead to others.
LEMMA KeysAre ==
    ASSUME NEW t, IsTree(t), NEW p \in Path
    PROVE  Keys(t, p) = {k \in STRING : Append(p, k) \in DOMAIN t}
<1>1. DOMAIN t \subseteq Path
  BY DEF IsTree, Path
<1>2. ASSUME NEW q \in DOMAIN t, q # << >>, Front(q) = p
      PROVE  Last(q) \in STRING /\ Append(p, Last(q)) \in DOMAIN t
  <2>1. q \in Path
    BY <1>1
  <2>2. Last(q) \in STRING /\ q = Append(Front(q), Last(q))
    BY <2>1, <1>2, PathEnd
  <2> QED
    BY <2>2, <1>2
<1>3. ASSUME NEW k \in STRING, Append(p, k) \in DOMAIN t
      PROVE  \E q \in DOMAIN t : q # << >> /\ Front(q) = p /\ k = Last(q)
  <2>1. Append(p, k) # << >> /\ Front(Append(p, k)) = p /\ Last(Append(p, k)) = k
    BY PathStep
  <2> QED
    BY <1>3, <2>1
<1> QED
  BY <1>2, <1>3 DEF Keys

\* What a tree is made of.
LEMMA TreeHas ==
    ASSUME NEW t, IsTree(t)
    PROVE  /\ DOMAIN t \subseteq Path /\ << >> \in DOMAIN t
           /\ t = [p \in DOMAIN t |-> [kind |-> t[p].kind, value |-> t[p].value,
                                       text |-> t[p].text]]
           /\ \A p \in DOMAIN t, k \in STRING :
                /\ k \in Keys(t, p) <=> Append(p, k) \in DOMAIN t
                /\ k \in Keys(t, p) => \/ t[p].kind = "map"
                                       \/ t[p].kind = "list" /\ k \in Positions
           /\ \A p \in DOMAIN t : Keys(t, p) \subseteq STRING /\ t[p].kind \in nodeKinds
<1>1. DOMAIN t \subseteq Path /\ << >> \in DOMAIN t
  BY DEF IsTree, Path
<1>2. ASSUME NEW p \in DOMAIN t, NEW k \in STRING
      PROVE  /\ k \in Keys(t, p) <=> Append(p, k) \in DOMAIN t
             /\ k \in Keys(t, p) => \/ t[p].kind = "map"
                                    \/ t[p].kind = "list" /\ k \in Positions
  <2>1. p \in Path
    BY <1>1
  <2>2. k \in Keys(t, p) <=> Append(p, k) \in DOMAIN t
    BY <2>1, KeysAre
  <2>3. Append(p, k) # << >> /\ Front(Append(p, k)) = p /\ Last(Append(p, k)) = k
    BY <2>1, PathStep
  <2>4. ASSUME Append(p, k) \in DOMAIN t
        PROVE  t[p].kind = "map" \/ (t[p].kind = "list" /\ k \in Positions)
    <3> DEFINE q == Append(p, k)
    <3>1. q \in DOMAIN t \ {<< >>} /\ Front(q) = p /\ Last(q) = k
      BY <2>3, <2>4
    <3> HIDE DEF q
    <3> QED
      BY <3>1 DEF IsTree
  <2> QED
    BY <2>2, <2>4
<1>3. \A p \in DOMAIN t : Keys(t, p) \subseteq STRING
  BY <1>1, KeysAre
<1> QED
  BY <1>1, <1>2, <1>3 DEF IsTree

\* The writer makes of the nodes below a node what they hold.
LEMMA TreeAtIs ==
    ASSUME NEW at, NEW h, NEW node, Layout(at, h, node)
    PROVE  TreeAt(h, node) = [p \in DOMAIN at |->
             [kind |-> h[at[p]].kind, value |-> h[at[p]].value, text |-> h[at[p]].text]]
<1>1. {x[1] : x \in Reached(h, node)} = DOMAIN at
  <2>1. Reached(h, node) = {<<p, at[p]>> : p \in DOMAIN at}
    BY ReachedIs
  <2>2. ASSUME NEW x \in Reached(h, node)
        PROVE  x[1] \in DOMAIN at
    BY <2>1
  <2>3. ASSUME NEW p \in DOMAIN at
        PROVE  p \in {x[1] : x \in Reached(h, node)}
    <3>1. <<p, at[p]>> \in Reached(h, node) /\ <<p, at[p]>>[1] = p
      BY <2>1
    <3> QED
      BY <3>1
  <2> QED
    BY <2>2, <2>3
<1>2. ASSUME NEW p \in DOMAIN at
      PROVE  Follow(h, node, p) = at[p]
  <2> DEFINE W == [i \in 0..Len(p) |-> at[SubSeq(p, 1, i)]]
             n == Len(p)
  <2>1. p \in Path /\ p \in Seq(STRING) /\ n \in Nat
    BY LenProperties DEF Layout, Path
  <2>2. SubSeq(p, 1, 0) = << >> /\ SubSeq(p, 1, n) = p
    BY <2>1, PrefixAt
  <2>3. ASSUME NEW i \in 0..n - 1, SubSeq(p, 1, i + 1) \in DOMAIN at
        PROVE  /\ SubSeq(p, 1, i) \in DOMAIN at
               /\ at[SubSeq(p, 1, i + 1)] = h[at[SubSeq(p, 1, i)]].fields[p[i + 1]]
    <3> DEFINE q == SubSeq(p, 1, i + 1)
    <3>1. i \in 0..n
      BY <2>1
    <3>2. q = Append(SubSeq(p, 1, i), p[i + 1]) /\ p[i + 1] \in STRING
      BY <2>1, PrefixNext
    <3>3. SubSeq(p, 1, i) \in Path
      BY <2>1, <3>1, PrefixAt
    <3>4. q # << >> /\ Front(q) = SubSeq(p, 1, i) /\ Last(q) = p[i + 1]
      BY <3>2, <3>3, PathStep
    <3> HIDE DEF q
    <3>5. Front(q) \in DOMAIN at /\ Last(q) \in DOMAIN h[at[Front(q)]].fields
      BY <2>3, <3>4 DEF Layout, q
    <3>6. at[Append(Front(q), Last(q))] = h[at[Front(q)]].fields[Last(q)]
      BY <3>5, Zenon DEF Layout
    <3> QED
      BY <3>2, <3>4, <3>5, <3>6, Zenon DEF q
  <2> DEFINE N == {d \in Nat : d <= n => SubSeq(p, 1, n - d) \in DOMAIN at}
  <2>4. N = Nat
    <3>1. 0 \in N
      <4>1. n - 0 = n
        BY <2>1
      <4> QED
        BY <2>2, <4>1
    <3>2. ASSUME NEW d \in N
          PROVE  d + 1 \in N
      <4> SUFFICES ASSUME d + 1 <= n
                   PROVE  SubSeq(p, 1, n - (d + 1)) \in DOMAIN at
        OBVIOUS
      <4>1. d \in Nat /\ d <= n /\ n - (d + 1) \in 0..n - 1 /\ (n - (d + 1)) + 1 = n - d
        BY <2>1
      <4>2. SubSeq(p, 1, n - d) \in DOMAIN at
        BY <4>1
      <4> DEFINE e == n - (d + 1)
      <4>3. e \in 0..n - 1 /\ SubSeq(p, 1, e + 1) \in DOMAIN at
        BY <4>1, <4>2
      <4> HIDE DEF e
      <4>4. SubSeq(p, 1, e) \in DOMAIN at
        BY <2>3, <4>3
      <4> QED
        BY <4>4 DEF e
    <3> HIDE DEF N
    <3>3. N \in SUBSET Nat
      BY DEF N
    <3> QED
      BY <3>1, <3>2, <3>3, Induction
  <2>5. ASSUME NEW i \in 0..n - 1
        PROVE  W[i + 1] = h[W[i]].fields[p[i + 1]]
    <3>1. i \in 0..n /\ i + 1 \in 0..n /\ n - (i + 1) \in Nat /\ n - (i + 1) <= n
          /\ n - (n - (i + 1)) = i + 1
      BY <2>1
    <3> DEFINE d == n - (i + 1)
    <3>2. d \in Nat /\ d <= n /\ n - d = i + 1
      BY <3>1
    <3> HIDE DEF d
    <3>3. SubSeq(p, 1, n - d) \in DOMAIN at
      BY <2>4, <3>2
    <3>4. SubSeq(p, 1, i + 1) \in DOMAIN at
      BY <3>2, <3>3
    <3>5. at[SubSeq(p, 1, i + 1)] = h[at[SubSeq(p, 1, i)]].fields[p[i + 1]]
      BY <2>3, <3>4
    <3> QED
      BY <3>1, <3>5
  <2>6. W[0] = node /\ W[n] = at[p]
    <3>1. 0 \in 0..n /\ n \in 0..n
      BY <2>1
    <3> QED
      BY <2>2, <3>1 DEF Layout
  <2> HIDE DEF W
  <2>7. Follow(h, node, p) = W[n]
    BY <2>1, <2>5, <2>6, FollowAlong
  <2> QED
    BY <2>6, <2>7
<1> QED
  BY <1>1, <1>2 DEF TreeAt

\* The node at a path of a document: one of the patch's at some paths.
NodeAt(i, S, p) == IF p \in S THEN <<0, p>> ELSE <<i, p>>

\* What it holds.
Drawn(t, p, i, S) ==
    [kind |-> t[p].kind, value |-> t[p].value, text |-> t[p].text,
     fields |-> [k \in Keys(t, p) |-> NodeAt(i, S, Append(p, k))]]

\* The nodes of document i, some of them the patch's, show a tree.
Shows(h, i, t, S) ==
    /\ << >> \notin S
    /\ \A p \in DOMAIN t : NodeAt(i, S, p) \in DOMAIN h
                           /\ h[NodeAt(i, S, p)] = Drawn(t, p, i, S)

\* All of them are its own.
Holds(h, i, t) == \A p \in DOMAIN t : <<i, p>> \in DOMAIN h /\ h[<<i, p>>] = NodeOf(t, p, i)

\* A document that shares nothing is all its own.
LEMMA HoldsShows ==
    ASSUME NEW h, NEW i, NEW t
    PROVE  Shows(h, i, t, {}) <=> Holds(h, i, t)
<1>1. \A p : NodeAt(i, {}, p) = <<i, p>>
  BY DEF NodeAt
<1>2. ASSUME NEW p
      PROVE  Drawn(t, p, i, {}) = NodeOf(t, p, i)
  BY <1>1 DEF Drawn, NodeOf
<1> QED
  BY <1>1, <1>2 DEF Shows, Holds

\* What the writer makes of them is the tree.
LEMMA ShownTree ==
    ASSUME NEW h, NEW i, NEW t, IsTree(t), Shallow(t), NEW S, Shows(h, i, t, S)
    PROVE  /\ Layout([p \in DOMAIN t |-> NodeAt(i, S, p)], h, Root(i))
           /\ TreeAt(h, Root(i)) = t
<1> DEFINE at == [p \in DOMAIN t |-> NodeAt(i, S, p)]
<1>1. /\ DOMAIN t \subseteq Path /\ << >> \in DOMAIN t
      /\ t = [p \in DOMAIN t |-> [kind |-> t[p].kind, value |-> t[p].value,
                                  text |-> t[p].text]]
      /\ \A p \in DOMAIN t, k \in STRING : k \in Keys(t, p) <=> Append(p, k) \in DOMAIN t
      /\ \A p \in DOMAIN t : Keys(t, p) \subseteq STRING
  BY TreeHas
<1>2. DOMAIN at = DOMAIN t /\ \A p \in DOMAIN t : at[p] = NodeAt(i, S, p)
  OBVIOUS
<1>3. at[<< >>] = Root(i)
  BY <1>1 DEF Shows, NodeAt, Root
<1> HIDE DEF at
<1>4. ASSUME NEW p \in DOMAIN t
      PROVE  /\ h[at[p]].kind = t[p].kind /\ h[at[p]].value = t[p].value
             /\ h[at[p]].text = t[p].text /\ DOMAIN h[at[p]].fields = Keys(t, p)
             /\ \A k \in Keys(t, p) : h[at[p]].fields[k] = NodeAt(i, S, Append(p, k))
  <2>1. h[at[p]] = Drawn(t, p, i, S)
    BY <1>2 DEF Shows
  <2> HIDE DEF at
  <2> QED
    BY <2>1 DEF Drawn
<1>5. ASSUME NEW p \in DOMAIN t
      PROVE  /\ Len(p) <= MaxDepth
             /\ DOMAIN h[at[p]].fields \subseteq STRING
             /\ \A k \in DOMAIN h[at[p]].fields :
                  Append(p, k) \in DOMAIN at /\ at[Append(p, k)] = h[at[p]].fields[k]
  <2>1. Len(p) <= MaxDepth
    BY DEF Shallow
  <2>2. DOMAIN h[at[p]].fields = Keys(t, p) /\ Keys(t, p) \subseteq STRING
    BY <1>1, <1>4
  <2>3. \A k \in Keys(t, p) : Append(p, k) \in DOMAIN t
    BY <1>1, <2>2
  <2> QED
    BY <1>2, <1>4, <2>1, <2>2, <2>3
<1>6. ASSUME NEW p \in DOMAIN t \ {<< >>}
      PROVE  Front(p) \in DOMAIN at /\ Last(p) \in DOMAIN h[at[Front(p)]].fields
  <2>1. p \in Path
    BY <1>1
  <2>2. Front(p) \in Path /\ Last(p) \in STRING /\ p = Append(Front(p), Last(p))
    BY <2>1, PathEnd
  <2>3. Front(p) \in DOMAIN t
    BY DEF IsTree
  <2>4. Last(p) \in Keys(t, Front(p))
    BY <1>1, <2>2, <2>3
  <2> QED
    BY <1>2, <1>4, <2>3, <2>4
<1>7. Layout(at, h, Root(i))
  BY <1>1, <1>2, <1>3, <1>5, <1>6 DEF Layout
<1>8. TreeAt(h, Root(i)) = t
  <2>1. TreeAt(h, Root(i)) = [p \in DOMAIN at |->
           [kind |-> h[at[p]].kind, value |-> h[at[p]].value, text |-> h[at[p]].text]]
    BY <1>7, TreeAtIs
  <2>2. TreeAt(h, Root(i)) = [p \in DOMAIN t |->
           [kind |-> t[p].kind, value |-> t[p].value, text |-> t[p].text]]
    BY <1>2, <1>4, <2>1
  <2> QED
    BY <1>1, <2>2
<1> QED
  BY <1>7, <1>8 DEF at

\* A node of a document that is as it was read.
LEMMA HeldAt ==
    ASSUME NEW h, NEW i, NEW t, Holds(h, i, t), NEW p \in DOMAIN t
    PROVE  /\ <<i, p>> \in DOMAIN h
           /\ h[<<i, p>>].kind = t[p].kind /\ h[<<i, p>>].value = t[p].value
           /\ h[<<i, p>>].text = t[p].text /\ DOMAIN h[<<i, p>>].fields = Keys(t, p)
           /\ \A k \in Keys(t, p) : h[<<i, p>>].fields[k] = <<i, Append(p, k)>>
<1>1. <<i, p>> \in DOMAIN h /\ h[<<i, p>>] = NodeOf(t, p, i)
  BY DEF Holds
<1> QED
  BY <1>1 DEF NodeOf

\* A lookup in a document that is as it was read.
LEMMA PartIs ==
    ASSUME NEW h, NEW i \in Nat, NEW t, IsTree(t), Holds(h, i, t),
           NEW p \in DOMAIN t, NEW k \in STRING
    PROVE  LookupPart(h, <<i, p>>, k) =
             IF t[p].kind = "null" THEN Nil
             ELSE IF t[p].kind # IF k \in Positions THEN "list" ELSE "map" THEN Bad
             ELSE IF Absent(t, Append(p, k)) THEN Nil
             ELSE <<i, Append(p, k)>>
<1>1. <<i, p>> \notin {Nil, Bad}
  <2>1. i # -1 /\ i # -2
    OBVIOUS
  <2> QED
    BY <2>1 DEF Nil, Bad
<1>2. k \in Keys(t, p) <=> Append(p, k) \in DOMAIN t
  BY TreeHas
<1>3. /\ h[<<i, p>>].kind = t[p].kind
      /\ DOMAIN h[<<i, p>>].fields = Keys(t, p)
      /\ k \in Keys(t, p) => h[<<i, p>>].fields[k] = <<i, Append(p, k)>>
  <2>1. h[<<i, p>>] = NodeOf(t, p, i)
    BY DEF Holds
  <2> QED
    BY <2>1 DEF NodeOf
<1>4. Append(p, k) \in DOMAIN t => h[<<i, Append(p, k)>>].kind = t[Append(p, k)].kind
  <2> DEFINE q == Append(p, k)
  <2> HIDE DEF q
  <2>1. q \in DOMAIN t => h[<<i, q>>].kind = t[q].kind
    BY HeldAt
  <2> QED
    BY <2>1 DEF q
<1>5. Absent(t, Append(p, k)) <=> (Append(p, k) \notin DOMAIN t \/ t[Append(p, k)].kind = "null")
  <2>1. Append(p, k) \in DOMAIN t => t[Append(p, k)].kind \in nodeKinds
    BY TreeHas
  <2> QED
    BY <2>1 DEF Absent, Kind, Has, nodeKinds
<1> DEFINE n == <<i, p>>
           m == <<i, Append(p, k)>>
<1> HIDE DEF n, m
<1>6. /\ n \notin {Nil, Bad} /\ h[n].kind = t[p].kind
      /\ k \in DOMAIN h[n].fields <=> Append(p, k) \in DOMAIN t
      /\ Append(p, k) \in DOMAIN t => h[n].fields[k] = m /\ h[m].kind = t[Append(p, k)].kind
  BY <1>1, <1>2, <1>3, <1>4 DEF n, m
<1>7. LookupPart(h, n, k) =
        IF t[p].kind = "null" THEN Nil
        ELSE IF t[p].kind # IF k \in Positions THEN "list" ELSE "map" THEN Bad
        ELSE IF Absent(t, Append(p, k)) THEN Nil
        ELSE m
  <2>1. CASE t[p].kind = "null" \/ t[p].kind # IF k \in Positions THEN "list" ELSE "map"
    BY <1>6, <2>1 DEF LookupPart
  <2>2. CASE ~(t[p].kind = "null" \/ t[p].kind # IF k \in Positions THEN "list" ELSE "map")
    <3>1. CASE Append(p, k) \notin DOMAIN t
      BY <1>5, <1>6, <2>2, <3>1 DEF LookupPart
    <3>2. CASE Append(p, k) \in DOMAIN t
      BY <1>5, <1>6, <2>2, <3>2 DEF LookupPart
    <3> QED
      BY <3>1, <3>2
  <2> QED
    BY <2>1, <2>2
<1> QED
  BY <1>7 DEF n, m

\* A path and one key more.
LEMMA TreeNext ==
    ASSUME NEW t, IsTree(t), NEW p \in Path, NEW k \in STRING, Append(p, k) \in DOMAIN t
    PROVE  p \in DOMAIN t /\ (t[p].kind = "map" \/ (t[p].kind = "list" /\ k \in Positions))
<1> DEFINE q == Append(p, k)
<1>1. q # << >> /\ Front(q) = p /\ Last(q) = k
  BY PathStep
<1> HIDE DEF q
<1>2. q \in DOMAIN t \ {<< >>}
  BY <1>1 DEF q
<1> QED
  BY <1>1, <1>2 DEF IsTree

\* What it takes to be a tree.
LEMMA TreeIf ==
    ASSUME NEW t,
           t = [p \in DOMAIN t |-> [kind |-> t[p].kind, value |-> t[p].value, text |-> t[p].text]],
           DOMAIN t \subseteq Path, << >> \in DOMAIN t,
           \A p \in DOMAIN t : t[p].kind \in nodeKinds,
           \A p \in Path, k \in STRING : Append(p, k) \in DOMAIN t =>
             p \in DOMAIN t /\ (t[p].kind = "map" \/ (t[p].kind = "list" /\ k \in Positions))
    PROVE  IsTree(t)
<1>1. ASSUME NEW q \in DOMAIN t \ {<< >>}
      PROVE  /\ Front(q) \in DOMAIN t
             /\ \/ t[Front(q)].kind = "map"
                \/ t[Front(q)].kind = "list" /\ Last(q) \in Positions
  <2>1. q \in Path /\ q # << >>
    OBVIOUS
  <2>2. Front(q) \in Path /\ Last(q) \in STRING /\ q = Append(Front(q), Last(q))
    BY <2>1, PathEnd
  <2>3. Append(Front(q), Last(q)) \in DOMAIN t
    BY <2>2
  <2> QED
    BY <2>2, <2>3
<1> QED
  BY <1>1 DEF IsTree, Path

\* The way to a node of a tree is there.
LEMMA TreeDown ==
    ASSUME NEW t, IsTree(t), NEW p \in DOMAIN t, NEW r \in Path, IsPrefix(r, p)
    PROVE  r \in DOMAIN t /\ (r # p => t[r].kind \in {"map", "list"})
<1> DEFINE N == {n \in Nat : \A q \in DOMAIN t : Len(q) = n =>
                   (IsPrefix(r, q) => r \in DOMAIN t /\ (r # q => t[r].kind \in {"map", "list"}))}
<1>1. DOMAIN t \subseteq Path /\ Len(<< >>) = 0
  BY TreeHas
<1>2. 0 \in N
  <2> SUFFICES ASSUME NEW q \in DOMAIN t, Len(q) = 0, IsPrefix(r, q)
               PROVE  r \in DOMAIN t /\ r = q
    OBVIOUS
  <2>1. q = << >>
    BY <1>1, EmptySeq DEF Path
  <2>2. r = << >>
    BY <2>1, PrefixOrder
  <2> QED
    BY <2>1, <2>2
<1>3. ASSUME NEW n \in N
      PROVE  n + 1 \in N
  <2> SUFFICES ASSUME NEW q \in DOMAIN t, Len(q) = n + 1, IsPrefix(r, q), r # q
               PROVE  r \in DOMAIN t /\ t[r].kind \in {"map", "list"}
    OBVIOUS
  <2>1. q \in Path /\ n \in Nat /\ n + 1 # 0
    BY <1>1
  <2>2. q # << >>
    BY <1>1, <2>1
  <2> DEFINE u == Front(q)
             k == Last(q)
  <2>3. u \in Path /\ k \in STRING /\ q = Append(u, k) /\ Len(u) = Len(q) - 1
    BY <2>1, <2>2, PathEnd
  <2> HIDE DEF u, k
  <2>4. IsPrefix(r, u)
    BY <2>3, PrefixOfNext
  <2>5. u \in DOMAIN t /\ t[u].kind \in {"map", "list"}
    BY <2>3, TreeNext
  <2>6. Len(u) = n
    BY <2>1, <2>3
  <2> QED
    BY <2>4, <2>5, <2>6
<1>4. N = Nat
  <2> HIDE DEF N
  <2>1. N \in SUBSET Nat
    BY DEF N
  <2> QED
    BY <1>2, <1>3, <2>1, Induction
<1>5. Len(p) \in Nat
  BY <1>1, LenProperties DEF Path
<1> QED
  BY <1>4, <1>5

\* A document changes from some path on, and the nodes with it.
LEMMA Regrafted ==
    ASSUME NEW h, NEW h2, NEW i, NEW t, IsTree(t), NEW t2, IsTree(t2), NEW S, NEW S2,
           Shows(h, i, t, S), << >> \notin S2, NEW e \in Path,
           \A p \in Path : ~IsPrefix(e, p) =>
             /\ p \in DOMAIN t2 <=> p \in DOMAIN t
             /\ p \in DOMAIN t => t2[p] = t[p]
             /\ p \in S2 <=> p \in S,
           \A p \in DOMAIN t : ~IsPrefix(e, p) /\ (e = << >> \/ p # Front(e)) =>
             /\ NodeAt(i, S, p) \in DOMAIN h2
             /\ h2[NodeAt(i, S, p)] = h[NodeAt(i, S, p)],
           e # << >> /\ Front(e) \in DOMAIN t2 =>
             /\ NodeAt(i, S2, Front(e)) \in DOMAIN h2
             /\ h2[NodeAt(i, S2, Front(e))] = Drawn(t2, Front(e), i, S2),
           \A p \in DOMAIN t2 : IsPrefix(e, p) =>
             /\ NodeAt(i, S2, p) \in DOMAIN h2
             /\ h2[NodeAt(i, S2, p)] = Drawn(t2, p, i, S2)
    PROVE  Shows(h2, i, t2, S2)
<1>1. DOMAIN t \subseteq Path /\ DOMAIN t2 \subseteq Path
  BY TreeHas
<1>2. ASSUME NEW p \in DOMAIN t2, ~IsPrefix(e, p), e = << >> \/ p # Front(e)
      PROVE  NodeAt(i, S2, p) \in DOMAIN h2 /\ h2[NodeAt(i, S2, p)] = Drawn(t2, p, i, S2)
  <2>1. p \in Path /\ p \in DOMAIN t /\ t2[p] = t[p] /\ (p \in S2 <=> p \in S)
    BY <1>1, <1>2
  <2>2. NodeAt(i, S2, p) = NodeAt(i, S, p)
    BY <2>1 DEF NodeAt
  <2>3. h2[NodeAt(i, S, p)] = Drawn(t, p, i, S) /\ NodeAt(i, S, p) \in DOMAIN h2
    BY <1>2, <2>1 DEF Shows
  <2>4. ASSUME NEW k \in STRING
        PROVE  /\ Append(p, k) \in DOMAIN t2 <=> Append(p, k) \in DOMAIN t
               /\ NodeAt(i, S2, Append(p, k)) = NodeAt(i, S, Append(p, k))
    <3>1. Append(p, k) \in Path /\ Append(p, k) # << >> /\ Front(Append(p, k)) = p
      BY <2>1, PathStep
    <3>2. IsPrefix(e, Append(p, k)) => e = Append(p, k)
      BY <1>2, <2>1, PrefixOfNext
    <3>3. ~IsPrefix(e, Append(p, k))
      BY <1>2, <3>1, <3>2
    <3> DEFINE q == Append(p, k)
    <3> HIDE DEF q
    <3>4. q \in Path /\ ~IsPrefix(e, q)
      BY <3>1, <3>3 DEF q
    <3>5. (q \in DOMAIN t2 <=> q \in DOMAIN t) /\ (q \in S2 <=> q \in S)
      BY <3>4
    <3> QED
      BY <3>5 DEF q, NodeAt
  <2>5. Keys(t2, p) = Keys(t, p) /\ Keys(t, p) \subseteq STRING
    BY <2>1, <2>4, KeysAre
  <2>6. [k \in Keys(t2, p) |-> NodeAt(i, S2, Append(p, k))]
          = [k \in Keys(t, p) |-> NodeAt(i, S, Append(p, k))]
    BY <2>4, <2>5
  <2>7. Drawn(t2, p, i, S2) = Drawn(t, p, i, S)
    BY <2>1, <2>6 DEF Drawn
  <2> QED
    BY <2>2, <2>3, <2>7
<1>3. ASSUME NEW p \in DOMAIN t2
      PROVE  NodeAt(i, S2, p) \in DOMAIN h2 /\ h2[NodeAt(i, S2, p)] = Drawn(t2, p, i, S2)
  <2>1. CASE IsPrefix(e, p)
    BY <2>1
  <2>2. CASE e # << >> /\ p = Front(e)
    BY <2>2
  <2>3. CASE ~IsPrefix(e, p) /\ (e = << >> \/ p # Front(e))
    BY <1>2, <2>3
  <2> QED
    BY <2>1, <2>2, <2>3
<1> QED
  BY <1>3 DEF Shows

\* Null and missing is all that is not there.
LEMMA AbsentIs ==
    ASSUME NEW t, IsTree(t), NEW p
    PROVE  Absent(t, p) <=> (p \notin DOMAIN t \/ t[p].kind = "null")
<1>1. p \in DOMAIN t => t[p].kind \in nodeKinds
  BY TreeHas
<1> QED
  BY <1>1 DEF Absent, Kind, Has, nodeKinds

\* A path that leads somewhere goes on by a key.
LEMMA LeadsNext ==
    ASSUME NEW t, IsTree(t), NEW p \in Path, NEW k \in STRING
    PROVE  /\ Leads(t, << >>) <=> ~Absent(t, << >>)
           /\ Leads(t, Append(p, k)) <=>
                Leads(t, p) /\ ~Absent(t, Append(p, k)) /\ (k \in Positions <=> Kind(t, p) = "list")
<1> DEFINE q == Append(p, k)
           n == Len(p)
<1>1. n \in Nat
  BY LenProperties DEF Path
<1>2. q \in Path /\ Len(q) = n + 1 /\ (\A i \in 1..n : q[i] = p[i]) /\ q[n + 1] = k
  BY PathAppend DEF Path
<1> HIDE DEF q
<1>3. ASSUME NEW i \in 0..n
      PROVE  SubSeq(q, 1, i) = SubSeq(p, 1, i)
  <2>1. SubSeq(p, 1, i) \in Path /\ Len(SubSeq(p, 1, i)) = i
        /\ \A j \in 1..i : SubSeq(p, 1, i)[j] = p[j]
    BY PrefixAt
  <2>2. i \in 0..Len(q)
    BY <1>1, <1>2
  <2>3. SubSeq(q, 1, i) \in Path /\ Len(SubSeq(q, 1, i)) = i
        /\ \A j \in 1..i : SubSeq(q, 1, i)[j] = q[j]
    BY <1>2, <2>2, PrefixAt
  <2>4. \A j \in 1..i : SubSeq(q, 1, i)[j] = SubSeq(p, 1, i)[j]
    BY <1>1, <1>2, <2>1, <2>3
  <2> DEFINE a == SubSeq(q, 1, i)
             b == SubSeq(p, 1, i)
  <2> HIDE DEF a, b
  <2>5. a \in Seq(STRING) /\ b \in Seq(STRING) /\ Len(a) = Len(b)
        /\ \A j \in 1..Len(a) : a[j] = b[j]
    BY <2>1, <2>3, <2>4 DEF a, b, Path
  <2>6. a = b
    BY <2>5, SeqEqual
  <2> QED
    BY <2>6 DEF a, b
<1>4. SubSeq(p, 1, n) = p
  BY SubSeqFull DEF Path
<1> HIDE DEF n
<1> DEFINE Turns(s, j) == s[j] \in Positions <=> Kind(t, SubSeq(s, 1, j - 1)) = "list"
<1>5. \A j \in 1..n : Turns(q, j) <=> Turns(p, j)
  <2> SUFFICES ASSUME NEW j \in 1..n
               PROVE  Turns(q, j) <=> Turns(p, j)
    OBVIOUS
  <2>1. j - 1 \in 0..n
    BY <1>1
  <2> QED
    BY <1>2, <1>3, <2>1
<1>6. Turns(q, n + 1) <=> (k \in Positions <=> Kind(t, p) = "list")
  <2>1. n \in 0..n /\ (n + 1) - 1 = n
    BY <1>1
  <2>2. SubSeq(q, 1, (n + 1) - 1) = p
    BY <1>3, <1>4, <2>1
  <2> QED
    BY <1>2, <2>2
<1>7. /\ Leads(t, q) <=> ~Absent(t, q) /\ \A j \in 1..n + 1 : Turns(q, j)
      /\ Leads(t, p) <=> ~Absent(t, p) /\ \A j \in 1..n : Turns(p, j)
  BY <1>2 DEF Leads, n
<1> HIDE DEF Turns
<1>8. (\A j \in 1..n + 1 : Turns(q, j)) <=> (\A j \in 1..n : Turns(p, j)) /\ Turns(q, n + 1)
  <2>1. \A j \in 1..n + 1 : j \in 1..n \/ j = n + 1
    BY <1>1
  <2>2. n + 1 \in 1..n + 1 /\ \A j \in 1..n : j \in 1..n + 1
    BY <1>1
  <2> QED
    BY <1>5, <2>1, <2>2
<1>9. ~Absent(t, q) => ~Absent(t, p)
  <2> SUFFICES ASSUME ~Absent(t, q)
               PROVE  ~Absent(t, p)
    OBVIOUS
  <2>1. Append(p, k) \in DOMAIN t
    BY AbsentIs DEF q
  <2>2. p \in DOMAIN t /\ t[p].kind \in {"map", "list"}
    BY <2>1, TreeNext
  <2> QED
    BY <2>2, AbsentIs
<1>10. Leads(t, << >>) <=> ~Absent(t, << >>)
  <2>1. Len(<< >>) = 0 /\ 1..0 = {}
    OBVIOUS
  <2> QED
    BY <2>1 DEF Leads
<1> QED
  BY <1>6, <1>7, <1>8, <1>9, <1>10 DEF q

\* A lookup finds what the path leads to.
LEMMA LookupIs ==
    ASSUME NEW h, NEW i \in Nat, NEW t, IsTree(t), Holds(h, i, t), t[<< >>].kind # "null",
           NEW path \in Path
    PROVE  IF Leads(t, path) THEN Lookup(h, Root(i), path) = <<i, path>> /\ path \in DOMAIN t
           ELSE Lookup(h, Root(i), path) \in {Nil, Bad}
<1> DEFINE Found(p) == IF Leads(t, p) THEN Lookup(h, Root(i), p) = <<i, p>>
                       ELSE Lookup(h, Root(i), p) \in {Nil, Bad}
           N == {p \in Path : Found(p)}
<1>1. << >> \in N
  <2>0. "name" \in STRING
    BY PositionAssumption
  <2>1. << >> \in Path /\ << >> \in DOMAIN t
    BY <2>0, TreeHas
  <2>2. Leads(t, << >>)
    BY <2>0, <2>1, LeadsNext, AbsentIs
  <2>3. Lookup(h, Root(i), << >>) = <<i, << >> >>
    BY LookupNone DEF Root
  <2> QED
    BY <2>1, <2>2, <2>3
<1>2. ASSUME NEW p \in N, NEW k \in STRING
      PROVE  Append(p, k) \in N
  <2> DEFINE q == Append(p, k)
  <2>1. q \in Path
    BY PathStep
  <2>2. Lookup(h, Root(i), q) = LookupPart(h, Lookup(h, Root(i), p), k)
    BY LookupNext
  <2>3. Leads(t, q) <=> Leads(t, p) /\ ~Absent(t, q) /\ (k \in Positions <=> Kind(t, p) = "list")
    BY LeadsNext
  <2>4. CASE Leads(t, p)
    <3>1. p \in DOMAIN t /\ t[p].kind # "null" /\ Kind(t, p) = t[p].kind
      BY <2>4, AbsentIs DEF Leads, Kind, Has
    <3>2. Lookup(h, Root(i), p) = <<i, p>>
      BY <2>4
    <3>3. LookupPart(h, <<i, p>>, k) =
             IF t[p].kind = "null" THEN Nil
             ELSE IF t[p].kind # IF k \in Positions THEN "list" ELSE "map" THEN Bad
             ELSE IF Absent(t, q) THEN Nil
             ELSE <<i, q>>
      BY <3>1, PartIs
    <3>4. ~Absent(t, q) => t[p].kind = "map" \/ t[p].kind = "list"
      <4>1. ~Absent(t, q) => q \in DOMAIN t
        BY AbsentIs
      <4> QED
        BY <4>1, TreeNext
    <3> HIDE DEF q
    <3>5. Found(q)
      BY <2>2, <2>3, <2>4, <3>1, <3>2, <3>3, <3>4
    <3> QED
      BY <2>1, <3>5 DEF q
  <2>5. CASE ~Leads(t, p)
    <3>1. LookupPart(h, Lookup(h, Root(i), p), k) \in {Nil, Bad}
      BY <2>5 DEF LookupPart
    <3> HIDE DEF q
    <3>2. Found(q)
      BY <2>2, <2>3, <2>5, <3>1
    <3> QED
      BY <2>1, <3>2 DEF q
  <2> QED
    BY <2>4, <2>5
<1>3. N = Path
  <2> HIDE DEF N
  <2>1. N \in SUBSET Path
    BY DEF N
  <2> QED
    BY <1>1, <1>2, <2>1, PathInduction
<1>4. Found(path)
  BY <1>3
<1>5. Leads(t, path) => path \in DOMAIN t
  BY AbsentIs DEF Leads
<1> QED
  BY <1>4, <1>5

-----------------------------------------------------------------------------
(* What the commands do to a heap.                                         *)

\* Every field leads to a node.
Sound(h) ==
    \A n \in DOMAIN h : \A k \in DOMAIN h[n].fields :
      h[n].fields[k] \in DOMAIN h /\ h[n].kind \in {"map", "list"}

\* Only nodes of one document change.
Aside(h, h2, i) ==
    \A j, p : j # i =>
      /\ <<j, p>> \in DOMAIN h2 <=> <<j, p>> \in DOMAIN h
      /\ <<j, p>> \in DOMAIN h => h2[<<j, p>>] = h[<<j, p>>]

\* What the others show remains.
LEMMA AsideShows ==
    ASSUME NEW h, NEW h2, NEW i, Aside(h, h2, i), NEW j, j # i, i # 0, NEW t, NEW S
    PROVE  Shows(h, j, t, S) => Shows(h2, j, t, S)
<1>1. ASSUME NEW p
      PROVE  /\ NodeAt(j, S, p) \in DOMAIN h => NodeAt(j, S, p) \in DOMAIN h2
             /\ NodeAt(j, S, p) \in DOMAIN h => h2[NodeAt(j, S, p)] = h[NodeAt(j, S, p)]
  <2>1. /\ <<0, p>> \in DOMAIN h => <<0, p>> \in DOMAIN h2 /\ h2[<<0, p>>] = h[<<0, p>>]
        /\ <<j, p>> \in DOMAIN h => <<j, p>> \in DOMAIN h2 /\ h2[<<j, p>>] = h[<<j, p>>]
    BY DEF Aside
  <2> QED
    BY <2>1 DEF NodeAt
<1> QED
  BY <1>1 DEF Shows

\* What two steps leave alone.
LEMMA AsideTrans ==
    ASSUME NEW h, NEW i
    PROVE  /\ Aside(h, h, i)
           /\ \A g, h2 : Aside(h, g, i) /\ Aside(g, h2, i) => Aside(h, h2, i)
  BY DEF Aside

\* A field is given a node that is made for it.
Given(h, h2, n, k, made, new) ==
    /\ DOMAIN h2 = DOMAIN h \cup {made}
    /\ h2[made] = new
    /\ h2[n] = [h[n] EXCEPT !.fields = Entered(@, k, made)]
    /\ \A m \in DOMAIN h \ {n, made} : h2[m] = h[m]

\* Attach does that to a node just entered.
LEMMA MadeNode ==
    ASSUME NEW h, NEW n \in DOMAIN h, NEW k, NEW made, made # n, NEW new
    PROVE  Given(h, Attach(Entered(h, made, new), n, k, made), n, k, made, new)
<1> DEFINE g == Entered(h, made, new)
           h2 == Attach(g, n, k, made)
<1>1. DOMAIN g = DOMAIN h \cup {made} /\ g[made] = new
      /\ \A m \in DOMAIN h \ {made} : g[m] = h[m]
  BY DEF Entered
<1> HIDE DEF g
<1>2. h2 = [g EXCEPT ![n].fields = Entered(@, k, made)]
  BY DEF Attach
<1>3. DOMAIN h2 = DOMAIN g /\ \A m \in DOMAIN g \ {n} : h2[m] = g[m]
  BY <1>2
<1>4. h2[n] = [g[n] EXCEPT !.fields = Entered(@, k, made)]
  BY <1>1, <1>2
<1> HIDE DEF h2
<1>5. /\ DOMAIN h2 = DOMAIN h \cup {made} /\ h2[made] = new
      /\ h2[n] = [h[n] EXCEPT !.fields = Entered(@, k, made)]
      /\ \A m \in DOMAIN h \ {n, made} : h2[m] = h[m]
  BY <1>1, <1>3, <1>4
<1> QED
  BY <1>5 DEF Given, h2, g

\* A new node has no fields.
LEMMA NewNodeIs ==
    ASSUME NEW kind
    PROVE  /\ NewNode(kind) = [kind |-> kind, value |-> "", text |-> "", fields |-> [k \in {} |-> Nil]]
           /\ NewNode(kind).kind = kind /\ DOMAIN NewNode(kind).fields = {}
  BY DEF NewNode

\* A new scalar.
LEMMA NewScalarIs ==
    ASSUME NEW value
    PROVE  /\ NewScalarRNode(value) = [kind |-> "scalar", value |-> value, text |-> value,
                                       fields |-> [k \in {} |-> Nil]]
           /\ DOMAIN NewScalarRNode(value).fields = {}
<1> DEFINE f == [k \in {} |-> Nil]
           kind == "scalar"
<1>1. NewNode(kind) = [kind |-> kind, value |-> "", text |-> "", fields |-> f] /\ DOMAIN f = {}
  BY NewNodeIs
<1> HIDE DEF f
<1>2. NewScalarRNode(value) = [NewNode(kind) EXCEPT !.value = value, !.text = value]
  BY DEF NewScalarRNode
<1> HIDE DEF kind
<1>3. NewScalarRNode(value) = [kind |-> kind, value |-> value, text |-> value, fields |-> f]
  <2> DEFINE r == NewNode(kind)
             e == ""
             s == [r EXCEPT !.value = value]
  <2>1. r = [kind |-> kind, value |-> e, text |-> e, fields |-> f]
    BY <1>1
  <2>2. NewScalarRNode(value) = [r EXCEPT !.value = value, !.text = value]
    BY <1>2
  <2> HIDE DEF r, e
  <2>3. s = [kind |-> kind, value |-> value, text |-> e, fields |-> f]
    BY <2>1
  <2>4. NewScalarRNode(value) = [s EXCEPT !.text = value]
    BY <2>1, <2>2
  <2> HIDE DEF s
  <2> QED
    BY <2>3, <2>4
<1>4. NewScalarRNode(value).fields = f
  BY <1>3
<1> QED
  BY <1>1, <1>3, <1>4 DEF f, kind

\* A node without fields.
LEMMA BareIs ==
    ASSUME NEW kind
    PROVE  Bare(kind).kind = kind /\ Bare(kind).value = "" /\ Bare(kind).text = ""
  BY DEF Bare

\* A mapping is made for a field that is not there.
LEMMA MadeMapping ==
    ASSUME NEW h, NEW i \in Nat, NEW t, IsTree(t), NEW t2, IsTree(t2), Holds(h, i, t), Sound(h),
           NEW p \in DOMAIN t, NEW k \in STRING, t[p].kind = "map",
           Append(p, k) \notin DOMAIN t,
           DOMAIN t2 = DOMAIN t \cup {Append(p, k)}, t2[Append(p, k)] = Bare("map"),
           \A q \in DOMAIN t : t2[q] = t[q]
    PROVE  LET h2 == Attach(Entered(h, <<i, Append(p, k)>>, NewNode("map")), <<i, p>>, k,
                            <<i, Append(p, k)>>)
           IN  Holds(h2, i, t2) /\ Aside(h, h2, i) /\ Sound(h2)
<1> DEFINE e == Append(p, k)
           made == <<i, e>>
           h2 == Attach(Entered(h, made, NewNode("map")), <<i, p>>, k, made)
<1>1. p \in Path /\ e \in Path /\ e # << >> /\ Front(e) = p /\ Last(e) = k
      /\ DOMAIN t \subseteq Path
  BY PathStep, TreeHas
<1>2. <<i, p>> \in DOMAIN h /\ h[<<i, p>>] = NodeOf(t, p, i) /\ made # <<i, p>>
  <2>1. e # p
    BY PathStep
  <2> HIDE DEF e
  <2> QED
    BY <2>1 DEF Holds
<1> HIDE DEF e
<1>3. /\ DOMAIN h2 = DOMAIN h \cup {made}
      /\ h2[made] = NewNode("map")
      /\ h2[<<i, p>>] = [h[<<i, p>>] EXCEPT !.fields = Entered(@, k, made)]
      /\ \A m \in DOMAIN h \ {<<i, p>>, made} : h2[m] = h[m]
  <2> DEFINE n == <<i, p>>
             new == NewNode("map")
  <2>1. n \in DOMAIN h /\ made # n
    BY <1>2
  <2> HIDE DEF n, new, made
  <2>2. Given(h, Attach(Entered(h, made, new), n, k, made), n, k, made, new)
    BY <2>1, MadeNode, Zenon
  <2>3. Given(h, h2, n, k, made, new)
    BY <2>2, Zenon DEF h2, n, new
  <2> HIDE DEF h2
  <2> QED
    BY <2>3 DEF Given, n, new
<1> HIDE DEF h2
<1>4. Holds(h2, i, t2)
  <2>1. Shows(h, i, t, {})
    BY HoldsShows
  <2>2. \A q : NodeAt(i, {}, q) = <<i, q>>
    BY DEF NodeAt
  <2>3. \A q \in Path : ~IsPrefix(e, q) =>
          /\ q \in DOMAIN t2 <=> q \in DOMAIN t
          /\ q \in DOMAIN t => t2[q] = t[q]
          /\ q \in {} <=> q \in {}
    BY <1>1, PrefixOrder DEF e
  <2>4. \A q \in DOMAIN t : ~IsPrefix(e, q) /\ (e = << >> \/ q # Front(e)) =>
          NodeAt(i, {}, q) \in DOMAIN h2 /\ h2[NodeAt(i, {}, q)] = h[NodeAt(i, {}, q)]
    <3> SUFFICES ASSUME NEW q \in DOMAIN t, ~IsPrefix(e, q), q # p
                 PROVE  <<i, q>> \in DOMAIN h2 /\ h2[<<i, q>>] = h[<<i, q>>]
      BY <1>1, <2>2
    <3>1. q # e
      BY <1>1, PrefixOrder
    <3>2. <<i, q>> \in DOMAIN h /\ <<i, q>> # made /\ <<i, q>> # <<i, p>>
      BY <3>1 DEF Holds
    <3> QED
      BY <1>3, <3>2
  <2>5. Keys(t2, p) = Keys(t, p) \cup {k} /\ k \notin Keys(t, p) /\ Keys(t2, e) = {}
    <3>1. \A s \in STRING : Append(p, s) = e => s = k
      BY PathStep DEF e
    <3>2. Keys(t2, p) = {s \in STRING : Append(p, s) \in DOMAIN t2}
          /\ Keys(t, p) = {s \in STRING : Append(p, s) \in DOMAIN t}
          /\ Keys(t2, e) = {s \in STRING : Append(e, s) \in DOMAIN t2}
      BY <1>1, KeysAre
    <3>3. \A s \in STRING : Append(e, s) \notin DOMAIN t2
      <4> SUFFICES ASSUME NEW s \in STRING, Append(e, s) \in DOMAIN t2
                   PROVE  FALSE
        OBVIOUS
      <4>1. Append(e, s) # e
        BY <1>1, PathStep
      <4>2. Append(e, s) \in DOMAIN t
        BY <4>1 DEF e
      <4>3. e \in DOMAIN t
        BY <1>1, <4>2, TreeNext
      <4> QED
        BY <4>3 DEF e
    <3>4. \A s \in STRING : Append(p, s) \in DOMAIN t2 <=> Append(p, s) \in DOMAIN t \/ s = k
      BY <3>1 DEF e
    <3>5. Append(p, k) \notin DOMAIN t
      OBVIOUS
    <3> QED
      BY <3>2, <3>3, <3>4, <3>5
  <2>6. h2[<<i, p>>] = Drawn(t2, p, i, {})
    <3>1. h2[<<i, p>>] = [kind |-> t[p].kind, value |-> t[p].value, text |-> t[p].text,
                          fields |-> Entered([s \in Keys(t, p) |-> <<i, Append(p, s)>>], k, made)]
      BY <1>2, <1>3 DEF NodeOf
    <3>2. Entered([s \in Keys(t, p) |-> <<i, Append(p, s)>>], k, made)
            = [s \in Keys(t2, p) |-> <<i, Append(p, s)>>]
      BY <2>5 DEF Entered, e
    <3>3. [s \in Keys(t2, p) |-> NodeAt(i, {}, Append(p, s))]
            = [s \in Keys(t2, p) |-> <<i, Append(p, s)>>]
      BY <2>2
    <3> QED
      BY <3>1, <3>2, <3>3 DEF Drawn
  <2>7. \A q \in DOMAIN t2 : IsPrefix(e, q) =>
          NodeAt(i, {}, q) \in DOMAIN h2 /\ h2[NodeAt(i, {}, q)] = Drawn(t2, q, i, {})
    <3> SUFFICES ASSUME NEW q \in DOMAIN t2, IsPrefix(e, q)
                 PROVE  <<i, q>> \in DOMAIN h2 /\ h2[<<i, q>>] = Drawn(t2, q, i, {})
      BY <2>2
    <3>1. q = e
      <4> SUFFICES ASSUME q \in DOMAIN t
                   PROVE  FALSE
        BY DEF e
      <4>1. e \in DOMAIN t
        BY <1>1, TreeDown
      <4> QED
        BY <4>1 DEF e
    <3>2. t2[e] = Bare("map")
      BY DEF e
    <3>3. Drawn(t2, e, i, {}) = NewNode("map")
      <4> DEFINE f == [s \in Keys(t2, e) |-> NodeAt(i, {}, Append(e, s))]
      <4>1. f = [s \in {} |-> Nil]
        BY <2>5
      <4>2. Drawn(t2, e, i, {}) = [kind |-> t2[e].kind, value |-> t2[e].value,
                                   text |-> t2[e].text, fields |-> f]
        BY DEF Drawn
      <4> HIDE DEF f
      <4>3. t2[e].kind = "map" /\ t2[e].value = "" /\ t2[e].text = ""
        BY <3>2, BareIs
      <4> QED
        BY <4>1, <4>2, <4>3, NewNodeIs, Zenon
    <3> QED
      BY <1>3, <3>1, <3>3
  <2>8. Shows(h2, i, t2, {})
    <3>1. << >> \notin {}
      OBVIOUS
    <3>2. e # << >> /\ Front(e) \in DOMAIN t2 =>
            NodeAt(i, {}, Front(e)) \in DOMAIN h2
            /\ h2[NodeAt(i, {}, Front(e))] = Drawn(t2, Front(e), i, {})
      BY <1>1, <1>2, <1>3, <2>2, <2>6
    <3> QED
      BY <1>1, <2>1, <2>3, <2>4, <2>7, <3>1, <3>2, Regrafted
  <2> QED
    BY <2>8, HoldsShows
<1>5. Aside(h, h2, i)
  BY <1>2, <1>3 DEF Aside
<1>6. Sound(h2)
  <2>1. h[<<i, p>>].kind = "map" /\ h2[<<i, p>>].kind = "map"
        /\ h2[<<i, p>>].fields = Entered(h[<<i, p>>].fields, k, made)
    BY <1>2, <1>3 DEF NodeOf
  <2>2. ASSUME NEW n \in DOMAIN h2, NEW s \in DOMAIN h2[n].fields
        PROVE  h2[n].fields[s] \in DOMAIN h2 /\ h2[n].kind \in {"map", "list"}
    <3>1. CASE n = made
      BY <1>3, <2>2, <3>1, NewNodeIs
    <3>2. CASE n = <<i, p>>
      BY <1>2, <1>3, <2>1, <2>2, <3>2 DEF Entered, Sound
    <3>3. CASE n \notin {made, <<i, p>>}
      BY <1>3, <2>2, <3>3 DEF Sound
    <3> QED
      BY <3>1, <3>2, <3>3
  <2> QED
    BY <2>2 DEF Sound
<1> QED
  BY <1>4, <1>5, <1>6 DEF h2, e

\* Some mappings of a document, none below the field of another.
Apart(t, M, key) ==
    /\ M \subseteq DOMAIN t
    /\ \A m \in M : t[m].kind = "map" /\ \A n \in M : ~IsPrefix(Append(m, key), n)

\* They are given a field.
WithScalars(t, M, key, value) ==
    [p \in {q \in DOMAIN t : \A m \in M : ~IsPrefix(Append(m, key), q)}
           \cup {Append(m, key) : m \in M} |->
       IF \E m \in M : p = Append(m, key) THEN Scalar(value) ELSE t[p]]

\* Two fields are the same only if their parents and their keys are.
LEMMA SameField ==
    ASSUME NEW p \in Path, NEW k \in STRING, NEW q \in Path, NEW s \in STRING,
           Append(p, k) = Append(q, s)
    PROVE  p = q /\ k = s
<1>1. Front(Append(p, k)) = p /\ Last(Append(p, k)) = k
  BY PathStep
<1>2. Front(Append(q, s)) = q /\ Last(Append(q, s)) = s
  BY PathStep
<1> QED
  BY <1>1, <1>2

\* What the tree has then.
LEMMA ScalarsHave ==
    ASSUME NEW t, IsTree(t), NEW M, NEW key \in STRING, Apart(t, M, key), NEW value
    PROVE  LET t2 == WithScalars(t, M, key, value)
           IN  /\ \A m \in M : Append(m, key) \in DOMAIN t2 /\ t2[Append(m, key)] = Scalar(value)
               /\ \A p \in DOMAIN t2 :
                    \/ \E m \in M : p = Append(m, key)
                    \/ /\ p \in DOMAIN t /\ t2[p] = t[p]
                       /\ \A m \in M : ~IsPrefix(Append(m, key), p)
               /\ \A p \in DOMAIN t : (\A m \in M : ~IsPrefix(Append(m, key), p)) =>
                    /\ p \in DOMAIN t2 /\ t2[p] = t[p]
                    /\ \A m \in M : p # Append(m, key)
               /\ M \subseteq DOMAIN t2
               /\ t2 = [p \in DOMAIN t2 |-> t2[p]]
<1> DEFINE t2 == WithScalars(t, M, key, value)
<1>1. DOMAIN t \subseteq Path /\ M \subseteq DOMAIN t
  BY TreeHas DEF Apart
<1>2. \A m \in M : Append(m, key) \in Path /\ IsPrefix(Append(m, key), Append(m, key))
  <2> SUFFICES ASSUME NEW m \in M
               PROVE  Append(m, key) \in Path /\ IsPrefix(Append(m, key), Append(m, key))
    OBVIOUS
  <2>1. Append(m, key) \in Path
    BY <1>1, PathStep
  <2> QED
    BY <2>1, PrefixOrder
<1>3. /\ DOMAIN t2 = {q \in DOMAIN t : \A m \in M : ~IsPrefix(Append(m, key), q)}
                     \cup {Append(m, key) : m \in M}
      /\ \A p \in DOMAIN t2 :
           t2[p] = IF \E m \in M : p = Append(m, key) THEN Scalar(value) ELSE t[p]
      /\ t2 = [p \in DOMAIN t2 |-> t2[p]]
  BY DEF WithScalars
<1> HIDE DEF t2
<1>4. \A m \in M : Append(m, key) \in DOMAIN t2 /\ t2[Append(m, key)] = Scalar(value)
  BY <1>3
<1>5. \A p \in DOMAIN t2 :
        \/ \E m \in M : p = Append(m, key)
        \/ /\ p \in DOMAIN t /\ t2[p] = t[p]
           /\ \A m \in M : ~IsPrefix(Append(m, key), p)
  BY <1>3
<1>6. ASSUME NEW p \in DOMAIN t, \A m \in M : ~IsPrefix(Append(m, key), p)
      PROVE  p \in DOMAIN t2 /\ t2[p] = t[p] /\ \A m \in M : p # Append(m, key)
  <2>1. \A m \in M : p # Append(m, key)
    BY <1>2, <1>6
  <2> QED
    BY <1>3, <1>6, <2>1
<1>7. M \subseteq DOMAIN t2
  BY <1>1, <1>6 DEF Apart
<1> QED
  BY <1>3, <1>4, <1>5, <1>6, <1>7 DEF t2

\* It is a tree.
LEMMA ScalarsTree ==
    ASSUME NEW t, IsTree(t), NEW M, NEW key \in STRING, Apart(t, M, key), NEW value
    PROVE  IsTree(WithScalars(t, M, key, value))
<1> DEFINE t2 == WithScalars(t, M, key, value)
<1>1. /\ \A m \in M : Append(m, key) \in DOMAIN t2 /\ t2[Append(m, key)] = Scalar(value)
      /\ \A p \in DOMAIN t2 :
           \/ \E m \in M : p = Append(m, key)
           \/ /\ p \in DOMAIN t /\ t2[p] = t[p]
              /\ \A m \in M : ~IsPrefix(Append(m, key), p)
      /\ \A p \in DOMAIN t : (\A m \in M : ~IsPrefix(Append(m, key), p)) =>
           /\ p \in DOMAIN t2 /\ t2[p] = t[p]
           /\ \A m \in M : p # Append(m, key)
      /\ M \subseteq DOMAIN t2
      /\ t2 = [p \in DOMAIN t2 |-> t2[p]]
  BY ScalarsHave
<1> HIDE DEF t2
<1>2. /\ DOMAIN t \subseteq Path /\ << >> \in DOMAIN t
      /\ t = [p \in DOMAIN t |-> [kind |-> t[p].kind, value |-> t[p].value, text |-> t[p].text]]
      /\ \A p \in DOMAIN t : t[p].kind \in nodeKinds
  BY TreeHas
<1>3. M \subseteq Path
  BY <1>2 DEF Apart
<1>4. \A m \in M : Append(m, key) \in Path /\ Append(m, key) # << >>
  BY <1>3, PathStep
<1>5. Scalar(value).kind = "scalar"
      /\ Scalar(value) = [kind |-> Scalar(value).kind, value |-> Scalar(value).value,
                          text |-> Scalar(value).text]
  BY DEF Scalar
<1>6. \A p \in DOMAIN t2 : t2[p] = [kind |-> t2[p].kind, value |-> t2[p].value, text |-> t2[p].text]
  <2> SUFFICES ASSUME NEW p \in DOMAIN t2
               PROVE  t2[p] = [kind |-> t2[p].kind, value |-> t2[p].value, text |-> t2[p].text]
    OBVIOUS
  <2>1. p \in DOMAIN t =>
          t[p] = [kind |-> t[p].kind, value |-> t[p].value, text |-> t[p].text]
    BY <1>2
  <2>2. t2[p] = Scalar(value) \/ (p \in DOMAIN t /\ t2[p] = t[p])
    BY <1>1
  <2> QED
    BY <2>1, <2>2, <1>5
<1>7. t2 = [p \in DOMAIN t2 |-> [kind |-> t2[p].kind, value |-> t2[p].value, text |-> t2[p].text]]
  <2>1. t2 = [p \in DOMAIN t2 |-> t2[p]]
    BY <1>1
  <2> QED
    BY <1>6, <2>1
<1>8. DOMAIN t2 \subseteq Path
  <2>1. \A p \in DOMAIN t2 : (\E m \in M : p = Append(m, key)) \/ p \in DOMAIN t
    BY <1>1
  <2> QED
    BY <1>2, <1>4, <2>1
<1>9. << >> \in DOMAIN t2
  <2>1. \A m \in M : ~IsPrefix(Append(m, key), << >>)
    BY <1>4, PrefixOrder
  <2> QED
    BY <1>1, <1>2, <2>1
<1>10. \A p \in DOMAIN t2 : t2[p].kind \in nodeKinds
  <2> SUFFICES ASSUME NEW p \in DOMAIN t2
               PROVE  t2[p].kind \in nodeKinds
    OBVIOUS
  <2>1. Scalar(value).kind \in nodeKinds
    BY <1>5 DEF nodeKinds
  <2>2. t2[p] = Scalar(value) \/ (p \in DOMAIN t /\ t2[p] = t[p])
    BY <1>1
  <2> QED
    BY <1>2, <2>1, <2>2
<1>11. ASSUME NEW p \in Path, NEW k \in STRING, Append(p, k) \in DOMAIN t2
       PROVE  p \in DOMAIN t2 /\ (t2[p].kind = "map" \/ (t2[p].kind = "list" /\ k \in Positions))
  <2>1. CASE \E m \in M : Append(p, k) = Append(m, key)
    <3>1. p \in M
      BY <1>3, <2>1, SameField
    <3>2. t[p].kind = "map" /\ \A m \in M : ~IsPrefix(Append(m, key), p)
      BY <3>1 DEF Apart
    <3> QED
      BY <1>1, <3>1, <3>2 DEF Apart
  <2>2. CASE Append(p, k) \in DOMAIN t /\ \A m \in M : ~IsPrefix(Append(m, key), Append(p, k))
    <3>1. p \in DOMAIN t /\ (t[p].kind = "map" \/ (t[p].kind = "list" /\ k \in Positions))
      BY <2>2, TreeNext
    <3>2. \A m \in M : ~IsPrefix(Append(m, key), p)
      BY <1>4, <2>2, PrefixOfNext
    <3> QED
      BY <1>1, <3>1, <3>2
  <2> QED
    BY <1>1, <1>11, <2>1, <2>2
<1>12. IsTree(t2)
  BY <1>7, <1>8, <1>9, <1>10, <1>11, TreeIf
<1> QED
  BY <1>12 DEF t2

\* SetField with a scalar, on mappings of a document that is all its own.
LEMMA ScalarsSet ==
    ASSUME NEW h, NEW i \in Nat, NEW t, IsTree(t), Holds(h, i, t), Sound(h),
           NEW M, NEW key \in STRING, Apart(t, M, key), NEW value,
           NEW N, N \ {Nil} = {<<i, m>> : m \in M}
    PROVE  LET h2 == SetScalar(h, N, key, value)
           IN  Holds(h2, i, WithScalars(t, M, key, value)) /\ Aside(h, h2, i) /\ Sound(h2)
<1> DEFINE t2 == WithScalars(t, M, key, value)
           h2 == SetScalar(h, N, key, value)
           made(n) == IF key \in DOMAIN h[n].fields THEN h[n].fields[key] ELSE Child(n, key)
           set == {<<i, m>> : m \in M}
           new == {<<i, Append(m, key)>> : m \in M}
           held(n) == IF n \in new THEN NewScalarRNode(value)
                      ELSE IF n \in set THEN [h[n] EXCEPT !.fields = Entered(@, key, made(n))]
                      ELSE h[n]
<1>1. /\ \A m \in M : Append(m, key) \in DOMAIN t2 /\ t2[Append(m, key)] = Scalar(value)
      /\ \A p \in DOMAIN t2 :
           \/ \E m \in M : p = Append(m, key)
           \/ /\ p \in DOMAIN t /\ t2[p] = t[p]
              /\ \A m \in M : ~IsPrefix(Append(m, key), p)
      /\ \A p \in DOMAIN t : (\A m \in M : ~IsPrefix(Append(m, key), p)) =>
           /\ p \in DOMAIN t2 /\ t2[p] = t[p]
           /\ \A m \in M : p # Append(m, key)
      /\ M \subseteq DOMAIN t2
      /\ t2 = [p \in DOMAIN t2 |-> t2[p]]
  BY ScalarsHave
<1>2. IsTree(t2)
  BY ScalarsTree
<1>3. /\ DOMAIN t \subseteq Path /\ M \subseteq Path /\ DOMAIN t2 \subseteq Path
      /\ \A m \in M : m \in DOMAIN t /\ t[m].kind = "map"
      /\ \A m \in M, n \in M : ~IsPrefix(Append(m, key), n)
  <2>1. DOMAIN t \subseteq Path
    BY TreeHas
  <2>2. DOMAIN t2 \subseteq Path
    BY <1>2, TreeHas
  <2> QED
    BY <2>1, <2>2 DEF Apart
<1> HIDE DEF t2
<1>4. ASSUME NEW m \in M
      PROVE  /\ <<i, m>> \in DOMAIN h /\ h[<<i, m>>] = NodeOf(t, m, i)
             /\ h[<<i, m>>].kind = "map"
             /\ made(<<i, m>>) = <<i, Append(m, key)>>
  <2>1. m \in DOMAIN t /\ m \in Path
    BY <1>3
  <2>2. /\ <<i, m>> \in DOMAIN h
        /\ h[<<i, m>>].kind = t[m].kind
        /\ DOMAIN h[<<i, m>>].fields = Keys(t, m)
        /\ \A k \in Keys(t, m) : h[<<i, m>>].fields[k] = <<i, Append(m, k)>>
    <3>1. <<i, m>> \in DOMAIN h /\ h[<<i, m>>] = NodeOf(t, m, i)
      BY <2>1 DEF Holds
    <3> QED
      BY <3>1 DEF NodeOf
  <2>3. made(<<i, m>>) = <<i, Append(m, key)>>
    BY <2>2 DEF Child
  <2>4. h[<<i, m>>] = NodeOf(t, m, i)
    BY <2>1 DEF Holds
  <2> QED
    BY <1>3, <2>2, <2>3, <2>4
<1>5. h2 = [n \in DOMAIN h \cup new |-> held(n)]
  <2> DEFINE News == {made(n) : n \in set}
  <2>1. {n \in N : n # Nil} = set
    OBVIOUS
  <2>2. h2 = [n \in DOMAIN h \cup News |->
                IF n \in News THEN NewScalarRNode(value)
                ELSE IF n \in set THEN [h[n] EXCEPT !.fields = Entered(@, key, made(n))]
                ELSE h[n]]
    <3> HIDE DEF set
    <3> QED
      BY <2>1 DEF SetScalar
  <2>3. News = new
    <3> HIDE DEF made
    <3>1. ASSUME NEW n \in set
          PROVE  made(n) \in new
      BY <1>4
    <3>2. ASSUME NEW n \in new
          PROVE  \E x \in set : n = made(x)
      <4>1. PICK m \in M : n = <<i, Append(m, key)>>
        OBVIOUS
      <4>2. <<i, m>> \in set /\ n = made(<<i, m>>)
        BY <1>4, <4>1
      <4> QED
        BY <4>2, Zenon
    <3> HIDE DEF set, new
    <3> QED
      BY <3>1, <3>2
  <2> HIDE DEF News, new, set, made
  <2> QED
    BY <2>2, <2>3
<1>6. DOMAIN h2 = DOMAIN h \cup new /\ \A n \in DOMAIN h2 : h2[n] = held(n)
  <2> HIDE DEF held, new
  <2> QED
    BY <1>5
<1> HIDE DEF h2, made
<1>7. \A p, q : <<i, p>> \in new => (\E m \in M : p = Append(m, key))
  OBVIOUS
<1>8. ASSUME NEW p \in DOMAIN t2
      PROVE  <<i, p>> \in DOMAIN h2 /\ h2[<<i, p>>] = NodeOf(t2, p, i)
  <2>1. p \in Path
    BY <1>3
  <2>2. Keys(t2, p) = {s \in STRING : Append(p, s) \in DOMAIN t2}
        /\ Keys(t, p) = {s \in STRING : Append(p, s) \in DOMAIN t}
    BY <1>2, <2>1, KeysAre
  <2>3. CASE \E m \in M : p = Append(m, key)
    <3>1. <<i, p>> \in new
      BY <2>3
    <3>2. <<i, p>> \in DOMAIN h2 /\ h2[<<i, p>>] = NewScalarRNode(value)
      BY <1>6, <3>1
    <3>3. t2[p] = Scalar(value)
      BY <1>1, <2>3
    <3>4. Keys(t2, p) = {}
      <4> SUFFICES ASSUME NEW s \in STRING, Append(p, s) \in DOMAIN t2
                   PROVE  FALSE
        BY <2>2
      <4>1. PICK m \in M : p = Append(m, key)
        BY <2>3
      <4>2. Append(p, s) \in Path /\ IsPrefix(p, Append(p, s))
        BY <2>1, PathStep, PrefixOfNext, PrefixOrder
      <4>3. CASE \E n \in M : Append(p, s) = Append(n, key)
        <5>1. p \in M
          BY <1>3, <2>1, <4>3, SameField
        <5>2. ~IsPrefix(p, p)
          BY <1>3, <4>1, <5>1
        <5> QED
          BY <2>1, <5>2, PrefixOrder
      <4>4. CASE \A n \in M : ~IsPrefix(Append(n, key), Append(p, s))
        BY <4>1, <4>2, <4>4
      <4> QED
        BY <1>1, <4>3, <4>4
    <3> DEFINE f == [k \in Keys(t2, p) |-> <<i, Append(p, k)>>]
    <3>5. NodeOf(t2, p, i) = [kind |-> t2[p].kind, value |-> t2[p].value, text |-> t2[p].text,
                              fields |-> f]
      BY DEF NodeOf
    <3>6. f = [k \in {} |-> Nil]
      BY <3>4
    <3> HIDE DEF f
    <3>7. NewScalarRNode(value) = [kind |-> "scalar", value |-> value, text |-> value,
                                   fields |-> [k \in {} |-> Nil]]
      BY NewScalarIs, Zenon
    <3>8. t2[p].kind = "scalar" /\ t2[p].value = value /\ t2[p].text = value
      BY <3>3 DEF Scalar
    <3> QED
      BY <3>2, <3>5, <3>6, <3>7, <3>8, Zenon
  <2>4. CASE p \in DOMAIN t /\ t2[p] = t[p] /\ \A m \in M : ~IsPrefix(Append(m, key), p)
    <3>1. <<i, p>> \in DOMAIN h /\ h[<<i, p>>] = NodeOf(t, p, i)
      BY <2>4 DEF Holds
    <3>2. <<i, p>> \notin new /\ <<i, p>> \in DOMAIN h2
      <4>1. \A m \in M : p # Append(m, key)
        BY <1>1, <2>4
      <4> QED
        BY <1>6, <3>1, <4>1
    <3>3. ASSUME NEW s \in STRING
          PROVE  Append(p, s) \in DOMAIN t2 <=>
                   Append(p, s) \in DOMAIN t \/ (p \in M /\ s = key)
      <4>1. CASE p \in M /\ s = key
        BY <1>1, <4>1
      <4>2. CASE ~(p \in M /\ s = key)
        <5>1. \A m \in M : Append(p, s) # Append(m, key)
          BY <1>3, <2>1, <4>2, SameField
        <5>2. \A m \in M : ~IsPrefix(Append(m, key), Append(p, s))
          <6> SUFFICES ASSUME NEW m \in M
                       PROVE  ~IsPrefix(Append(m, key), Append(p, s))
            OBVIOUS
          <6>1. Append(m, key) \in Path
            BY <1>3, PathStep
          <6> QED
            BY <2>1, <2>4, <5>1, <6>1, PrefixOfNext
        <5> QED
          BY <1>1, <4>2, <5>1, <5>2
      <4> QED
        BY <4>1, <4>2
    <3> DEFINE f == [k \in Keys(t, p) |-> <<i, Append(p, k)>>]
               f2 == [k \in Keys(t2, p) |-> <<i, Append(p, k)>>]
    <3>4. /\ h[<<i, p>>] = [kind |-> t[p].kind, value |-> t[p].value, text |-> t[p].text,
                            fields |-> f]
          /\ NodeOf(t2, p, i) = [kind |-> t[p].kind, value |-> t[p].value, text |-> t[p].text,
                                 fields |-> f2]
      BY <2>4, <3>1 DEF NodeOf
    <3>5. CASE p \in M
      <4>1. made(<<i, p>>) = <<i, Append(p, key)>>
        BY <1>4, <3>5
      <4>2. h2[<<i, p>>] = [h[<<i, p>>] EXCEPT !.fields = Entered(@, key, <<i, Append(p, key)>>)]
        BY <1>6, <3>2, <3>5, <4>1
      <4>3. Keys(t2, p) = Keys(t, p) \cup {key}
        BY <2>2, <3>3, <3>5
      <4>4. Entered(f, key, <<i, Append(p, key)>>) = f2
        BY <4>3 DEF Entered
      <4> HIDE DEF f, f2
      <4>5. h2[<<i, p>>] = [kind |-> t[p].kind, value |-> t[p].value, text |-> t[p].text,
                            fields |-> f2]
        BY <3>4, <4>2, <4>4
      <4> QED
        BY <3>2, <3>4, <4>5
    <3>6. CASE p \notin M
      <4>1. h2[<<i, p>>] = h[<<i, p>>]
        <5>1. <<i, p>> \notin set
          BY <3>6
        <5> QED
          BY <1>6, <3>2, <5>1
      <4>2. Keys(t2, p) = Keys(t, p)
        BY <2>2, <3>3, <3>6
      <4>3. f = f2
        BY <4>2
      <4> HIDE DEF f, f2
      <4> QED
        BY <3>2, <3>4, <4>1, <4>3
    <3> QED
      BY <3>5, <3>6
  <2> QED
    BY <1>1, <2>3, <2>4
<1>9. Aside(h, h2, i)
  <2>1. \A j, p : j # i => <<j, p>> \notin new /\ <<j, p>> \notin set
    OBVIOUS
  <2> QED
    BY <1>6, <2>1 DEF Aside
<1>10. Sound(h2)
  <2>1. ASSUME NEW n \in DOMAIN h2, NEW s \in DOMAIN h2[n].fields
        PROVE  h2[n].fields[s] \in DOMAIN h2 /\ h2[n].kind \in {"map", "list"}
    <3>1. CASE n \in new
      <4>1. h2[n] = NewScalarRNode(value)
        BY <1>6, <3>1
      <4>2. DOMAIN NewScalarRNode(value).fields = {}
        BY NewScalarIs
      <4> QED
        BY <2>1, <4>1, <4>2
    <3>2. CASE n \in set /\ n \notin new
      <4>1. PICK m \in M : n = <<i, m>>
        BY <3>2
      <4>2. made(n) \in new /\ n \in DOMAIN h /\ h[n].kind = "map" /\ h[n] = NodeOf(t, m, i)
        BY <1>4, <4>1
      <4>3. h2[n] = [h[n] EXCEPT !.fields = Entered(@, key, made(n))]
        BY <1>6, <3>2
      <4>4. h2[n].kind = "map" /\ h2[n].fields = Entered(h[n].fields, key, made(n))
        BY <4>2, <4>3 DEF NodeOf
      <4>5. s = key \/ (s \in DOMAIN h[n].fields /\ h2[n].fields[s] = h[n].fields[s])
        BY <2>1, <4>4 DEF Entered
      <4>6. h2[n].fields[s] \in {made(n)} \cup DOMAIN h
        BY <4>2, <4>4, <4>5, <2>1 DEF Entered, Sound
      <4> QED
        BY <1>6, <4>2, <4>4, <4>6
    <3>3. CASE n \notin set /\ n \notin new
      <4>1. n \in DOMAIN h /\ h2[n] = h[n]
        BY <1>6, <3>3
      <4> QED
        BY <1>6, <2>1, <4>1 DEF Sound
    <3> QED
      BY <3>1, <3>2, <3>3
  <2> QED
    BY <2>1 DEF Sound
<1> QED
  BY <1>8, <1>9, <1>10 DEF h2, t2, Holds

-----------------------------------------------------------------------------
(* LookupCreate.                                                           *)

\* A value or a list where a mapping is needed.
Barring(t, p) == \E r \in PrefixesOf(p) : Kind(t, r) \in {"scalar", "list"}

\* The tree with the mappings that were missing on a path.
Room(t, p) ==
    [r \in DOMAIN t \cup PrefixesOf(p) |-> IF r \in DOMAIN t THEN t[r] ELSE Bare("map")]

\* Where the walk is after a path: stopped by a null, by what is no mapping, or
\* at the node, which may be a new one.
Way(s, h, i, t, p) ==
    /\ s = [heap |-> s.heap, node |-> s.node]
    /\ \/ /\ Blocked(t, p) /\ ~Barring(t, p) /\ Absent(t, p)
          /\ s.node = Nil /\ s.heap = h
       \/ /\ ~Blocked(t, p) /\ Barring(t, p) /\ p \notin DOMAIN t
          /\ s.node = Bad /\ s.heap = h
       \/ /\ ~Blocked(t, p) /\ (Barring(t, p) <=> Kind(t, p) \in {"scalar", "list"})
          /\ s.node = <<i, p>> /\ (p \in DOMAIN t => s.heap = h)
          /\ IsTree(Room(t, p)) /\ Holds(s.heap, i, Room(t, p))
          /\ Aside(h, s.heap, i) /\ Sound(s.heap)

\* A tree with a mapping more.
LEMMA MappingAdded ==
    ASSUME NEW t, IsTree(t), NEW p \in DOMAIN t, NEW k \in STRING, t[p].kind = "map",
           NEW t2, t2 = [q \in DOMAIN t2 |-> t2[q]],
           DOMAIN t2 = DOMAIN t \cup {Append(p, k)}, t2[Append(p, k)] = Bare("map"),
           \A q \in DOMAIN t : t2[q] = t[q]
    PROVE  IsTree(t2)
<1> DEFINE e == Append(p, k)
<1>1. /\ DOMAIN t \subseteq Path /\ << >> \in DOMAIN t
      /\ t = [q \in DOMAIN t |-> [kind |-> t[q].kind, value |-> t[q].value, text |-> t[q].text]]
      /\ \A q \in DOMAIN t : t[q].kind \in nodeKinds
  BY TreeHas
<1>2. p \in Path /\ e \in Path
  BY <1>1, PathStep
<1>3. /\ Bare("map").kind = "map"
      /\ Bare("map") = [kind |-> Bare("map").kind, value |-> Bare("map").value,
                        text |-> Bare("map").text]
  <2>1. Bare("map").kind = "map"
    BY BareIs
  <2>2. ASSUME NEW kind
        PROVE  Bare(kind) = [kind |-> Bare(kind).kind, value |-> Bare(kind).value,
                             text |-> Bare(kind).text]
    BY DEF Bare
  <2> QED
    BY <2>1, <2>2, Zenon
<1>4. t2[e] = Bare("map") /\ DOMAIN t2 = DOMAIN t \cup {e}
  OBVIOUS
<1>5. ASSUME NEW q \in Path, NEW s \in STRING, Append(q, s) \in DOMAIN t2
      PROVE  q \in DOMAIN t2 /\ (t2[q].kind = "map" \/ (t2[q].kind = "list" /\ s \in Positions))
  <2>1. CASE Append(q, s) = e
    <3>1. q = p
      BY <1>2, <2>1, SameField
    <3> QED
      BY <3>1
  <2>2. CASE Append(q, s) \in DOMAIN t
    <3>1. q \in DOMAIN t /\ (t[q].kind = "map" \/ (t[q].kind = "list" /\ s \in Positions))
      BY <2>2, TreeNext
    <3> QED
      BY <3>1
  <2> QED
    BY <1>5, <2>1, <2>2
<1> HIDE DEF e
<1>6. ASSUME NEW q \in DOMAIN t2
      PROVE  /\ t2[q] = [kind |-> t2[q].kind, value |-> t2[q].value, text |-> t2[q].text]
             /\ t2[q].kind \in nodeKinds
  <2>1. CASE q = e
    BY <1>3, <1>4, <2>1 DEF nodeKinds
  <2>2. CASE q \in DOMAIN t
    <3>1. t[q] = [kind |-> t[q].kind, value |-> t[q].value, text |-> t[q].text]
          /\ t[q].kind \in nodeKinds
      BY <1>1, <2>2
    <3> QED
      BY <2>2, <3>1
  <2> QED
    BY <1>4, <2>1, <2>2
<1>7. t2 = [q \in DOMAIN t2 |-> [kind |-> t2[q].kind, value |-> t2[q].value, text |-> t2[q].text]]
  BY <1>6
<1>8. DOMAIN t2 \subseteq Path /\ << >> \in DOMAIN t2
  BY <1>1, <1>2, <1>4
<1> QED
  BY <1>5, <1>6, <1>7, <1>8, TreeIf

\* What a path that is one key longer makes of it.
LEMMA RoomNext ==
    ASSUME NEW t, IsTree(t), NEW p \in Path, NEW k \in STRING
    PROVE  LET q == Append(p, k)
           IN  /\ Blocked(t, q) <=> Blocked(t, p) \/ Kind(t, q) = "null"
               /\ Barring(t, q) <=> Barring(t, p) \/ Kind(t, q) \in {"scalar", "list"}
               /\ q \in DOMAIN t => p \in DOMAIN t /\ t[p].kind \in {"map", "list"}
               /\ DOMAIN Room(t, q) = DOMAIN Room(t, p) \cup {q}
               /\ \A r \in DOMAIN Room(t, p) : Room(t, q)[r] = Room(t, p)[r]
               /\ q \notin DOMAIN t =>
                    q \notin DOMAIN Room(t, p) /\ Room(t, q)[q] = Bare("map")
               /\ p \in DOMAIN t => p \in DOMAIN Room(t, p) /\ Room(t, p)[p] = t[p]
               /\ p \notin DOMAIN t /\ p # << >> =>
                    p \in DOMAIN Room(t, p) /\ Room(t, p)[p] = Bare("map")
<1> DEFINE q == Append(p, k)
<1>1. /\ PrefixesOf(q) = PrefixesOf(p) \cup {q} /\ q \notin PrefixesOf(p)
      /\ p # << >> => p \in PrefixesOf(p)
  BY PrefixesNext
<1>2. q \in DOMAIN t => p \in DOMAIN t /\ t[p].kind \in {"map", "list"}
  BY TreeNext
<1> HIDE DEF q
<1> QED
  BY <1>1, <1>2 DEF Blocked, Barring, Room, q

\* A step of the walk.
LEMMA WayStep ==
    ASSUME NEW h, NEW i \in Nat, NEW t, IsTree(t), t[<< >>].kind = "map",
           NEW p \in Path, NEW k \in STRING, k \notin Positions,
           NEW s, Way(s, h, i, t, p)
    PROVE  Way(CreateStep(s, k), h, i, t, Append(p, k))
<1> DEFINE q == Append(p, k)
           R == Room(t, p)
           c == CreateStep(s, k)
<1>1. s = [heap |-> s.heap, node |-> s.node]
  BY DEF Way
<1>2. q \in Path /\ p \in Path /\ << >> \in DOMAIN t
  BY PathStep, TreeHas
<1>3. /\ Blocked(t, q) <=> Blocked(t, p) \/ Kind(t, q) = "null"
      /\ Barring(t, q) <=> Barring(t, p) \/ Kind(t, q) \in {"scalar", "list"}
      /\ q \in DOMAIN t => p \in DOMAIN t /\ t[p].kind \in {"map", "list"}
      /\ DOMAIN Room(t, q) = DOMAIN R \cup {q}
      /\ \A r \in DOMAIN R : Room(t, q)[r] = R[r]
      /\ q \notin DOMAIN t => q \notin DOMAIN R /\ Room(t, q)[q] = Bare("map")
      /\ p \in DOMAIN t => p \in DOMAIN R /\ R[p] = t[p]
      /\ p \notin DOMAIN t /\ p # << >> => p \in DOMAIN R /\ R[p] = Bare("map")
  BY RoomNext
<1>4. /\ q \notin DOMAIN t => Kind(t, q) = "missing" /\ Absent(t, q)
      /\ q \in DOMAIN t => Kind(t, q) = t[q].kind
      /\ p \in DOMAIN t => Kind(t, p) = t[p].kind
      /\ p \notin DOMAIN t => Kind(t, p) = "missing"
  BY DEF Kind, Has, Absent
<1>5. q \in DOMAIN t => t[p].kind = "map"
  BY TreeNext
<1>6. q \in DOMAIN t => t[q].kind \in nodeKinds
  BY TreeHas
<1> HIDE DEF q, R
<1>7. /\ s.node \in {Nil, Bad} => LookupPart(s.heap, s.node, k) = s.node
      /\ Nil # Bad /\ <<i, p>> \notin {Nil, Bad} /\ <<i, q>> \notin {Nil, Bad}
  BY DEF LookupPart, Nil, Bad
<1>8. ASSUME NEW node, s.node = Nil \/ LookupPart(s.heap, s.node, k) # Nil
                         \/ k \in DOMAIN s.heap[s.node].fields,
             node = LookupPart(s.heap, s.node, k)
      PROVE  c = [heap |-> s.heap, node |-> node]
  <2>1. c = [s EXCEPT !.node = node]
    BY <1>8 DEF CreateStep
  <2> QED
    BY <1>1, <2>1
<1>9. CASE Blocked(t, p) /\ ~Barring(t, p) /\ Absent(t, p) /\ s.node = Nil /\ s.heap = h
  <2>1. c = [heap |-> h, node |-> Nil]
    BY <1>7, <1>8, <1>9
  <2>2. q \notin DOMAIN t
    BY <1>3, <1>4, <1>9 DEF Absent
  <2> HIDE DEF c
  <2>3. Way(c, h, i, t, q)
    BY <1>3, <1>4, <1>9, <2>1, <2>2 DEF Way
  <2> QED
    BY <2>3 DEF c, q
<1>10. CASE ~Blocked(t, p) /\ Barring(t, p) /\ p \notin DOMAIN t /\ s.node = Bad /\ s.heap = h
  <2>1. c = [heap |-> h, node |-> Bad]
    BY <1>7, <1>8, <1>10
  <2>2. q \notin DOMAIN t
    BY <1>3, <1>10
  <2> HIDE DEF c
  <2>3. Way(c, h, i, t, q)
    BY <1>3, <1>4, <1>10, <2>1, <2>2 DEF Way
  <2> QED
    BY <2>3 DEF c, q
<1>11. CASE /\ ~Blocked(t, p) /\ (Barring(t, p) <=> Kind(t, p) \in {"scalar", "list"})
            /\ s.node = <<i, p>> /\ (p \in DOMAIN t => s.heap = h)
            /\ IsTree(R) /\ Holds(s.heap, i, R)
            /\ Aside(h, s.heap, i) /\ Sound(s.heap)
  <2> DEFINE look == LookupPart(s.heap, <<i, p>>, k)
             g == s.heap
  <2>1. p \in DOMAIN R
    BY <1>2, <1>3
  <2>2. R[p].kind = IF p \in DOMAIN t THEN t[p].kind ELSE "map"
    BY <1>2, <1>3, BareIs
  <2>3. R[p].kind # "null"
    <3>1. p # << >> => p \in PrefixesOf(p)
      BY PrefixesNext
    <3>2. p # << >> => Kind(t, p) # "null"
      BY <1>11, <3>1 DEF Blocked
    <3> QED
      BY <1>2, <1>4, <2>2, <3>2
  <2>4. /\ look = IF R[p].kind # "map" THEN Bad ELSE IF Absent(R, q) THEN Nil ELSE <<i, q>>
        /\ k \in DOMAIN g[<<i, p>>].fields <=> q \in DOMAIN R
    <3>1. IsTree(R) /\ Holds(g, i, R)
      BY <1>11
    <3> HIDE DEF g
    <3>2. LookupPart(g, <<i, p>>, k) =
             IF R[p].kind = "null" THEN Nil
             ELSE IF R[p].kind # IF k \in Positions THEN "list" ELSE "map" THEN Bad
             ELSE IF Absent(R, q) THEN Nil
             ELSE <<i, q>>
      BY <2>1, <3>1, PartIs DEF q
    <3>3. DOMAIN g[<<i, p>>].fields = Keys(R, p)
      BY <2>1, <3>1, HeldAt
    <3>4. k \in Keys(R, p) <=> q \in DOMAIN R
      BY <2>1, <3>1, TreeHas DEF q
    <3> QED
      BY <2>3, <3>2, <3>3, <3>4 DEF g
  <2>5. q \in DOMAIN t => q \in DOMAIN R /\ R[q] = t[q]
    BY DEF Room, R
  <2>6. Absent(R, q) <=> q \notin DOMAIN R \/ R[q].kind = "null"
    BY <1>11, AbsentIs
  <2>7. q \notin DOMAIN t => q \notin DOMAIN R
    BY <1>3
  <2> HIDE DEF look
  <2>8. CASE R[p].kind # "map"
    <3>1. p \in DOMAIN t /\ R[p].kind = t[p].kind /\ t[p].kind \in nodeKinds
      BY <2>2, <2>8, TreeHas
    <3>2. Barring(t, p) /\ g = h
      BY <1>4, <1>11, <2>3, <2>8, <3>1 DEF nodeKinds
    <3>3. q \notin DOMAIN t
      BY <1>5, <2>8, <3>1
    <3>4. c = [heap |-> h, node |-> Bad]
      BY <1>7, <1>8, <1>11, <2>4, <2>8, <3>2 DEF look
    <3> HIDE DEF c
    <3>5. Way(c, h, i, t, q)
      BY <1>3, <1>4, <1>11, <3>2, <3>3, <3>4 DEF Way
    <3> QED
      BY <3>5 DEF c, q
  <2>9. CASE R[p].kind = "map" /\ q \in DOMAIN t
    <3>1. p \in DOMAIN t /\ g = h /\ Kind(t, p) = "map" /\ ~Barring(t, p)
      BY <1>3, <1>4, <1>11, <2>2, <2>9
    <3>2. CASE t[q].kind = "null"
      <4>1. look = Nil /\ k \in DOMAIN g[<<i, p>>].fields
        BY <2>4, <2>5, <2>6, <2>9, <3>2
      <4>2. c = [heap |-> h, node |-> Nil]
        BY <1>8, <1>11, <3>1, <4>1 DEF look
      <4> HIDE DEF c
      <4>3. Absent(t, q)
        BY <3>2, AbsentIs
      <4>4. Way(c, h, i, t, q)
        BY <1>3, <1>4, <1>11, <2>9, <3>1, <3>2, <4>2, <4>3 DEF Way
      <4> QED
        BY <4>4 DEF c, q
    <3>3. CASE t[q].kind # "null"
      <4>1. look = <<i, q>>
        BY <2>4, <2>5, <2>6, <2>9, <3>3
      <4>2. c = [heap |-> h, node |-> <<i, q>>]
        BY <1>7, <1>8, <1>11, <3>1, <4>1 DEF look
      <4>3. Room(t, q) = R
        <5>1. DOMAIN Room(t, q) = DOMAIN R /\ \A r \in DOMAIN R : Room(t, q)[r] = R[r]
          BY <1>3, <2>5, <2>9
        <5>2. R = [r \in DOMAIN R |-> R[r]] /\ Room(t, q) = [r \in DOMAIN Room(t, q) |-> Room(t, q)[r]]
          BY DEF R, Room
        <5> QED
          BY <5>1, <5>2
      <4> HIDE DEF c
      <4>4. IsTree(Room(t, q)) /\ Holds(h, i, Room(t, q)) /\ Aside(h, h, i) /\ Sound(h)
        BY <1>11, <3>1, <4>3
      <4>5. ~Blocked(t, q) /\ (Barring(t, q) <=> Kind(t, q) \in {"scalar", "list"})
        BY <1>3, <1>4, <1>11, <2>9, <3>1, <3>3
      <4>6. c.heap = h /\ c.node = <<i, q>> /\ c = [heap |-> c.heap, node |-> c.node]
        BY <4>2
      <4>7. Way(c, h, i, t, q)
        BY <4>4, <4>5, <4>6 DEF Way
      <4> QED
        BY <4>7 DEF c, q
    <3> QED
      BY <3>2, <3>3
  <2>10. CASE R[p].kind = "map" /\ q \notin DOMAIN t
    <3> DEFINE made == <<i, q>>
               h2 == Attach(Entered(g, made, NewNode("map")), <<i, p>>, k, made)
    <3>1. look = Nil /\ k \notin DOMAIN g[<<i, p>>].fields
      BY <2>4, <2>6, <2>7, <2>10
    <3>2. Child(<<i, p>>, k) = made
      BY DEF Child, q
    <3>3. c = [heap |-> h2, node |-> made]
      BY <1>7, <1>11, <3>1, <3>2 DEF CreateStep, look
    <3>4. ~Barring(t, p)
      BY <1>4, <1>11, <2>2, <2>10
    <3>5. IsTree(R) /\ Holds(g, i, R) /\ Sound(g) /\ Aside(h, g, i)
      BY <1>11
    <3>6. Room(t, q) = [r \in DOMAIN Room(t, q) |-> Room(t, q)[r]]
      BY DEF Room
    <3>7. /\ DOMAIN Room(t, q) = DOMAIN R \cup {Append(p, k)}
          /\ Room(t, q)[Append(p, k)] = Bare("map")
          /\ Append(p, k) \notin DOMAIN R
          /\ \A r \in DOMAIN R : Room(t, q)[r] = R[r]
      BY <1>3, <2>10 DEF q
    <3> DEFINE U == Room(t, q)
    <3> HIDE DEF U
    <3>8. IsTree(U)
      BY <2>1, <2>10, <3>5, <3>6, <3>7, MappingAdded DEF U
    <3> HIDE DEF g
    <3>9. Holds(h2, i, U) /\ Aside(g, h2, i) /\ Sound(h2)
      <4>1. LET h3 == Attach(Entered(g, <<i, Append(p, k)>>, NewNode("map")), <<i, p>>, k,
                            <<i, Append(p, k)>>)
            IN  Holds(h3, i, U) /\ Aside(g, h3, i) /\ Sound(h3)
        BY <2>1, <2>10, <3>5, <3>7, <3>8, MadeMapping DEF U
      <4> QED
        BY <4>1 DEF q
    <3> HIDE DEF c, h2
    <3>10. Aside(h, h2, i)
      BY <3>5, <3>9, AsideTrans
    <3>11. ~Blocked(t, q) /\ ~Barring(t, q) /\ Kind(t, q) = "missing"
      BY <1>3, <1>4, <1>11, <2>10, <3>4
    <3>12. c.heap = h2 /\ c.node = <<i, q>> /\ c = [heap |-> c.heap, node |-> c.node]
      BY <3>3
    <3>13. Way(c, h, i, t, q)
      BY <2>10, <3>8, <3>9, <3>10, <3>11, <3>12 DEF Way, U
    <3> QED
      BY <3>13 DEF c, q
  <2> QED
    BY <2>8, <2>9, <2>10
<1> QED
  BY <1>9, <1>10, <1>11 DEF Way, R

\* A path of fields, with no position in a list.
Plain(p) == \A j \in 1..Len(p) : p[j] \notin Positions

\* A path that meets no list is of paths that meet none.
LEMMA PlainNext ==
    ASSUME NEW p \in Path, NEW k \in STRING, Plain(Append(p, k))
    PROVE  Plain(p) /\ k \notin Positions
<1> DEFINE q == Append(p, k)
<1>1. Len(q) = Len(p) + 1 /\ Len(p) \in Nat
      /\ (\A j \in 1..Len(p) : q[j] = p[j]) /\ q[Len(p) + 1] = k
  BY PathAppend, LenProperties DEF Path
<1> HIDE DEF q
<1>2. \A j \in 1..Len(q) : q[j] \notin Positions
  BY DEF q, Plain
<1>3. k \notin Positions
  <2>1. Len(p) + 1 \in 1..Len(q)
    BY <1>1
  <2> QED
    BY <1>1, <1>2, <2>1
<1>4. \A j \in 1..Len(p) : p[j] \notin Positions
  BY <1>1, <1>2
<1> QED
  BY <1>3, <1>4 DEF Plain

\* Where LookupCreate comes to.
LEMMA WayTo ==
    ASSUME NEW h, NEW i \in Nat, NEW t, IsTree(t), t[<< >>].kind = "map",
           Holds(h, i, t), Sound(h), NEW path \in Path, Plain(path)
    PROVE  Way(LookupCreate(h, Root(i), path), h, i, t, path)
<1> DEFINE N == {p \in Path : Plain(p) => Way(LookupCreate(h, Root(i), p), h, i, t, p)}
<1>1. << >> \in N
  <2>1. << >> \in Path /\ << >> \in DOMAIN t
    BY TreeHas DEF Path
  <2>2. "name" \in STRING
    BY PositionAssumption
  <2>3. LookupCreate(h, Root(i), << >>) = [heap |-> h, node |-> Root(i)]
    BY <2>1, <2>2, CreateNext
  <2>4. PrefixesOf(<< >>) = {}
    BY <2>1, <2>2, PrefixesNext
  <2>5. Room(t, << >>) = t
    <3>1. t = [p \in DOMAIN t |-> t[p]]
      BY TreeHas
    <3> QED
      BY <2>4, <3>1 DEF Room
  <2>6. Kind(t, << >>) = "map"
    BY <2>1 DEF Kind, Has
  <2>7. ~Blocked(t, << >>) /\ ~Barring(t, << >>)
    BY <2>4 DEF Blocked, Barring
  <2>8. Aside(h, h, i)
    BY AsideTrans
  <2> DEFINE s == [heap |-> h, node |-> Root(i)]
  <2>9. s.heap = h /\ s.node = <<i, << >> >> /\ s = [heap |-> s.heap, node |-> s.node]
    BY DEF Root
  <2> HIDE DEF s
  <2>10. Way(s, h, i, t, << >>)
    BY <2>5, <2>6, <2>7, <2>8, <2>9 DEF Way
  <2> QED
    BY <2>1, <2>3, <2>10 DEF s
<1>2. ASSUME NEW p \in N, NEW k \in STRING
      PROVE  Append(p, k) \in N
  <2>1. Append(p, k) \in Path
    BY PathStep
  <2>2. ASSUME Plain(Append(p, k))
        PROVE  Way(LookupCreate(h, Root(i), Append(p, k)), h, i, t, Append(p, k))
    <3>1. Plain(p) /\ k \notin Positions
      BY <2>2, PlainNext
    <3>2. Way(LookupCreate(h, Root(i), p), h, i, t, p)
      BY <3>1
    <3>3. LookupCreate(h, Root(i), Append(p, k)) = CreateStep(LookupCreate(h, Root(i), p), k)
      BY CreateNext
    <3>4. Way(CreateStep(LookupCreate(h, Root(i), p), k), h, i, t, Append(p, k))
      BY <3>1, <3>2, WayStep
    <3> QED
      BY <3>3, <3>4, Zenon
  <2> QED
    BY <2>1, <2>2
<1>3. N = Path
  <2> HIDE DEF N
  <2>1. N \in SUBSET Path
    BY DEF N
  <2> QED
    BY <1>1, <1>2, <2>1, PathInduction
<1> QED
  BY <1>3

\* No field of no mapping.
LEMMA ScalarsNone ==
    ASSUME NEW t, IsTree(t), NEW key, NEW value
    PROVE  WithScalars(t, {}, key, value) = t
<1>1. t = [q \in DOMAIN t |-> t[q]]
  BY TreeHas
<1> QED
  BY <1>1 DEF WithScalars

\* A null is in the way of the field.
LEMMA FieldBlocked ==
    ASSUME NEW t, IsTree(t), NEW p, NEW key, NEW value, Blocked(t, p)
    PROVE  WithFields(t, {p}, key, value) = t
<1>1. t = [q \in DOMAIN t |-> t[q]]
  BY TreeHas
<1> QED
  BY <1>1 DEF WithFields

\* A field of a mapping that may have to be made first.
LEMMA FieldMade ==
    ASSUME NEW t, IsTree(t), NEW p \in Path, NEW key \in STRING, NEW value, ~Blocked(t, p)
    PROVE  WithFields(t, {p}, key, value) = WithScalars(Room(t, p), {p}, key, value)
<1> DEFINE e == Append(p, key)
           R == Room(t, p)
           D1 == {q \in DOMAIN t : ~IsPrefix(e, q)} \cup (PrefixesOf(p) \ DOMAIN t) \cup {e}
           D2 == {q \in DOMAIN R : ~IsPrefix(e, q)} \cup {e}
<1>1. e \in Path /\ PrefixesOf(p) \subseteq Path /\ ~IsPrefix(e, p)
  BY PathStep, PrefixesNext, PrefixOfNext
<1>2. \A q \in PrefixesOf(p) : ~IsPrefix(e, q)
  <2>1. \A q \in PrefixesOf(p) : IsPrefix(q, p)
    BY PrefixesAre
  <2> HIDE DEF e
  <2> QED
    BY <1>1, <2>1, PrefixOrder
<1>3. DOMAIN R = DOMAIN t \cup PrefixesOf(p)
      /\ \A q \in DOMAIN R : R[q] = IF q \in DOMAIN t THEN t[q] ELSE Bare("map")
  BY DEF Room
<1>4. {m \in {p} : ~Blocked(t, m)} = {p}
  OBVIOUS
<1>5. WithFields(t, {p}, key, value) =
        [q \in D1 |-> IF q = e THEN Scalar(value)
                      ELSE IF q \in PrefixesOf(p) \ DOMAIN t THEN Bare("map") ELSE t[q]]
  BY <1>4 DEF WithFields
<1>6. WithScalars(R, {p}, key, value) = [q \in D2 |-> IF q = e THEN Scalar(value) ELSE R[q]]
  BY DEF WithScalars
<1>7. D1 = D2
  BY <1>2, <1>3
<1>8. ASSUME NEW q \in D1
      PROVE  (IF q = e THEN Scalar(value)
              ELSE IF q \in PrefixesOf(p) \ DOMAIN t THEN Bare("map") ELSE t[q])
             = IF q = e THEN Scalar(value) ELSE R[q]
  BY <1>3
<1> HIDE DEF D1, D2, e, R
<1>9. [q \in D1 |-> IF q = e THEN Scalar(value)
                    ELSE IF q \in PrefixesOf(p) \ DOMAIN t THEN Bare("map") ELSE t[q]]
        = [q \in D1 |-> IF q = e THEN Scalar(value) ELSE R[q]]
  BY <1>8
<1> QED
  BY <1>5, <1>6, <1>7, <1>9 DEF R

\* LookupCreate and SetField.
LEMMA FieldSet ==
    ASSUME NEW h, NEW i \in Nat, NEW t, IsTree(t), t[<< >>].kind = "map",
           Holds(h, i, t), Sound(h), NEW p \in Path, Plain(p), p # << >>,
           NEW key \in STRING, NEW value
    PROVE  LET c  == LookupCreate(h, Root(i), p)
               h2 == SetScalar(c.heap, {c.node}, key, value)
               t2 == WithFields(t, {p}, key, value)
           IN  /\ Settable(c.heap, c.node) <=> ~Barring(t, p)
               /\ ~Barring(t, p) =>
                    IsTree(t2) /\ Holds(h2, i, t2) /\ Aside(h, h2, i) /\ Sound(h2)
<1> DEFINE c  == LookupCreate(h, Root(i), p)
           h2 == SetScalar(c.heap, {c.node}, key, value)
           t2 == WithFields(t, {p}, key, value)
           R  == Room(t, p)
<1>1. Way(c, h, i, t, p)
  BY WayTo
<1> HIDE DEF c
<1>2. t = [q \in DOMAIN t |-> t[q]]
  BY TreeHas
<1>3. CASE Blocked(t, p) /\ ~Barring(t, p) /\ c.node = Nil /\ c.heap = h
  <2>1. t2 = t /\ WithScalars(t, {}, key, value) = t
    BY <1>3, ScalarsNone, FieldBlocked
  <2>2. Apart(t, {}, key) /\ {Nil} \ {Nil} = {<<i, m>> : m \in {}}
    BY DEF Apart
  <2>3. LET g == SetScalar(h, {Nil}, key, value)
        IN  Holds(g, i, WithScalars(t, {}, key, value)) /\ Aside(h, g, i) /\ Sound(g)
    BY <2>2, ScalarsSet
  <2>4. Settable(c.heap, c.node)
    BY <1>3 DEF Settable
  <2> HIDE DEF t2
  <2>5. IsTree(t2) /\ Holds(h2, i, t2) /\ Aside(h, h2, i) /\ Sound(h2)
    BY <1>3, <2>1, <2>3
  <2> QED
    BY <1>3, <2>4, <2>5 DEF c, t2
<1>4. CASE Barring(t, p) /\ c.node = Bad
  <2>1. ~Settable(c.heap, c.node)
    BY <1>4 DEF Settable, Bad, Nil
  <2> QED
    BY <1>4, <2>1 DEF c
<1>5. CASE /\ ~Blocked(t, p) /\ (Barring(t, p) <=> Kind(t, p) \in {"scalar", "list"})
           /\ c.node = <<i, p>> /\ IsTree(R) /\ Holds(c.heap, i, R)
           /\ Aside(h, c.heap, i) /\ Sound(c.heap)
  <2>1. p \in DOMAIN R /\ R[p] = IF p \in DOMAIN t THEN t[p] ELSE Bare("map")
    <3>1. p \in PrefixesOf(p)
      <4>1. "name" \in STRING
        BY PositionAssumption
      <4> QED
        BY <4>1, PrefixesNext
    <3> QED
      BY <3>1 DEF Room
  <2>2. R[p].kind = "map" <=> ~Barring(t, p)
    <3>1. p \in DOMAIN t => t[p].kind \in nodeKinds /\ Kind(t, p) = t[p].kind
      BY TreeHas DEF Kind, Has
    <3>2. p \notin DOMAIN t => Kind(t, p) = "missing" /\ R[p].kind = "map"
      BY <2>1, BareIs DEF Kind, Has
    <3>3. p \in DOMAIN t => t[p].kind # "null"
      <4>1. "name" \in STRING
        BY PositionAssumption
      <4>2. p \in PrefixesOf(p)
        BY <4>1, PrefixesNext
      <4> QED
        BY <1>5, <3>1, <4>2 DEF Blocked
    <3> QED
      BY <1>5, <2>1, <3>1, <3>2, <3>3 DEF nodeKinds
  <2>3. c.heap[<<i, p>>].kind = R[p].kind
    <3> DEFINE g == c.heap
    <3> HIDE DEF g, R
    <3>1. IsTree(R) /\ Holds(g, i, R)
      BY <1>5 DEF g
    <3> QED
      BY <2>1, <3>1, HeldAt DEF g
  <2>4. <<i, p>> # Nil /\ <<i, p>> # Bad
    BY DEF Nil, Bad
  <2>5. Settable(c.heap, c.node) <=> ~Barring(t, p)
    BY <1>5, <2>2, <2>3, <2>4 DEF Settable, IsMapping
  <2>6. ASSUME ~Barring(t, p)
        PROVE  IsTree(t2) /\ Holds(h2, i, t2) /\ Aside(h, h2, i) /\ Sound(h2)
    <3>1. Apart(R, {p}, key)
      <4>1. ~IsPrefix(Append(p, key), p)
        BY PrefixOfNext
      <4> QED
        BY <2>1, <2>2, <2>6, <4>1 DEF Apart
    <3>2. {c.node} \ {Nil} = {<<i, m>> : m \in {p}}
      BY <1>5, <2>4
    <3> DEFINE g == c.heap
               N == {c.node}
               M == {p}
    <3>3. N \ {Nil} = {<<i, m>> : m \in M} /\ Apart(R, M, key)
          /\ IsTree(R) /\ Holds(g, i, R) /\ Sound(g) /\ Aside(h, g, i)
      BY <1>5, <3>1, <3>2
    <3>4. t2 = WithScalars(R, M, key, value)
      BY <1>5, FieldMade
    <3> HIDE DEF g, N, M, R, t2
    <3>5. LET g2 == SetScalar(g, N, key, value)
          IN  Holds(g2, i, WithScalars(R, M, key, value)) /\ Aside(g, g2, i) /\ Sound(g2)
      BY <3>3, ScalarsSet
    <3>6. IsTree(WithScalars(R, M, key, value))
      BY <3>3, ScalarsTree
    <3>7. h2 = SetScalar(g, N, key, value)
      BY DEF g, N
    <3> HIDE DEF h2
    <3>8. Aside(h, h2, i)
      BY <3>3, <3>5, <3>7, AsideTrans
    <3> QED
      BY <3>4, <3>5, <3>6, <3>7, <3>8
  <2> HIDE DEF t2, h2
  <2>7. /\ Settable(c.heap, c.node) <=> ~Barring(t, p)
        /\ ~Barring(t, p) => IsTree(t2) /\ Holds(h2, i, t2) /\ Aside(h, h2, i) /\ Sound(h2)
    BY <2>5, <2>6
  <2> QED
    BY <2>7 DEF c, t2, h2
<1> QED
  BY <1>1, <1>3, <1>4, <1>5 DEF Way

-----------------------------------------------------------------------------
(* What each command makes of a document.                                  *)

\* What the command line can ask for.
Asked(cmd) ==
    /\ cmd.op \in {"label", "annotate", "set-namespace", "rename", "scale", "set-image",
                   "remove", "patch"}
    /\ cmd.key \in STRING /\ cmd.number \in BOOLEAN
    /\ cmd.path \in Seq(STRING) /\ (cmd.op = "remove" => cmd.path # << >>)
    /\ IsTree(cmd.patch) /\ Shallow(cmd.patch)

\* A document that is a mapping and all its own.
Own(h, i, t) ==
    IsTree(t) /\ Shallow(t) /\ t[<< >>].kind = "map" /\ Holds(h, i, t) /\ Sound(h)

\* What becomes of it.
Becomes(h, h2, i, t2) ==
    IsTree(t2) /\ Shallow(t2) /\ Holds(h2, i, t2) /\ Aside(h, h2, i) /\ Sound(h2)

\* Paths are no longer for a field at most as deep as MaxDepth.
LEMMA FieldsShallow ==
    ASSUME NEW t, IsTree(t), Shallow(t), NEW M \in SUBSET Path, NEW key \in STRING, NEW value,
           \A m \in M : Len(m) < MaxDepth
    PROVE  Shallow(WithFields(t, M, key, value))
<1> DEFINE t2 == WithFields(t, M, key, value)
<1>1. ASSUME NEW p \in DOMAIN t2
      PROVE  p \in DOMAIN t \/ (\E m \in M : p \in PrefixesOf(m)) \/ \E m \in M : p = Append(m, key)
  BY DEF WithFields
<1>2. \A p \in DOMAIN t : Len(p) <= MaxDepth
  BY DEF Shallow
<1>3. ASSUME NEW m \in M, NEW p \in PrefixesOf(m)
      PROVE  Len(p) <= MaxDepth
  <2>1. p \in Path /\ m \in Path /\ IsPrefix(p, m)
    BY PrefixesAre
  <2>2. Len(p) <= Len(m) /\ Len(p) \in Nat /\ Len(m) \in Nat
    BY <2>1, PrefixOrder DEF Path
  <2> QED
    BY <2>2, DepthAssumption
<1>4. ASSUME NEW m \in M
      PROVE  Len(Append(m, key)) <= MaxDepth
  <2>1. Len(Append(m, key)) = Len(m) + 1 /\ Len(m) \in Nat
    BY PathStep
  <2> QED
    BY <2>1, DepthAssumption
<1> HIDE DEF t2
<1>5. \A p \in DOMAIN t2 : Len(p) <= MaxDepth
  BY <1>1, <1>2, <1>3, <1>4
<1> QED
  BY <1>5 DEF Shallow, t2

\* The fields that commands set, and where.
LEMMA PathsAre ==
    /\ \A p \in {<<"metadata">>, <<"spec">>, <<"metadata", "labels">>, <<"metadata", "annotations">>,
                 <<"spec", "template", "metadata", "labels">>} :
         p \in Path /\ Plain(p) /\ p # << >> /\ Len(p) < MaxDepth
    /\ {"namespace", "name", "replicas", "image"} \subseteq STRING \ Positions
<1>1. {"metadata", "labels", "annotations", "namespace", "name", "spec", "template",
       "replicas", "image"} \subseteq STRING \ Positions
  BY PositionAssumption
<1>2. <<"metadata">> \in Path /\ Plain(<<"metadata">>) /\ <<"metadata">> # << >> /\ Len(<<"metadata">>) = 1
  BY <1>1 DEF Path, Plain
<1>3. <<"spec">> \in Path /\ Plain(<<"spec">>) /\ <<"spec">> # << >> /\ Len(<<"spec">>) = 1
  BY <1>1 DEF Path, Plain
<1>4. /\ <<"metadata", "labels">> \in Path /\ Plain(<<"metadata", "labels">>)
      /\ <<"metadata", "labels">> # << >> /\ Len(<<"metadata", "labels">>) = 2
  BY <1>1 DEF Path, Plain
<1>5. /\ <<"metadata", "annotations">> \in Path /\ Plain(<<"metadata", "annotations">>)
      /\ <<"metadata", "annotations">> # << >> /\ Len(<<"metadata", "annotations">>) = 2
  BY <1>1 DEF Path, Plain
<1>6. /\ <<"spec", "template", "metadata", "labels">> \in Path
      /\ Plain(<<"spec", "template", "metadata", "labels">>)
      /\ <<"spec", "template", "metadata", "labels">> # << >>
      /\ Len(<<"spec", "template", "metadata", "labels">>) = 4
  BY <1>1 DEF Path, Plain
<1>7. 1 < MaxDepth /\ 2 < MaxDepth /\ 4 < MaxDepth
  BY DepthAssumption
<1> QED
  BY <1>1, <1>2, <1>3, <1>4, <1>5, <1>6, <1>7

\* A field of a mapping on a path that is always taken.
LEMMA OwnField ==
    ASSUME NEW h, NEW i \in Nat, NEW t, Own(h, i, t),
           NEW p \in Path, Plain(p), p # << >>, Len(p) < MaxDepth,
           NEW key \in STRING, NEW value
    PROVE  LET c  == LookupCreate(h, Root(i), p)
               h2 == SetScalar(c.heap, {c.node}, key, value)
           IN  /\ ~Settable(c.heap, c.node) <=> Barring(t, p)
               /\ ~Barring(t, p) => Becomes(h, h2, i, WithFields(t, {p}, key, value))
<1> DEFINE c  == LookupCreate(h, Root(i), p)
           h2 == SetScalar(c.heap, {c.node}, key, value)
           t2 == WithFields(t, {p}, key, value)
<1>1. IsTree(t) /\ Shallow(t) /\ t[<< >>].kind = "map" /\ Holds(h, i, t) /\ Sound(h)
  BY DEF Own
<1>2. Shallow(t2)
  <2>1. {p} \in SUBSET Path /\ \A m \in {p} : Len(m) < MaxDepth
    OBVIOUS
  <2> QED
    BY <1>1, <2>1, FieldsShallow
<1>3. /\ Settable(c.heap, c.node) <=> ~Barring(t, p)
      /\ ~Barring(t, p) => IsTree(t2) /\ Holds(h2, i, t2) /\ Aside(h, h2, i) /\ Sound(h2)
  BY <1>1, FieldSet
<1> HIDE DEF t2, h2, c
<1>4. ~Barring(t, p) => Becomes(h, h2, i, t2)
  BY <1>2, <1>3 DEF Becomes
<1> QED
  BY <1>3, <1>4 DEF t2, h2, c

\* What there is to do for a command with one such mapping.
LEMMA OneTarget ==
    ASSUME NEW cmd, NEW t, cmd.op \in {"label", "annotate", "set-namespace"},
           NEW p, Targets(cmd, t) = {p}
    PROVE  /\ Refused(cmd, t) <=> Barring(t, p)
           /\ Mutated(cmd, t) = WithFields(t, {p}, FieldOf(cmd), ValueOf(cmd, t))
  BY DEF Refused, Mutated, Barring

\* Annotate does what it promises.
LEMMA AnnotateDoes ==
    ASSUME NEW h, NEW i \in Nat, NEW t, Own(h, i, t), NEW cmd, Asked(cmd), cmd.op = "annotate"
    PROVE  LET c == LookupCreate(h, Root(i), <<"metadata", "annotations">>)
           IN  /\ ~Settable(c.heap, c.node) <=> Refused(cmd, t)
               /\ ~Refused(cmd, t) =>
                    Becomes(h, SetScalar(c.heap, {c.node}, cmd.key, cmd.value), i, Mutated(cmd, t))
<1> DEFINE p == <<"metadata", "annotations">>
<1>1. p \in Path /\ Plain(p) /\ p # << >> /\ Len(p) < MaxDepth
  BY PathsAre
<1>2. Targets(cmd, t) = {p} /\ FieldOf(cmd) = cmd.key /\ ValueOf(cmd, t) = cmd.value
  BY DEF Targets, FieldOf, ValueOf
<1>3. cmd.key \in STRING
  BY DEF Asked
<1> HIDE DEF p
<1>4. Refused(cmd, t) <=> Barring(t, p)
  BY <1>2, OneTarget
<1>5. Mutated(cmd, t) = WithFields(t, {p}, cmd.key, cmd.value)
  BY <1>2, OneTarget
<1>6. LET c == LookupCreate(h, Root(i), p)
      IN  /\ ~Settable(c.heap, c.node) <=> Refused(cmd, t)
          /\ ~Refused(cmd, t) =>
               Becomes(h, SetScalar(c.heap, {c.node}, cmd.key, cmd.value), i, Mutated(cmd, t))
  BY <1>1, <1>3, <1>4, <1>5, OwnField
<1> QED
  BY <1>6 DEF p

\* So does SetNamespace.
LEMMA SetNamespaceDoes ==
    ASSUME NEW h, NEW i \in Nat, NEW t, Own(h, i, t), NEW cmd, cmd.op = "set-namespace"
    PROVE  LET c == LookupCreate(h, Root(i), <<"metadata">>)
           IN  /\ ~Settable(c.heap, c.node) <=> Refused(cmd, t)
               /\ ~Refused(cmd, t) =>
                    Becomes(h, SetScalar(c.heap, {c.node}, "namespace", cmd.value), i,
                            Mutated(cmd, t))
<1> DEFINE p == <<"metadata">>
           key == "namespace"
<1>1. p \in Path /\ Plain(p) /\ p # << >> /\ Len(p) < MaxDepth /\ key \in STRING
  BY PathsAre
<1>2. Targets(cmd, t) = {p} /\ FieldOf(cmd) = key /\ ValueOf(cmd, t) = cmd.value
  BY DEF Targets, FieldOf, ValueOf
<1> HIDE DEF p, key
<1>4. Refused(cmd, t) <=> Barring(t, p)
  BY <1>2, OneTarget
<1>5. Mutated(cmd, t) = WithFields(t, {p}, key, cmd.value)
  BY <1>2, OneTarget
<1>6. LET c == LookupCreate(h, Root(i), p)
      IN  /\ ~Settable(c.heap, c.node) <=> Refused(cmd, t)
          /\ ~Refused(cmd, t) =>
               Becomes(h, SetScalar(c.heap, {c.node}, key, cmd.value), i, Mutated(cmd, t))
  BY <1>1, <1>4, <1>5, OwnField
<1> QED
  BY <1>6 DEF p, key

\* Where fields are set, path by path.
LEMMA FieldsAt ==
    ASSUME NEW t, NEW M, NEW key, NEW value
    PROVE  LET t2 == WithFields(t, M, key, value)
           IN  /\ t2 = [r \in DOMAIN t2 |-> t2[r]]
               /\ \A r :
                    /\ r \in DOMAIN t2 <=>
                         \/ /\ r \in DOMAIN t
                            /\ \A m \in M : ~Blocked(t, m) => ~IsPrefix(Append(m, key), r)
                         \/ \E m \in M : /\ ~Blocked(t, m)
                                         /\ \/ r \in PrefixesOf(m) /\ r \notin DOMAIN t
                                            \/ r = Append(m, key)
                    /\ r \in DOMAIN t2 =>
                         t2[r] = IF \E m \in M : ~Blocked(t, m) /\ r = Append(m, key)
                                 THEN Scalar(value)
                                 ELSE IF r \in DOMAIN t THEN t[r] ELSE Bare("map")
<1> DEFINE t2   == WithFields(t, M, key, value)
           open == {m \in M : ~Blocked(t, m)}
           set  == {Append(m, key) : m \in open}
           kept == {r \in DOMAIN t : \A s \in set : ~IsPrefix(s, r)}
           made == (UNION {PrefixesOf(m) : m \in open}) \ DOMAIN t
<1>1. t2 = [r \in kept \cup made \cup set |->
              IF r \in set THEN Scalar(value) ELSE IF r \in made THEN Bare("map") ELSE t[r]]
  BY DEF WithFields
<1>2. ASSUME NEW r
      PROVE  r \in set <=> \E m \in M : ~Blocked(t, m) /\ r = Append(m, key)
  OBVIOUS
<1>3. ASSUME NEW r
      PROVE  r \in made <=> r \notin DOMAIN t /\ \E m \in M : ~Blocked(t, m) /\ r \in PrefixesOf(m)
  OBVIOUS
<1>4. ASSUME NEW r
      PROVE  r \in kept <=>
               r \in DOMAIN t /\ \A m \in M : ~Blocked(t, m) => ~IsPrefix(Append(m, key), r)
  OBVIOUS
<1> HIDE DEF t2, set, kept, made
<1>5. ASSUME NEW r
      PROVE  /\ r \in DOMAIN t2 <=>
                  \/ /\ r \in DOMAIN t
                     /\ \A m \in M : ~Blocked(t, m) => ~IsPrefix(Append(m, key), r)
                  \/ \E m \in M : /\ ~Blocked(t, m)
                                  /\ \/ r \in PrefixesOf(m) /\ r \notin DOMAIN t
                                     \/ r = Append(m, key)
             /\ r \in DOMAIN t2 =>
                  t2[r] = IF \E m \in M : ~Blocked(t, m) /\ r = Append(m, key)
                          THEN Scalar(value)
                          ELSE IF r \in DOMAIN t THEN t[r] ELSE Bare("map")
  BY <1>1, <1>2, <1>3, <1>4
<1> QED
  BY <1>1, <1>5 DEF t2

\* The paths that begin with a key.
Beginning(k) == {r \in Path : r # << >> /\ r[1] = k}

\* All that the setting of a field changes begins with the same key.
LEMMA FirstKey ==
    ASSUME NEW p \in Path, p # << >>, NEW key \in STRING
    PROVE  /\ PrefixesOf(p) \subseteq Beginning(p[1])
           /\ Append(p, key) \in Beginning(p[1])
           /\ \A r \in Path : IsPrefix(Append(p, key), r) => r \in Beginning(p[1])
<1>1. Len(p) \in Nat \ {0} /\ 1 \in 1..Len(p)
  BY PathEnd
<1>2. ASSUME NEW s \in Path, NEW r \in Path, IsPrefix(s, r), s # << >>
      PROVE  r # << >> /\ r[1] = s[1]
  <2>1. Len(s) \in Nat \ {0} /\ 1 \in 1..Len(s)
    BY <1>2, PathEnd
  <2>2. Len(s) <= Len(r) /\ \A i \in 1..Len(s) : s[i] = r[i]
    BY <1>2, PrefixIs
  <2>3. r # << >>
    BY <2>1, <2>2 DEF Path
  <2> QED
    BY <2>1, <2>2, <2>3
<1>3. Append(p, key) \in Path /\ Append(p, key) # << >> /\ Append(p, key)[1] = p[1]
  <2>1. Append(p, key) \in Path /\ Append(p, key) # << >>
    BY PathStep
  <2>2. \A i \in 1..Len(p) : Append(p, key)[i] = p[i]
    BY PathAppend
  <2> QED
    BY <1>1, <2>1, <2>2
<1>4. \A r \in PrefixesOf(p) : r \in Path /\ r # << >> /\ IsPrefix(r, p)
  BY PrefixesAre
<1>5. PrefixesOf(p) \subseteq Beginning(p[1])
  BY <1>2, <1>4 DEF Beginning
<1> DEFINE e == Append(p, key)
<1> HIDE DEF e
<1>6. \A r \in Path : IsPrefix(e, r) => r \in Beginning(p[1])
  BY <1>2, <1>3 DEF Beginning, e
<1> QED
  BY <1>3, <1>5, <1>6 DEF Beginning, e

\* One field does not get into the way of the other, and both come out.
Joined(t, p, q, key, value) ==
    LET t1 == WithFields(t, {p}, key, value)
    IN  /\ Barring(t1, q) <=> Barring(t, q)
        /\ WithFields(t1, {q}, key, value) = WithFields(t, {p, q}, key, value)

\* Two fields in different fields of the document, one after the other.
LEMMA TwoFields ==
    ASSUME NEW t, IsTree(t), NEW p \in Path, p # << >>, NEW q \in Path, q # << >>, p[1] # q[1],
           NEW key \in STRING, NEW value
    PROVE  Joined(t, p, q, key, value)
<1> DEFINE t1 == WithFields(t, {p}, key, value)
           t2 == WithFields(t1, {q}, key, value)
           M  == {p, q}
           t3 == WithFields(t, M, key, value)
           e  == Append(p, key)
           f  == Append(q, key)
           A  == PrefixesOf(p)
           B  == PrefixesOf(q)
<1>1. /\ A \subseteq Beginning(p[1]) /\ e \in Beginning(p[1])
      /\ \A r \in Path : IsPrefix(e, r) => r \in Beginning(p[1])
  BY FirstKey
<1>2. /\ B \subseteq Beginning(q[1]) /\ f \in Beginning(q[1])
      /\ \A r \in Path : IsPrefix(f, r) => r \in Beginning(q[1])
  BY FirstKey
<1>3. \A r : ~(r \in Beginning(p[1]) /\ r \in Beginning(q[1]))
  BY DEF Beginning
<1>4. DOMAIN t \subseteq Path /\ Beginning(p[1]) \subseteq Path /\ Beginning(q[1]) \subseteq Path
  BY TreeHas DEF Beginning
<1>5. \A r : /\ r \in DOMAIN t1 <=>
                  \/ r \in DOMAIN t /\ (~Blocked(t, p) => ~IsPrefix(e, r))
                  \/ ~Blocked(t, p) /\ ((r \in A /\ r \notin DOMAIN t) \/ r = e)
             /\ r \in DOMAIN t1 =>
                  t1[r] = IF ~Blocked(t, p) /\ r = e THEN Scalar(value)
                          ELSE IF r \in DOMAIN t THEN t[r] ELSE Bare("map")
  BY FieldsAt
<1>6. t2 = [r \in DOMAIN t2 |-> t2[r]] /\ t3 = [r \in DOMAIN t3 |-> t3[r]]
  <2> HIDE DEF M
  <2>1. t3 = [r \in DOMAIN t3 |-> t3[r]]
    BY FieldsAt
  <2> DEFINE Q == {q}
             u2 == WithFields(t1, Q, key, value)
  <2> HIDE DEF t1, t3, Q
  <2>2. u2 = [r \in DOMAIN u2 |-> u2[r]]
    BY FieldsAt
  <2> QED
    BY <2>1, <2>2 DEF Q
<1>7. \A r : /\ r \in DOMAIN t2 <=>
                  \/ r \in DOMAIN t1 /\ (~Blocked(t1, q) => ~IsPrefix(f, r))
                  \/ ~Blocked(t1, q) /\ ((r \in B /\ r \notin DOMAIN t1) \/ r = f)
             /\ r \in DOMAIN t2 =>
                  t2[r] = IF ~Blocked(t1, q) /\ r = f THEN Scalar(value)
                          ELSE IF r \in DOMAIN t1 THEN t1[r] ELSE Bare("map")
  <2> HIDE DEF t1
  <2> QED
    BY FieldsAt
<1>8. \A r : /\ r \in DOMAIN t3 <=>
                  \/ /\ r \in DOMAIN t
                     /\ (~Blocked(t, p) => ~IsPrefix(e, r)) /\ (~Blocked(t, q) => ~IsPrefix(f, r))
                  \/ ~Blocked(t, p) /\ ((r \in A /\ r \notin DOMAIN t) \/ r = e)
                  \/ ~Blocked(t, q) /\ ((r \in B /\ r \notin DOMAIN t) \/ r = f)
             /\ r \in DOMAIN t3 =>
                  t3[r] = IF (~Blocked(t, p) /\ r = e) \/ (~Blocked(t, q) /\ r = f)
                          THEN Scalar(value)
                          ELSE IF r \in DOMAIN t THEN t[r] ELSE Bare("map")
  <2> HIDE DEF M
  <2>1. \A r : /\ r \in DOMAIN t3 <=>
                    \/ /\ r \in DOMAIN t
                       /\ \A m \in M : ~Blocked(t, m) => ~IsPrefix(Append(m, key), r)
                    \/ \E m \in M : /\ ~Blocked(t, m)
                                    /\ \/ r \in PrefixesOf(m) /\ r \notin DOMAIN t
                                       \/ r = Append(m, key)
               /\ r \in DOMAIN t3 =>
                    t3[r] = IF \E m \in M : ~Blocked(t, m) /\ r = Append(m, key)
                            THEN Scalar(value)
                            ELSE IF r \in DOMAIN t THEN t[r] ELSE Bare("map")
    BY FieldsAt
  <2> USE DEF M
  <2>2. \A r : /\ (\A m \in M : ~Blocked(t, m) => ~IsPrefix(Append(m, key), r)) <=>
                    (~Blocked(t, p) => ~IsPrefix(e, r)) /\ (~Blocked(t, q) => ~IsPrefix(f, r))
               /\ (\E m \in M : /\ ~Blocked(t, m)
                                /\ \/ r \in PrefixesOf(m) /\ r \notin DOMAIN t
                                   \/ r = Append(m, key))
                    <=> \/ ~Blocked(t, p) /\ ((r \in A /\ r \notin DOMAIN t) \/ r = e)
                        \/ ~Blocked(t, q) /\ ((r \in B /\ r \notin DOMAIN t) \/ r = f)
               /\ (\E m \in M : ~Blocked(t, m) /\ r = Append(m, key))
                    <=> (~Blocked(t, p) /\ r = e) \/ (~Blocked(t, q) /\ r = f)
    OBVIOUS
  <2> HIDE DEF t3, A, B, e, f, M
  <2>3. ASSUME NEW r
        PROVE  r \in DOMAIN t3 <=>
                 \/ /\ r \in DOMAIN t
                    /\ (~Blocked(t, p) => ~IsPrefix(e, r)) /\ (~Blocked(t, q) => ~IsPrefix(f, r))
                 \/ ~Blocked(t, p) /\ ((r \in A /\ r \notin DOMAIN t) \/ r = e)
                 \/ ~Blocked(t, q) /\ ((r \in B /\ r \notin DOMAIN t) \/ r = f)
    BY <2>1, <2>2
  <2>4. ASSUME NEW r \in DOMAIN t3
        PROVE  t3[r] = IF (~Blocked(t, p) /\ r = e) \/ (~Blocked(t, q) /\ r = f)
                       THEN Scalar(value)
                       ELSE IF r \in DOMAIN t THEN t[r] ELSE Bare("map")
    BY <2>1, <2>2
  <2> QED
    BY <2>3, <2>4
<1> HIDE DEF t1, t2, t3, e, f, A, B, M
<1>9. \A r \in B : Kind(t1, r) = Kind(t, r)
  BY <1>1, <1>2, <1>3, <1>4, <1>5 DEF Kind, Has
<1>10. (Barring(t1, q) <=> Barring(t, q)) /\ (Blocked(t1, q) <=> Blocked(t, q))
  BY <1>9 DEF Barring, Blocked, B
<1>11. \A r : /\ IsPrefix(e, r) /\ r \in DOMAIN t => r \notin B /\ r # f /\ ~IsPrefix(f, r)
              /\ r \in A \/ r = e => r \notin B /\ r # f /\ ~IsPrefix(f, r)
              /\ r \in B \/ r = f => r \notin A /\ r # e /\ ~IsPrefix(e, r)
  BY <1>1, <1>2, <1>3, <1>4
<1>12. \A r : r \in DOMAIN t2 <=> r \in DOMAIN t3
  BY <1>5, <1>7, <1>8, <1>10, <1>11
<1>13. \A r \in DOMAIN t2 : t2[r] = t3[r]
  BY <1>5, <1>7, <1>8, <1>10, <1>11, <1>12
<1>14. DOMAIN t2 = DOMAIN t3
  BY <1>12
<1>15. t2 = t3
  BY <1>6, <1>13, <1>14
<1> QED
  BY <1>10, <1>15 DEF t1, t2, t3, M, Joined

\* A document that has become another is one to work on.
LEMMA BecomesOwn ==
    ASSUME NEW h, NEW i, NEW t, Own(h, i, t), NEW p \in Path, p # << >>,
           NEW key \in STRING, NEW value, NEW h2, Becomes(h, h2, i, WithFields(t, {p}, key, value))
    PROVE  Own(h2, i, WithFields(t, {p}, key, value))
<1> DEFINE t2 == WithFields(t, {p}, key, value)
<1>1. << >> \in DOMAIN t /\ t[<< >>].kind = "map" /\ << >> \in Path
  BY TreeHas DEF Own, Path
<1>2. Append(p, key) # << >> /\ Append(p, key) \in Path
  BY PathStep
<1>3. ~IsPrefix(Append(p, key), << >>)
  BY <1>2, PrefixOrder
<1>4. << >> \in DOMAIN t2 /\ t2[<< >>] = t[<< >>]
  BY <1>1, <1>2, <1>3, FieldsAt
<1> HIDE DEF t2
<1> QED
  BY <1>1, <1>4 DEF Own, Becomes, t2

\* Label does what it promises.
LEMMA LabelDoes ==
    ASSUME NEW h, NEW i \in Nat, NEW t, Own(h, i, t), NEW cmd, Asked(cmd), cmd.op = "label"
    PROVE  LET own   == LookupCreate(h, Root(i), <<"metadata", "labels">>)
               first == SetScalar(own.heap, {own.node}, cmd.key, cmd.value)
               tpl   == LookupCreate(first, Root(i), <<"spec", "template", "metadata", "labels">>)
               pod   == Value(t, <<"kind">>) \in workloadKinds
               last  == IF pod THEN SetScalar(tpl.heap, {tpl.node}, cmd.key, cmd.value) ELSE first
           IN  /\ ~Settable(own.heap, own.node) \/ (pod /\ ~Settable(tpl.heap, tpl.node))
                    <=> Refused(cmd, t)
               /\ ~Refused(cmd, t) => Becomes(h, last, i, Mutated(cmd, t))
<1> DEFINE m     == <<"metadata", "labels">>
           n     == <<"spec", "template", "metadata", "labels">>
           own   == LookupCreate(h, Root(i), m)
           first == SetScalar(own.heap, {own.node}, cmd.key, cmd.value)
           tpl   == LookupCreate(first, Root(i), n)
           pod   == Value(t, <<"kind">>) \in workloadKinds
           then  == SetScalar(tpl.heap, {tpl.node}, cmd.key, cmd.value)
           last  == IF pod THEN then ELSE first
           t1    == WithFields(t, {m}, cmd.key, cmd.value)
<1>1. m \in Path /\ Plain(m) /\ m # << >> /\ Len(m) < MaxDepth
  BY PathsAre
<1>2. n \in Path /\ Plain(n) /\ n # << >> /\ Len(n) < MaxDepth
  BY PathsAre
<1>3. m[1] # n[1]
  OBVIOUS
<1>4. cmd.key \in STRING
  BY DEF Asked
<1>5. Targets(cmd, t) = IF pod THEN {m, n} ELSE {m}
  BY DEF Targets
<1>6. FieldOf(cmd) = cmd.key /\ ValueOf(cmd, t) = cmd.value
  BY DEF FieldOf, ValueOf
<1> HIDE DEF m, n, pod
<1>7. Refused(cmd, t) <=> Barring(t, m) \/ (pod /\ Barring(t, n))
  BY <1>5 DEF Refused, Barring
<1>8. Mutated(cmd, t) = WithFields(t, IF pod THEN {m, n} ELSE {m}, cmd.key, cmd.value)
  BY <1>5, <1>6 DEF Mutated
<1>9. /\ ~Settable(own.heap, own.node) <=> Barring(t, m)
      /\ ~Barring(t, m) => Becomes(h, first, i, t1)
  BY <1>1, <1>4, OwnField
<1> HIDE DEF own, first
<1>10. ASSUME ~Barring(t, m)
       PROVE  /\ ~Settable(tpl.heap, tpl.node) <=> Barring(t, n)
              /\ ~Barring(t, n) =>
                   Becomes(h, then, i, WithFields(t, {m, n}, cmd.key, cmd.value))
  <2>1. Own(first, i, t1)
    BY <1>1, <1>4, <1>9, <1>10, BecomesOwn
  <2>2. IsTree(t)
    BY DEF Own
  <2>3. /\ Barring(t1, n) <=> Barring(t, n)
        /\ WithFields(t1, {n}, cmd.key, cmd.value) = WithFields(t, {m, n}, cmd.key, cmd.value)
    <3>1. Joined(t, m, n, cmd.key, cmd.value)
      BY <1>1, <1>2, <1>3, <1>4, <2>2, TwoFields
    <3> QED
      BY <3>1 DEF Joined
  <2> HIDE DEF t1
  <2>4. /\ ~Settable(tpl.heap, tpl.node) <=> Barring(t1, n)
        /\ ~Barring(t1, n) =>
             Becomes(first, then, i, WithFields(t1, {n}, cmd.key, cmd.value))
    BY <1>2, <1>4, <2>1, OwnField
  <2> HIDE DEF tpl, then
  <2>5. Aside(h, first, i)
    BY <1>9, <1>10 DEF Becomes
  <2> QED
    BY <2>3, <2>4, <2>5, AsideTrans DEF Becomes
<1> HIDE DEF tpl, then, t1
<1>11. /\ ~Settable(own.heap, own.node) \/ (pod /\ ~Settable(tpl.heap, tpl.node))
            <=> Refused(cmd, t)
       /\ ~Refused(cmd, t) => Becomes(h, last, i, Mutated(cmd, t))
  BY <1>7, <1>8, <1>9, <1>10 DEF t1
<1> QED
  BY <1>11 DEF m, n, own, first, tpl, pod, then

\* No field is set.
LEMMA NoFields ==
    ASSUME NEW t, IsTree(t), NEW key, NEW value
    PROVE  WithFields(t, {}, key, value) = t
<1>1. t = [q \in DOMAIN t |-> t[q]]
  BY TreeHas
<1> QED
  BY <1>1 DEF WithFields

\* A document that nothing happens to.
LEMMA NothingDone ==
    ASSUME NEW h, NEW i, NEW t, Own(h, i, t)
    PROVE  Becomes(h, h, i, t)
  BY AsideTrans DEF Own, Becomes

\* A field of a field of the document, if there is that field.
LEMMA TopField ==
    ASSUME NEW h, NEW i \in Nat, NEW t, Own(h, i, t), NEW k \in STRING, k \notin Positions,
           NEW key \in STRING, NEW value
    PROVE  LET p  == <<k>>
               n  == Lookup(h, Root(i), p)
               h2 == SetScalar(h, {n}, key, value)
           IN  /\ n \in {Nil, Bad} <=> Absent(t, p)
               /\ ~Absent(t, p) =>
                    /\ ~Settable(h, n) <=> Barring(t, p)
                    /\ ~Barring(t, p) => Becomes(h, h2, i, WithFields(t, {p}, key, value))
<1> DEFINE p  == <<k>>
           n  == Lookup(h, Root(i), p)
           h2 == SetScalar(h, {n}, key, value)
           c  == LookupCreate(h, Root(i), p)
<1>1. IsTree(t) /\ t[<< >>].kind = "map" /\ Holds(h, i, t) /\ Sound(h) /\ << >> \in DOMAIN t
  BY TreeHas DEF Own
<1>2. p \in Path /\ p # << >> /\ Len(p) = 1 /\ Plain(p) /\ p = Append(<< >>, k) /\ << >> \in Path
  <2>1. << >> \in Path /\ Len(<< >>) = 0
    BY DEF Path
  <2>2. p = Append(<< >>, k)
    OBVIOUS
  <2>3. p[1] = k
    OBVIOUS
  <2> HIDE DEF p
  <2>4. p \in Path /\ p # << >> /\ Len(p) = 1
    <3>1. Len(<< >>) + 1 = 1
      BY <2>1
    <3> QED
      BY <2>1, <2>2, <3>1, PathStep
  <2>5. Plain(p)
    <3>1. 1..Len(p) = {1}
      BY <2>4
    <3>2. \A j \in {1} : p[j] \notin Positions
      BY <2>3
    <3> QED
      BY <3>1, <3>2, Zenon DEF Plain
  <2> QED
    BY <2>1, <2>2, <2>4, <2>5
<1>3. Len(p) < MaxDepth
  BY <1>2, DepthAssumption
<1>4. Leads(t, p) <=> ~Absent(t, p)
  <2>1. ~Absent(t, << >>) /\ Kind(t, << >>) # "list"
    BY <1>1 DEF Absent, Kind, Has
  <2> HIDE DEF p
  <2> QED
    BY <1>1, <1>2, <2>1, LeadsNext
<1> HIDE DEF p
<1>5. /\ Leads(t, p) => n = <<i, p>> /\ p \in DOMAIN t
      /\ ~Leads(t, p) => n \in {Nil, Bad}
  <2>1. t[<< >>].kind # "null"
    BY <1>1
  <2> QED
    BY <1>1, <1>2, <2>1, LookupIs
<1>6. <<i, p>> \notin {Nil, Bad}
  BY DEF Nil, Bad
<1>7. Way(c, h, i, t, p)
  BY <1>1, <1>2, WayTo
<1> HIDE DEF c, n, h2
<1>8. ~Absent(t, p) => c.node = n /\ c.heap = h
  BY <1>4, <1>5, <1>7 DEF Way
<1>9. LET g == SetScalar(c.heap, {c.node}, key, value)
      IN  /\ ~Settable(c.heap, c.node) <=> Barring(t, p)
          /\ ~Barring(t, p) => Becomes(h, g, i, WithFields(t, {p}, key, value))
  BY <1>2, <1>3, OwnField DEF c
<1>10. /\ n \in {Nil, Bad} <=> Absent(t, p)
       /\ ~Absent(t, p) =>
            /\ ~Settable(h, n) <=> Barring(t, p)
            /\ ~Barring(t, p) => Becomes(h, h2, i, WithFields(t, {p}, key, value))
  BY <1>4, <1>5, <1>6, <1>8, <1>9 DEF h2
<1> QED
  BY <1>10 DEF p, n, h2

\* Rename does what it promises.
LEMMA RenameDoes ==
    ASSUME NEW h, NEW i \in Nat, NEW t, Own(h, i, t), NEW cmd, cmd.op = "rename"
    PROVE  LET meta    == Lookup(h, Root(i), <<"metadata">>)
               name    == Value(t, <<"metadata", "name">>)
               newName == cmd.prefix \o name \o cmd.suffix
           IN  IF newName = name \/ meta \in {Nil, Bad}
               THEN ~Refused(cmd, t) /\ Becomes(h, h, i, Mutated(cmd, t))
               ELSE /\ ~Settable(h, meta) <=> Refused(cmd, t)
                    /\ ~Refused(cmd, t) =>
                         Becomes(h, SetScalar(h, {meta}, "name", newName), i, Mutated(cmd, t))
<1> DEFINE p       == <<"metadata">>
           key     == "name"
           meta    == Lookup(h, Root(i), p)
           name    == Value(t, <<"metadata", "name">>)
           newName == cmd.prefix \o name \o cmd.suffix
           h2      == SetScalar(h, {meta}, key, newName)
<1>1. /\ meta \in {Nil, Bad} <=> Absent(t, p)
      /\ ~Absent(t, p) =>
           /\ ~Settable(h, meta) <=> Barring(t, p)
           /\ ~Barring(t, p) => Becomes(h, h2, i, WithFields(t, {p}, key, newName))
  <2> DEFINE k == "metadata"
  <2>1. k \in STRING /\ k \notin Positions /\ key \in STRING
    BY PositionAssumption
  <2> HIDE DEF k, key, newName
  <2>2. LET q  == <<k>>
            n  == Lookup(h, Root(i), q)
            g  == SetScalar(h, {n}, key, newName)
        IN  /\ n \in {Nil, Bad} <=> Absent(t, q)
            /\ ~Absent(t, q) =>
                 /\ ~Settable(h, n) <=> Barring(t, q)
                 /\ ~Barring(t, q) => Becomes(h, g, i, WithFields(t, {q}, key, newName))
    BY <2>1, TopField
  <2> QED
    BY <2>2 DEF k
<1>2. ValueOf(cmd, t) = newName /\ FieldOf(cmd) = key
  BY DEF ValueOf, FieldOf
<1>3. Targets(cmd, t) = IF ~Absent(t, p) /\ newName # name THEN {p} ELSE {}
  <2>1. Targets(cmd, t) = {q \in {p} : ~Absent(t, q) /\ ValueOf(cmd, t) # name}
    BY DEF Targets
  <2> HIDE DEF p, newName, name
  <2> QED
    BY <1>2, <2>1
<1> HIDE DEF p, key, meta, newName, name, h2
<1>4. Refused(cmd, t) <=> ~Absent(t, p) /\ newName # name /\ Barring(t, p)
  BY <1>3 DEF Refused, Barring
<1>5. Mutated(cmd, t) = WithFields(t, IF ~Absent(t, p) /\ newName # name THEN {p} ELSE {}, key, newName)
  BY <1>2, <1>3 DEF Mutated
<1>6. WithFields(t, {}, key, newName) = t
  BY NoFields DEF Own
<1>7. Becomes(h, h, i, t)
  BY NothingDone
<1>8. IF newName = name \/ meta \in {Nil, Bad}
      THEN ~Refused(cmd, t) /\ Becomes(h, h, i, Mutated(cmd, t))
      ELSE /\ ~Settable(h, meta) <=> Refused(cmd, t)
           /\ ~Refused(cmd, t) => Becomes(h, h2, i, Mutated(cmd, t))
  BY <1>1, <1>4, <1>5, <1>6, <1>7
<1> QED
  BY <1>8 DEF p, key, meta, newName, name, h2

\* Scale does what it promises.
LEMMA ScaleDoes ==
    ASSUME NEW h, NEW i \in Nat, NEW t, Own(h, i, t), NEW cmd, cmd.op = "scale"
    PROVE  LET spec == Lookup(h, Root(i), <<"spec">>)
           IN  IF spec \in {Nil, Bad}
               THEN ~Refused(cmd, t) /\ Becomes(h, h, i, Mutated(cmd, t))
               ELSE /\ ~cmd.number \/ ~Settable(h, spec) <=> Refused(cmd, t)
                    /\ ~Refused(cmd, t) =>
                         Becomes(h, SetScalar(h, {spec}, "replicas", cmd.value), i, Mutated(cmd, t))
<1> DEFINE p    == <<"spec">>
           key  == "replicas"
           spec == Lookup(h, Root(i), p)
           h2   == SetScalar(h, {spec}, key, cmd.value)
<1>1. /\ spec \in {Nil, Bad} <=> Absent(t, p)
      /\ ~Absent(t, p) =>
           /\ ~Settable(h, spec) <=> Barring(t, p)
           /\ ~Barring(t, p) => Becomes(h, h2, i, WithFields(t, {p}, key, cmd.value))
  <2> DEFINE k == "spec"
             v == cmd.value
  <2>1. k \in STRING /\ k \notin Positions /\ key \in STRING
    BY PositionAssumption
  <2> HIDE DEF k, key, v
  <2>2. LET q  == <<k>>
            n  == Lookup(h, Root(i), q)
            g  == SetScalar(h, {n}, key, v)
        IN  /\ n \in {Nil, Bad} <=> Absent(t, q)
            /\ ~Absent(t, q) =>
                 /\ ~Settable(h, n) <=> Barring(t, q)
                 /\ ~Barring(t, q) => Becomes(h, g, i, WithFields(t, {q}, key, v))
    BY <2>1, TopField
  <2> QED
    BY <2>2 DEF k, v
<1>2. ValueOf(cmd, t) = cmd.value /\ FieldOf(cmd) = key
  BY DEF ValueOf, FieldOf
<1>3. Targets(cmd, t) = IF ~Absent(t, p) THEN {p} ELSE {}
  BY DEF Targets
<1> HIDE DEF p, key, spec, h2
<1>4. Refused(cmd, t) <=> ~Absent(t, p) /\ (Barring(t, p) \/ ~cmd.number)
  BY <1>3 DEF Refused, Barring
<1>5. Mutated(cmd, t) = WithFields(t, IF ~Absent(t, p) THEN {p} ELSE {}, key, cmd.value)
  BY <1>2, <1>3 DEF Mutated
<1>6. WithFields(t, {}, key, cmd.value) = t
  BY NoFields DEF Own
<1>7. Becomes(h, h, i, t)
  BY NothingDone
<1>8. IF spec \in {Nil, Bad}
      THEN ~Refused(cmd, t) /\ Becomes(h, h, i, Mutated(cmd, t))
      ELSE /\ ~cmd.number \/ ~Settable(h, spec) <=> Refused(cmd, t)
           /\ ~Refused(cmd, t) => Becomes(h, h2, i, Mutated(cmd, t))
  BY <1>1, <1>4, <1>5, <1>6, <1>7
<1> QED
  BY <1>8 DEF p, key, spec, h2

\* What is left without a node and what is below it.
LEMMA WithoutHas ==
    ASSUME NEW t, IsTree(t), NEW e \in Path, e # << >>
    PROVE  /\ IsTree(Without(t, e))
           /\ \A p : /\ p \in DOMAIN Without(t, e) <=> p \in DOMAIN t /\ ~IsPrefix(e, p)
                     /\ p \in DOMAIN Without(t, e) => Without(t, e)[p] = t[p]
<1> DEFINE t2 == Without(t, e)
<1>1. t2 = [p \in {q \in DOMAIN t : ~IsPrefix(e, q)} |-> t[p]]
  BY DEF Without
<1>2. \A p : /\ p \in DOMAIN t2 <=> p \in DOMAIN t /\ ~IsPrefix(e, p)
             /\ p \in DOMAIN t2 => t2[p] = t[p]
  BY <1>1
<1>3. t2 = [p \in DOMAIN t2 |-> t2[p]]
  BY <1>1
<1> HIDE DEF t2
<1>4. /\ DOMAIN t \subseteq Path /\ << >> \in DOMAIN t
      /\ t = [p \in DOMAIN t |-> [kind |-> t[p].kind, value |-> t[p].value, text |-> t[p].text]]
      /\ \A p \in DOMAIN t : t[p].kind \in nodeKinds
  BY TreeHas
<1>5. \A p \in DOMAIN t2 : t2[p] = [kind |-> t2[p].kind, value |-> t2[p].value, text |-> t2[p].text]
  <2> SUFFICES ASSUME NEW p \in DOMAIN t2
               PROVE  t2[p] = [kind |-> t2[p].kind, value |-> t2[p].value, text |-> t2[p].text]
    OBVIOUS
  <2>1. p \in DOMAIN t /\ t2[p] = t[p]
    BY <1>2
  <2>2. t[p] = [kind |-> t[p].kind, value |-> t[p].value, text |-> t[p].text]
    BY <1>4, <2>1
  <2> QED
    BY <2>1, <2>2
<1>6. t2 = [p \in DOMAIN t2 |-> [kind |-> t2[p].kind, value |-> t2[p].value, text |-> t2[p].text]]
  BY <1>3, <1>5
<1>7. << >> \in DOMAIN t2 /\ DOMAIN t2 \subseteq Path
  BY <1>2, <1>4, PrefixOrder
<1>8. \A p \in DOMAIN t2 : t2[p].kind \in nodeKinds
  BY <1>2, <1>4
<1>9. ASSUME NEW p \in Path, NEW k \in STRING, Append(p, k) \in DOMAIN t2
      PROVE  p \in DOMAIN t2 /\ (t2[p].kind = "map" \/ (t2[p].kind = "list" /\ k \in Positions))
  <2>1. Append(p, k) \in DOMAIN t /\ ~IsPrefix(e, Append(p, k))
    BY <1>2, <1>9
  <2>2. p \in DOMAIN t /\ (t[p].kind = "map" \/ (t[p].kind = "list" /\ k \in Positions))
    BY <2>1, TreeNext
  <2>3. ~IsPrefix(e, p)
    BY <2>1, PrefixOfNext
  <2> QED
    BY <1>2, <2>2, <2>3
<1>10. IsTree(t2)
  BY <1>6, <1>7, <1>8, <1>9, TreeIf
<1> QED
  BY <1>2, <1>10 DEF t2

\* Clear of a field of a node that is the document's own.
LEMMA Cleared ==
    ASSUME NEW h, NEW i, NEW t, IsTree(t), NEW S, Shows(h, i, t, S), Sound(h),
           NEW p \in DOMAIN t, p \notin S, NEW k \in STRING
    PROVE  LET h2 == Clear(h, <<i, p>>, k)
           IN  Shows(h2, i, Without(t, Append(p, k)), S) /\ Aside(h, h2, i) /\ Sound(h2)
<1> DEFINE e  == Append(p, k)
           n  == <<i, p>>
           h2 == Clear(h, n, k)
           t2 == Without(t, e)
<1>1. p \in Path /\ DOMAIN t \subseteq Path
  BY TreeHas
<1>2. e \in Path /\ e # << >> /\ Front(e) = p /\ Last(e) = k
  BY <1>1, PathStep
<1>3. /\ IsTree(t2)
      /\ \A q : /\ q \in DOMAIN t2 <=> q \in DOMAIN t /\ ~IsPrefix(e, q)
                /\ q \in DOMAIN t2 => t2[q] = t[q]
  <2> HIDE DEF e
  <2> QED
    BY <1>2, WithoutHas
<1>4. h2 = [h EXCEPT ![n].fields = [x \in DOMAIN @ \ {k} |-> @[x]]]
  BY DEF Clear
<1>5. n \in DOMAIN h /\ h[n] = Drawn(t, p, i, S)
  BY DEF Shows, NodeAt
<1> DEFINE left == [x \in DOMAIN h[n].fields \ {k} |-> h[n].fields[x]]
<1>6. /\ DOMAIN h2 = DOMAIN h
      /\ \A m \in DOMAIN h : m # n => h2[m] = h[m]
      /\ h2[n] = [h[n] EXCEPT !.fields = left]
  <2> HIDE DEF n
  <2> QED
    BY <1>4, <1>5
<1>11. ~IsPrefix(e, p) /\ \A s \in STRING : IsPrefix(e, Append(p, s)) <=> s = k
  <2>1. ~IsPrefix(e, p)
    BY <1>1, PrefixOfNext
  <2>2. \A s \in STRING : IsPrefix(e, Append(p, s)) <=> e = Append(p, s)
    BY <1>1, <1>2, <2>1, PrefixOfNext
  <2>3. \A s \in STRING : e = Append(p, s) <=> s = k
    BY <1>1, SameField
  <2> QED
    BY <2>1, <2>2, <2>3
<1> HIDE DEF h2, t2, n, left, e
<1>7. h2[n] = Drawn(t2, p, i, S)
  <2>1. ~IsPrefix(e, p)
    BY <1>11
  <2>2. p \in DOMAIN t2 /\ t2[p] = t[p]
    BY <1>3, <2>1
  <2>3. Keys(t, p) = {s \in STRING : Append(p, s) \in DOMAIN t}
        /\ Keys(t2, p) = {s \in STRING : Append(p, s) \in DOMAIN t2}
    BY <1>1, <1>3, KeysAre
  <2>4. ASSUME NEW s \in STRING
        PROVE  Append(p, s) \in DOMAIN t2 <=> Append(p, s) \in DOMAIN t /\ s # k
    <3>1. IsPrefix(e, Append(p, s)) <=> s = k
      BY <1>11
    <3> QED
      BY <1>3, <3>1
  <2>5. Keys(t2, p) = Keys(t, p) \ {k}
    BY <2>3, <2>4
  <2> DEFINE f  == [x \in Keys(t, p) |-> NodeAt(i, S, Append(p, x))]
             f2 == [x \in Keys(t2, p) |-> NodeAt(i, S, Append(p, x))]
  <2>6. h[n] = [kind |-> t[p].kind, value |-> t[p].value, text |-> t[p].text, fields |-> f]
    BY <1>5 DEF Drawn
  <2>7. Drawn(t2, p, i, S) = [kind |-> t[p].kind, value |-> t[p].value, text |-> t[p].text,
                              fields |-> f2]
    BY <2>2 DEF Drawn
  <2>8. h[n].fields = f
    <3> HIDE DEF f
    <3> QED
      BY <2>6
  <2>9. left = f2
    <3>1. left = [x \in DOMAIN f \ {k} |-> f[x]]
      <4> HIDE DEF f
      <4> QED
        BY <2>8 DEF left
    <3>2. DOMAIN f = Keys(t, p)
      OBVIOUS
    <3>3. DOMAIN f \ {k} = Keys(t2, p)
      BY <2>5, <3>2
    <3>4. \A x \in Keys(t2, p) : f[x] = f2[x]
      BY <2>5
    <3> QED
      BY <3>1, <3>3, <3>4
  <2> HIDE DEF f, f2
  <2> QED
    BY <1>6, <2>6, <2>7, <2>9
<1>8. Shows(h2, i, t2, S)
  <2>1. << >> \notin S
    BY DEF Shows
  <2>2. \A q \in Path : ~IsPrefix(e, q) =>
          /\ q \in DOMAIN t2 <=> q \in DOMAIN t
          /\ q \in DOMAIN t => t2[q] = t[q]
          /\ q \in S <=> q \in S
    BY <1>3
  <2>3. \A q \in DOMAIN t : ~IsPrefix(e, q) /\ (e = << >> \/ q # Front(e)) =>
          /\ NodeAt(i, S, q) \in DOMAIN h2
          /\ h2[NodeAt(i, S, q)] = h[NodeAt(i, S, q)]
    <3>1. \A q \in DOMAIN t : q # p => NodeAt(i, S, q) # n
      BY DEF NodeAt, n
    <3>2. \A q \in DOMAIN t : NodeAt(i, S, q) \in DOMAIN h
      BY DEF Shows
    <3> QED
      BY <1>2, <1>6, <3>1, <3>2
  <2>4. /\ NodeAt(i, S, Front(e)) \in DOMAIN h2
        /\ h2[NodeAt(i, S, Front(e))] = Drawn(t2, Front(e), i, S)
    <3>1. NodeAt(i, S, p) = n
      BY DEF NodeAt, n
    <3> QED
      BY <1>2, <1>5, <1>6, <1>7, <3>1
  <2>5. \A q \in DOMAIN t2 : ~IsPrefix(e, q)
    BY <1>3
  <2> QED
    BY <1>2, <1>3, <2>1, <2>2, <2>3, <2>4, <2>5, Regrafted
<1>9. Aside(h, h2, i)
  BY <1>6 DEF Aside, n
<1>10. Sound(h2)
  <2>1. ASSUME NEW m \in DOMAIN h2, NEW s \in DOMAIN h2[m].fields
        PROVE  h2[m].fields[s] \in DOMAIN h2 /\ h2[m].kind \in {"map", "list"}
    <3>1. CASE m # n
      BY <1>6, <2>1, <3>1 DEF Sound
    <3>2. CASE m = n
      <4>1. h2[n].fields = left /\ h2[n].kind = h[n].kind
        BY <1>5, <1>6 DEF Drawn
      <4>2. s \in DOMAIN h[n].fields /\ left[s] = h[n].fields[s]
        BY <2>1, <3>2, <4>1 DEF left
      <4> QED
        BY <1>5, <1>6, <3>2, <4>1, <4>2 DEF Sound
    <3> QED
      BY <3>1, <3>2
  <2> QED
    BY <2>1 DEF Sound
<1> QED
  BY <1>8, <1>9, <1>10 DEF h2, t2, n, e

\* RemoveField does what it promises.
LEMMA RemoveDoes ==
    ASSUME NEW h, NEW i \in Nat, NEW t, Own(h, i, t), NEW cmd, Asked(cmd), cmd.op = "remove"
    PROVE  LET parent == Lookup(h, Root(i), Front(cmd.path))
               field  == Last(cmd.path)
           IN  IF parent \in {Nil, Bad} \/ LookupPart(h, parent, field) \in {Nil, Bad}
               THEN ~Refused(cmd, t) /\ Becomes(h, h, i, Mutated(cmd, t))
               ELSE /\ ~Settable(h, parent) <=> Refused(cmd, t)
                    /\ ~Refused(cmd, t) =>
                         Becomes(h, Clear(h, parent, field), i, Mutated(cmd, t))
<1> DEFINE e      == cmd.path
           q      == Front(e)
           k      == Last(e)
           parent == Lookup(h, Root(i), q)
           h2     == Clear(h, parent, k)
<1>1. IsTree(t) /\ Shallow(t) /\ t[<< >>].kind = "map" /\ Holds(h, i, t) /\ Sound(h)
  BY DEF Own
<1>2. e \in Path /\ e # << >>
  BY DEF Asked, Path
<1>3. /\ Refused(cmd, t) <=> Leads(t, e) /\ k \in Positions
      /\ Mutated(cmd, t) = IF Leads(t, e) THEN Without(t, e) ELSE t
  <2>1. Targets(cmd, t) = {}
    BY DEF Targets
  <2> QED
    BY <2>1 DEF Refused, Mutated
<1> HIDE DEF e
<1>4. q \in Path /\ k \in STRING /\ e = Append(q, k)
  BY <1>2, PathEnd
<1> HIDE DEF q, k
<1>5. Leads(t, e) <=> Leads(t, q) /\ ~Absent(t, e) /\ (k \in Positions <=> Kind(t, q) = "list")
  BY <1>1, <1>4, LeadsNext
<1>6. /\ Leads(t, q) => parent = <<i, q>> /\ q \in DOMAIN t
      /\ ~Leads(t, q) => parent \in {Nil, Bad}
  <2>1. t[<< >>].kind # "null"
    BY <1>1
  <2> QED
    BY <1>1, <1>4, <2>1, LookupIs
<1>7. Becomes(h, h, i, t)
  BY NothingDone
<1>8. CASE ~Leads(t, q)
  BY <1>3, <1>5, <1>6, <1>7, <1>8 DEF e, q, k
<1>9. CASE Leads(t, q)
  <2>1. parent = <<i, q>> /\ q \in DOMAIN t /\ parent \notin {Nil, Bad} /\ <<i, e>> \notin {Nil, Bad}
    BY <1>6, <1>9 DEF Nil, Bad
  <2>2. LookupPart(h, parent, k) =
          IF t[q].kind = "null" THEN Nil
          ELSE IF t[q].kind # IF k \in Positions THEN "list" ELSE "map" THEN Bad
          ELSE IF Absent(t, e) THEN Nil
          ELSE <<i, e>>
    <3>1. LookupPart(h, <<i, q>>, k) =
            IF t[q].kind = "null" THEN Nil
            ELSE IF t[q].kind # IF k \in Positions THEN "list" ELSE "map" THEN Bad
            ELSE IF Absent(t, Append(q, k)) THEN Nil
            ELSE <<i, Append(q, k)>>
      <4>1. q \in DOMAIN t /\ k \in STRING
        BY <1>4, <2>1
      <4> QED
        BY <1>1, <4>1, PartIs
    <3> HIDE DEF parent
    <3> QED
      BY <1>4, <2>1, <3>1
  <2>3. ~Absent(t, e) => t[q].kind = "map" \/ (t[q].kind = "list" /\ k \in Positions)
    <3>1. ~Absent(t, e) => e \in DOMAIN t
      BY <1>1, AbsentIs
    <3> QED
      BY <1>1, <1>4, <3>1, TreeNext
  <2>4. LookupPart(h, parent, k) \notin {Nil, Bad} <=> Leads(t, e)
    <3>1. Kind(t, q) = t[q].kind
      BY <2>1 DEF Kind, Has
    <3> QED
      BY <1>5, <1>9, <2>1, <2>2, <2>3, <3>1
  <2>5. ~Settable(h, parent) <=> t[q].kind # "map"
    <3>1. h[<<i, q>>].kind = t[q].kind
      BY <1>1, <2>1, HeldAt
    <3> QED
      BY <2>1, <3>1 DEF Settable, IsMapping
  <2>6. ASSUME Leads(t, e)
        PROVE  /\ t[q].kind # "map" <=> k \in Positions
               /\ Becomes(h, h2, i, Without(t, e))
    <3>1. Kind(t, q) = t[q].kind
      BY <2>1 DEF Kind, Has
    <3>2. t[q].kind # "map" <=> k \in Positions
      BY <1>5, <2>3, <2>6, <3>1
    <3>3. Shows(h, i, t, {}) /\ q \notin {}
      BY <1>1, HoldsShows
    <3> DEFINE S == {}
    <3>4. Shows(h, i, t, S) /\ q \notin S
      BY <3>3
    <3> HIDE DEF S
    <3>5. /\ Shows(Clear(h, <<i, q>>, k), i, Without(t, Append(q, k)), S)
          /\ Aside(h, Clear(h, <<i, q>>, k), i) /\ Sound(Clear(h, <<i, q>>, k))
      BY <1>1, <1>4, <2>1, <3>4, Cleared
    <3>6. Holds(h2, i, Without(t, e)) /\ Aside(h, h2, i) /\ Sound(h2)
      BY <1>4, <2>1, <3>5, HoldsShows DEF S
    <3>7. IsTree(Without(t, e)) /\ \A p : p \in DOMAIN Without(t, e) => p \in DOMAIN t
      BY <1>1, <1>2, WithoutHas
    <3>8. Shallow(Without(t, e))
      BY <1>1, <3>7 DEF Shallow
    <3> HIDE DEF h2
    <3> QED
      BY <3>2, <3>6, <3>7, <3>8 DEF Becomes
  <2> HIDE DEF parent, h2
  <2>7. IF parent \in {Nil, Bad} \/ LookupPart(h, parent, k) \in {Nil, Bad}
        THEN ~Refused(cmd, t) /\ Becomes(h, h, i, Mutated(cmd, t))
        ELSE /\ ~Settable(h, parent) <=> Refused(cmd, t)
             /\ ~Refused(cmd, t) => Becomes(h, h2, i, Mutated(cmd, t))
    BY <1>3, <1>7, <2>1, <2>4, <2>5, <2>6
  <2> QED
    BY <2>7 DEF e, q, k, parent, h2
<1> QED
  BY <1>8, <1>9

\* A path of fields leads to what is there.
LEMMA PlainLeads ==
    ASSUME NEW t, IsTree(t), NEW p \in Path, Plain(p)
    PROVE  Leads(t, p) <=> ~Absent(t, p)
<1>1. ASSUME ~Absent(t, p), NEW n \in 1..Len(p)
      PROVE  p[n] \notin Positions /\ Kind(t, SubSeq(p, 1, n - 1)) # "list"
  <2>1. p \in DOMAIN t /\ Len(p) \in Nat
    BY <1>1, AbsentIs DEF Path
  <2>2. p[n] \notin Positions
    BY <1>1 DEF Plain
  <2> DEFINE m == n - 1
             r == SubSeq(p, 1, m)
  <2>3. m \in 0..Len(p) - 1 /\ m \in 0..Len(p) /\ n \in 0..Len(p) /\ m + 1 = n
    BY <2>1
  <2> HIDE DEF m
  <2>4. p[n] \in STRING /\ SubSeq(p, 1, n) = Append(r, p[n])
    BY <2>3, PrefixNext
  <2>5. r \in Path /\ SubSeq(p, 1, n) \in Path
    BY <2>3, PrefixAt
  <2>6. IsPrefix(SubSeq(p, 1, n), p)
    <3>1. SubSeq(p, 1, n) \in {SubSeq(p, 1, j) : j \in 0..Len(p)}
      BY <2>3
    <3> QED
      BY <3>1, PrefixesAre
  <2>7. SubSeq(p, 1, n) \in DOMAIN t
    BY <2>1, <2>5, <2>6, TreeDown
  <2> HIDE DEF r
  <2>8. r \in DOMAIN t /\ (t[r].kind = "map" \/ (t[r].kind = "list" /\ p[n] \in Positions))
    <3> DEFINE k == p[n]
    <3>1. r \in Path /\ k \in STRING /\ Append(r, k) \in DOMAIN t
      BY <2>4, <2>5, <2>7
    <3> HIDE DEF k
    <3>2. r \in DOMAIN t /\ (t[r].kind = "map" \/ (t[r].kind = "list" /\ k \in Positions))
      BY <3>1, TreeNext
    <3> QED
      BY <3>2 DEF k
  <2>9. Kind(t, r) # "list"
    BY <2>2, <2>8 DEF Kind, Has
  <2> QED
    BY <2>2, <2>9 DEF m, r
<1> QED
  BY <1>1 DEF Leads

\* The fields of mappings that are there.
LEMMA FieldsScalars ==
    ASSUME NEW t, IsTree(t), NEW M, NEW key \in STRING, NEW value, Apart(t, M, key)
    PROVE  WithFields(t, M, key, value) = WithScalars(t, M, key, value)
<1>1. ASSUME NEW m \in M
      PROVE  ~Blocked(t, m) /\ PrefixesOf(m) \subseteq DOMAIN t
  <2>1. m \in DOMAIN t /\ t[m].kind = "map" /\ m \in Path
    BY TreeHas DEF Apart
  <2>2. \A r \in PrefixesOf(m) : r \in Path /\ IsPrefix(r, m)
    BY <2>1, PrefixesAre
  <2>3. \A r \in PrefixesOf(m) : r \in DOMAIN t /\ (r # m => t[r].kind \in {"map", "list"})
    BY <2>1, <2>2, TreeDown
  <2>4. \A r \in PrefixesOf(m) : Kind(t, r) # "null"
    BY <2>1, <2>3 DEF Kind, Has
  <2> QED
    BY <2>3, <2>4 DEF Blocked
<1> DEFINE set  == {Append(m, key) : m \in M}
           kept == {q \in DOMAIN t : \A m \in M : ~IsPrefix(Append(m, key), q)}
           w    == WithFields(t, M, key, value)
<1>2. \A r : /\ r \in DOMAIN w <=> r \in kept \cup set
             /\ r \in DOMAIN w => w[r] = IF \E m \in M : r = Append(m, key)
                                         THEN Scalar(value) ELSE t[r]
  <2>1. \A r :
          /\ r \in DOMAIN w <=>
               \/ r \in DOMAIN t /\ \A m \in M : ~Blocked(t, m) => ~IsPrefix(Append(m, key), r)
               \/ \E m \in M : /\ ~Blocked(t, m)
                               /\ \/ r \in PrefixesOf(m) /\ r \notin DOMAIN t
                                  \/ r = Append(m, key)
          /\ r \in DOMAIN w =>
               w[r] = IF \E m \in M : ~Blocked(t, m) /\ r = Append(m, key)
                      THEN Scalar(value)
                      ELSE IF r \in DOMAIN t THEN t[r] ELSE Bare("map")
    BY FieldsAt
  <2> HIDE DEF w
  <2>2. ASSUME NEW r
        PROVE  /\ r \in DOMAIN w <=>
                    \/ r \in DOMAIN t /\ \A m \in M : ~IsPrefix(Append(m, key), r)
                    \/ \E m \in M : r = Append(m, key)
               /\ r \in DOMAIN w =>
                    w[r] = IF \E m \in M : r = Append(m, key) THEN Scalar(value)
                           ELSE IF r \in DOMAIN t THEN t[r] ELSE Bare("map")
    BY <1>1, <2>1
  <2> QED
    BY <2>2
<1>3. w = [r \in DOMAIN w |-> w[r]]
  BY FieldsAt
<1>4. WithScalars(t, M, key, value) =
        [r \in kept \cup set |-> IF \E m \in M : r = Append(m, key) THEN Scalar(value) ELSE t[r]]
  BY DEF WithScalars
<1> HIDE DEF w, kept, set
<1>5. DOMAIN w = kept \cup set
  BY <1>2
<1> QED
  BY <1>2, <1>3, <1>4, <1>5 DEF w

\* The lists of containers are found by fields.
LEMMA ContainerPathsAre ==
    \A c \in ToSet(containerPaths) : c \in Path /\ Plain(c)
<1>1. {"spec", "template", "jobTemplate", "containers"} \subseteq STRING \ Positions
  BY PositionAssumption
<1> DEFINE c1 == <<"spec", "containers">>
           c2 == <<"spec", "template", "spec", "containers">>
           c3 == <<"spec", "jobTemplate", "spec", "template", "spec", "containers">>
<1>2. c1 \in Path /\ Plain(c1)
  BY <1>1 DEF Path, Plain
<1>3. c2 \in Path /\ Plain(c2)
  BY <1>1 DEF Path, Plain
<1>4. c3 \in Path /\ Plain(c3)
  BY <1>1 DEF Path, Plain
<1>5. ToSet(containerPaths) = {c1, c2, c3}
  BY DEF ToSet, containerPaths
<1> QED
  BY <1>2, <1>3, <1>4, <1>5

\* Which containers have a name.
LEMMA NamedIs ==
    ASSUME NEW i \in Nat, NEW t, IsTree(t), Holds(heap, i, t), NEW m \in DOMAIN t, NEW text
    PROVE  Named(<<i, m>>, text) <=>
             ~Absent(t, Append(m, "name")) /\ t[Append(m, "name")].text = text
<1> DEFINE k == "name"
           e == Append(m, k)
           n == Lookup(heap, <<i, m>>, <<k>>)
<1>1. k \in STRING /\ k \notin Positions
  BY PositionAssumption
<1>2. m \in Path
  BY TreeHas
<1>3. Named(<<i, m>>, text) <=> n \notin {Nil, Bad} /\ heap[n].text = text
  BY DEF Named
<1>4. n = LookupPart(heap, <<i, m>>, k)
  <2>1. <<k>> = Append(<< >>, k) /\ << >> \in Path
    BY DEF Path
  <2>2. ASSUME NEW s, NEW o \in Path, NEW x \in STRING
        PROVE  Lookup(heap, s, Append(o, x)) = LookupPart(heap, Lookup(heap, s, o), x)
    BY LookupNext
  <2>3. ASSUME NEW s
        PROVE  Lookup(heap, s, << >>) = s
    BY LookupNone
  <2> DEFINE s == <<i, m>>
  <2> HIDE DEF k, s
  <2>4. Lookup(heap, s, Append(<< >>, k)) = LookupPart(heap, Lookup(heap, s, << >>), k)
    BY <1>1, <2>1, <2>2
  <2>5. Lookup(heap, s, <<k>>) = LookupPart(heap, s, k)
    BY <2>1, <2>3, <2>4
  <2> QED
    BY <2>5 DEF s
<1> HIDE DEF k, n
<1>5. LookupPart(heap, <<i, m>>, k) =
        IF t[m].kind = "null" THEN Nil
        ELSE IF t[m].kind # IF k \in Positions THEN "list" ELSE "map" THEN Bad
        ELSE IF Absent(t, Append(m, k)) THEN Nil
        ELSE <<i, Append(m, k)>>
  BY <1>1, PartIs
<1>6. ~Absent(t, e) => e \in DOMAIN t /\ t[m].kind = "map"
  <2>1. ~Absent(t, e) => e \in DOMAIN t
    BY AbsentIs
  <2> QED
    BY <1>1, <1>2, <2>1, TreeNext
<1>7. <<i, e>> \notin {Nil, Bad} /\ Nil \in {Nil, Bad} /\ Bad \in {Nil, Bad}
  BY DEF Nil, Bad
<1>8. e \in DOMAIN t => heap[<<i, e>>].text = t[e].text
  <2> HIDE DEF e
  <2> QED
    BY HeldAt
<1>9. n \notin {Nil, Bad} <=> ~Absent(t, e)
  <2> HIDE DEF e
  <2> QED
    BY <1>1, <1>4, <1>5, <1>6, <1>7 DEF e
<1>10. ~Absent(t, e) => n = <<i, e>>
  BY <1>1, <1>4, <1>5, <1>6
<1> QED
  BY <1>3, <1>6, <1>8, <1>9, <1>10 DEF k

\* What a sequence and one thing more have.
LEMMA ItemPath ==
    ASSUME NEW c \in Path, NEW k, Append(c, k) \in Path
    PROVE  k \in STRING
<1> DEFINE S == STRING \cup {k}
           e == Append(c, k)
<1>1. c \in Seq(S) /\ k \in S
  BY DEF Path
<1>2. Len(e) = Len(c) + 1 /\ e[Len(c) + 1] = k /\ Len(c) \in Nat
  <2> HIDE DEF S
  <2> QED
    BY <1>1, AppendIs, LenProperties
<1> HIDE DEF e
<1>3. Len(c) + 1 \in 1..Len(e)
  BY <1>2
<1>4. e \in Seq(STRING)
  BY DEF e, Path
<1> QED
  BY <1>2, <1>3, <1>4

\* The lists of containers, and the containers whose image is set.
ContainerLists == {Lookup(heap, Root(turn), path) : path \in ToSet(containerPaths)} \ {Nil, Bad}

ImageNodes(text) ==
    {c \in UNION {Range(heap[list].fields) : list \in ContainerLists} : Named(c, text)}

\* The lists that are found.
LEMMA ListsAre ==
    ASSUME turn \in Nat, NEW t, Own(heap, turn, t)
    PROVE  ContainerLists = {<<turn, c>> : c \in {d \in ToSet(containerPaths) : ~Absent(t, d)}}
<1>1. IsTree(t) /\ t[<< >>].kind = "map" /\ Holds(heap, turn, t) /\ t[<< >>].kind # "null"
  BY DEF Own
<1>2. ASSUME NEW c \in ToSet(containerPaths)
      PROVE  /\ ~Absent(t, c) => Lookup(heap, Root(turn), c) = <<turn, c>>
             /\ Absent(t, c) => Lookup(heap, Root(turn), c) \in {Nil, Bad}
  <2>1. c \in Path /\ Plain(c)
    BY ContainerPathsAre
  <2>2. Leads(t, c) <=> ~Absent(t, c)
    BY <1>1, <2>1, PlainLeads
  <2>3. IF Leads(t, c) THEN Lookup(heap, Root(turn), c) = <<turn, c>> /\ c \in DOMAIN t
        ELSE Lookup(heap, Root(turn), c) \in {Nil, Bad}
    BY <1>1, <2>1, LookupIs
  <2> QED
    BY <2>2, <2>3
<1>3. \A c : <<turn, c>> \notin {Nil, Bad}
  BY DEF Nil, Bad
<1> DEFINE C == ToSet(containerPaths)
           L(c) == Lookup(heap, Root(turn), c)
<1>4. ContainerLists = {L(c) : c \in C} \ {Nil, Bad}
  BY DEF ContainerLists
<1>5. \A c \in C : /\ ~Absent(t, c) => L(c) = <<turn, c>>
                   /\ Absent(t, c) => L(c) \in {Nil, Bad}
  BY <1>2
<1> HIDE DEF C, L
<1>6. {L(c) : c \in C} \ {Nil, Bad} = {<<turn, c>> : c \in {d \in C : ~Absent(t, d)}}
  BY <1>3, <1>5
<1> QED
  BY <1>4, <1>6 DEF C

\* The containers that a command is for.
LEMMA ImageTargets ==
    ASSUME NEW t, NEW cmd, cmd.op = "set-image", NEW p
    PROVE  p \in Targets(cmd, t) <=>
             /\ p \in DOMAIN t
             /\ ~Absent(t, Append(p, "name")) /\ t[Append(p, "name")].text = cmd.key
             /\ \E c \in ToSet(containerPaths), k \in Positions : p = Append(c, k)
<1>1. Targets(cmd, t) =
        {Append(c, k) : c \in ToSet(containerPaths), k \in Positions}
          \cap {q \in DOMAIN t : ~Absent(t, Append(q, "name"))
                                   /\ t[Append(q, "name")].text = cmd.key}
  BY DEF Targets
<1> QED
  BY <1>1

\* They are where their lists are, and are mappings.
LEMMA ImageTarget ==
    ASSUME NEW t, IsTree(t), NEW cmd, cmd.op = "set-image", NEW p \in Targets(cmd, t)
    PROVE  /\ p \in DOMAIN t /\ p \in Path /\ t[p].kind = "map" /\ Append(p, "name") \in DOMAIN t
           /\ \E c \in ToSet(containerPaths), k \in Positions :
                /\ p = Append(c, k) /\ k \in STRING
                /\ c \in DOMAIN t /\ t[c].kind \in {"map", "list"}
<1>1. p \in DOMAIN t /\ ~Absent(t, Append(p, "name")) /\ p \in Path
  BY ImageTargets, TreeHas
<1> DEFINE n == "name"
<1>2. n \in STRING /\ n \notin Positions
  BY PositionAssumption
<1>3. Append(p, n) \in DOMAIN t
  BY <1>1, AbsentIs
<1>4. t[p].kind = "map"
  <2> HIDE DEF n
  <2> QED
    BY <1>1, <1>2, <1>3, TreeNext
<1>5. PICK c \in ToSet(containerPaths), k \in Positions : p = Append(c, k)
  BY ImageTargets
<1>6. c \in Path
  BY ContainerPathsAre
<1>7. k \in STRING
  BY <1>1, <1>5, <1>6, ItemPath
<1>8. c \in DOMAIN t /\ t[c].kind \in {"map", "list"}
  <2>1. Append(c, k) \in DOMAIN t
    BY <1>1, <1>5
  <2> QED
    BY <1>6, <1>7, <2>1, TreeNext
<1> QED
  BY <1>1, <1>3, <1>4, <1>5, <1>7, <1>8

\* They are not below each other's images.
LEMMA ImagesApart ==
    ASSUME NEW t, IsTree(t), NEW cmd, cmd.op = "set-image"
    PROVE  Apart(t, Targets(cmd, t), "image")
<1> DEFINE g == "image"
           M == Targets(cmd, t)
<1>1. g \in STRING /\ g \notin Positions
  BY PositionAssumption
<1>2. \A m \in M : m \in DOMAIN t /\ m \in Path /\ t[m].kind = "map"
  BY ImageTarget
<1> HIDE DEF g
<1>3. ASSUME NEW m \in M, NEW n \in M, IsPrefix(Append(m, g), n)
      PROVE  FALSE
  <2>1. PICK c \in ToSet(containerPaths), k \in Positions : m = Append(c, k) /\ k \in STRING
    BY ImageTarget
  <2>2. PICK d \in ToSet(containerPaths), l \in Positions : n = Append(d, l) /\ l \in STRING
    BY ImageTarget
  <2>3. c \in Path /\ d \in Path /\ Plain(d) /\ m \in Path
    BY <1>2, ContainerPathsAre
  <2>4. Append(m, g) \in Path
    BY <1>1, <2>3, PathStep
  <2>5. Append(m, g) = Append(d, l) \/ IsPrefix(Append(m, g), d)
    BY <1>3, <2>2, <2>3, <2>4, PrefixOfNext
  <2>6. CASE Append(m, g) = Append(d, l)
    <3>1. g = l
      BY <1>1, <2>2, <2>3, <2>6, SameField
    <3> QED
      BY <1>1, <3>1
  <2>7. CASE IsPrefix(Append(m, g), d)
    <3>1. IsPrefix(m, Append(m, g))
      BY <1>1, <2>3, PrefixOfNext, PrefixOrder
    <3>2. IsPrefix(m, d)
      BY <2>3, <2>4, <2>7, <3>1, PrefixOrder
    <3>3. Len(m) <= Len(d) /\ \A i \in 1..Len(m) : m[i] = d[i]
      BY <2>3, <3>2, PrefixIs
    <3>4. Len(m) = Len(c) + 1 /\ m[Len(c) + 1] = k /\ Len(c) \in Nat /\ Len(d) \in Nat
      BY <2>1, <2>3, PathAppend DEF Path
    <3>5. Len(c) + 1 \in 1..Len(m) /\ Len(c) + 1 \in 1..Len(d)
      BY <3>3, <3>4
    <3>6. d[Len(c) + 1] = k
      BY <3>3, <3>4, <3>5
    <3> QED
      BY <2>3, <3>5, <3>6 DEF Plain
  <2> QED
    BY <2>5, <2>6, <2>7
<1> QED
  BY <1>2, <1>3 DEF Apart, g

\* The containers that are found are those the command is for.
LEMMA ImagesAre ==
    ASSUME turn \in Nat, NEW t, Own(heap, turn, t), NEW cmd, cmd.op = "set-image",
           ~Refused(cmd, t)
    PROVE  ImageNodes(cmd.key) \ {Nil} = {<<turn, m>> : m \in Targets(cmd, t)}
<1> DEFINE C == ToSet(containerPaths)
           M == Targets(cmd, t)
           N == ImageNodes(cmd.key)
<1>1. IsTree(t) /\ Holds(heap, turn, t)
  BY DEF Own
<1>2. ContainerLists = {<<turn, c>> : c \in {d \in C : ~Absent(t, d)}}
  BY ListsAre
<1>3. \A c \in C : c \in Path /\ (~Absent(t, c) => c \in DOMAIN t /\ t[c].kind = "list")
  <2>1. \A c \in C : Kind(t, c) \notin {"scalar", "map"}
    BY DEF Refused
  <2> SUFFICES ASSUME NEW c \in C
               PROVE  c \in Path /\ (~Absent(t, c) => c \in DOMAIN t /\ t[c].kind = "list")
    OBVIOUS
  <2>2. c \in Path
    BY ContainerPathsAre
  <2>3. Absent(t, c) <=> (c \notin DOMAIN t \/ t[c].kind = "null")
    BY <1>1, AbsentIs
  <2>4. c \in DOMAIN t => t[c].kind \in nodeKinds /\ Kind(t, c) = t[c].kind
    BY <1>1, TreeHas DEF Kind, Has
  <2> HIDE DEF C
  <2> QED
    BY <2>1, <2>2, <2>3, <2>4 DEF nodeKinds
<1>4. ASSUME NEW c \in C, ~Absent(t, c)
      PROVE  Range(heap[<<turn, c>>].fields) =
               {<<turn, Append(c, k)>> : k \in {l \in STRING : Append(c, l) \in DOMAIN t}}
  <2>1. c \in DOMAIN t /\ c \in Path
    BY <1>3, <1>4
  <2>2. /\ DOMAIN heap[<<turn, c>>].fields = Keys(t, c)
        /\ \A k \in Keys(t, c) : heap[<<turn, c>>].fields[k] = <<turn, Append(c, k)>>
    <3>1. heap[<<turn, c>>] = NodeOf(t, c, turn)
      BY <1>1, <2>1 DEF Holds
    <3> QED
      BY <3>1 DEF NodeOf
  <2>3. Keys(t, c) = {l \in STRING : Append(c, l) \in DOMAIN t}
    BY <1>1, <2>1, KeysAre
  <2> DEFINE f == heap[<<turn, c>>].fields
             K == Keys(t, c)
  <2>4. Range(f) = {f[x] : x \in DOMAIN f}
    BY DEF Range
  <2> HIDE DEF f, K
  <2>5. {f[x] : x \in DOMAIN f} = {<<turn, Append(c, k)>> : k \in K}
    BY <2>2 DEF f, K
  <2> QED
    BY <2>3, <2>4, <2>5 DEF f, K
<1>5. \A n : n \in N <=> /\ \E l \in ContainerLists : n \in Range(heap[l].fields)
                         /\ Named(n, cmd.key)
  BY DEF ImageNodes
<1>6. ASSUME NEW n \in N
      PROVE  \E m \in M : n = <<turn, m>>
  <2>1. PICK l \in ContainerLists : n \in Range(heap[l].fields)
    BY <1>5
  <2>2. PICK c \in C : ~Absent(t, c) /\ l = <<turn, c>>
    BY <1>2
  <2>3. PICK k \in STRING : n = <<turn, Append(c, k)>> /\ Append(c, k) \in DOMAIN t
    BY <1>4, <2>1, <2>2
  <2> DEFINE m == Append(c, k)
  <2>4. m \in DOMAIN t
    BY <2>3
  <2> HIDE DEF m
  <2>5. ~Absent(t, Append(m, "name")) /\ t[Append(m, "name")].text = cmd.key
    <3>1. Named(<<turn, m>>, cmd.key)
      BY <1>5, <2>3 DEF m
    <3> QED
      BY <1>1, <2>4, <3>1, NamedIs
  <2>6. k \in Positions
    <3>1. c \in Path /\ t[c].kind = "list"
      BY <1>3, <2>2
    <3> QED
      BY <1>1, <2>3, <3>1, TreeNext
  <2>7. m \in M
    <3>1. \E d \in ToSet(containerPaths), j \in Positions : m = Append(d, j)
      BY <2>6 DEF m
    <3> QED
      BY <2>4, <2>5, <3>1, ImageTargets
  <2> QED
    BY <2>3, <2>7 DEF m
<1>7. ASSUME NEW m \in M
      PROVE  <<turn, m>> \in N
  <2>1. PICK c \in C, k \in Positions :
          /\ m = Append(c, k) /\ k \in STRING
          /\ c \in DOMAIN t /\ t[c].kind \in {"map", "list"}
    BY <1>1, ImageTarget
  <2>2. m \in DOMAIN t /\ ~Absent(t, Append(m, "name")) /\ t[Append(m, "name")].text = cmd.key
    BY ImageTargets
  <2>3. ~Absent(t, c)
    BY <1>1, <2>1, AbsentIs
  <2>4. <<turn, m>> \in Range(heap[<<turn, c>>].fields)
    BY <1>4, <2>1, <2>2, <2>3
  <2>5. <<turn, c>> \in ContainerLists
    BY <1>2, <2>1, <2>3
  <2>6. Named(<<turn, m>>, cmd.key)
    BY <1>1, <2>2, NamedIs
  <2> QED
    BY <1>5, <2>4, <2>5, <2>6
<1>8. \A m : <<turn, m>> # Nil
  BY DEF Nil
<1> HIDE DEF N, M
<1> QED
  BY <1>6, <1>7, <1>8 DEF N, M

\* SetImage does what it promises.
LEMMA SetImageDoes ==
    ASSUME turn \in Nat, NEW t, Own(heap, turn, t), NEW cmd, cmd.op = "set-image"
    PROVE  /\ (\E list \in ContainerLists : heap[list].kind # "list") <=> Refused(cmd, t)
           /\ ~Refused(cmd, t) =>
                Becomes(heap, SetScalar(heap, ImageNodes(cmd.key), "image", cmd.value), turn,
                        Mutated(cmd, t))
<1> DEFINE C == ToSet(containerPaths)
           M == Targets(cmd, t)
           N == ImageNodes(cmd.key)
           g == "image"
           h2 == SetScalar(heap, N, g, cmd.value)
           t2 == WithScalars(t, M, g, cmd.value)
<1>1. IsTree(t) /\ Shallow(t) /\ Holds(heap, turn, t) /\ Sound(heap)
  BY DEF Own
<1>2. ContainerLists = {<<turn, c>> : c \in {d \in C : ~Absent(t, d)}}
  BY ListsAre
<1>3. (\E list \in ContainerLists : heap[list].kind # "list") <=> Refused(cmd, t)
  <2>1. Refused(cmd, t) <=> \E c \in C : Kind(t, c) \in {"scalar", "map"}
    BY DEF Refused
  <2>2. \A c \in C : Absent(t, c) <=> (c \notin DOMAIN t \/ t[c].kind = "null")
    BY <1>1, AbsentIs
  <2>3. \A c \in C : c \in DOMAIN t =>
          t[c].kind \in nodeKinds /\ Kind(t, c) = t[c].kind /\ heap[<<turn, c>>].kind = t[c].kind
    BY <1>1, TreeHas, HeldAt DEF Kind, Has
  <2>4. \A c \in C : c \notin DOMAIN t => Kind(t, c) = "missing"
    BY DEF Kind, Has
  <2>5. \A c \in C : Kind(t, c) \in {"scalar", "map"} <=>
          ~Absent(t, c) /\ heap[<<turn, c>>].kind # "list"
    BY <2>2, <2>3, <2>4 DEF nodeKinds
  <2> HIDE DEF C
  <2> QED
    BY <1>2, <2>1, <2>5
<1>4. ASSUME ~Refused(cmd, t)
      PROVE  Becomes(heap, h2, turn, Mutated(cmd, t))
  <2>1. N \ {Nil} = {<<turn, m>> : m \in M}
    BY <1>4, ImagesAre
  <2>2. Apart(t, M, g)
    BY <1>1, ImagesApart
  <2>3. g \in STRING
    BY PositionAssumption
  <2>4. Mutated(cmd, t) = WithFields(t, M, g, cmd.value)
    BY DEF Mutated, FieldOf, ValueOf
  <2>5. Shallow(t2)
    <3>1. \A m \in M : Append(m, "name") \in DOMAIN t /\ m \in Path
      BY <1>1, ImageTarget
    <3>2. \A m \in M : Len(Append(m, g)) <= MaxDepth
      <4> SUFFICES ASSUME NEW m \in M
                   PROVE  Len(Append(m, g)) <= MaxDepth
        OBVIOUS
      <4> DEFINE n == "name"
      <4>1. n \in STRING
        BY PositionAssumption
      <4>2. Len(Append(m, n)) <= MaxDepth
        BY <1>1, <3>1 DEF Shallow
      <4> HIDE DEF n, g
      <4>3. Len(Append(m, n)) = Len(m) + 1 /\ Len(Append(m, g)) = Len(m) + 1
        BY <2>3, <3>1, <4>1, PathStep
      <4> QED
        BY <4>2, <4>3
    <3>3. \A p \in DOMAIN t2 : p \in DOMAIN t \/ \E m \in M : p = Append(m, g)
      BY DEF WithScalars
    <3> HIDE DEF t2, g, M
    <3>4. \A p \in DOMAIN t2 : Len(p) <= MaxDepth
      BY <1>1, <3>2, <3>3 DEF Shallow
    <3> QED
      BY <3>4 DEF Shallow
  <2> DEFINE v == cmd.value
  <2> HIDE DEF M, N, g, v
  <2>6. WithFields(t, M, g, v) = WithScalars(t, M, g, v)
    BY <1>1, <2>2, <2>3, FieldsScalars
  <2>7. IsTree(WithScalars(t, M, g, v))
    BY <1>1, <2>2, <2>3, ScalarsTree
  <2>8. LET h3 == SetScalar(heap, N, g, v)
        IN  Holds(h3, turn, WithScalars(t, M, g, v)) /\ Aside(heap, h3, turn) /\ Sound(h3)
    BY <1>1, <2>1, <2>2, <2>3, ScalarsSet
  <2>9. Holds(h2, turn, t2) /\ Aside(heap, h2, turn) /\ Sound(h2) /\ IsTree(t2)
        /\ Mutated(cmd, t) = t2
    BY <2>4, <2>6, <2>7, <2>8 DEF v
  <2> HIDE DEF h2, t2
  <2> QED
    BY <2>5, <2>9 DEF Becomes
<1> QED
  BY <1>3, <1>4
=============================================================================
