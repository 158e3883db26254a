---------------------------- MODULE CatalogProofs ----------------------------
(***************************************************************************)
(* ManifestStore implements ResourceCatalog: whatever the indexes, and in  *)
(* whatever order Go goes through them, clients see the manifests of the   *)
(* stream and the namespaces that were missing.                            *)
(***************************************************************************)
EXTENDS ManifestStoreProofs

-----------------------------------------------------------------------------
(* One sequence after the other.                                           *)

\* The k-th element of F is the off[k]-th of the seg[k]-th sequence: all of them,
\* one sequence after the other, each in its order.
InSegments(F, n, seqs, seg, off) ==
    /\ \A k \in 1..Len(F) : /\ seg[k] \in 1..n /\ off[k] \in 1..Len(seqs[seg[k]])
                            /\ F[k] = seqs[seg[k]][off[k]]
    /\ \A k, l \in 1..Len(F) : k < l =>
         seg[k] < seg[l] \/ (seg[k] = seg[l] /\ off[k] < off[l])
    /\ \A i \in 1..n : \A j \in 1..Len(seqs[i]) :
         \E k \in 1..Len(F) : seg[k] = i /\ off[k] = j

\* One more sequence is appended.
LEMMA SegmentAdded ==
    ASSUME NEW D, NEW n \in Nat, NEW seqs, NEW F \in Seq(D), NEW s \in Seq(D),
           s = seqs[n + 1], NEW seg, NEW off, InSegments(F, n, seqs, seg, off)
    PROVE  \E g, o : InSegments(F \o s, n + 1, seqs, g, o)
<1> DEFINE m == Len(F)
           g == [k \in 1..(m + Len(s)) |-> IF k <= m THEN seg[k] ELSE n + 1]
           o == [k \in 1..(m + Len(s)) |-> IF k <= m THEN off[k] ELSE k - m]
           FS == F \o s
<1>1. /\ m \in Nat /\ Len(s) \in Nat /\ Len(FS) = m + Len(s)
      /\ \A k \in 1..m : FS[k] = F[k]
      /\ \A k \in 1..Len(s) : FS[m + k] = s[k]
  OBVIOUS
<1>2. \A k \in 1..(m + Len(s)) : IF k <= m THEN g[k] = seg[k] /\ o[k] = off[k] /\ k \in 1..m
                                 ELSE g[k] = n + 1 /\ o[k] = k - m /\ k - m \in 1..Len(s)
                                      /\ m + (k - m) = k
  BY <1>1
<1>3. \A k \in 1..m : seg[k] \in 1..n /\ off[k] \in 1..Len(seqs[seg[k]])
                        /\ F[k] = seqs[seg[k]][off[k]] /\ k \in 1..(m + Len(s))
  BY <1>1 DEF InSegments
<1> HIDE DEF g, o, FS
<1>4. ASSUME NEW k \in 1..(m + Len(s))
      PROVE  /\ g[k] \in 1..(n + 1) /\ o[k] \in 1..Len(seqs[g[k]])
             /\ FS[k] = seqs[g[k]][o[k]]
  <2>1. CASE k <= m
    <3>1. k \in 1..m /\ g[k] = seg[k] /\ o[k] = off[k]
      BY <2>1, <1>2
    <3>2. /\ seg[k] \in 1..n /\ off[k] \in 1..Len(seqs[seg[k]])
          /\ F[k] = seqs[seg[k]][off[k]] /\ FS[k] = F[k]
      BY <3>1, <1>1, <1>3
    <3> QED
      BY <3>1, <3>2
  <2>2. CASE ~(k <= m)
    <3>1. g[k] = n + 1 /\ o[k] = k - m /\ k - m \in 1..Len(s) /\ m + (k - m) = k
      BY <2>2, <1>2
    <3>2. FS[m + (k - m)] = s[k - m]
      BY <3>1, <1>1
    <3> QED
      BY <3>1, <3>2
  <2> QED
    BY <2>1, <2>2
<1>5. ASSUME NEW k \in 1..(m + Len(s)), NEW l \in 1..(m + Len(s)), k < l
      PROVE  g[k] < g[l] \/ (g[k] = g[l] /\ o[k] < o[l])
  <2>1. CASE l <= m
    <3>1. k \in 1..m /\ l \in 1..m /\ k <= m
      BY <2>1, <1>5, <1>1
    <3>2. seg[k] < seg[l] \/ (seg[k] = seg[l] /\ off[k] < off[l])
      BY <3>1, <1>5 DEF InSegments
    <3> QED
      BY <3>1, <3>2, <2>1, <1>2
  <2>2. CASE ~(l <= m) /\ k <= m
    <3>1. g[l] = n + 1 /\ g[k] = seg[k] /\ k \in 1..m
      BY <2>2, <1>2
    <3>2. seg[k] \in 1..n
      BY <3>1, <1>3
    <3> QED
      BY <3>1, <3>2
  <2>3. CASE ~(l <= m) /\ ~(k <= m)
    BY <2>3, <1>1, <1>2, <1>5
  <2> QED
    BY <2>1, <2>2, <2>3
<1>6. ASSUME NEW i \in 1..(n + 1), NEW j \in 1..Len(seqs[i])
      PROVE  \E k \in 1..(m + Len(s)) : g[k] = i /\ o[k] = j
  <2>1. CASE i \in 1..n
    <3>1. PICK k \in 1..m : seg[k] = i /\ off[k] = j
      BY <2>1 DEF InSegments
    <3>2. k \in 1..(m + Len(s)) /\ k <= m
      BY <1>1
    <3> QED
      BY <3>1, <3>2, <1>2
  <2>2. CASE i = n + 1
    <3>1. m + j \in 1..(m + Len(s)) /\ ~(m + j <= m) /\ (m + j) - m = j
      BY <2>2, <1>1
    <3> QED
      BY <3>1, <2>2, <1>2
  <2> QED
    BY <2>1, <2>2
<1>7. InSegments(FS, n + 1, seqs, g, o)
  BY <1>1, <1>4, <1>5, <1>6 DEF InSegments
<1> QED
  BY <1>7 DEF FS

\* FlattenSeq has the elements of all sequences, one sequence after the other.
LEMMA FlattenPlaces ==
    ASSUME NEW D, NEW n \in Nat, NEW seqs \in [1..n -> Seq(D)]
    PROVE  /\ FlattenSeq(seqs) \in Seq(D)
           /\ \E seg, off : InSegments(FlattenSeq(seqs), n, seqs, seg, off)
<1>1. CASE n = 0
  <2>1. seqs = << >> /\ Len(seqs) = 0
    BY <1>1
  <2>2. FlattenSeq(seqs) = << >>
    BY <2>1 DEF FlattenSeq
  <2>3. InSegments(<< >>, 0, seqs, << >>, << >>)
    BY DEF InSegments
  <2> QED
    BY <1>1, <2>2, <2>3
<1>2. CASE n # 0
  <2>1. PICK G \in [1..n -> Seq(D)] : Flattens(G, n, seqs)
    BY <1>2, FlattenIs
  <2> DEFINE N == {i \in Nat : i + 1 \in 1..n =>
                     \E seg, off : InSegments(G[i + 1], i + 1, seqs, seg, off)}
  <2>2. 0 \in N
    <3> DEFINE seg == [k \in 1..Len(seqs[1]) |-> 1]
               off == [k \in 1..Len(seqs[1]) |-> k]
    <3>1. 1 \in 1..n /\ G[1] = seqs[1] /\ Len(seqs[1]) \in Nat
      BY <1>2, <2>1 DEF Flattens
    <3>2. InSegments(seqs[1], 1, seqs, seg, off)
      BY <3>1 DEF InSegments
    <3> HIDE DEF seg, off
    <3> QED
      BY <3>1, <3>2
  <2>3. ASSUME NEW i \in N
        PROVE  i + 1 \in N
    <3> SUFFICES ASSUME (i + 1) + 1 \in 1..n
                 PROVE  \E seg, off : InSegments(G[(i + 1) + 1], (i + 1) + 1, seqs, seg, off)
      OBVIOUS
    <3>1. /\ i + 1 \in 1..n /\ i + 1 \in Nat /\ (i + 1) + 1 \in 2..n
          /\ ((i + 1) + 1) - 1 = i + 1
      OBVIOUS
    <3>2. PICK seg, off : InSegments(G[i + 1], i + 1, seqs, seg, off)
      BY <3>1
    <3>3. G[(i + 1) + 1] = G[i + 1] \o seqs[(i + 1) + 1]
      BY <2>1, <3>1 DEF Flattens
    <3>4. G[i + 1] \in Seq(D) /\ seqs[(i + 1) + 1] \in Seq(D)
      BY <3>1
    <3> DEFINE j == i + 1
    <3>5. /\ j \in Nat /\ G[j] \in Seq(D) /\ seqs[j + 1] \in Seq(D)
          /\ InSegments(G[j], j, seqs, seg, off) /\ G[j + 1] = G[j] \o seqs[j + 1]
      BY <3>1, <3>2, <3>3, <3>4
    <3> HIDE DEF N, j
    <3>6. \E g, o : InSegments(G[j] \o seqs[j + 1], j + 1, seqs, g, o)
      BY <3>5, SegmentAdded
    <3> QED
      BY <3>5, <3>6 DEF j
  <2>4. N = Nat
    <3> HIDE DEF N
    <3>1. N \in SUBSET Nat
      BY DEF N
    <3> QED
      BY <2>2, <2>3, <3>1, Induction
  <2>5. n - 1 \in Nat /\ (n - 1) + 1 = n /\ n \in 1..n
    BY <1>2
  <2>6. \E seg, off : InSegments(G[n], n, seqs, seg, off)
    <3>1. n - 1 \in N
      BY <2>4, <2>5
    <3> QED
      BY <2>5, <3>1
  <2>7. FlattenSeq(seqs) = G[n] /\ G[n] \in Seq(D)
    BY <2>1, <2>5 DEF Flattens
  <2> QED
    BY <2>6, <2>7
<1> QED
  BY <1>1, <1>2

-----------------------------------------------------------------------------
(* The entries of the catalog.                                             *)

\* What clients can tell of an object.
LEMMA EntryIs ==
    ASSUME NEW obj
    PROVE  /\ EntryOf(obj).gvr = GvrOf(gvkOf(obj)) /\ EntryOf(obj).kind = obj.kind
           /\ EntryOf(obj).apiVersion = obj.apiVersion /\ EntryOf(obj).name = obj.name
           /\ EntryOf(obj).labels = obj.labels
           /\ EntryOf(obj).namespaced = LookupType(gvkOf(obj)).namespaced
           /\ EntryOf(obj).ns = IF ~LookupType(gvkOf(obj)).namespaced THEN NoNamespace
                                ELSE IF obj.ns = NoNamespace /\ obj.parsed # "null"
                                     THEN "default" ELSE obj.ns
<1> DEFINE o == [apiVersion |-> obj.apiVersion, kind |-> obj.kind]
<1>1. gvkOf(o) = gvkOf(obj)
  BY DEF gvkOf
<1> QED
  BY <1>1 DEF EntryOf, Entry

\* What makes two objects the same to clients.
LEMMA EntrySame ==
    ASSUME NEW o, NEW obj, Same(o, obj),
           \/ o.ns = obj.ns
           \/ obj.ns = NoNamespace /\ obj.parsed # "null" /\ o.ns = "default"
    PROVE  EntryOf(o) = EntryOf(obj)
<1>1. CASE o.ns = obj.ns
  BY <1>1 DEF EntryOf, Same
<1>2. CASE obj.ns = NoNamespace /\ obj.parsed # "null" /\ o.ns = "default"
  <2>1. "default" # NoNamespace
    BY DEF NoNamespace
  <2> QED
    BY <1>2, <2>1 DEF EntryOf, Entry, Same
<1> QED
  BY <1>1, <1>2

\* The first loop has been at an object, and has put it into "default" if it had to.
Visited(i) == Collected \/ (phase = "collect" /\ i < next)

Settled(obj) ==
    LookupType(gvkOf(obj)).namespaced /\ obj.ns = NoNamespace => obj.parsed = "null"

SettledInv ==
    \A i \in DOMAIN objects :
      IF Visited(i) THEN Settled(objects[i])
      ELSE objects[i].metadata = objects[i].parsed

\* What was not in the stream is a namespace that has a name and nothing else.
MadeUpInv ==
    \A b \in DOMAIN byGVR : \A j \in DOMAIN byGVR[b] :
      byGVR[b][j].doc = 0 =>
        byGVR[b][j] = enrichMetadata(synthesizeNamespace(byGVR[b][j].name))

\* Nothing is made up but for an object that is in it, or for "default".
Needed(ns) ==
    \/ ns = "default"
    \/ \E i \in DOMAIN objects : EntryOf(objects[i]).ns = ns

NeededInv == \A ns \in referencedNS \cup MadeUp : ns # NoNamespace /\ Needed(ns)

\* There is an answer to a request only.
AnswerInv ==
    response = NoResponse \/ ("request" \in DOMAIN response /\ response.request # << >>)

EntryInv == SettledInv /\ MadeUpInv /\ NeededInv /\ AnswerInv

\* No step but the reading of a document changes what clients can tell.
LEMMA EntriesStay ==
    ASSUME ShapeInv, SettledInv, [StoreNext]_storeVars, ~ReadDocument
    PROVE  /\ DOMAIN objects' = DOMAIN objects
           /\ \A i \in DOMAIN objects : EntryOf(objects'[i]) = EntryOf(objects[i])
<1>0. /\ objects \in Seq(Objects) /\ Len(objects) \in Nat
      /\ DOMAIN objects = 1..Len(objects)
      /\ next \in 1..(Len(objects) + 1)
  BY DEF ShapeInv
<1>1. ASSUME NEW o, next \in DOMAIN objects, objects' = [objects EXCEPT ![next] = o],
             EntryOf(o) = EntryOf(objects[next])
      PROVE  /\ DOMAIN objects' = DOMAIN objects
             /\ \A i \in DOMAIN objects : EntryOf(objects'[i]) = EntryOf(objects[i])
  BY <1>1, <1>0
<1>2. CASE CollectObject
  <2> DEFINE obj == objects[next]
  <2>1. next \in DOMAIN objects /\ phase = "collect"
    BY <1>2, <1>0 DEF CollectObject
  <2>2. obj \in Objects /\ obj.metadata = obj.parsed
    BY <2>1, <1>0 DEF SettledInv, Visited, Collected
  <2>3. CASE objects' = objects
    BY <2>3
  <2>4. CASE objects' # objects
    <3>1. /\ objects' = [objects EXCEPT ![next] = SetNamespace(obj, "default")]
          /\ obj.ns = NoNamespace
      BY <1>2, <2>4 DEF CollectObject
    <3>2. EntryOf(SetNamespace(obj, "default")) = EntryOf(obj)
      <4>1. CASE obj.metadata = "null"
        BY <4>1 DEF SetNamespace
      <4>2. CASE obj.metadata # "null"
        <5>1. SetNamespace(obj, "default").ns = "default"
          BY <4>2, <2>2 DEF SetNamespace, Objects
        <5>2. Same(SetNamespace(obj, "default"), obj)
          BY <2>2, DefaultedObject
        <5> QED
          BY <5>1, <5>2, <4>2, <2>2, <3>1, EntrySame
      <4> QED
        BY <4>1, <4>2
    <3> QED
      BY <3>1, <3>2, <2>1, <1>1
  <2> QED
    BY <2>3, <2>4
<1>3. CASE IndexObject
  <2> DEFINE obj == objects[next]
  <2>1. /\ next \in DOMAIN objects
        /\ objects' = [objects EXCEPT ![next] = enrichMetadata(obj)]
    BY <1>3, <1>0 DEF IndexObject
  <2>2. EntryOf(enrichMetadata(obj)) = EntryOf(obj)
    <3>1. obj \in Objects
      BY <2>1, <1>0
    <3> QED
      BY <3>1, EnrichedObject, EntrySame
  <2> QED
    BY <2>1, <2>2, <1>1
<1>4. ASSUME NEW ns \in referencedNS, SynthesizeMissing(ns)
      PROVE  objects' = objects
  BY <1>4 DEF SynthesizeMissing
<1>5. CASE ParseFails \/ EndOfInput \/ CollectedAll \/ SynthesizedAll \/ IndexedAll
  BY <1>5 DEF ParseFails, EndOfInput, CollectedAll, SynthesizedAll, IndexedAll
<1>6. CASE UNCHANGED loadedVars
  BY <1>6 DEF loadedVars
<1> QED
  BY <1>2, <1>3, <1>4, <1>5, <1>6, OnlyLoadingWrites DEF Loading

\* One more object is one more entry.
LEMMA DocumentRead ==
    ASSUME ShapeInv, ReadDocument, objects' # objects
    PROVE  \E obj \in Objects :
             /\ objects' = Append(objects, obj) /\ obj.metadata = obj.parsed
             /\ DOMAIN objects' = 1..(Len(objects) + 1) /\ Len(objects) \in Nat
             /\ DOMAIN objects = 1..Len(objects)
             /\ \A i \in 1..Len(objects) : objects'[i] = objects[i]
             /\ objects'[Len(objects) + 1] = obj
<1>0. objects \in Seq(Objects) /\ Len(objects) \in Nat /\ DOMAIN objects = 1..Len(objects)
  BY DEF ShapeInv
<1> DEFINE d == Head(unread)
           obj == ObjectOf(d, Len(objects) + 1)
<1>1. d \in Documents /\ d.form \notin {"unreadable", "incomplete"}
  BY DEF ReadDocument, ShapeInv
<1>2. obj \in Objects
  BY <1>0, <1>1, ParsedObject
<1>3. obj.metadata = obj.parsed
  BY DEF ObjectOf
<1>4. objects' = Append(objects, obj)
  BY DEF ReadDocument
<1> HIDE DEF obj
<1>5. /\ DOMAIN objects' = 1..(Len(objects) + 1)
      /\ \A i \in 1..Len(objects) : objects'[i] = objects[i]
      /\ objects'[Len(objects) + 1] = obj
  <2>1. /\ Append(objects, obj) \in Seq(Objects)
        /\ Len(Append(objects, obj)) = Len(objects) + 1
        /\ \A i \in 1..Len(objects) : Append(objects, obj)[i] = objects[i]
        /\ Append(objects, obj)[Len(objects) + 1] = obj
    BY <1>0, <1>2, AppendProperties
  <2> QED
    BY <1>4, <2>1
<1> QED
  BY <1>0, <1>2, <1>3, <1>4, <1>5

\* There are no entries at first.
LEMMA EntryInit ==
    ASSUME StoreInit
    PROVE  EntryInv
<1>1. /\ DOMAIN objects = {} /\ phase = "parse" /\ referencedNS = {} /\ DOMAIN byGVR = {}
      /\ Bucket(NamespaceGVR, NoNamespace) = << >> /\ response = NoResponse
  BY DEF StoreInit, EmptyMap, Bucket
<1>2. MadeUp = {}
  BY <1>1 DEF MadeUp
<1> QED
  BY <1>1, <1>2 DEF EntryInv, SettledInv, MadeUpInv, NeededInv, AnswerInv

\* The first loop settles one object after the other; nothing unsettles them.
LEMMA SettledStep ==
    ASSUME ShapeInv, SettledInv, [StoreNext]_storeVars
    PROVE  SettledInv'
<1> USE DEF SettledInv, Visited, Collected
<1>0. /\ objects \in Seq(Objects) /\ Len(objects) \in Nat
      /\ DOMAIN objects = 1..Len(objects)
      /\ next \in 1..(Len(objects) + 1)
      /\ phase = "parse" => next = 1
  BY DEF ShapeInv
<1>1. CASE ReadDocument
  <2>1. phase = "parse" /\ phase' = "parse"
    BY <1>1 DEF ReadDocument
  <2>2. CASE objects' = objects
    BY <2>1, <2>2
  <2>3. CASE objects' # objects
    BY <2>1, <2>3, <1>1, DocumentRead
  <2> QED
    BY <2>2, <2>3
<1>2. CASE ParseFails \/ EndOfInput
  <2>1. objects' = objects /\ next' = 1 /\ phase = "parse" /\ phase' \in {"failed", "collect"}
    BY <1>2, <1>0 DEF ParseFails, EndOfInput
  <2> QED
    BY <2>1, <1>0
<1>3. CASE CollectObject
  <2> DEFINE obj == objects[next]
             o == objects'[next]
  <2>1. /\ next \in DOMAIN objects /\ next \in Int /\ phase = "collect" /\ phase' = "collect"
        /\ next' = next + 1
    BY <1>3, <1>0 DEF CollectObject
  <2>2. obj \in Objects /\ obj.metadata = obj.parsed
    BY <2>1, <1>0
  <2>3. DOMAIN objects' = DOMAIN objects
        /\ \A i \in DOMAIN objects : i # next => objects'[i] = objects[i]
    BY <1>3 DEF CollectObject
  <2>4. Settled(o)
    <3>1. CASE objects' = objects
      <4>1. LookupType(gvkOf(obj)).namespaced /\ obj.ns = NoNamespace =>
              objects' = [objects EXCEPT ![next] = SetNamespace(obj, "default")]
        BY <1>3 DEF CollectObject
      <4>2. LookupType(gvkOf(obj)).namespaced /\ obj.ns = NoNamespace =>
              obj = SetNamespace(obj, "default")
        BY <4>1, <3>1, <2>1
      <4>3. obj = SetNamespace(obj, "default") /\ obj.ns = NoNamespace => obj.metadata = "null"
        <5>1. obj.metadata # "null" => SetNamespace(obj, "default").ns = "default"
          BY <2>2 DEF SetNamespace, Objects
        <5>2. "default" # NoNamespace
          BY DEF NoNamespace
        <5> HIDE DEF obj
        <5> QED
          BY <5>1, <5>2
      <4> QED
        BY <4>2, <4>3, <3>1, <2>2 DEF Settled
    <3>2. CASE objects' # objects
      <4>1. o = SetNamespace(obj, "default")
        BY <1>3, <3>2, <2>1 DEF CollectObject
      <4>2. CASE obj.metadata = "null"
        BY <4>1, <4>2, <2>2 DEF SetNamespace, Settled
      <4>3. CASE obj.metadata # "null"
        <5>1. o.ns = "default" /\ "default" # NoNamespace
          BY <4>1, <4>3, <2>2 DEF SetNamespace, Objects, NoNamespace
        <5> QED
          BY <5>1 DEF Settled
      <4> QED
        BY <4>2, <4>3
    <3> QED
      BY <3>1, <3>2
  <2>5. \A i \in DOMAIN objects : i < next' <=> (i < next \/ i = next)
    BY <2>1, <1>0
  <2> HIDE DEF obj, o
  <2>6. ASSUME NEW i \in DOMAIN objects'
        PROVE  IF i < next' THEN Settled(objects'[i])
               ELSE objects'[i].metadata = objects'[i].parsed
    <3>1. CASE i = next
      BY <3>1, <2>3, <2>4, <2>5 DEF o
    <3>2. CASE i # next
      BY <3>2, <2>1, <2>3, <2>5
    <3> QED
      BY <3>1, <3>2
  <2> QED
    BY <2>1, <2>6
<1>4. CASE CollectedAll
  <2>1. \A i \in DOMAIN objects : i < next
    BY <1>4, <1>0 DEF CollectedAll
  <2>2. objects' = objects /\ phase = "collect" /\ phase' = "synthesize"
    BY <1>4 DEF CollectedAll
  <2> QED
    BY <2>1, <2>2
<1>5. CASE IndexObject
  <2> DEFINE obj == objects[next]
  <2>1. /\ next \in DOMAIN objects /\ phase = "index" /\ phase' = "index"
        /\ objects' = [objects EXCEPT ![next] = enrichMetadata(obj)]
    BY <1>5, <1>0 DEF IndexObject
  <2>2. /\ enrichMetadata(obj).ns = obj.ns /\ gvkOf(enrichMetadata(obj)) = gvkOf(obj)
        /\ enrichMetadata(obj).parsed = obj.parsed
    <3>1. obj \in Objects
      BY <2>1, <1>0
    <3> QED
      BY <3>1, EnrichedObject DEF Same
  <2>3. Settled(obj) => Settled(enrichMetadata(obj))
    BY <2>2 DEF Settled
  <2> HIDE DEF obj
  <2>4. \A i \in DOMAIN objects : Settled(objects[i]) => Settled(objects'[i])
    BY <2>1, <2>3 DEF obj
  <2> QED
    BY <2>1, <2>4
<1>6. ASSUME NEW ns \in referencedNS, SynthesizeMissing(ns)
      PROVE  SettledInv'
  BY <1>6 DEF SynthesizeMissing
<1>7. CASE SynthesizedAll \/ IndexedAll
  BY <1>7 DEF SynthesizedAll, IndexedAll
<1>8. CASE UNCHANGED loadedVars
  BY <1>8 DEF loadedVars
<1> QED
  BY <1>1, <1>2, <1>3, <1>4, <1>5, <1>6, <1>7, <1>8, OnlyLoadingWrites DEF Loading

\* What is made up has its name and nothing else.
LEMMA MadeUpStep ==
    ASSUME ShapeInv, MadeUpInv, [StoreNext]_storeVars
    PROVE  MadeUpInv'
<1> USE DEF MadeUpInv
<1>0. /\ objects \in Seq(Objects) /\ DOMAIN objects = 1..Len(objects) /\ Len(objects) \in Nat
      /\ next \in 1..(Len(objects) + 1)
      /\ \A i \in DOMAIN objects : objects[i].doc = i
      /\ referencedNS \subseteq Spaces
      /\ byGVR \in [DOMAIN byGVR -> Seq(Objects)]
      /\ \A b \in DOMAIN byGVR : byGVR[b] # << >>
  BY DEF ShapeInv
<1>1. ASSUME NEW p, NEW obj, Added(p, obj),
             obj.doc = 0 => obj = enrichMetadata(synthesizeNamespace(obj.name))
      PROVE  MadeUpInv'
  BY <1>1 DEF Added
<1>2. ASSUME NEW ns \in referencedNS, SynthesizeMissing(ns)
      PROVE  MadeUpInv'
  <2> DEFINE obj == enrichMetadata(synthesizeNamespace(ns))
  <2>1. obj \in Objects /\ obj.name = ns
    BY <1>0, MadeUpObject
  <2>2. CASE byGVR' = byGVR
    BY <2>2
  <2>3. CASE add(NamespaceGVR, NoNamespace, obj)
    <3>1. Added(<<NamespaceGVR, NoNamespace>>, obj)
      BY <2>1, <2>3, <1>0, AddEffect
    <3>2. obj = enrichMetadata(synthesizeNamespace(obj.name))
      BY <2>1
    <3> HIDE DEF obj
    <3> QED
      BY <3>1, <3>2, <1>1
  <2> QED
    BY <1>2, <2>2, <2>3 DEF SynthesizeMissing
<1>3. CASE IndexObject
  <2> DEFINE obj == objects[next]
             gvr == gvkToGVR[gvkOf(obj)]
             ns  == IF typeInfo[gvr].namespaced THEN obj.ns ELSE NoNamespace
  <2>1. next \in DOMAIN objects /\ add(gvr, ns, enrichMetadata(obj))
    BY <1>3, <1>0 DEF IndexObject
  <2>2. enrichMetadata(obj) \in Objects /\ enrichMetadata(obj).doc # 0
    <3>1. obj \in Objects /\ obj.doc # 0
      BY <2>1, <1>0
    <3> QED
      BY <3>1, EnrichedObject DEF Same
  <2> HIDE DEF obj, gvr, ns
  <2>3. Added(<<gvr, ns>>, enrichMetadata(obj))
    BY <2>1, <2>2, <1>0, AddEffect
  <2> QED
    BY <2>2, <2>3, <1>1
<1>4. CASE ReadDocument \/ ParseFails \/ EndOfInput \/ CollectObject \/ CollectedAll
             \/ SynthesizedAll \/ IndexedAll
  BY <1>4 DEF ReadDocument, ParseFails, EndOfInput, CollectObject, CollectedAll,
              SynthesizedAll, IndexedAll
<1>5. CASE UNCHANGED loadedVars
  BY <1>5 DEF loadedVars
<1> QED
  BY <1>2, <1>3, <1>4, <1>5, OnlyLoadingWrites DEF Loading

\* A namespace is needed for good.
LEMMA NeededStays ==
    ASSUME ShapeInv, SettledInv, [StoreNext]_storeVars, NEW ns, Needed(ns)
    PROVE  Needed(ns)'
<1>1. CASE ~ReadDocument
  BY <1>1, EntriesStay DEF Needed
<1>2. CASE ReadDocument /\ objects' # objects
  BY <1>2, DocumentRead DEF Needed
<1>3. CASE objects' = objects
  BY <1>3 DEF Needed
<1> QED
  BY <1>1, <1>2, <1>3

\* Namespaces are referenced, and made up, because they are needed.
LEMMA NeededStep ==
    ASSUME ShapeInv, SettledInv, NeededInv, [StoreNext]_storeVars
    PROVE  NeededInv'
<1>0. /\ objects \in Seq(Objects) /\ DOMAIN objects = 1..Len(objects) /\ Len(objects) \in Nat
      /\ next \in 1..(Len(objects) + 1)
      /\ \A i \in DOMAIN objects : objects[i].doc = i
      /\ referencedNS \subseteq Spaces
      /\ byGVR \in [DOMAIN byGVR -> Seq(Objects)]
      /\ \A b \in DOMAIN byGVR : byGVR[b] # << >>
  BY DEF ShapeInv
<1>1. ASSUME \A ns \in referencedNS' \cup MadeUp' :
               ns \in referencedNS \cup MadeUp \/ (ns # NoNamespace /\ Needed(ns))
      PROVE  NeededInv'
  BY <1>1, NeededStays DEF NeededInv
<1>2. byGVR' = byGVR => MadeUp' = MadeUp
  BY DEF MadeUp, Bucket
<1>3. CASE CollectObject
  <2> DEFINE obj == objects[next]
             info == LookupType(gvkOf(obj))
             ns == IF obj.ns = NoNamespace THEN "default" ELSE obj.ns
             S == IF info.namespaced THEN {ns} ELSE {}
  <2>1. /\ referencedNS' = referencedNS \cup S /\ byGVR' = byGVR
        /\ next \in DOMAIN objects /\ phase = "collect"
    BY <1>3, <1>0 DEF CollectObject
  <2>2. ASSUME info.namespaced
        PROVE  ns # NoNamespace /\ Needed(ns)
    <3>1. CASE obj.ns = NoNamespace
      BY <3>1 DEF Needed, NoNamespace
    <3>2. CASE obj.ns # NoNamespace
      <4>1. EntryOf(obj).ns = ns
        BY <3>2, <2>2, EntryIs
      <4> HIDE DEF info
      <4> QED
        BY <4>1, <3>2, <2>1 DEF Needed
    <3> QED
      BY <3>1, <3>2
  <2>3. \A n \in S : n # NoNamespace /\ Needed(n)
    <3> HIDE DEF info, ns
    <3> QED
      BY <2>2
  <2> HIDE DEF S
  <2> QED
    BY <2>1, <2>3, <1>1, <1>2
<1>4. CASE CollectedAll
  <2>1. referencedNS' = referencedNS \cup {"default"} /\ byGVR' = byGVR
    BY <1>4 DEF CollectedAll
  <2>2. "default" # NoNamespace /\ Needed("default")
    BY DEF Needed, NoNamespace
  <2>3. \A n \in {"default"} : n # NoNamespace /\ Needed(n)
    BY <2>2
  <2> QED
    BY <2>1, <2>3, <1>1, <1>2
<1>5. ASSUME NEW ns \in referencedNS, SynthesizeMissing(ns)
      PROVE  NeededInv'
  <2> DEFINE obj == enrichMetadata(synthesizeNamespace(ns))
  <2>1. obj \in Objects /\ obj.name = ns /\ obj.doc = 0
    BY <1>0, MadeUpObject
  <2>2. referencedNS' \subseteq referencedNS
    BY <1>5 DEF SynthesizeMissing
  <2>3. MadeUp' \subseteq MadeUp \cup {ns}
    <3>1. CASE byGVR' = byGVR
      BY <3>1, <1>2
    <3>2. CASE add(NamespaceGVR, NoNamespace, obj)
      <4>1. Added(<<NamespaceGVR, NoNamespace>>, obj)
        BY <2>1, <3>2, <1>0, AddEffect
      <4> HIDE DEF obj
      <4> QED
        BY <4>1, <2>1, <1>0, MadeUpGrows
    <3> QED
      BY <1>5, <3>1, <3>2 DEF SynthesizeMissing
  <2> QED
    BY <2>2, <2>3, <1>1
<1>6. CASE IndexObject
  <2> DEFINE obj == objects[next]
             gvr == gvkToGVR[gvkOf(obj)]
             ns  == IF typeInfo[gvr].namespaced THEN obj.ns ELSE NoNamespace
  <2>1. /\ next \in DOMAIN objects /\ add(gvr, ns, enrichMetadata(obj))
        /\ referencedNS' = referencedNS
    BY <1>6, <1>0 DEF IndexObject
  <2>2. enrichMetadata(obj) \in Objects /\ enrichMetadata(obj).doc # 0
    <3>1. obj \in Objects /\ obj.doc # 0
      BY <2>1, <1>0
    <3> QED
      BY <3>1, EnrichedObject DEF Same
  <2> HIDE DEF obj, gvr, ns
  <2>3. Added(<<gvr, ns>>, enrichMetadata(obj))
    BY <2>1, <2>2, <1>0, AddEffect
  <2>4. MadeUp' = MadeUp
    BY <2>2, <2>3, <1>0, MadeUpStays
  <2> QED
    BY <2>1, <2>4, <1>1
<1>7. ASSUME referencedNS' = referencedNS, byGVR' = byGVR
      PROVE  NeededInv'
  BY <1>1, <1>2, <1>7
<1>8. CASE ReadDocument \/ ParseFails \/ EndOfInput \/ SynthesizedAll \/ IndexedAll
  BY <1>7, <1>8 DEF ReadDocument, ParseFails, EndOfInput, SynthesizedAll, IndexedAll
<1>9. CASE UNCHANGED loadedVars
  BY <1>7, <1>9 DEF loadedVars
<1> QED
  BY <1>3, <1>4, <1>5, <1>6, <1>8, <1>9, OnlyLoadingWrites DEF Loading

\* Handlers answer requests.
LEMMA AnswerStep ==
    ASSUME AnswerInv, [StoreNext]_storeVars
    PROVE  AnswerInv'
<1> USE DEF AnswerInv
<1>1. ASSUME NEW gvr, NEW ns, NEW sel, respondList(gvr, ns, sel)
      PROVE  AnswerInv'
  <2>1. \E items, kind : response' = [request |-> <<"list", gvr, ns, sel>>,
                                      kind |-> kind, items |-> items]
    BY <1>1, Zenon DEF respondList
  <2> QED
    BY <2>1
<1>2. ASSUME NEW gvr, NEW ns, NEW name, respondGet(gvr, ns, name)
      PROVE  AnswerInv'
  BY <1>2 DEF respondGet
<1>3. ASSUME handleAPIs
      PROVE  AnswerInv'
  BY <1>3 DEF handleAPIs
<1>4. ASSUME NEW group, NEW version, handleGroupVersionDiscovery(group, version)
      PROVE  AnswerInv'
  BY <1>4 DEF handleGroupVersionDiscovery
<1>5. ASSUME NEW path, handleFixed(path)
      PROVE  AnswerInv'
  BY <1>5 DEF handleFixed
<1>6. ASSUME writeJSON
      PROVE  AnswerInv'
  BY <1>6 DEF writeJSON
<1>7. ASSUME NEW ns \in referencedNS, SynthesizeMissing(ns)
      PROVE  AnswerInv'
  BY <1>7 DEF SynthesizeMissing
<1>8. CASE ReadDocument \/ ParseFails \/ EndOfInput \/ CollectObject \/ CollectedAll
             \/ SynthesizedAll \/ IndexObject \/ IndexedAll
  BY <1>8 DEF ReadDocument, ParseFails, EndOfInput, CollectObject, CollectedAll,
              SynthesizedAll, IndexObject, IndexedAll
<1>9. CASE UNCHANGED storeVars
  BY <1>9 DEF storeVars
<1> QED
  BY <1>1, <1>2, <1>3, <1>4, <1>5, <1>6, <1>7, <1>8, <1>9 DEF StoreNext

\* What the refinement needs to know of the store.
CatalogInv == StoreInv /\ DiscoveryInv /\ EntryInv

\* It holds.
LEMMA CatalogInvariant == StoreSpec => []CatalogInv
<1>1. StoreInit => EntryInv
  BY EntryInit
<1>2. StoreInv /\ EntryInv /\ [StoreNext]_storeVars => EntryInv'
  BY SettledStep, MadeUpStep, NeededStep, AnswerStep DEF EntryInv, StoreInv
<1> QED
  BY <1>1, <1>2, DiscoveryInvariant, PTL DEF StoreSpec, CatalogInv

-----------------------------------------------------------------------------
(* What is served.                                                         *)

\* The catalog's words are the store's.
LEMMA SameWords ==
    /\ \A apiVersion, kind, ns, name, labels, hasRoom :
         Catalog!Entry(apiVersion, kind, ns, name, labels, hasRoom)
           = Entry(apiVersion, kind, ns, name, labels, hasRoom)
    /\ \A sel : Catalog!parseSelector(sel) = parseSelector(sel)
    /\ \A kind : Catalog!isStatusSubresourceKind(kind) = isStatusSubresourceKind(kind)
    /\ Catalog!FixedAnswers = FixedAnswers
    /\ Catalog!NoNamespace = NoNamespace /\ Catalog!NoLabels = NoLabels
    /\ \A S : Catalog!Cardinality(S) = Cardinality(S)
<1>1. \A gvk : Catalog!LookupType(gvk) = LookupType(gvk)
  BY DEF Catalog!LookupType, LookupType, Catalog!Pluralize, Pluralize,
         Catalog!PluralEndings, PluralEndings
<1>2. \A gvk : Catalog!GvrOf(gvk) = GvrOf(gvk)
  BY <1>1 DEF Catalog!GvrOf, GvrOf
<1>3. \A obj : Catalog!gvkOf(obj) = gvkOf(obj)
  BY DEF Catalog!gvkOf, gvkOf
<1>4. Catalog!NoNamespace = NoNamespace /\ Catalog!NoLabels = NoLabels
  BY DEF Catalog!NoNamespace, NoNamespace, Catalog!NoLabels, NoLabels
<1>5. \A apiVersion, kind, ns, name, labels, hasRoom :
         Catalog!Entry(apiVersion, kind, ns, name, labels, hasRoom)
           = Entry(apiVersion, kind, ns, name, labels, hasRoom)
  BY <1>1, <1>2, <1>3, <1>4 DEF Catalog!Entry, Entry
<1>6. \A sel : Catalog!parseSelector(sel) = parseSelector(sel)
  BY DEF Catalog!parseSelector, parseSelector
<1>7. \A kind : Catalog!isStatusSubresourceKind(kind) = isStatusSubresourceKind(kind)
  BY DEF Catalog!isStatusSubresourceKind, isStatusSubresourceKind
<1>8. Catalog!FixedAnswers = FixedAnswers
  BY DEF Catalog!FixedAnswers, FixedAnswers
<1>9. \A S : Catalog!Cardinality(S) = Cardinality(S)
  BY DEF Catalog!Cardinality, Cardinality
<1> QED
  BY <1>4, <1>5, <1>6, <1>7, <1>8, <1>9

\* Once the store serves, every object has been indexed.
LEMMA ServingState ==
    ASSUME CatalogInv, phase = "serve"
    PROVE  /\ objects \in Seq(Objects) /\ Len(objects) \in Nat
           /\ DOMAIN objects = 1..Len(objects) /\ next = Len(objects) + 1
           /\ \A i \in DOMAIN objects : objects[i].doc = i /\ i \in Nat /\ i # 0
           /\ Collected /\ Indexing /\ referencedNS = {}
           /\ \A b \in DOMAIN byGVR :
                /\ byGVR[b] \in Seq(Objects) /\ Len(byGVR[b]) \in Nat
                /\ DOMAIN byGVR[b] = 1..Len(byGVR[b])
<1>1. ShapeInv /\ NamespaceInv
  BY DEF CatalogInv, StoreInv
<1>2. Collected /\ Indexing
  BY DEF Collected, Indexing
<1>3. referencedNS = {}
  BY <1>1, <1>2 DEF NamespaceInv
<1> QED
  BY <1>1, <1>2, <1>3 DEF ShapeInv

\* The namespaces that were made up are those that are missing.
LEMMA MadeUpAreMissing ==
    ASSUME CatalogInv, phase = "serve"
    PROVE  Catalog!MissingNamespaces = MadeUp
<1> DEFINE spaces == {storeEntries[i].ns : i \in DOMAIN storeEntries}
           written == {storeEntries[i].name : i \in {j \in DOMAIN storeEntries :
                         storeEntries[j].apiVersion = <<"v1">>
                           /\ storeEntries[j].kind = "Namespace"}}
<1>1. Catalog!MissingNamespaces = ({"default"} \cup spaces) \ ({NoNamespace} \cup written)
  BY SameWords DEF Catalog!MissingNamespaces
<1>2. /\ DOMAIN storeEntries = DOMAIN objects
      /\ \A i \in DOMAIN objects : storeEntries[i] = EntryOf(objects[i])
  BY DEF storeEntries
<1>3. written = definedNS
  <2>1. {j \in DOMAIN storeEntries : storeEntries[j].apiVersion = <<"v1">>
                                       /\ storeEntries[j].kind = "Namespace"}
          = {j \in DOMAIN objects : objects[j].kind = "Namespace"
                                      /\ objects[j].apiVersion = <<"v1">>}
    <3>1. \A j \in DOMAIN objects : storeEntries[j].apiVersion = objects[j].apiVersion
                                      /\ storeEntries[j].kind = objects[j].kind
      BY <1>2, EntryIs
    <3> HIDE DEF spaces, written
    <3> QED
      BY <3>1, <1>2
  <2>2. \A i \in DOMAIN objects : storeEntries[i].name = objects[i].name
    BY <1>2, EntryIs
  <2> QED
    BY <1>2, <2>1, <2>2 DEF definedNS
<1>4. NamespaceInv /\ NeededInv /\ SettledInv /\ Collected /\ referencedNS = {}
  BY ServingState DEF CatalogInv, StoreInv, EntryInv
<1>5. ASSUME NEW ns \in MadeUp
      PROVE  ns # NoNamespace /\ ns \in {"default"} \cup spaces /\ ns \notin definedNS
  <2>1. ns # NoNamespace /\ Needed(ns)
    BY <1>4 DEF NeededInv
  <2>2. ns \in {"default"} \cup spaces
    BY <2>1, <1>2 DEF Needed
  <2>3. ns \notin definedNS
    BY <1>4 DEF NamespaceInv
  <2> QED
    BY <2>1, <2>2, <2>3
<1>6. ASSUME NEW ns \in {"default"} \cup spaces, ns # NoNamespace, ns \notin definedNS
      PROVE  ns \in MadeUp
  <2>1. CASE ns = "default"
    BY <2>1, <1>4, <1>6 DEF NamespaceInv
  <2>2. CASE ns \in spaces
    <3>1. PICK i \in DOMAIN objects : ns = EntryOf(objects[i]).ns
      BY <2>2, <1>2
    <3>2. LookupType(gvkOf(objects[i])).namespaced
      BY <3>1, <1>6, EntryIs
    <3>3. Settled(objects[i])
      BY <1>4 DEF SettledInv, Visited
    <3>4. objects[i].ns = ns
      BY <3>1, <3>2, <3>3, EntryIs DEF Settled
    <3> QED
      BY <3>2, <3>4, <1>4, <1>6 DEF NamespaceInv
  <2> QED
    BY <1>6, <2>1, <2>2
<1> HIDE DEF spaces, written
<1> QED
  BY <1>1, <1>3, <1>5, <1>6

\* What a client can tell of an object in its answer.
Face(obj) == [entry |-> EntryOf(obj), doc |-> obj.doc]

\* What is made up is as the catalog has it.
LEMMA MadeUpEntry ==
    ASSUME NEW ns
    PROVE  LET made == enrichMetadata(synthesizeNamespace(ns))
           IN  /\ EntryOf(made) = Entry(<<"v1">>, "Namespace", NoNamespace, ns, NoLabels, TRUE)
               /\ made.doc = 0 /\ made.name = ns /\ gvkOf(made) = NamespaceGVK
<1> DEFINE made == enrichMetadata(synthesizeNamespace(ns))
<1>1. /\ made.apiVersion = <<"v1">> /\ made.kind = "Namespace" /\ made.ns = NoNamespace
      /\ made.name = ns /\ made.labels = NoLabels /\ made.parsed = "map" /\ made.doc = 0
  BY DEF enrichMetadata, synthesizeNamespace
<1> HIDE DEF made
<1>2. gvkOf(made) = NamespaceGVK
  BY <1>1 DEF gvkOf, NamespaceGVK
<1>3. EntryOf(made) = Entry(<<"v1">>, "Namespace", NoNamespace, ns, NoLabels, TRUE)
  <2>1. (made.parsed # "null") = TRUE
    BY <1>1
  <2> QED
    BY <1>1, <2>1 DEF EntryOf
<1> QED
  BY <1>1, <1>2, <1>3 DEF made

\* Everything in the index is served,
LEMMA IndexedIsServed ==
    ASSUME CatalogInv, phase = "serve", NEW b \in DOMAIN byGVR, NEW j \in DOMAIN byGVR[b]
    PROVE  /\ Face(byGVR[b][j]) \in Catalog!Served
           /\ EntryOf(byGVR[b][j]).gvr = b[1]
<1> DEFINE obj == byGVR[b][j]
<1>0. IndexInv /\ MadeUpInv
  BY DEF CatalogInv, StoreInv, EntryInv
<1>1. CASE obj.doc = 0
  <2>1. /\ b = <<NamespaceGVR, NoNamespace>> /\ gvkOf(obj) = NamespaceGVK
        /\ obj = enrichMetadata(synthesizeNamespace(obj.name))
    BY <1>0, <1>1 DEF IndexInv, MadeUpInv
  <2>2. obj.name \in MadeUp
    BY <1>1, <2>1 DEF MadeUp, Bucket
  <2> HIDE DEF obj
  <2>3. EntryOf(obj) = Entry(<<"v1">>, "Namespace", NoNamespace, obj.name, NoLabels, TRUE)
    BY <2>1, MadeUpEntry
  <2>4. Face(obj) \in Catalog!Served
    BY <1>1, <2>2, <2>3, MadeUpAreMissing, SameWords DEF Catalog!Served, Face
  <2>5. EntryOf(obj).gvr = b[1]
    BY <2>1, EntryIs DEF NamespaceGVR
  <2> QED
    BY <2>4, <2>5 DEF obj
<1>2. CASE obj.doc # 0
  <2>1. obj.doc < next /\ obj = objects[obj.doc] /\ b = PlaceOf(obj)
    BY <1>0, <1>2 DEF IndexInv
  <2>2. obj.doc \in Nat
    <3>1. obj \in Objects
      BY ServingState
    <3> QED
      BY <3>1 DEF Objects
  <2> HIDE DEF obj
  <2>3. obj.doc \in DOMAIN objects
    BY <1>2, <2>1, <2>2, ServingState
  <2>4. Face(obj) \in Catalog!Served
    BY <2>1, <2>3 DEF Catalog!Served, Face, storeEntries
  <2>5. EntryOf(obj).gvr = b[1]
    BY <2>1, EntryIs DEF PlaceOf
  <2> QED
    BY <2>4, <2>5 DEF obj
<1> QED
  BY <1>1, <1>2

\* everything that is served is in the index,
LEMMA ServedIsIndexed ==
    ASSUME CatalogInv, phase = "serve", NEW s \in Catalog!Served
    PROVE  \E b \in DOMAIN byGVR : \E j \in DOMAIN byGVR[b] : s = Face(byGVR[b][j])
<1>0. IndexInv /\ MadeUpInv
  BY DEF CatalogInv, StoreInv, EntryInv
<1>1. ASSUME NEW i \in DOMAIN objects, s = [entry |-> EntryOf(objects[i]), doc |-> i]
      PROVE  \E b \in DOMAIN byGVR : \E j \in DOMAIN byGVR[b] : s = Face(byGVR[b][j])
  <2> DEFINE b == PlaceOf(objects[i])
  <2>1. i \in 1..(next - 1) /\ Indexing /\ i # 0
    BY ServingState
  <2>2. b \in DOMAIN byGVR /\ \E j \in DOMAIN byGVR[b] : byGVR[b][j].doc = i
    BY <2>1, <1>0 DEF IndexInv
  <2>3. PICK j \in DOMAIN byGVR[b] : byGVR[b][j].doc = i
    BY <2>2
  <2>4. byGVR[b][j] = objects[i]
    BY <2>1, <2>2, <2>3, <1>0 DEF IndexInv
  <2> HIDE DEF b
  <2>5. s = Face(byGVR[b][j])
    BY <2>3, <2>4, <1>1 DEF Face
  <2> QED
    BY <2>2, <2>5
<1>2. ASSUME NEW ns \in MadeUp,
             s = [entry |-> Entry(<<"v1">>, "Namespace", NoNamespace, ns, NoLabels, TRUE),
                  doc |-> 0]
      PROVE  \E b \in DOMAIN byGVR : \E j \in DOMAIN byGVR[b] : s = Face(byGVR[b][j])
  <2> DEFINE b == <<NamespaceGVR, NoNamespace>>
  <2>1. b \in DOMAIN byGVR
        /\ \E j \in DOMAIN byGVR[b] : byGVR[b][j].doc = 0 /\ byGVR[b][j].name = ns
    BY DEF MadeUp, Bucket
  <2>2. PICK j \in DOMAIN byGVR[b] : byGVR[b][j].doc = 0 /\ byGVR[b][j].name = ns
    BY <2>1
  <2> HIDE DEF b
  <2>3. byGVR[b][j] = enrichMetadata(synthesizeNamespace(ns))
    BY <2>1, <2>2, <1>0 DEF MadeUpInv
  <2>4. s = Face(byGVR[b][j])
    BY <2>3, <1>2, MadeUpEntry DEF Face
  <2> QED
    BY <2>1, <2>4
<1>3. \/ \E i \in DOMAIN objects : s = [entry |-> EntryOf(objects[i]), doc |-> i]
      \/ \E ns \in MadeUp :
           s = [entry |-> Entry(<<"v1">>, "Namespace", NoNamespace, ns, NoLabels, TRUE),
                doc |-> 0]
  BY MadeUpAreMissing, SameWords DEF Catalog!Served, storeEntries
<1> QED
  BY <1>1, <1>2, <1>3

\* and in one place.
LEMMA ServedOnce ==
    ASSUME CatalogInv, phase = "serve",
           NEW b \in DOMAIN byGVR, NEW j \in DOMAIN byGVR[b],
           NEW c \in DOMAIN byGVR, NEW k \in DOMAIN byGVR[c],
           Face(byGVR[b][j]) = Face(byGVR[c][k])
    PROVE  b = c /\ j = k
<1> DEFINE obj == byGVR[b][j]
           o == byGVR[c][k]
<1>0. IndexInv /\ NamespaceInv
  BY DEF CatalogInv, StoreInv
<1>1. obj.doc = o.doc /\ EntryOf(obj) = EntryOf(o)
  BY DEF Face
<1>2. obj.name = o.name
  <2> HIDE DEF obj, o
  <2>1. EntryOf(obj).name = obj.name /\ EntryOf(o).name = o.name
    BY EntryIs
  <2> QED
    BY <1>1, <2>1
<1>3. CASE obj.doc = 0
  <2>1. b = <<NamespaceGVR, NoNamespace>> /\ c = <<NamespaceGVR, NoNamespace>>
    BY <1>0, <1>1, <1>3 DEF IndexInv
  <2> QED
    BY <2>1, <1>0, <1>1, <1>2, <1>3 DEF NamespaceInv, MadeUpOnce, Bucket
<1>4. CASE obj.doc # 0
  <2>1. obj = objects[obj.doc] /\ b = PlaceOf(obj) /\ o = objects[o.doc] /\ c = PlaceOf(o)
    BY <1>0, <1>1, <1>4 DEF IndexInv
  <2>2. b = c
    <3> HIDE DEF obj, o
    <3> QED
      BY <1>1, <2>1
  <2>3. j \in Nat /\ k \in Nat
    BY <2>2, ServingState
  <2>4. ~(j < k) /\ ~(k < j)
    BY <2>2, <1>0, <1>1, <1>4 DEF IndexInv
  <2> QED
    BY <2>2, <2>3, <2>4
<1> QED
  BY <1>3, <1>4

\* A bucket is that of a resource in a namespace, and has something.
LEMMA BucketsAre ==
    ASSUME CatalogInv, phase = "serve", NEW b \in DOMAIN byGVR
    PROVE  b = <<b[1], b[2]>> /\ 1 \in DOMAIN byGVR[b] /\ Bucket(b[1], b[2]) = byGVR[b]
<1>0. IndexInv /\ ShapeInv
  BY DEF CatalogInv, StoreInv
<1>1. 1 \in DOMAIN byGVR[b]
  BY <1>0, ServingState DEF ShapeInv
<1>2. b = <<NamespaceGVR, NoNamespace>> \/ b = PlaceOf(byGVR[b][1])
  BY <1>0, <1>1 DEF IndexInv
<1>3. b = <<b[1], b[2]>>
  BY <1>2 DEF PlaceOf
<1> QED
  BY <1>1, <1>3 DEF Bucket

\* What the maps say of a resource they say of something that is served.
LEMMA RegisteredIsServed ==
    ASSUME CatalogInv, phase = "serve", NEW gvr \in DOMAIN typeInfo
    PROVE  \E b \in DOMAIN byGVR : \E j \in DOMAIN byGVR[b] :
             /\ b[1] = gvr /\ gvkOf(byGVR[b][j]) = gvrToGVK[gvr]
             /\ EntryOf(byGVR[b][j]).kind = KindForGVR(gvr)
             /\ EntryOf(byGVR[b][j]).namespaced = typeInfo[gvr].namespaced
<1> DEFINE gvk == gvrToGVK[gvr]
<1>0. /\ RegistryInv /\ IndexInv /\ NamespaceInv /\ DiscoveryInv
      /\ gvk \in DOMAIN gvkToGVR /\ GvrOf(gvk) = gvr /\ gvr \in DOMAIN gvrToGVK
      /\ typeInfo[gvr] = LookupType(gvk)
  BY DEF CatalogInv, StoreInv, RegistryInv, MapsAgree
<1>1. KindForGVR(gvr) = gvk.kind
  BY <1>0 DEF KindForGVR
<1>2. ASSUME NEW b \in DOMAIN byGVR, NEW j \in DOMAIN byGVR[b], gvkOf(byGVR[b][j]) = gvk
      PROVE  /\ b[1] = gvr
             /\ EntryOf(byGVR[b][j]).kind = gvk.kind
             /\ EntryOf(byGVR[b][j]).namespaced = LookupType(gvk).namespaced
  <2>1. EntryOf(byGVR[b][j]).gvr = b[1]
    BY IndexedIsServed
  <2>2. \A obj : gvkOf(obj).kind = obj.kind
    BY DEF gvkOf
  <2> HIDE DEF gvk
  <2> QED
    BY <2>1, <2>2, <1>2, <1>0, EntryIs
<1>3. ASSUME NEW i \in DOMAIN objects, gvk = gvkOf(objects[i])
      PROVE  \E b \in DOMAIN byGVR : \E j \in DOMAIN byGVR[b] : gvkOf(byGVR[b][j]) = gvk
  <2> DEFINE b == PlaceOf(objects[i])
  <2>1. i \in 1..(next - 1) /\ Indexing /\ i # 0
    BY ServingState
  <2>2. b \in DOMAIN byGVR /\ \E j \in DOMAIN byGVR[b] : byGVR[b][j].doc = i
    BY <2>1, <1>0 DEF IndexInv
  <2>3. PICK j \in DOMAIN byGVR[b] : byGVR[b][j].doc = i
    BY <2>2
  <2>4. byGVR[b][j] = objects[i]
    BY <2>1, <2>2, <2>3, <1>0 DEF IndexInv
  <2> HIDE DEF b, gvk
  <2> QED
    BY <2>2, <2>4, <1>3
<1>4. ASSUME gvk = NamespaceGVK
      PROVE  \E b \in DOMAIN byGVR : \E j \in DOMAIN byGVR[b] : gvkOf(byGVR[b][j]) = gvk
  <2>1. "default" \in definedNS \cup MadeUp
    BY <1>0, ServingState DEF NamespaceInv
  <2>2. CASE "default" \in definedNS
    <3>1. PICK i \in DOMAIN objects : objects[i].kind = "Namespace"
                                        /\ objects[i].apiVersion = <<"v1">>
      BY <2>2 DEF definedNS
    <3>2. gvkOf(objects[i]) = NamespaceGVK
      BY <3>1 DEF gvkOf, NamespaceGVK
    <3> QED
      BY <3>2, <1>3, <1>4
  <2>3. CASE "default" \in MadeUp
    <3> DEFINE b == <<NamespaceGVR, NoNamespace>>
    <3>1. b \in DOMAIN byGVR /\ \E j \in DOMAIN byGVR[b] : byGVR[b][j].doc = 0
      BY <2>3 DEF MadeUp, Bucket
    <3>2. PICK j \in DOMAIN byGVR[b] : byGVR[b][j].doc = 0
      BY <3>1
    <3>3. gvkOf(byGVR[b][j]) = NamespaceGVK
      BY <3>1, <3>2, <1>0 DEF IndexInv
    <3> HIDE DEF b, gvk
    <3> QED
      BY <3>1, <3>3, <1>4
  <2> QED
    BY <2>1, <2>2, <2>3
<1>5. \E b \in DOMAIN byGVR : \E j \in DOMAIN byGVR[b] : gvkOf(byGVR[b][j]) = gvk
  BY <1>0, <1>3, <1>4 DEF DiscoveryInv
<1> HIDE DEF gvk
<1>6. PICK b \in DOMAIN byGVR : \E j \in DOMAIN byGVR[b] : gvkOf(byGVR[b][j]) = gvk
  BY <1>5
<1>7. PICK j \in DOMAIN byGVR[b] : gvkOf(byGVR[b][j]) = gvk
  BY <1>6
<1> QED
  BY <1>0, <1>1, <1>2, <1>7 DEF gvk

\* The resources that are served are those the maps have.
LEMMA ServedAreRegistered ==
    ASSUME CatalogInv, phase = "serve"
    PROVE  /\ \A s \in Catalog!Served : s.entry.gvr \in DOMAIN typeInfo
           /\ \A gvr \in DOMAIN typeInfo :
                \E s \in Catalog!Served : /\ s.entry.gvr = gvr
                                          /\ s.entry.kind = KindForGVR(gvr)
                                          /\ s.entry.namespaced = typeInfo[gvr].namespaced
<1>0. DOMAIN typeInfo = {b[1] : b \in DOMAIN byGVR}
  BY ServedResources DEF CatalogInv
<1>1. ASSUME NEW s \in Catalog!Served
      PROVE  s.entry.gvr \in DOMAIN typeInfo
  <2>1. PICK b \in DOMAIN byGVR : \E j \in DOMAIN byGVR[b] : s = Face(byGVR[b][j])
    BY ServedIsIndexed
  <2>2. PICK j \in DOMAIN byGVR[b] : s = Face(byGVR[b][j])
    BY <2>1
  <2>3. s.entry = EntryOf(byGVR[b][j])
    BY <2>2 DEF Face
  <2>4. EntryOf(byGVR[b][j]).gvr = b[1]
    BY IndexedIsServed
  <2> QED
    BY <2>3, <2>4, <1>0
<1>2. ASSUME NEW gvr \in DOMAIN typeInfo
      PROVE  \E s \in Catalog!Served : /\ s.entry.gvr = gvr
                                       /\ s.entry.kind = KindForGVR(gvr)
                                       /\ s.entry.namespaced = typeInfo[gvr].namespaced
  <2>1. PICK b \in DOMAIN byGVR : \E j \in DOMAIN byGVR[b] :
             /\ b[1] = gvr /\ gvkOf(byGVR[b][j]) = gvrToGVK[gvr]
             /\ EntryOf(byGVR[b][j]).kind = KindForGVR(gvr)
             /\ EntryOf(byGVR[b][j]).namespaced = typeInfo[gvr].namespaced
    BY RegisteredIsServed
  <2>2. PICK j \in DOMAIN byGVR[b] :
             /\ b[1] = gvr
             /\ EntryOf(byGVR[b][j]).kind = KindForGVR(gvr)
             /\ EntryOf(byGVR[b][j]).namespaced = typeInfo[gvr].namespaced
    BY <2>1
  <2>3. Face(byGVR[b][j]) \in Catalog!Served /\ EntryOf(byGVR[b][j]).gvr = b[1]
    BY IndexedIsServed
  <2>4. Face(byGVR[b][j]).entry = EntryOf(byGVR[b][j])
    BY DEF Face
  <2> QED
    BY <2>2, <2>3, <2>4
<1> QED
  BY <1>1, <1>2

\* A resource whose kinds agree has its objects where clients look for them.
LEMMA InItsNamespace ==
    ASSUME CatalogInv, phase = "serve", NEW gvr, Catalog!Regular(gvr),
           NEW b \in DOMAIN byGVR, b[1] = gvr, NEW j \in DOMAIN byGVR[b]
    PROVE  EntryOf(byGVR[b][j]).ns = b[2]
<1> DEFINE obj == byGVR[b][j]
<1>0. IndexInv /\ MadeUpInv /\ SettledInv
  BY DEF CatalogInv, StoreInv, EntryInv
<1>1. CASE obj.doc = 0
  <2>1. b = <<NamespaceGVR, NoNamespace>> /\ gvkOf(obj) = NamespaceGVK
    BY <1>0, <1>1 DEF IndexInv
  <2>2. ~LookupType(NamespaceGVK).namespaced
    BY NamespaceAssumption DEF LookupType
  <2> HIDE DEF obj
  <2>3. EntryOf(obj).ns = NoNamespace
    BY <2>1, <2>2, EntryIs
  <2> QED
    BY <2>1, <2>3 DEF obj
<1>2. CASE obj.doc # 0
  <2>1. obj.doc < next /\ obj = objects[obj.doc] /\ b = PlaceOf(obj)
    BY <1>0, <1>2 DEF IndexInv
  <2>2. obj.doc \in Nat
    <3>1. obj \in Objects
      BY ServingState
    <3> QED
      BY <3>1 DEF Objects
  <2>3. LookupType(gvkOf(obj)).namespaced = typeInfo[gvr].namespaced
    <3>1. gvr \in DOMAIN typeInfo
      BY ServedResources DEF CatalogInv
    <3>2. PICK s \in Catalog!Served : /\ s.entry.gvr = gvr
                                      /\ s.entry.namespaced = typeInfo[gvr].namespaced
      BY <3>1, ServedAreRegistered
    <3>3. Face(obj) \in Catalog!Served /\ EntryOf(obj).gvr = gvr
      BY IndexedIsServed
    <3> HIDE DEF obj
    <3>4. Face(obj).entry = EntryOf(obj)
      BY DEF Face
    <3>5. EntryOf(obj).namespaced = typeInfo[gvr].namespaced
      BY <3>2, <3>3, <3>4 DEF Catalog!Regular
    <3> QED
      BY <3>5, EntryIs
  <2> HIDE DEF obj
  <2>4. Settled(obj)
    <3>1. obj.doc \in DOMAIN objects
      BY <1>2, <2>1, <2>2, ServingState
    <3> QED
      BY <2>1, <3>1, <1>0, ServingState DEF SettledInv, Visited
  <2>5. b[1] = GvrOf(gvkOf(obj))
        /\ b[2] = IF typeInfo[GvrOf(gvkOf(obj))].namespaced THEN obj.ns ELSE NoNamespace
    BY <2>1 DEF PlaceOf
  <2>6. b[2] = IF LookupType(gvkOf(obj)).namespaced THEN obj.ns ELSE NoNamespace
    BY <2>3, <2>5
  <2>7. EntryOf(obj).ns = b[2]
    BY <2>4, <2>6, EntryIs DEF Settled
  <2> QED
    BY <2>7 DEF obj
<1> QED
  BY <1>1, <1>2

-----------------------------------------------------------------------------
(* Answers.                                                                *)

\* The buckets that a list goes through, and where in them its matches are.
Matching(gvr, n, sel) ==
    {i \in DOMAIN Bucket(gvr, n) : Bucket(gvr, n)[i].labels \in parseSelector(sel)}

\* The k-th item is the J[k]-th of the bucket of the namespace N[k]; all matches
\* are there, and those of one namespace in the order of its bucket.
Walks(items, gvr, ns, sel, N, J) ==
    /\ \A k \in 1..Len(items) :
         /\ N[k] \in Buckets(gvr, ns) /\ J[k] \in Matching(gvr, N[k], sel)
         /\ items[k] = Bucket(gvr, N[k])[J[k]]
    /\ \A k, l \in 1..Len(items) : k < l => N[k] # N[l] \/ J[k] < J[l]
    /\ \A n \in Buckets(gvr, ns) : \A j \in Matching(gvr, n, sel) :
         \E k \in 1..Len(items) : N[k] = n /\ J[k] = j

\* A bucket is a sequence of objects, also that of a place where nothing is.
LEMMA BucketShape ==
    ASSUME CatalogInv, phase = "serve", NEW gvr, NEW n
    PROVE  /\ Bucket(gvr, n) \in Seq(Objects) /\ Len(Bucket(gvr, n)) \in Nat
           /\ DOMAIN Bucket(gvr, n) = 1..Len(Bucket(gvr, n))
           /\ Bucket(gvr, n) # << >> => /\ <<gvr, n>> \in DOMAIN byGVR
                                        /\ Bucket(gvr, n) = byGVR[<<gvr, n>>]
  BY ServingState DEF Bucket

\* There are finitely many buckets.
LEMMA BucketsFinite ==
    ASSUME DiscoveryInv, NEW gvr, NEW ns
    PROVE  IsFiniteSet(Buckets(gvr, ns))
<1> DEFINE f == [b \in DOMAIN byGVR |-> b[2]]
           all == {f[b] : b \in DOMAIN f}
<1>1. IsFiniteSet(all)
  <2>1. DOMAIN f = DOMAIN byGVR
    OBVIOUS
  <2> HIDE DEF f
  <2> QED
    BY <2>1, FiniteImage DEF DiscoveryInv
<1>2. CASE ns = NoNamespace
  <2>1. Buckets(gvr, ns) \in SUBSET all
    BY <1>2 DEF Buckets
  <2> HIDE DEF all
  <2> QED
    BY <2>1, <1>1, FS_Subset
<1>3. CASE ns # NoNamespace
  <2>1. Buckets(gvr, ns) = {ns}
    BY <1>3 DEF Buckets
  <2> QED
    BY <2>1, FS_Singleton
<1> QED
  BY <1>2, <1>3

\* Whatever the order of the buckets, a list goes through them like that.
LEMMA ListIs ==
    ASSUME CatalogInv, phase = "serve", NEW gvr, NEW ns, NEW sel,
           NEW items \in List(gvr, ns, sel)
    PROVE  /\ items \in Seq(Objects)
           /\ \E N, J : Walks(items, gvr, ns, sel, N, J)
<1> DEFINE B == Buckets(gvr, ns)
           matching(n) == {i \in DOMAIN Bucket(gvr, n) :
                             Bucket(gvr, n)[i].labels \in parseSelector(sel)}
           seqs(order) == [i \in DOMAIN order |->
                             ElementsAt(Bucket(gvr, order[i]), matching(order[i]))]
           m == Cardinality(B)
<1>1. PICK order \in SetToSeqs(B) : items = FlattenSeq(seqs(order))
  BY DEF List
<1>2. IsFiniteSet(B)
  BY BucketsFinite DEF CatalogInv
<1>3. /\ m \in Nat
      /\ order \in [1..m -> B]
      /\ \A i, j \in 1..m : i # j => order[i] # order[j]
      /\ \A n \in B : \E i \in 1..m : order[i] = n
  <2> HIDE DEF B
  <2>1. m \in Nat
    BY <1>2, FS_CardinalityType
  <2>2. order \in [1..m -> B] /\ \A i, j \in 1..m : i # j => order[i] # order[j]
    BY DEF SetToSeqs
  <2> HIDE DEF m
  <2>3. order \in Injection(1..m, B)
    BY <2>2 DEF Injection, IsInjective
  <2>4. IsFiniteSet(1..m) /\ Cardinality(1..m) = m
    BY <2>1, FS_Interval
  <2>5. order \in Surjection(1..m, B)
    BY <2>3, <2>4, <1>2, FS_Injection DEF m
  <2>6. \A n \in B : \E i \in 1..m : order[i] = n
    BY <2>5 DEF Surjection
  <2> QED
    BY <2>1, <2>2, <2>6
<1> DEFINE S == seqs(order)
           P(i) == Matching(gvr, order[i], sel)
           at(i) == SortedBy(P(i), [p \in P(i) |-> p])
           card(i) == Cardinality(P(i))
<1> HIDE DEF m, B
<1>4. ASSUME NEW i \in 1..m
      PROVE  /\ S[i] \in Seq(Objects) /\ Len(S[i]) = card(i) /\ card(i) \in Nat
             /\ \A k \in 1..card(i) : /\ at(i)[k] \in P(i)
                                      /\ S[i][k] = Bucket(gvr, order[i])[at(i)[k]]
             /\ \A p \in P(i) : \E k \in 1..card(i) : at(i)[k] = p
             /\ \A k, l \in 1..card(i) : k < l => at(i)[k] < at(i)[l]
  <2> DEFINE bucket == Bucket(gvr, order[i])
             Q == Matching(gvr, order[i], sel)
  <2>1. bucket \in Seq(Objects) /\ Len(bucket) \in Nat /\ DOMAIN bucket = 1..Len(bucket)
    BY BucketShape
  <2>2. Q \in SUBSET (1..Len(bucket))
    BY <2>1 DEF Matching
  <2>3. S[i] = ElementsAt(bucket, Q)
    BY <1>3 DEF Matching
  <2> HIDE DEF bucket, Q, S
  <2> DEFINE a == SortedBy(Q, [p \in Q |-> p])
             n == Cardinality(Q)
  <2>4. /\ n \in Nat
        /\ \A k \in 1..n : a[k] \in Q
        /\ \A p \in Q : \E k \in 1..n : a[k] = p
        /\ \A k, l \in 1..n : k < l => a[k] < a[l]
    BY <2>1, <2>2, PlacesAscend
  <2>5. S[i] = [k \in 1..n |-> bucket[a[k]]]
    BY <2>3 DEF ElementsAt
  <2> HIDE DEF a, n
  <2>6. ASSUME NEW k \in 1..n
        PROVE  bucket[a[k]] \in Objects
    <3>1. a[k] \in 1..Len(bucket)
      BY <2>2, <2>4
    <3> QED
      BY <3>1, <2>1
  <2>7. S[i] \in Seq(Objects) /\ Len(S[i]) = n /\ \A k \in 1..n : S[i][k] = bucket[a[k]]
    BY <2>4, <2>5, <2>6
  <2> QED
    BY <2>4, <2>7 DEF a, n, Q, bucket
<1>5. S \in [1..m -> Seq(Objects)]
  <2>1. DOMAIN S = 1..m /\ S = [i \in 1..m |-> S[i]]
    BY <1>3
  <2> HIDE DEF S
  <2> QED
    BY <2>1, <1>4
<1> HIDE DEF S, P, at, card
<1>6. /\ items \in Seq(Objects)
      /\ \E seg, off : InSegments(items, m, S, seg, off)
  <2>1. items = FlattenSeq(S)
    BY <1>1 DEF S
  <2> QED
    BY <2>1, <1>3, <1>5, FlattenPlaces
<1>7. PICK seg, off : InSegments(items, m, S, seg, off)
  BY <1>6
<1> DEFINE L == Len(items)
           N == [k \in 1..L |-> order[seg[k]]]
           J == [k \in 1..L |-> at(seg[k])[off[k]]]
<1>8. \A k \in 1..L : /\ N[k] = order[seg[k]] /\ J[k] = at(seg[k])[off[k]]
                      /\ seg[k] \in 1..m /\ off[k] \in 1..card(seg[k])
                      /\ items[k] = S[seg[k]][off[k]]
  BY <1>7, <1>4 DEF InSegments
<1> HIDE DEF N, J
<1>9. ASSUME NEW k \in 1..L
      PROVE  /\ N[k] \in B /\ J[k] \in Matching(gvr, N[k], sel)
             /\ items[k] = Bucket(gvr, N[k])[J[k]]
  <2>1. /\ N[k] = order[seg[k]] /\ J[k] = at(seg[k])[off[k]]
        /\ seg[k] \in 1..m /\ off[k] \in 1..card(seg[k])
        /\ items[k] = S[seg[k]][off[k]]
    BY <1>8
  <2>2. /\ at(seg[k])[off[k]] \in P(seg[k])
        /\ S[seg[k]][off[k]] = Bucket(gvr, order[seg[k]])[at(seg[k])[off[k]]]
    BY <2>1, <1>4
  <2> QED
    BY <2>1, <2>2, <1>3 DEF P
<1>10. ASSUME NEW k \in 1..L, NEW l \in 1..L, k < l
       PROVE  N[k] # N[l] \/ J[k] < J[l]
  <2>1. seg[k] < seg[l] \/ (seg[k] = seg[l] /\ off[k] < off[l])
    BY <1>7, <1>10 DEF InSegments
  <2>2. seg[k] \in 1..m /\ seg[l] \in 1..m /\ off[k] \in 1..card(seg[k])
        /\ off[l] \in 1..card(seg[l])
    BY <1>8
  <2>3. CASE seg[k] < seg[l]
    <3>1. order[seg[k]] # order[seg[l]]
      BY <2>2, <2>3, <1>3
    <3> QED
      BY <3>1, <1>8
  <2>4. CASE seg[k] = seg[l] /\ off[k] < off[l]
    <3>1. at(seg[k])[off[k]] < at(seg[k])[off[l]]
      BY <2>2, <2>4, <1>4
    <3> QED
      BY <3>1, <2>4, <1>8
  <2> QED
    BY <2>1, <2>3, <2>4
<1>11. ASSUME NEW n \in B, NEW j \in Matching(gvr, n, sel)
       PROVE  \E k \in 1..L : N[k] = n /\ J[k] = j
  <2>1. PICK i \in 1..m : order[i] = n
    BY <1>3
  <2>2. PICK p \in 1..card(i) : at(i)[p] = j
    BY <2>1, <1>4 DEF P
  <2>3. PICK k \in 1..L : seg[k] = i /\ off[k] = p
    <3>1. p \in 1..Len(S[i])
      BY <1>4
    <3> QED
      BY <3>1, <1>7 DEF InSegments
  <2> QED
    BY <2>1, <2>2, <2>3, <1>8
<1>12. Walks(items, gvr, ns, sel, N, J)
  BY <1>9, <1>10, <1>11 DEF Walks, B
<1> QED
  BY <1>6, <1>12

\* What is in a bucket of a resource whose kinds agree can be told apart, and who
\* asks for the bucket's namespace gets it.
LEMMA ListedIsWalked ==
    ASSUME CatalogInv, phase = "serve", NEW gvr, NEW ns, NEW sel, Catalog!Regular(gvr)
    PROVE  /\ \A n \in Buckets(gvr, ns) : \A j \in Matching(gvr, n, sel) :
                /\ Face(Bucket(gvr, n)[j]) \in Catalog!Listed(gvr, ns, sel)
                /\ Face(Bucket(gvr, n)[j]).entry.ns = n
           /\ \A s \in Catalog!Listed(gvr, ns, sel) :
                \E n \in Buckets(gvr, ns) : \E j \in Matching(gvr, n, sel) :
                  s = Face(Bucket(gvr, n)[j])
<1>1. ASSUME NEW n \in Buckets(gvr, ns), NEW j \in Matching(gvr, n, sel)
      PROVE  /\ Face(Bucket(gvr, n)[j]) \in Catalog!Listed(gvr, ns, sel)
             /\ Face(Bucket(gvr, n)[j]).entry.ns = n
  <2> DEFINE b == <<gvr, n>>
             obj == Bucket(gvr, n)[j]
  <2>1. /\ b \in DOMAIN byGVR /\ j \in DOMAIN byGVR[b] /\ obj = byGVR[b][j]
        /\ obj.labels \in parseSelector(sel)
    <3>1. j \in DOMAIN Bucket(gvr, n) /\ obj.labels \in parseSelector(sel)
      BY DEF Matching
    <3>2. Bucket(gvr, n) # << >>
      BY <3>1, BucketShape
    <3> QED
      BY <3>1, <3>2, BucketShape
  <2>2. b[1] = gvr /\ b[2] = n
    OBVIOUS
  <2> HIDE DEF b, obj
  <2>3. /\ Face(obj) \in Catalog!Served /\ EntryOf(obj).gvr = gvr /\ EntryOf(obj).ns = n
    BY <2>1, <2>2, IndexedIsServed, InItsNamespace
  <2>4. Face(obj).entry = EntryOf(obj) /\ EntryOf(obj).labels = obj.labels
    BY EntryIs DEF Face
  <2>5. ns \in {NoNamespace, n}
    BY DEF Buckets
  <2>6. Face(obj) \in Catalog!Listed(gvr, ns, sel)
    BY <2>1, <2>3, <2>4, <2>5, SameWords DEF Catalog!Listed
  <2> QED
    BY <2>3, <2>4, <2>6 DEF obj
<1>2. ASSUME NEW s \in Catalog!Listed(gvr, ns, sel)
      PROVE  \E n \in Buckets(gvr, ns) : \E j \in Matching(gvr, n, sel) :
               s = Face(Bucket(gvr, n)[j])
  <2>1. /\ s \in Catalog!Served /\ s.entry.gvr = gvr
        /\ ns \in {NoNamespace, s.entry.ns} /\ s.entry.labels \in parseSelector(sel)
    BY SameWords DEF Catalog!Listed
  <2>2. PICK b \in DOMAIN byGVR : \E j \in DOMAIN byGVR[b] : s = Face(byGVR[b][j])
    BY <2>1, ServedIsIndexed
  <2>3. PICK j \in DOMAIN byGVR[b] : s = Face(byGVR[b][j])
    BY <2>2
  <2>4. s.entry = EntryOf(byGVR[b][j])
    BY <2>3 DEF Face
  <2>5. b[1] = gvr
    BY <2>1, <2>4, IndexedIsServed
  <2>6. s.entry.ns = b[2]
    BY <2>4, <2>5, InItsNamespace
  <2>7. Bucket(gvr, b[2]) = byGVR[b]
    BY <2>5, BucketsAre
  <2>8. b[2] \in Buckets(gvr, ns)
    BY <2>1, <2>5, <2>6 DEF Buckets
  <2>9. byGVR[b][j].labels \in parseSelector(sel)
    <3> DEFINE obj == byGVR[b][j]
    <3> HIDE DEF obj
    <3>1. EntryOf(obj).labels = obj.labels
      BY EntryIs
    <3> QED
      BY <2>1, <2>4, <3>1 DEF obj
  <2>10. j \in Matching(gvr, b[2], sel)
    BY <2>7, <2>9 DEF Matching
  <2> QED
    BY <2>3, <2>7, <2>8, <2>10
<1> QED
  BY <1>1, <1>2

\* A list has every match once, in the order of the documents within a namespace.
LEMMA ListHasAll ==
    ASSUME CatalogInv, phase = "serve", NEW gvr, NEW ns, NEW sel, Catalog!Regular(gvr),
           NEW items \in List(gvr, ns, sel), NEW shown,
           shown = [i \in DOMAIN items |-> Face(items[i])]
    PROVE  /\ {shown[i] : i \in DOMAIN shown} = Catalog!Listed(gvr, ns, sel)
           /\ Len(shown) = Cardinality(Catalog!Listed(gvr, ns, sel))
           /\ \A i, j \in DOMAIN shown :
                i < j /\ shown[i].entry.ns = shown[j].entry.ns => shown[i].doc <= shown[j].doc
<1> DEFINE L == Len(items)
           all == Catalog!Listed(gvr, ns, sel)
<1>1. items \in Seq(Objects) /\ \E N, J : Walks(items, gvr, ns, sel, N, J)
  BY ListIs
<1>2. PICK N, J : Walks(items, gvr, ns, sel, N, J)
  BY <1>1
<1>3. /\ L \in Nat /\ DOMAIN shown = 1..L /\ Len(shown) = L
      /\ \A k \in 1..L : shown[k] = Face(items[k])
  <2>1. DOMAIN items = 1..L /\ L \in Nat
    BY <1>1
  <2>2. DOMAIN shown = 1..L /\ shown = [k \in 1..L |-> Face(items[k])]
    BY <2>1
  <2>3. Len(shown) = L
    BY <2>1, <2>2
  <2> QED
    BY <2>1, <2>2, <2>3
<1> HIDE DEF L
<1>4. \A k \in 1..L : /\ N[k] \in Buckets(gvr, ns) /\ J[k] \in Matching(gvr, N[k], sel)
                      /\ shown[k] = Face(Bucket(gvr, N[k])[J[k]])
                      /\ shown[k].doc = Bucket(gvr, N[k])[J[k]].doc
  BY <1>2, <1>3 DEF Walks, Face, L
<1>5. ASSUME NEW k \in 1..L
      PROVE  shown[k] \in all /\ shown[k].entry.ns = N[k]
  <2>1. /\ N[k] \in Buckets(gvr, ns) /\ J[k] \in Matching(gvr, N[k], sel)
        /\ shown[k] = Face(Bucket(gvr, N[k])[J[k]])
    BY <1>4
  <2>2. /\ Face(Bucket(gvr, N[k])[J[k]]) \in all
        /\ Face(Bucket(gvr, N[k])[J[k]]).entry.ns = N[k]
    <3>1. \A n \in Buckets(gvr, ns) : \A j \in Matching(gvr, n, sel) :
            Face(Bucket(gvr, n)[j]) \in all /\ Face(Bucket(gvr, n)[j]).entry.ns = n
      BY ListedIsWalked
    <3> HIDE DEF all
    <3> QED
      BY <3>1, <2>1
  <2> QED
    BY <2>1, <2>2
<1>6. ASSUME NEW s \in all
      PROVE  \E k \in 1..L : shown[k] = s
  <2>1. PICK n \in Buckets(gvr, ns) : \E j \in Matching(gvr, n, sel) :
               s = Face(Bucket(gvr, n)[j])
    BY ListedIsWalked
  <2>2. PICK j \in Matching(gvr, n, sel) : s = Face(Bucket(gvr, n)[j])
    BY <2>1
  <2>3. PICK k \in 1..L : N[k] = n /\ J[k] = j
    BY <1>2 DEF Walks, L
  <2> QED
    BY <2>2, <2>3, <1>4
<1>7. ASSUME NEW k \in 1..L, NEW l \in 1..L, k < l
      PROVE  /\ shown[k] # shown[l]
             /\ shown[k].entry.ns = shown[l].entry.ns => shown[k].doc <= shown[l].doc
  <2>1. N[k] # N[l] \/ J[k] < J[l]
    BY <1>2, <1>7 DEF Walks, L
  <2>2. CASE N[k] # N[l]
    BY <2>2, <1>5
  <2>3. CASE N[k] = N[l] /\ J[k] < J[l]
    <3> DEFINE b == <<gvr, N[k]>>
    <3>1. J[k] \in DOMAIN Bucket(gvr, N[k]) /\ J[l] \in DOMAIN Bucket(gvr, N[k])
      BY <1>4, <2>3 DEF Matching
    <3>2. Bucket(gvr, N[k]) # << >>
      BY <3>1, BucketShape
    <3>3. b \in DOMAIN byGVR /\ Bucket(gvr, N[k]) = byGVR[b]
      BY <3>2, BucketShape
    <3> HIDE DEF b
    <3>4. byGVR[b][J[k]].doc <= byGVR[b][J[l]].doc
      BY <3>1, <3>3, <2>3 DEF CatalogInv, StoreInv, IndexInv
    <3>5. shown[k] # shown[l]
      <4>1. shown[k] = Face(byGVR[b][J[k]]) /\ shown[l] = Face(byGVR[b][J[l]])
        BY <3>3, <2>3, <1>4
      <4>2. J[k] \in Nat /\ J[l] \in Nat /\ J[k] # J[l]
        <5>1. /\ DOMAIN Bucket(gvr, N[k]) = 1..Len(Bucket(gvr, N[k]))
              /\ Len(Bucket(gvr, N[k])) \in Nat
          BY BucketShape
        <5> QED
          BY <5>1, <3>1, <2>3
      <4> QED
        BY <3>1, <3>3, <4>1, <4>2, ServedOnce
    <3> QED
      BY <3>3, <3>4, <3>5, <2>3, <1>4
  <2> QED
    BY <2>1, <2>2, <2>3
<1>8. {shown[i] : i \in 1..L} = all
  BY <1>5, <1>6
<1>9. Cardinality(all) = L
  <2> DEFINE f == [k \in 1..L |-> shown[k]]
  <2>1. f \in [1..L -> all] /\ \A t \in all : \E k \in 1..L : f[k] = t
    BY <1>5, <1>6
  <2>2. ASSUME NEW k \in 1..L, NEW l \in 1..L, f[k] = f[l]
        PROVE  k = l
    BY <2>2, <1>3, <1>7
  <2> HIDE DEF f, all
  <2>3. f \in Bijection(1..L, all)
    BY <2>1, <2>2 DEF Bijection, Injection, Surjection, IsInjective
  <2>4. IsFiniteSet(1..L) /\ Cardinality(1..L) = L
    BY <1>3, FS_Interval
  <2> QED
    BY <2>3, <2>4, FS_Bijection DEF ExistsBijection
<1> QED
  BY <1>3, <1>7, <1>8, <1>9

\* There is no answer before there is a request.
LEMMA NoAnswerYet ==
    ASSUME response = NoResponse
    PROVE  storeAnswer = Catalog!NoAnswer
  BY DEF storeAnswer, NoResponse, Catalog!NoAnswer

\* Handlers leave the objects alone.
LEMMA EntriesKept ==
    ASSUME UNCHANGED objects
    PROVE  storeEntries' = storeEntries
  BY DEF storeEntries

\* A handler that lists answers as the catalog would.
LEMMA ListAnswer ==
    ASSUME CatalogInv, NEW gvr, NEW ns, NEW sel, respondList(gvr, ns, sel)
    PROVE  Catalog!AnswerList(gvr, ns, sel)
<1> DEFINE kind == IF KindForGVR(gvr) = "" THEN "Unknown" ELSE KindForGVR(gvr)
<1>1. PICK items \in List(gvr, ns, sel) :
        response' = [request |-> <<"list", gvr, ns, sel>>, kind |-> kind, items |-> items]
  BY Zenon DEF respondList
<1>2. phase = "serve" /\ response = NoResponse /\ phase' = phase /\ objects' = objects
  BY DEF respondList
<1> DEFINE shown == [i \in DOMAIN items |-> Face(items[i])]
<1> HIDE DEF kind
<1>3. storeAnswer' = [request |-> <<"list", gvr, ns, sel>>, kind |-> kind, items |-> shown]
  <2>1. response'.request = <<"list", gvr, ns, sel>> /\ response'.items = items
    BY <1>1
  <2>2. /\ <<"list", gvr, ns, sel>> \notin {<< >>, <<"groups">>}
        /\ <<"list", gvr, ns, sel>>[1] \notin {"resources", "fixed"}
    OBVIOUS
  <2>3. storeAnswer' = [response' EXCEPT !.items =
          [i \in DOMAIN response'.items |->
             [entry |-> EntryOf(response'.items[i]), doc |-> response'.items[i].doc]]]
    BY <2>1, <2>2 DEF storeAnswer, EntryOf
  <2>4. storeAnswer' = [response' EXCEPT !.items = shown]
    BY <2>1, <2>3 DEF Face
  <2> HIDE DEF shown
  <2> QED
    BY <2>4, <1>1
<1>4. shown = [i \in DOMAIN items |-> Face(items[i])]
  OBVIOUS
<1> HIDE DEF shown
<1>5. ASSUME Catalog!Regular(gvr)
      PROVE  /\ {shown[i] : i \in DOMAIN shown} = Catalog!Listed(gvr, ns, sel)
             /\ Len(shown) = Cardinality(Catalog!Listed(gvr, ns, sel))
             /\ \A i, j \in DOMAIN shown :
                  i < j /\ shown[i].entry.ns = shown[j].entry.ns
                    => shown[i].doc <= shown[j].doc
  BY <1>2, <1>4, <1>5, ListHasAll
<1> DEFINE known == {s \in Catalog!Served : s.entry.gvr = gvr}
<1>6. IF known = {} THEN kind = "Unknown" ELSE \E s \in known : kind = s.entry.kind
  <2>1. CASE gvr \in DOMAIN typeInfo
    <3>1. PICK s \in Catalog!Served : s.entry.gvr = gvr /\ s.entry.kind = KindForGVR(gvr)
      BY <2>1, <1>2, ServedAreRegistered
    <3>2. KindForGVR(gvr) # ""
      BY <2>1, <1>2, ServedResources DEF CatalogInv
    <3> QED
      BY <3>1, <3>2 DEF kind
  <2>2. CASE gvr \notin DOMAIN typeInfo
    <3>1. known = {}
      BY <2>2, <1>2, ServedAreRegistered
    <3>2. KindForGVR(gvr) = ""
      BY <2>2 DEF KindForGVR, CatalogInv, StoreInv, RegistryInv, MapsAgree
    <3> QED
      BY <3>1, <3>2 DEF kind
  <2> QED
    BY <2>1, <2>2
<1>7. storeEntries' = storeEntries /\ storeAnswer = Catalog!NoAnswer
  BY <1>2, EntriesKept, NoAnswerYet
<1>8. /\ storeAnswer'.request = <<"list", gvr, ns, sel>> /\ storeAnswer'.items = shown
      /\ storeAnswer'.kind = kind
  BY <1>3
<1>9. (phase = "serve") = (phase = "serve")' /\ Catalog!Regular(gvr) \in BOOLEAN
  BY <1>2 DEF Catalog!Regular
<1>10. Catalog!Cardinality(Catalog!Listed(gvr, ns, sel)) = Cardinality(Catalog!Listed(gvr, ns, sel))
  BY SameWords
<1> QED
  BY <1>2, <1>5, <1>6, <1>7, <1>8, <1>9, <1>10 DEF Catalog!AnswerList

\* What a list without a selector shows of one name.
Named(gvr, ns, name) == {s \in Catalog!Listed(gvr, ns, "") : s.entry.name = name}

\* A get finds the first of these in some namespace, or there are none.
LEMMA GetFinds ==
    ASSUME CatalogInv, phase = "serve", NEW gvr, NEW ns, NEW name, Catalog!Regular(gvr),
           NEW items \in Get(gvr, ns, name)
    PROVE  \/ Named(gvr, ns, name) = {} /\ items = << >>
           \/ \E obj : /\ items = <<obj>> /\ Face(obj) \in Named(gvr, ns, name)
                       /\ \A t \in Named(gvr, ns, name) :
                            t.entry.ns = Face(obj).entry.ns => Face(obj).doc <= t.doc
<1> DEFINE named == Named(gvr, ns, name)
           at(n) == {i \in DOMAIN Bucket(gvr, n) : Bucket(gvr, n)[i].name = name}
           first(n) == CHOOSE i \in at(n) : \A j \in at(n) : i <= j
           found == {n \in Buckets(gvr, ns) : at(n) # {}}
<1>1. /\ found = {} => items = << >>
      /\ found # {} => \E n \in found : items = <<Bucket(gvr, n)[first(n)]>>
  BY DEF Get
<1>a. /\ \A n \in Buckets(gvr, ns) : \A j \in Matching(gvr, n, "") :
           /\ Face(Bucket(gvr, n)[j]) \in Catalog!Listed(gvr, ns, "")
           /\ Face(Bucket(gvr, n)[j]).entry.ns = n
      /\ \A s \in Catalog!Listed(gvr, ns, "") :
           \E n \in Buckets(gvr, ns) : \E j \in Matching(gvr, n, "") :
             s = Face(Bucket(gvr, n)[j])
  <2> DEFINE sel == ""
  <2> HIDE DEF sel, at, first, found
  <2>1. /\ \A n \in Buckets(gvr, ns) : \A j \in Matching(gvr, n, sel) :
             /\ Face(Bucket(gvr, n)[j]) \in Catalog!Listed(gvr, ns, sel)
             /\ Face(Bucket(gvr, n)[j]).entry.ns = n
        /\ \A s \in Catalog!Listed(gvr, ns, sel) :
             \E n \in Buckets(gvr, ns) : \E j \in Matching(gvr, n, sel) :
               s = Face(Bucket(gvr, n)[j])
    BY ListedIsWalked
  <2> QED
    BY <2>1 DEF sel
<1>2. ASSUME NEW n
      PROVE  /\ at(n) \subseteq Matching(gvr, n, "")
             /\ at(n) \in SUBSET Nat
             /\ \A i \in at(n) : Bucket(gvr, n)[i].name = name
             /\ \A i \in Matching(gvr, n, "") : Bucket(gvr, n)[i].name = name => i \in at(n)
             /\ \A i, j \in at(n) : i <= j =>
                  Face(Bucket(gvr, n)[i]).doc <= Face(Bucket(gvr, n)[j]).doc
  <2> DEFINE B == Bucket(gvr, n)
  <2>1. B \in Seq(Objects) /\ DOMAIN B = 1..Len(B) /\ Len(B) \in Nat
    BY BucketShape
  <2>2. \A i \in DOMAIN B : B[i] \in Objects
    BY <2>1
  <2>3. \A i \in DOMAIN B : B[i].labels \in parseSelector("") /\ B[i].doc \in Nat
    BY <2>2 DEF parseSelector, Objects
  <2>4. ASSUME NEW i \in at(n), NEW j \in at(n), i <= j
        PROVE  Face(B[i]).doc <= Face(B[j]).doc
    <3>1. i \in DOMAIN B /\ j \in DOMAIN B /\ i \in Nat /\ j \in Nat
      BY <2>1
    <3>2. Face(B[i]).doc = B[i].doc /\ Face(B[j]).doc = B[j].doc
      BY DEF Face
    <3>3. CASE i = j
      <4>1. B[i].doc \in Nat /\ Face(B[j]) = Face(B[i])
        BY <3>1, <3>3, <2>3
      <4> HIDE DEF B
      <4> QED
        BY <3>2, <4>1
    <3>4. CASE i < j
      <4>1. B # << >>
        BY <3>1, <2>1
      <4>2. <<gvr, n>> \in DOMAIN byGVR /\ B = byGVR[<<gvr, n>>]
        BY <4>1, BucketShape
      <4>3. B[i].doc <= B[j].doc
        BY <3>1, <3>4, <4>2 DEF CatalogInv, StoreInv, IndexInv
      <4> QED
        BY <4>3, <3>2
    <3> QED
      BY <3>1, <3>3, <3>4, <2>4
  <2>5. Matching(gvr, n, "") = DOMAIN B
    BY <2>3 DEF Matching
  <2>6. at(n) \in SUBSET Nat /\ at(n) \subseteq DOMAIN B
    BY <2>1
  <2> QED
    BY <2>4, <2>5, <2>6
<1>3. ASSUME NEW n, at(n) # {}
      PROVE  first(n) \in at(n) /\ \A j \in at(n) : first(n) <= j
  <2> HIDE DEF at
  <2>1. \E i \in at(n) : \A j \in at(n) : i <= j
    BY <1>2, <1>3, LeastNumber
  <2> QED
    BY <2>1
<1> HIDE DEF at, first
<1>4. ASSUME NEW n \in Buckets(gvr, ns), NEW i \in at(n)
      PROVE  Face(Bucket(gvr, n)[i]) \in named /\ Face(Bucket(gvr, n)[i]).entry.ns = n
  <2>1. i \in Matching(gvr, n, "") /\ Bucket(gvr, n)[i].name = name
    BY <1>2
  <2>2. Face(Bucket(gvr, n)[i]) \in Catalog!Listed(gvr, ns, "")
        /\ Face(Bucket(gvr, n)[i]).entry.ns = n
    BY <2>1, <1>a
  <2>3. Face(Bucket(gvr, n)[i]).entry.name = Bucket(gvr, n)[i].name
    BY EntryIs DEF Face
  <2> QED
    BY <2>1, <2>2, <2>3 DEF Named
<1>5. ASSUME NEW t \in named
      PROVE  \E n \in found : \E i \in at(n) :
               t = Face(Bucket(gvr, n)[i]) /\ t.entry.ns = n
  <2>1. t \in Catalog!Listed(gvr, ns, "") /\ t.entry.name = name
    BY DEF Named
  <2>2. PICK n \in Buckets(gvr, ns) : \E i \in Matching(gvr, n, "") :
               t = Face(Bucket(gvr, n)[i])
    BY <2>1, <1>a
  <2>3. PICK i \in Matching(gvr, n, "") : t = Face(Bucket(gvr, n)[i])
    BY <2>2
  <2>4. Bucket(gvr, n)[i].name = name
    BY <2>1, <2>3, EntryIs DEF Face
  <2>5. i \in at(n)
    BY <2>4, <1>2
  <2> QED
    BY <2>3, <2>5, <1>4
<1>6. CASE found = {}
  <2>1. items = << >> /\ named = {}
    BY <1>1, <1>5, <1>6
  <2> QED
    BY <2>1
<1>7. CASE found # {}
  <2>1. PICK n \in found : items = <<Bucket(gvr, n)[first(n)]>>
    BY <1>1, <1>7
  <2>2. n \in Buckets(gvr, ns) /\ at(n) # {}
    OBVIOUS
  <2> DEFINE obj == Bucket(gvr, n)[first(n)]
             s == Face(obj)
  <2>3. first(n) \in at(n) /\ \A j \in at(n) : first(n) <= j
    BY <2>2, <1>3
  <2>4. s \in named /\ s.entry.ns = n
    BY <2>2, <2>3, <1>4
  <2>5. ASSUME NEW t \in named, t.entry.ns = s.entry.ns
        PROVE  s.doc <= t.doc
    <3>1. PICK k \in found : \E i \in at(k) :
               t = Face(Bucket(gvr, k)[i]) /\ t.entry.ns = k
      BY <1>5
    <3>2. PICK i \in at(k) : t = Face(Bucket(gvr, k)[i]) /\ t.entry.ns = k
      BY <3>1
    <3>3. k = n
      BY <3>2, <2>4, <2>5
    <3>4. first(n) <= i
      BY <3>3, <3>2, <2>3
    <3>5. Face(Bucket(gvr, n)[first(n)]).doc <= Face(Bucket(gvr, n)[i]).doc
      BY <3>3, <3>2, <3>4, <2>3, <1>2
    <3> QED
      BY <3>2, <3>3, <3>5
  <2> HIDE DEF obj
  <2> QED
    BY <2>1, <2>4, <2>5 DEF obj
<1> QED
  BY <1>6, <1>7

\* A handler that gets an object answers as the catalog would.
LEMMA GetAnswer ==
    ASSUME CatalogInv, NEW gvr, NEW ns, NEW name, respondGet(gvr, ns, name)
    PROVE  Catalog!AnswerGet(gvr, ns, name)
<1>1. PICK items \in Get(gvr, ns, name) :
        response' = [request |-> <<"get", gvr, ns, name>>, items |-> items]
  BY DEF respondGet
<1>2. phase = "serve" /\ response = NoResponse /\ phase' = phase /\ objects' = objects
  BY DEF respondGet
<1> DEFINE shown == [i \in DOMAIN items |-> Face(items[i])]
           named == Named(gvr, ns, name)
<1>3. storeAnswer' = [request |-> <<"get", gvr, ns, name>>, items |-> shown]
  <2>1. response'.request = <<"get", gvr, ns, name>> /\ response'.items = items
    BY <1>1
  <2>2. /\ <<"get", gvr, ns, name>> \notin {<< >>, <<"groups">>}
        /\ <<"get", gvr, ns, name>>[1] \notin {"resources", "fixed"}
    OBVIOUS
  <2>3. storeAnswer' = [response' EXCEPT !.items =
          [i \in DOMAIN response'.items |->
             [entry |-> EntryOf(response'.items[i]), doc |-> response'.items[i].doc]]]
    BY <2>1, <2>2 DEF storeAnswer, EntryOf
  <2>4. storeAnswer' = [response' EXCEPT !.items = shown]
    BY <2>1, <2>3 DEF Face
  <2> HIDE DEF shown
  <2> QED
    BY <2>4, <1>1
<1>4. ASSUME Catalog!Regular(gvr)
      PROVE  IF named = {} THEN shown = << >>
             ELSE \E s \in named : /\ shown = <<s>>
                                   /\ \A t \in named : t.entry.ns = s.entry.ns => s.doc <= t.doc
  <2> HIDE DEF named
  <2>1. \/ named = {} /\ items = << >>
        \/ \E obj : /\ items = <<obj>> /\ Face(obj) \in named
                    /\ \A t \in named : t.entry.ns = Face(obj).entry.ns => Face(obj).doc <= t.doc
    BY <1>2, <1>4, GetFinds DEF named
  <2>2. CASE named = {} /\ items = << >>
    <3>1. shown = << >>
      BY <2>2
    <3> QED
      BY <2>2, <3>1
  <2>3. ASSUME NEW obj, items = <<obj>>, Face(obj) \in named,
               \A t \in named : t.entry.ns = Face(obj).entry.ns => Face(obj).doc <= t.doc
        PROVE  \E s \in named : /\ shown = <<s>>
                                /\ \A t \in named : t.entry.ns = s.entry.ns => s.doc <= t.doc
    <3>1. shown = <<Face(obj)>>
      BY <2>3
    <3> HIDE DEF shown
    <3> QED
      BY <2>3, <3>1
  <2> HIDE DEF shown
  <2> QED
    BY <2>1, <2>2, <2>3
<1>5. named = {s \in Catalog!Listed(gvr, ns, "") : s.entry.name = name}
  BY DEF Named
<1> HIDE DEF shown, named
<1>6. storeEntries' = storeEntries /\ storeAnswer = Catalog!NoAnswer
  BY <1>2, EntriesKept, NoAnswerYet
<1>7. storeAnswer'.request = <<"get", gvr, ns, name>> /\ storeAnswer'.items = shown
  BY <1>3
<1>8. (phase = "serve") = (phase = "serve")' /\ Catalog!Regular(gvr) \in BOOLEAN
  BY <1>2 DEF Catalog!Regular
<1> QED
  BY <1>2, <1>4, <1>5, <1>6, <1>7, <1>8 DEF Catalog!AnswerGet

\* The resources that are served.
LEMMA ServedGvrs ==
    ASSUME CatalogInv, phase = "serve"
    PROVE  {s.entry.gvr : s \in Catalog!Served} = DOMAIN typeInfo
  BY ServedAreRegistered

\* The list of groups is that of the catalog.
LEMMA GroupsAnswer ==
    ASSUME CatalogInv, handleAPIs
    PROVE  Catalog!AnswerGroups
<1> DEFINE groups == buildAPIGroupList
           served == {s.entry.gvr : s \in Catalog!Served}
<1>1. /\ phase = "serve" /\ response = NoResponse /\ phase' = phase /\ objects' = objects
      /\ response' = [request |-> <<"groups">>, items |-> groups]
  BY DEF handleAPIs
<1>2. storeAnswer'.request = <<"groups">> /\ storeAnswer'.items = groups
  <2>1. storeAnswer' = response'
    BY <1>1 DEF storeAnswer
  <2> HIDE DEF groups
  <2> QED
    BY <1>1, <2>1
<1>3. storeEntries' = storeEntries /\ storeAnswer = Catalog!NoAnswer
  BY <1>1, EntriesKept, NoAnswerYet
<1>4. (phase = "serve") = (phase = "serve")'
  BY <1>1
<1>5. served = DOMAIN typeInfo
  BY <1>1, ServedGvrs
<1>6. /\ {groups[i].name : i \in DOMAIN groups} = GroupsKnown
      /\ \A i, j \in DOMAIN groups : i < j => Rank[groups[i].name] < Rank[groups[j].name]
      /\ \A i \in DOMAIN groups :
           LET g == groups[i]
           IN  /\ {g.versions[j] : j \in DOMAIN g.versions} = VersionsOf(g.name)
               /\ \A j, k \in DOMAIN g.versions :
                    j < k => Rank[g.versions[j]] < Rank[g.versions[k]]
               /\ g.preferred = g.versions[1]
  BY <1>1, GroupListIs DEF CatalogInv
<1>7. /\ GroupsKnown = {gvr.group : gvr \in served} \ {""}
      /\ \A g : VersionsOf(g) = {gvr.version : gvr \in {h \in served : h.group = g}}
  BY <1>5 DEF GroupsKnown, VersionsOf
<1> HIDE DEF groups, served
<1>8. \A i \in DOMAIN groups :
        LET g == groups[i]
        IN  /\ {g.versions[j] : j \in DOMAIN g.versions}
                 = {gvr.version : gvr \in {h \in served : h.group = g.name}}
            /\ \A j, k \in DOMAIN g.versions :
                 j < k => Rank[g.versions[j]] < Rank[g.versions[k]]
            /\ g.preferred = g.versions[1]
  BY <1>6, <1>7
<1>9. {groups[i].name : i \in DOMAIN groups} = {gvr.group : gvr \in served} \ {""}
  BY <1>6, <1>7
<1>10. Catalog!AllGroups(groups)
  BY <1>6, <1>8, <1>9 DEF Catalog!AllGroups, Catalog!Ascending, served
<1>11. Catalog!AllGroups(storeAnswer'.items)
  <2>1. \A other : other = groups => Catalog!AllGroups(other)
    BY <1>10
  <2> QED
    BY <1>2, <2>1
<1> QED
  BY <1>1, <1>2, <1>3, <1>4, <1>11 DEF Catalog!AnswerGroups

\* The name of a resource, and that of its status.
LEMMA NamesAppended ==
    ASSUME NEW r
    PROVE  <<r>> \o << >> = <<r>> /\ <<r>> \o <<"status">> = <<r, "status">>
<1> DEFINE D == {r, "status"}
           s == <<r>>
           t == <<"status">>
           u == <<r, "status">>
           st == s \o t
<1>1. /\ s \in Seq(D) /\ t \in Seq(D) /\ u \in Seq(D)
      /\ Len(s) = 1 /\ s[1] = r /\ Len(t) = 1 /\ t[1] = "status"
      /\ Len(u) = 2 /\ u[1] = r /\ u[2] = "status"
  OBVIOUS
<1> HIDE DEF D, s, t, u
<1>2. s \o << >> = s
  BY <1>1, ConcatEmptySeq
<1>3. /\ st \in Seq(D) /\ Len(st) = Len(s) + Len(t)
      /\ \A i \in 1..(Len(s) + Len(t)) :
           st[i] = IF i <= Len(s) THEN s[i] ELSE t[i - Len(s)]
  BY <1>1, ConcatProperties
<1> HIDE DEF st
<1>4. Len(st) = 2 /\ st[1] = r /\ st[2] = "status"
  BY <1>1, <1>3
<1>5. \A i \in 1..Len(st) : st[i] = u[i]
  BY <1>1, <1>4
<1>6. st = u
  BY <1>1, <1>3, <1>4, <1>5, SeqEqual
<1> QED
  BY <1>2, <1>6 DEF s, t, u, st

\* What clients can tell of the resources of a version that are served.
ServedIn(group, version) ==
    {e \in {s.entry : s \in Catalog!Served} :
       e.gvr.group = group /\ e.gvr.version = version}

ResourcesIn(group, version) == {e.gvr.resource : e \in ServedIn(group, version)}

\* What is shown of a resource is what is shown of something that is served.
LEMMA ShownFaces ==
    ASSUME CatalogInv, phase = "serve", NEW group, NEW version
    PROVE  \E face \in [ResourcesIn(group, version) -> ServedIn(group, version)] :
             /\ \A r \in ResourcesIn(group, version) : face[r].gvr.resource = r
             /\ ShownIn(group, version) =
                  {Catalog!Shown(<<r>>, face[r]) : r \in ResourcesIn(group, version)}
                  \cup {Catalog!Shown(<<r, "status">>, face[r]) :
                          r \in {q \in ResourcesIn(group, version) :
                                   isStatusSubresourceKind(face[q].kind)}}
<1> DEFINE served == ServedIn(group, version)
           resources == ResourcesIn(group, version)
<1>0. /\ served = {e \in {s.entry : s \in Catalog!Served} :
                     e.gvr.group = group /\ e.gvr.version = version}
      /\ resources = {e.gvr.resource : e \in served}
  BY DEF ServedIn, ResourcesIn
<1> HIDE DEF served, resources
<1> DEFINE known == KnownIn(group, version)
           gvrOf(r) == [group |-> group, version |-> version, resource |-> r]
           Shows(e, r) == /\ e.gvr = gvrOf(r) /\ e.kind = KindForGVR(gvrOf(r))
                          /\ e.namespaced = typeInfo[gvrOf(r)].namespaced
           face == [r \in resources |-> CHOOSE e \in served : Shows(e, r)]
<1>1. \A gvr \in known : gvr = gvrOf(gvr.resource) /\ gvr \in DOMAIN typeInfo
  BY ServedResources DEF KnownIn, CatalogInv
<1>2. ASSUME NEW e \in served
      PROVE  e.gvr \in known /\ e.gvr.resource \in resources
  BY <1>0, ServedAreRegistered DEF KnownIn
<1>3. ASSUME NEW gvr \in known
      PROVE  \E e \in served : /\ e.gvr = gvr /\ e.kind = KindForGVR(gvr)
                               /\ e.namespaced = typeInfo[gvr].namespaced
  <2>1. gvr \in DOMAIN typeInfo /\ gvr.group = group /\ gvr.version = version
    BY DEF KnownIn
  <2>2. PICK s \in Catalog!Served : /\ s.entry.gvr = gvr /\ s.entry.kind = KindForGVR(gvr)
                                    /\ s.entry.namespaced = typeInfo[gvr].namespaced
    BY <2>1, ServedAreRegistered
  <2>3. s.entry \in served
    BY <2>1, <2>2, <1>0
  <2> QED
    BY <2>2, <2>3
<1> HIDE DEF known
<1>4. ASSUME NEW r \in resources
      PROVE  gvrOf(r) \in known /\ \E e \in served : Shows(e, r)
  <2>1. PICK e \in served : r = e.gvr.resource
    BY <1>0
  <2>2. e.gvr = gvrOf(r) /\ e.gvr \in known
    BY <2>1, <1>1, <1>2
  <2> QED
    BY <2>2, <1>3
<1>5. ASSUME NEW gvr \in known
      PROVE  gvr.resource \in resources
  <2>1. PICK e \in served : e.gvr = gvr
    BY <1>3
  <2> QED
    BY <2>1, <1>2
<1>6. ASSUME NEW r \in resources
      PROVE  face[r] \in served /\ Shows(face[r], r)
  <2> HIDE DEF Shows
  <2> QED
    BY <1>4
<1>7. \A r \in resources : /\ face[r] \in served /\ face[r].gvr = gvrOf(r)
                           /\ face[r].gvr.resource = r
                           /\ face[r].kind = KindForGVR(gvrOf(r))
                           /\ face[r].namespaced = typeInfo[gvrOf(r)].namespaced
  <2> HIDE DEF face
  <2> QED
    BY <1>6
<1>8. face \in [resources -> served]
  BY <1>7
<1> HIDE DEF face
<1> DEFINE plain(r) == Catalog!Shown(<<r>>, face[r])
           status(r) == Catalog!Shown(<<r, "status">>, face[r])
<1>9. ASSUME NEW r \in resources
      PROVE  /\ gvrOf(r).resource = r
             /\ ShownAs(gvrOf(r), << >>) = plain(r)
             /\ ShownAs(gvrOf(r), <<"status">>) = status(r)
  <2>1. <<r>> \o << >> = <<r>> /\ <<r>> \o <<"status">> = <<r, "status">>
    BY NamesAppended
  <2> QED
    BY <2>1, <1>7 DEF ShownAs, Catalog!Shown
<1> DEFINE S == {q \in resources : isStatusSubresourceKind(face[q].kind)}
           T == {h \in known : isStatusSubresourceKind(KindForGVR(h))}
<1>10. /\ \A gvr \in known : gvr.resource \in resources /\ gvr = gvrOf(gvr.resource)
       /\ \A r \in resources : gvrOf(r) \in known
  BY <1>1, <1>4, <1>5
<1> HIDE DEF gvrOf, plain, status
<1>11. {ShownAs(gvr, << >>) : gvr \in known} = {plain(r) : r \in resources}
  BY <1>9, <1>10
<1>12. /\ \A gvr \in T : gvr.resource \in S /\ gvr = gvrOf(gvr.resource)
       /\ \A r \in S : gvrOf(r) \in T /\ r \in resources
  BY <1>7, <1>10
<1> HIDE DEF S, T
<1>13. {ShownAs(gvr, <<"status">>) : gvr \in T} = {status(r) : r \in S}
  BY <1>9, <1>12
<1>14. ShownIn(group, version) = {plain(r) : r \in resources} \cup {status(r) : r \in S}
  BY <1>11, <1>13 DEF ShownIn, known, T
<1> QED
  BY <1>7, <1>8, <1>14 DEF plain, status, S, served, resources

\* The resources of a version are those of the catalog.
LEMMA ResourcesAnswer ==
    ASSUME CatalogInv, NEW group, NEW version, handleGroupVersionDiscovery(group, version)
    PROVE  Catalog!AnswerResources(group, version)
<1> DEFINE items == buildAPIResourceList(group, version)
           served == ServedIn(group, version)
           resources == ResourcesIn(group, version)
<1>1. /\ phase = "serve" /\ response = NoResponse /\ phase' = phase /\ objects' = objects
      /\ response' = [request |-> <<"resources", group, version>>, items |-> items]
  BY DEF handleGroupVersionDiscovery
<1>2. storeAnswer'.request = <<"resources", group, version>> /\ storeAnswer'.items = items
  <2>1. storeAnswer' = response'
    BY <1>1 DEF storeAnswer
  <2> HIDE DEF items
  <2> QED
    BY <1>1, <2>1
<1>3. storeEntries' = storeEntries /\ storeAnswer = Catalog!NoAnswer
  BY <1>1, EntriesKept, NoAnswerYet
<1>4. (phase = "serve") = (phase = "serve")'
  BY <1>1
<1>5. /\ {items[i] : i \in DOMAIN items} = ShownIn(group, version)
      /\ \A i, j \in DOMAIN items : i < j => RankOfName(items[i]) < RankOfName(items[j])
  BY <1>1, ResourceListIs DEF CatalogInv
<1>6. \E face \in [resources -> served] :
        /\ \A r \in resources : face[r].gvr.resource = r
        /\ ShownIn(group, version) =
             {Catalog!Shown(<<r>>, face[r]) : r \in resources}
             \cup {Catalog!Shown(<<r, "status">>, face[r]) :
                     r \in {q \in resources : isStatusSubresourceKind(face[q].kind)}}
  BY <1>1, ShownFaces
<1>7. \A kind : Catalog!isStatusSubresourceKind(kind) = isStatusSubresourceKind(kind)
  BY SameWords
<1> HIDE DEF items, served, resources
<1>8. \E face \in [resources -> served] :
        /\ \A r \in resources : face[r].gvr.resource = r
        /\ {items[i] : i \in DOMAIN items} =
             {Catalog!Shown(<<r>>, face[r]) : r \in resources}
             \cup {Catalog!Shown(<<r, "status">>, face[r]) :
                     r \in {q \in resources : Catalog!isStatusSubresourceKind(face[q].kind)}}
  BY <1>5, <1>6, <1>7
<1>9. Catalog!AllResources(items, group, version)
  <2>1. Catalog!Ascending(items, LAMBDA i : 2 * Rank[i.name[1]] + Len(i.name))
    BY <1>5 DEF Catalog!Ascending, RankOfName
  <2> QED
    BY <1>8, <2>1 DEF Catalog!AllResources, Catalog!Ascending, served, resources, ServedIn,
                     ResourcesIn
<1>10. Catalog!AllResources(storeAnswer'.items, group, version)
  <2>1. \A other : other = items => Catalog!AllResources(other, group, version)
    BY <1>9
  <2> QED
    BY <1>2, <2>1
<1> QED
  BY <1>1, <1>2, <1>3, <1>4, <1>10 DEF Catalog!AnswerResources

\* So are the answers that do not depend on the manifests.
LEMMA FixedAnswer ==
    ASSUME NEW path, handleFixed(path)
    PROVE  Catalog!AnswerFixed(path)
<1> DEFINE items == FixedAnswers[path]
<1>1. /\ phase = "serve" /\ response = NoResponse /\ phase' = phase /\ objects' = objects
      /\ response' = [request |-> <<"fixed", path>>, items |-> items]
  BY DEF handleFixed
<1>2. items = Catalog!FixedAnswers[path]
  BY SameWords
<1> HIDE DEF items
<1>3. storeAnswer' = [request |-> <<"fixed", path>>, items |-> items]
  BY <1>1 DEF storeAnswer
<1>4. storeEntries' = storeEntries /\ storeAnswer = Catalog!NoAnswer
  BY <1>1, EntriesKept, NoAnswerYet
<1> QED
  BY <1>1, <1>2, <1>3, <1>4 DEF Catalog!AnswerFixed

\* The client gets its answer.
LEMMA AnswerDelivered ==
    ASSUME AnswerInv, writeJSON
    PROVE  Catalog!Deliver
<1>1. /\ response # NoResponse /\ response' = NoResponse
      /\ phase' = phase /\ objects' = objects
  BY DEF writeJSON
<1>2. storeAnswer' = Catalog!NoAnswer
  BY <1>1, NoAnswerYet
  DEF storeAnswer, NoResponse, Catalog!NoAnswer
<1>3. storeAnswer # Catalog!NoAnswer
  <2>1. "request" \in DOMAIN response /\ response.request # << >>
    BY <1>1 DEF AnswerInv
  <2>2. storeAnswer.request = response.request
    BY <2>1 DEF storeAnswer
  <2> QED
    BY <2>1, <2>2 DEF Catalog!NoAnswer
<1>4. storeEntries' = storeEntries
  BY <1>1, EntriesKept
<1> QED
  BY <1>1, <1>2, <1>3, <1>4 DEF Catalog!Deliver

-----------------------------------------------------------------------------
(* The refinement.                                                         *)

\* What clients see of the answer depends on the answer only.
LEMMA AnswerKept ==
    ASSUME UNCHANGED response
    PROVE  storeAnswer' = storeAnswer
  BY DEF storeAnswer, EntryOf

\* A document that is read is a manifest more, or nothing.
LEMMA ManifestRead ==
    ASSUME ShapeInv, ReadDocument
    PROVE  Catalog!AddManifest \/ UNCHANGED Catalog!catalogVars
<1>1. phase = "parse" /\ phase' = phase /\ response' = response
  BY DEF ReadDocument
<1>2. storeAnswer' = storeAnswer /\ (phase = "serve")' = (phase = "serve")
  BY <1>1, AnswerKept
<1>3. CASE objects' = objects
  BY <1>2, <1>3, EntriesKept DEF Catalog!catalogVars
<1>4. CASE objects' # objects
  <2> DEFINE n == Len(objects)
  <2>1. PICK obj \in Objects :
          /\ DOMAIN objects' = 1..(n + 1) /\ n \in Nat /\ DOMAIN objects = 1..n
          /\ \A i \in 1..n : objects'[i] = objects[i]
    BY <1>4, DocumentRead
  <2> HIDE DEF n
  <2>2. /\ DOMAIN storeEntries = 1..n /\ DOMAIN storeEntries' = 1..(n + 1)
        /\ storeEntries = [i \in 1..n |-> storeEntries[i]]
        /\ storeEntries' = [i \in 1..(n + 1) |-> storeEntries'[i]]
        /\ \A i \in 1..n : storeEntries'[i] = storeEntries[i]
    BY <2>1 DEF storeEntries, EntryOf
  <2>3. Len(storeEntries) = n /\ Len(storeEntries') = n + 1
    BY <2>1, <2>2
  <2>4. SubSeq(storeEntries', 1, n) = storeEntries
    <3>1. \A i \in 1..(n + 1) : storeEntries'[i] \in {storeEntries'[k] : k \in 1..(n + 1)}
      OBVIOUS
    <3>2. storeEntries' \in Seq({storeEntries'[k] : k \in 1..(n + 1)})
      BY <2>1, <2>2, <3>1
    <3>3. SubSeq(storeEntries', 1, n) = [i \in 1..n |-> storeEntries'[i]]
      BY <2>1, <2>3, <3>2
    <3> QED
      BY <2>2, <3>3
  <2> QED
    BY <1>1, <1>2, <2>3, <2>4 DEF Catalog!AddManifest
<1> QED
  BY <1>3, <1>4

\* No other step while the store is built shows to a client, but its end.
LEMMA BuildingIsSilent ==
    ASSUME CatalogInv, [StoreNext]_storeVars, ~ReadDocument, UNCHANGED response
    PROVE  storeEntries' = storeEntries /\ storeAnswer' = storeAnswer
<1>1. /\ DOMAIN objects' = DOMAIN objects
      /\ \A i \in DOMAIN objects : EntryOf(objects'[i]) = EntryOf(objects[i])
  BY EntriesStay DEF CatalogInv, StoreInv, EntryInv
<1>2. storeEntries' = storeEntries
  BY <1>1 DEF storeEntries, EntryOf
<1> QED
  BY <1>2, AnswerKept

\* Every step of the store is a step of the catalog, or nothing to its clients.
LEMMA CatalogStep ==
    ASSUME CatalogInv, [StoreNext]_storeVars
    PROVE  [Catalog!CatalogNext]_(Catalog!catalogVars)
<1> USE DEF Catalog!CatalogNext
<1>1. CASE ReadDocument
  BY <1>1, ManifestRead DEF CatalogInv, StoreInv
<1>2. ASSUME ~ReadDocument, response' = response, (phase = "serve")' = (phase = "serve")
      PROVE  UNCHANGED Catalog!catalogVars
  BY <1>2, BuildingIsSilent DEF Catalog!catalogVars
<1>3. CASE ~ReadDocument /\ (ParseFails \/ EndOfInput \/ CollectObject \/ CollectedAll
                             \/ SynthesizedAll \/ IndexObject)
  <2>1. response' = response /\ (phase = "serve")' = (phase = "serve")
    BY <1>3 DEF ParseFails, EndOfInput, CollectObject, CollectedAll, SynthesizedAll, IndexObject
  <2> QED
    BY <1>2, <1>3, <2>1
<1>4. ASSUME ~ReadDocument, NEW ns \in referencedNS, SynthesizeMissing(ns)
      PROVE  UNCHANGED Catalog!catalogVars
  <2>1. response' = response /\ (phase = "serve")' = (phase = "serve")
    BY <1>4 DEF SynthesizeMissing
  <2> QED
    BY <1>2, <1>4, <2>1
<1>5. CASE ~ReadDocument /\ IndexedAll
  <2>1. phase = "index" /\ phase' = "serve" /\ response' = response
    BY <1>5 DEF IndexedAll
  <2>2. storeEntries' = storeEntries /\ storeAnswer' = storeAnswer
    BY <1>5, <2>1, BuildingIsSilent
  <2> QED
    BY <2>1, <2>2 DEF Catalog!OpenCatalog
<1>6. ASSUME NEW gvr \in Resources, NEW ns \in Namespaces, NEW sel \in Selectors,
             respondList(gvr, ns, sel)
      PROVE  Catalog!CatalogNext
  BY <1>6, ListAnswer
<1>7. ASSUME NEW gvr \in Resources, NEW ns \in Namespaces, NEW name \in Names,
             respondGet(gvr, ns, name)
      PROVE  Catalog!CatalogNext
  BY <1>7, GetAnswer
<1>8. CASE handleAPIs
  BY <1>8, GroupsAnswer
<1>9. ASSUME NEW gvr \in Resources, handleGroupVersionDiscovery(gvr.group, gvr.version)
      PROVE  Catalog!CatalogNext
  BY <1>9, ResourcesAnswer
<1>10. ASSUME NEW path \in DOMAIN FixedAnswers, handleFixed(path)
       PROVE  Catalog!CatalogNext
  <2>1. path \in DOMAIN Catalog!FixedAnswers
    BY SameWords
  <2> QED
    BY <1>10, <2>1, FixedAnswer
<1>11. CASE writeJSON
  BY <1>11, AnswerDelivered DEF CatalogInv, EntryInv
<1>12. CASE ~ReadDocument /\ UNCHANGED storeVars
  <2>1. response' = response /\ (phase = "serve")' = (phase = "serve")
    BY <1>12 DEF storeVars
  <2> QED
    BY <1>2, <1>12, <2>1
<1> HIDE DEF Catalog!CatalogNext
<1> QED
  BY <1>1, <1>3, <1>4, <1>5, <1>6, <1>7, <1>8, <1>9, <1>10, <1>11, <1>12 DEF StoreNext

\* The catalog is empty at first.
LEMMA CatalogStart ==
    ASSUME StoreInit
    PROVE  Catalog!CatalogInit
<1>1. objects = << >> /\ phase = "parse" /\ response = NoResponse
  BY DEF StoreInit
<1>2. storeEntries = << >>
  BY <1>1 DEF storeEntries
<1> QED
  BY <1>1, <1>2, NoAnswerYet DEF Catalog!CatalogInit

\* Clients see the catalog of the documents: for every table of kinds, streams of
\* any length, and every order in which Go goes through the maps of the store.
THEOREM StoreServesTheCatalog == StoreSpec => ImplementsCatalog
<1>1. StoreInit => Catalog!CatalogInit
  BY CatalogStart
<1>2. CatalogInv /\ [StoreNext]_storeVars => [Catalog!CatalogNext]_(Catalog!catalogVars)
  BY CatalogStep
<1> QED
  BY <1>1, <1>2, CatalogInvariant, PTL DEF StoreSpec, ImplementsCatalog, Catalog!CatalogSpec
=============================================================================
