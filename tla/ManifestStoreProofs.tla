------------------------ MODULE ManifestStoreProofs -------------------------
(***************************************************************************)
(* Proofs about ManifestStore, for every table of kinds, every set of      *)
(* streams and streams of any length: what NewStore indexes, where, and    *)
(* that each manifest is there once.                                       *)
(***************************************************************************)
EXTENDS ManifestStore, FoldProofs, SequenceTheorems

\* The objects NewStore can get its hands on.
Spaces == {NoNamespace, "default"} \cup {d.ns : d \in Documents}
Objects ==
    [apiVersion : {<<"v1">>} \cup {d.apiVersion : d \in Documents},
     kind       : {"Namespace"} \cup {d.kind : d \in Documents},
     metadata   : {"map", "null", "absent"},
     parsed     : {"map", "null", "absent"},
     ns         : Spaces,
     name       : {""} \cup Spaces \cup {d.name : d \in Documents},
     labels     : Labels,
     doc        : Nat]

Collected == phase \in {"synthesize", "index", "serve"}
Indexing  == phase \in {"index", "serve"}

\* Objects and buckets are sequences of objects, an object knows its place in
\* the stream, and no bucket is empty.
ShapeInv ==
    /\ phase \in {"parse", "collect", "synthesize", "index", "serve", "failed"}
    /\ unread \in Seq(Documents)
    /\ objects \in Seq(Objects)
    /\ next \in 1..(Len(objects) + 1)
    /\ phase \in {"parse", "synthesize"} => next = 1
    /\ phase = "serve" => next = Len(objects) + 1
    /\ \A i \in DOMAIN objects : objects[i].doc = i
    /\ referencedNS \subseteq Spaces \ {NoNamespace}
    /\ byGVR \in [DOMAIN byGVR -> Seq(Objects)]
    /\ \A b \in DOMAIN byGVR : byGVR[b] # << >>

\* The three maps agree: a kind leads to its resource, and a resource to the kind
\* that was registered for it last and to that kind's scope.
MapsAgree ==
    /\ DOMAIN gvrToGVK = DOMAIN typeInfo
    /\ \A gvk \in DOMAIN gvkToGVR :
         gvkToGVR[gvk] = GvrOf(gvk) /\ GvrOf(gvk) \in DOMAIN typeInfo
    /\ \A gvr \in DOMAIN typeInfo :
         /\ gvrToGVK[gvr] \in DOMAIN gvkToGVR
         /\ GvrOf(gvrToGVK[gvr]) = gvr
         /\ typeInfo[gvr] = LookupType(gvrToGVK[gvr])

\* Every object that was collected has its kind registered, and Namespace comes
\* last.
RegistryInv ==
    /\ MapsAgree
    /\ \A i \in DOMAIN objects :
         Collected \/ (phase = "collect" /\ i < next)
           => gvkOf(objects[i]) \in DOMAIN gvkToGVR
    /\ Collected => /\ NamespaceGVR \in DOMAIN typeInfo
                    /\ typeInfo[NamespaceGVR] = LookupType(NamespaceGVK)

\* Where the last loop puts an object.
PlaceOf(obj) ==
    <<GvrOf(gvkOf(obj)),
      IF typeInfo[GvrOf(gvkOf(obj))].namespaced THEN obj.ns ELSE NoNamespace>>

\* What is in a bucket was made up, or is an object that the last loop has been
\* at, as it is now, in its place; in the order of the documents; and every
\* object the last loop has been at is there.
IndexInv ==
    /\ ~(Indexing \/ phase = "synthesize") => DOMAIN byGVR = {}
    /\ \A b \in DOMAIN byGVR : \A j \in DOMAIN byGVR[b] :
         LET obj == byGVR[b][j]
         IN  IF obj.doc = 0
             THEN b = <<NamespaceGVR, NoNamespace>> /\ gvkOf(obj) = NamespaceGVK
             ELSE /\ Indexing /\ obj.doc < next
                  /\ obj = objects[obj.doc] /\ b = PlaceOf(obj)
    /\ \A b \in DOMAIN byGVR : \A j, k \in DOMAIN byGVR[b] : j < k =>
         /\ byGVR[b][j].doc <= byGVR[b][k].doc
         /\ byGVR[b][j].doc = byGVR[b][k].doc => byGVR[b][j].doc = 0
    /\ Indexing => \A i \in 1..(next - 1) :
         /\ PlaceOf(objects[i]) \in DOMAIN byGVR
         /\ \E j \in DOMAIN byGVR[PlaceOf(objects[i])] :
              byGVR[PlaceOf(objects[i])][j].doc = i

\* The namespaces that were made up, each of them once.
MadeUp ==
    LET spaces == Bucket(NamespaceGVR, NoNamespace)
    IN  {spaces[j].name : j \in {k \in DOMAIN spaces : spaces[k].doc = 0}}

MadeUpOnce ==
    LET spaces == Bucket(NamespaceGVR, NoNamespace)
    IN  \A i, j \in DOMAIN spaces :
          spaces[i].doc = 0 /\ spaces[j].doc = 0 /\ spaces[i].name = spaces[j].name
            => i = j

\* A namespace that some namespaced object is in, or "default", is still to visit,
\* or defined, or made up; what is made up is not defined, not to be visited
\* again, and there once.
NamespaceInv ==
    /\ Collected => "default" \in referencedNS \cup definedNS \cup MadeUp
    /\ \A i \in DOMAIN objects :
         /\ Collected \/ (phase = "collect" /\ i < next)
         /\ LookupType(gvkOf(objects[i])).namespaced
         /\ objects[i].ns # NoNamespace
         => objects[i].ns \in referencedNS \cup definedNS \cup MadeUp
    /\ Indexing => referencedNS = {}
    /\ MadeUp \cap (definedNS \cup referencedNS) = {}
    /\ MadeUpOnce

StoreInv == ShapeInv /\ RegistryInv /\ IndexInv /\ NamespaceInv

-----------------------------------------------------------------------------
(* What the operators do.                                                  *)

\* A kind is namespaced or not.
LEMMA ScopeIsBoolean ==
    ASSUME NEW gvk
    PROVE  LookupType(gvk).namespaced \in BOOLEAN
  BY TypesAssumption DEF LookupType

\* Everything is kept where it is and one object put at the end of its bucket.
Added(p, obj) ==
    /\ byGVR' \in [DOMAIN byGVR' -> Seq(Objects)]
    /\ \A b \in DOMAIN byGVR' : byGVR'[b] # << >>
    /\ DOMAIN byGVR' = DOMAIN byGVR \cup {p}
    /\ \A b \in DOMAIN byGVR : \A j \in DOMAIN byGVR[b] :
         j \in DOMAIN byGVR'[b] /\ byGVR'[b][j] = byGVR[b][j]
    /\ \A b \in DOMAIN byGVR' : \A j \in DOMAIN byGVR'[b] :
         \/ /\ b \in DOMAIN byGVR /\ j \in DOMAIN byGVR[b]
            /\ byGVR'[b][j] = byGVR[b][j]
         \/ /\ b = p /\ j = Len(byGVR'[p])
            /\ byGVR'[b][j] = obj
    /\ Len(byGVR'[p]) \in DOMAIN byGVR'[p]
    /\ byGVR'[p][Len(byGVR'[p])] = obj

\* What addToIndexes does to one bucket, and that it touches no other.
LEMMA AddEffect ==
    ASSUME NEW gvr, NEW ns, NEW obj \in Objects,
           byGVR \in [DOMAIN byGVR -> Seq(Objects)],
           \A b \in DOMAIN byGVR : byGVR[b] # << >>,
           add(gvr, ns, obj)
    PROVE  Added(<<gvr, ns>>, obj)
<1> DEFINE p    == <<gvr, ns>>
           old  == IF p \in DOMAIN byGVR THEN byGVR[p] ELSE << >>
<1>1. old \in Seq(Objects)
  BY EmptySeq
<1>2. byGVR' = [b \in DOMAIN byGVR \cup {p} |->
                  IF b = p THEN Append(old, obj) ELSE byGVR[b]]
  <2>1. Append(<< >>, obj) = <<obj>>
    OBVIOUS
  <2> QED
    BY <2>1 DEF add, Put
<1> HIDE DEF p, old
<1>3. /\ Append(old, obj) \in Seq(Objects)
      /\ Append(old, obj) # << >>
      /\ Len(Append(old, obj)) = Len(old) + 1
      /\ DOMAIN Append(old, obj) = 1..(Len(old) + 1)
      /\ DOMAIN old = 1..Len(old)
      /\ Len(old) \in Nat
      /\ Append(old, obj)[Len(old) + 1] = obj
      /\ \A j \in 1..Len(old) : Append(old, obj)[j] = old[j]
  BY <1>1
<1>4. DOMAIN byGVR' = DOMAIN byGVR \cup {p}
  BY <1>2
<1>5. byGVR'[p] = Append(old, obj)
  BY <1>2
<1>6. \A b \in DOMAIN byGVR : b # p => byGVR'[b] = byGVR[b]
  BY <1>2
<1>7. p \in DOMAIN byGVR => old = byGVR[p]
  BY DEF old
<1>8. p \notin DOMAIN byGVR => Len(old) = 0
  BY DEF old
<1>9. byGVR' \in [DOMAIN byGVR' -> Seq(Objects)]
  BY <1>2, <1>3, <1>4
<1>10. \A b \in DOMAIN byGVR' : byGVR'[b] # << >>
  BY <1>3, <1>4, <1>5, <1>6
<1>11. \A b \in DOMAIN byGVR : \A j \in DOMAIN byGVR[b] :
         j \in DOMAIN byGVR'[b] /\ byGVR'[b][j] = byGVR[b][j]
  BY <1>3, <1>5, <1>6, <1>7
<1>12. ASSUME NEW b \in DOMAIN byGVR', NEW j \in DOMAIN byGVR'[b]
       PROVE  \/ /\ b \in DOMAIN byGVR /\ j \in DOMAIN byGVR[b]
                 /\ byGVR'[b][j] = byGVR[b][j]
              \/ /\ b = p /\ j = Len(byGVR'[p])
                 /\ byGVR'[b][j] = obj
  <2>1. CASE b # p
    BY <2>1, <1>4, <1>6
  <2>2. CASE b = p /\ j \in 1..Len(old)
    BY <2>2, <1>3, <1>5, <1>7, <1>8
  <2>3. CASE b = p /\ j = Len(old) + 1
    BY <2>3, <1>3, <1>5
  <2> QED
    BY <2>1, <2>2, <2>3, <1>3, <1>5
<1>13. /\ Len(byGVR'[p]) \in DOMAIN byGVR'[p]
       /\ byGVR'[p][Len(byGVR'[p])] = obj
  BY <1>3, <1>5
<1> QED
  BY <1>4, <1>9, <1>10, <1>11, <1>12, <1>13 DEF p, Added

\* What parsing, defaulting, enriching and making up return are objects; what is
\* changed in place keeps its kind, its name and its place.
LEMMA ParsedObject ==
    ASSUME NEW d \in Documents, d.form \notin {"unreadable", "incomplete"},
           NEW i \in Nat
    PROVE  ObjectOf(d, i) \in Objects /\ ObjectOf(d, i).doc = i
<1>1. d.metadata \in {"map", "null", "absent"} /\ d.labels \in Labels
  BY StreamsAssumption DEF Complete
<1>2. {} \in Labels
  BY TypesAssumption
<1> QED
  BY <1>1, <1>2 DEF ObjectOf, Objects, Spaces, NoNamespace, NoLabels

Same(o, obj) ==
    /\ o.apiVersion = obj.apiVersion /\ o.kind = obj.kind
    /\ o.name = obj.name /\ o.labels = obj.labels
    /\ o.parsed = obj.parsed /\ o.doc = obj.doc
    /\ gvkOf(o) = gvkOf(obj)

\* The default namespace changes nothing of an object but its namespace.
LEMMA DefaultedObject ==
    ASSUME NEW obj \in Objects
    PROVE  /\ SetNamespace(obj, "default") \in Objects
           /\ Same(SetNamespace(obj, "default"), obj)
           /\ SetNamespace(obj, "default").ns \in {obj.ns, "default"}
  BY DEF SetNamespace, Objects, Same, gvkOf, Spaces

\* The metadata that the store adds leaves identity and namespace alone.
LEMMA EnrichedObject ==
    ASSUME NEW obj \in Objects
    PROVE  /\ enrichMetadata(obj) \in Objects
           /\ Same(enrichMetadata(obj), obj)
           /\ enrichMetadata(obj).ns = obj.ns
  BY DEF enrichMetadata, Objects, Same, gvkOf

\* A synthesized namespace is an object without a document, of its own name.
LEMMA MadeUpObject ==
    ASSUME NEW ns \in Spaces
    PROVE  LET made == enrichMetadata(synthesizeNamespace(ns))
           IN  /\ made \in Objects
               /\ made.doc = 0 /\ made.name = ns
               /\ gvkOf(made) = NamespaceGVK
<1> DEFINE space == synthesizeNamespace(ns)
<1>1. {} \in Labels
  BY TypesAssumption
<1>2. /\ space \in Objects
      /\ space.doc = 0 /\ space.name = ns
      /\ space.apiVersion = <<"v1">> /\ space.kind = "Namespace"
  BY <1>1 DEF synthesizeNamespace, Objects, Spaces, NoNamespace, NoLabels
<1>3. gvkOf(space) = NamespaceGVK
  BY <1>2 DEF gvkOf, NamespaceGVK
<1> HIDE DEF space
<1> QED
  BY <1>2, <1>3, EnrichedObject DEF Same, space

-----------------------------------------------------------------------------
(* Only loading changes the store.                                         *)

Loading ==
    \/ ReadDocument \/ ParseFails \/ EndOfInput
    \/ CollectObject \/ CollectedAll
    \/ \E ns \in referencedNS : SynthesizeMissing(ns)
    \/ SynthesizedAll \/ IndexObject \/ IndexedAll

loadedVars == <<phase, unread, objects, next, referencedNS, typeVars, byGVR>>

\* A handler leaves the store as it is, so requests do not see one another.
LEMMA OnlyLoadingWrites ==
    ASSUME [StoreNext]_storeVars
    PROVE  Loading \/ UNCHANGED loadedVars
<1>1. CASE UNCHANGED storeVars
  BY <1>1 DEF storeVars, loadedVars
<1>2. ASSUME NEW gvr, NEW ns, NEW sel, respondList(gvr, ns, sel)
      PROVE  UNCHANGED loadedVars
  BY <1>2 DEF respondList, loadedVars
<1>3. ASSUME NEW gvr, NEW ns, NEW name, respondGet(gvr, ns, name)
      PROVE  UNCHANGED loadedVars
  BY <1>3 DEF respondGet, loadedVars
<1>4. ASSUME handleAPIs
      PROVE  UNCHANGED loadedVars
  BY <1>4 DEF handleAPIs, loadedVars
<1>5. ASSUME NEW group, NEW version, handleGroupVersionDiscovery(group, version)
      PROVE  UNCHANGED loadedVars
  BY <1>5 DEF handleGroupVersionDiscovery, loadedVars
<1>6. ASSUME NEW path, handleFixed(path)
      PROVE  UNCHANGED loadedVars
  BY <1>6 DEF handleFixed, loadedVars
<1>7. ASSUME writeJSON
      PROVE  UNCHANGED loadedVars
  BY <1>7 DEF writeJSON, loadedVars
<1> QED
  BY <1>1, <1>2, <1>3, <1>4, <1>5, <1>6, <1>7 DEF StoreNext, Loading

-----------------------------------------------------------------------------
(* The shape of the store.                                                 *)

\* The store starts empty.
LEMMA ShapeInit ==
    ASSUME StoreInit
    PROVE  ShapeInv
<1>1. unread \in Seq(Documents)
  BY StreamsAssumption DEF StoreInit
<1>2. /\ objects = << >> /\ next = 1 /\ DOMAIN byGVR = {}
      /\ phase = "parse" /\ referencedNS = {}
  BY DEF StoreInit, EmptyMap
<1>3. byGVR \in [DOMAIN byGVR -> Seq(Objects)]
  BY <1>2 DEF StoreInit, EmptyMap
<1> QED
  BY <1>1, <1>2, <1>3, EmptySeq DEF ShapeInv

\* Loading keeps the shape; requests do not write to the store.
LEMMA ShapeStep ==
    ASSUME ShapeInv, [StoreNext]_storeVars
    PROVE  ShapeInv'
<1> USE DEF ShapeInv
<1> DEFINE Places == \A i \in DOMAIN objects : objects[i].doc = i
<1>0. Len(objects) \in Nat /\ DOMAIN objects = 1..Len(objects)
  OBVIOUS
<1>1. CASE ReadDocument
  <2> USE <1>1
  <2>1. /\ unread # << >> /\ unread' = Tail(unread)
        /\ UNCHANGED <<phase, next, referencedNS, byGVR>>
        /\ phase = "parse"
    BY DEF ReadDocument
  <2>2. Head(unread) \in Documents /\ unread' \in Seq(Documents)
    BY <2>1
  <2>3. CASE Head(unread).form = "incomplete"
    BY <2>1, <2>2, <2>3 DEF ReadDocument
  <2>4. CASE Head(unread).form # "incomplete"
    <3> DEFINE obj == ObjectOf(Head(unread), Len(objects) + 1)
    <3>1. obj \in Objects /\ obj.doc = Len(objects) + 1
      BY <2>2, <2>4, ParsedObject, <1>0 DEF ReadDocument
    <3>2. objects' = Append(objects, obj)
      BY <2>4 DEF ReadDocument
    <3> HIDE DEF obj
    <3>3. /\ objects' \in Seq(Objects)
          /\ Len(objects') = Len(objects) + 1
          /\ DOMAIN objects' = 1..(Len(objects) + 1)
          /\ \A i \in 1..Len(objects) : objects'[i] = objects[i]
          /\ objects'[Len(objects) + 1] = obj
      BY <3>1, <3>2
    <3>4. Places'
      BY <3>1, <3>3, <1>0
    <3> QED
      BY <2>1, <2>2, <3>3, <3>4, <1>0
  <2> QED
    BY <2>3, <2>4
<1>2. CASE ParseFails \/ EndOfInput
  BY <1>2 DEF ParseFails, EndOfInput
<1>3. CASE CollectObject
  <2> USE <1>3
  <2> DEFINE obj == objects[next]
             ns  == IF obj.ns = NoNamespace THEN "default" ELSE obj.ns
  <2>1. /\ next <= Len(objects) /\ next' = next + 1
        /\ phase = "collect" /\ UNCHANGED <<phase, unread, byGVR>>
    BY DEF CollectObject
  <2>2. obj \in Objects /\ next \in DOMAIN objects
    BY <2>1, <1>0
  <2>3. ns \in Spaces \ {NoNamespace}
    BY <2>2 DEF Objects, Spaces, NoNamespace
  <2>4. referencedNS' \subseteq Spaces \ {NoNamespace}
    BY <2>3 DEF CollectObject
  <2>5. \/ objects' = objects
        \/ objects' = [objects EXCEPT ![next] = SetNamespace(obj, "default")]
    BY DEF CollectObject
  <2>6. CASE objects' = objects
    BY <2>1, <2>4, <2>6, <1>0
  <2>7. CASE objects' = [objects EXCEPT ![next] = SetNamespace(obj, "default")]
    <3>1. /\ SetNamespace(obj, "default") \in Objects
          /\ SetNamespace(obj, "default").doc = next
      BY <2>2, DefaultedObject DEF Same
    <3> HIDE DEF obj
    <3>2. /\ objects' \in Seq(Objects) /\ Len(objects') = Len(objects)
          /\ DOMAIN objects' = DOMAIN objects
      BY <2>2, <2>7, <3>1
    <3>3. Places'
      BY <2>2, <2>7, <3>1, <3>2
    <3> QED
      BY <2>1, <2>4, <3>2, <3>3, <1>0
  <2> QED
    BY <2>5, <2>6, <2>7
<1>4. CASE CollectedAll
  <2>1. /\ phase' = "synthesize" /\ next' = 1
        /\ referencedNS' = referencedNS \cup {"default"}
        /\ UNCHANGED <<unread, objects, byGVR>>
    BY <1>4 DEF CollectedAll
  <2>2. "default" \in Spaces \ {NoNamespace}
    BY DEF Spaces, NoNamespace
  <2> QED
    BY <2>1, <2>2, <1>0
<1>5. ASSUME NEW ns \in referencedNS, SynthesizeMissing(ns)
      PROVE  ShapeInv'
  <2> DEFINE made == enrichMetadata(synthesizeNamespace(ns))
  <2>1. UNCHANGED <<phase, unread, objects, next>>
    BY <1>5 DEF SynthesizeMissing
  <2>2. referencedNS' \subseteq Spaces \ {NoNamespace}
    BY <1>5 DEF SynthesizeMissing
  <2>3. CASE UNCHANGED byGVR
    BY <2>1, <2>2, <2>3
  <2>4. CASE add(NamespaceGVR, NoNamespace, made)
    <3>1. made \in Objects
      BY MadeUpObject
    <3>2. /\ byGVR' \in [DOMAIN byGVR' -> Seq(Objects)]
          /\ \A b \in DOMAIN byGVR' : byGVR'[b] # << >>
      BY <2>4, <3>1, AddEffect DEF Added
    <3> QED
      BY <2>1, <2>2, <3>2
  <2> QED
    BY <1>5, <2>3, <2>4 DEF SynthesizeMissing
<1>6. CASE SynthesizedAll \/ IndexedAll
  BY <1>6, <1>0 DEF SynthesizedAll, IndexedAll
<1>7. CASE IndexObject
  <2> USE <1>7
  <2> DEFINE obj == objects[next]
             gvr == gvkToGVR[gvkOf(obj)]
             ns  == IF typeInfo[gvr].namespaced THEN obj.ns ELSE NoNamespace
  <2>1. /\ next <= Len(objects) /\ next' = next + 1
        /\ phase = "index" /\ UNCHANGED <<phase, unread, referencedNS>>
        /\ add(gvr, ns, enrichMetadata(obj))
        /\ objects' = [objects EXCEPT ![next] = enrichMetadata(obj)]
    BY DEF IndexObject
  <2>2. obj \in Objects /\ next \in DOMAIN objects
    BY <2>1, <1>0
  <2>3. /\ enrichMetadata(obj) \in Objects
        /\ enrichMetadata(obj).doc = next
    BY <2>2, EnrichedObject DEF Same
  <2>4. /\ byGVR' \in [DOMAIN byGVR' -> Seq(Objects)]
        /\ \A b \in DOMAIN byGVR' : byGVR'[b] # << >>
    BY <2>1, <2>3, AddEffect DEF Added
  <2> HIDE DEF obj
  <2>5. /\ objects' \in Seq(Objects) /\ Len(objects') = Len(objects)
        /\ DOMAIN objects' = DOMAIN objects
    BY <2>1, <2>2, <2>3
  <2>6. Places'
    BY <2>1, <2>2, <2>3, <2>5
  <2> QED
    BY <2>1, <2>4, <2>5, <2>6, <1>0
<1>8. CASE UNCHANGED loadedVars
  BY <1>8 DEF loadedVars
<1> QED
  BY <1>1, <1>2, <1>3, <1>4, <1>5, <1>6, <1>7, <1>8, OnlyLoadingWrites DEF Loading

-----------------------------------------------------------------------------
(* The maps of kinds and resources.                                        *)

\* Registering a kind keeps the maps in agreement, and all kinds they had.
LEMMA RegisterEffect ==
    ASSUME MapsAgree, NEW gvk, RegisterType(gvk)
    PROVE  /\ MapsAgree'
           /\ DOMAIN gvkToGVR' = DOMAIN gvkToGVR \cup {gvk}
           /\ GvrOf(gvk) \in DOMAIN typeInfo'
           /\ typeInfo'[GvrOf(gvk)] = LookupType(gvk)
<1>1. /\ DOMAIN typeInfo' = DOMAIN typeInfo \cup {GvrOf(gvk)}
      /\ DOMAIN gvrToGVK' = DOMAIN gvrToGVK \cup {GvrOf(gvk)}
      /\ DOMAIN gvkToGVR' = DOMAIN gvkToGVR \cup {gvk}
  BY DEF RegisterType, Put
<1>2. /\ typeInfo'[GvrOf(gvk)] = LookupType(gvk)
      /\ gvrToGVK'[GvrOf(gvk)] = gvk
      /\ gvkToGVR'[gvk] = GvrOf(gvk)
  BY DEF RegisterType, Put
<1>3. /\ \A r \in DOMAIN typeInfo : r # GvrOf(gvk) => typeInfo'[r] = typeInfo[r]
      /\ \A r \in DOMAIN gvrToGVK : r # GvrOf(gvk) => gvrToGVK'[r] = gvrToGVK[r]
      /\ \A k \in DOMAIN gvkToGVR : k # gvk => gvkToGVR'[k] = gvkToGVR[k]
  BY DEF RegisterType, Put
<1>4. \A k \in DOMAIN gvkToGVR' :
        gvkToGVR'[k] = GvrOf(k) /\ GvrOf(k) \in DOMAIN typeInfo'
  BY <1>1, <1>2, <1>3 DEF MapsAgree
<1>5. \A r \in DOMAIN typeInfo' :
        /\ gvrToGVK'[r] \in DOMAIN gvkToGVR'
        /\ GvrOf(gvrToGVK'[r]) = r
        /\ typeInfo'[r] = LookupType(gvrToGVK'[r])
  BY <1>1, <1>2, <1>3 DEF MapsAgree
<1>6. DOMAIN gvrToGVK' = DOMAIN typeInfo'
  BY <1>1 DEF MapsAgree
<1> QED
  BY <1>1, <1>2, <1>4, <1>5, <1>6 DEF MapsAgree

\* No type is registered at first.
LEMMA RegistryInit ==
    ASSUME StoreInit
    PROVE  RegistryInv
  BY DEF StoreInit, EmptyMap, RegistryInv, MapsAgree, Collected

\* Every registration enters a type in the three maps at once.
LEMMA RegistryStep ==
    ASSUME ShapeInv, RegistryInv, [StoreNext]_storeVars
    PROVE  RegistryInv'
<1> USE DEF RegistryInv, Collected
<1>0. /\ objects \in Seq(Objects) /\ Len(objects) \in Nat
      /\ DOMAIN objects = 1..Len(objects)
      /\ next \in 1..(Len(objects) + 1)
  BY DEF ShapeInv
<1>1. CASE ReadDocument \/ ParseFails \/ EndOfInput
  <2>1. /\ phase = "parse" /\ phase' \in {"parse", "failed", "collect"}
        /\ UNCHANGED typeVars
    BY <1>1 DEF ReadDocument, ParseFails, EndOfInput
  <2>2. MapsAgree'
    BY <2>1 DEF MapsAgree, typeVars
  <2>3. phase' = "collect" => next' = 1
    BY <1>1, <2>1 DEF ReadDocument, ParseFails, EndOfInput, ShapeInv
  <2>4. phase' = "collect" => objects' = objects
    BY <1>1, <2>1 DEF ReadDocument, ParseFails, EndOfInput
  <2> QED
    BY <2>1, <2>2, <2>3, <2>4, <1>0
<1>2. CASE CollectObject
  <2> USE <1>2
  <2> DEFINE obj == objects[next]
  <2>1. /\ next <= Len(objects) /\ next' = next + 1
        /\ phase = "collect" /\ phase' = phase
        /\ RegisterType(gvkOf(obj))
    BY DEF CollectObject
  <2>2. obj \in Objects /\ next \in DOMAIN objects
    BY <2>1, <1>0
  <2>3. MapsAgree' /\ DOMAIN gvkToGVR' = DOMAIN gvkToGVR \cup {gvkOf(obj)}
    BY <2>1, RegisterEffect
  <2>4. \/ objects' = objects
        \/ objects' = [objects EXCEPT ![next] = SetNamespace(obj, "default")]
    BY DEF CollectObject
  <2>5. gvkOf(SetNamespace(obj, "default")) = gvkOf(obj)
    BY <2>2, DefaultedObject DEF Same
  <2> HIDE DEF obj
  <2>6. /\ DOMAIN objects' = DOMAIN objects
        /\ \A i \in DOMAIN objects : i # next => objects'[i] = objects[i]
        /\ gvkOf(objects'[next]) = gvkOf(obj)
    BY <2>2, <2>4, <2>5 DEF obj
  <2>7. ASSUME NEW i \in DOMAIN objects', i < next'
        PROVE  gvkOf(objects'[i]) \in DOMAIN gvkToGVR'
    BY <2>1, <2>3, <2>6, <2>7, <1>0
  <2> QED
    BY <2>1, <2>3, <2>7
<1>3. CASE CollectedAll
  <2>1. /\ next > Len(objects) /\ objects' = objects
        /\ phase = "collect" /\ phase' = "synthesize"
        /\ RegisterType(NamespaceGVK)
    BY <1>3 DEF CollectedAll
  <2>2. /\ MapsAgree' /\ DOMAIN gvkToGVR \subseteq DOMAIN gvkToGVR'
        /\ NamespaceGVR \in DOMAIN typeInfo'
        /\ typeInfo'[NamespaceGVR] = LookupType(NamespaceGVK)
    BY <2>1, RegisterEffect DEF NamespaceGVR
  <2> QED
    BY <2>1, <2>2, <1>0
<1>4. CASE \/ \E ns \in referencedNS : SynthesizeMissing(ns)
           \/ SynthesizedAll \/ IndexedAll \/ UNCHANGED loadedVars
  <2>1. /\ UNCHANGED <<typeVars, objects>>
        /\ \/ Collected /\ Collected'
           \/ UNCHANGED <<phase, next>>
    BY <1>4 DEF SynthesizeMissing, SynthesizedAll, IndexedAll, loadedVars
  <2>2. MapsAgree'
    BY <2>1 DEF MapsAgree, typeVars
  <2> QED
    BY <2>1, <2>2 DEF typeVars
<1>5. CASE IndexObject
  <2> DEFINE obj == objects[next]
  <2>1. /\ next <= Len(objects) /\ phase = "index" /\ phase' = phase
        /\ objects' = [objects EXCEPT ![next] = enrichMetadata(obj)]
        /\ UNCHANGED typeVars
    BY <1>5 DEF IndexObject
  <2>2. gvkOf(enrichMetadata(obj)) = gvkOf(obj) /\ next \in DOMAIN objects
    BY <2>1, <1>0, EnrichedObject DEF Same
  <2>3. MapsAgree'
    BY <2>1 DEF MapsAgree, typeVars
  <2> HIDE DEF obj
  <2>4. \A i \in DOMAIN objects' :
          i \in DOMAIN objects /\ gvkOf(objects'[i]) = gvkOf(objects[i])
    BY <2>1, <2>2 DEF obj
  <2> QED
    BY <2>1, <2>3, <2>4 DEF typeVars
<1> QED
  BY <1>1, <1>2, <1>3, <1>4, <1>5, OnlyLoadingWrites DEF Loading

-----------------------------------------------------------------------------
(* The index.                                                              *)

\* No object is collected and none indexed at first.
LEMMA IndexInit ==
    ASSUME StoreInit
    PROVE  IndexInv
  BY DEF StoreInit, EmptyMap, IndexInv, Indexing

\* An object is collected before its turn and put into one bucket at its turn.
LEMMA IndexStep ==
    ASSUME ShapeInv, ShapeInv', RegistryInv, IndexInv, [StoreNext]_storeVars
    PROVE  IndexInv'
<1> USE DEF Indexing
<1>0. /\ objects \in Seq(Objects) /\ Len(objects) \in Nat
      /\ DOMAIN objects = 1..Len(objects)
      /\ next \in 1..(Len(objects) + 1)
      /\ byGVR \in [DOMAIN byGVR -> Seq(Objects)]
      /\ \A b \in DOMAIN byGVR : byGVR[b] # << >>
      /\ \A i \in DOMAIN objects : objects[i].doc = i
  BY DEF ShapeInv
<1>1. CASE \/ ReadDocument \/ ParseFails \/ EndOfInput
           \/ CollectObject \/ CollectedAll
  <2>1. /\ phase \in {"parse", "collect"}
        /\ phase' \in {"parse", "failed", "collect", "synthesize"}
        /\ UNCHANGED byGVR
    BY <1>1 DEF ReadDocument, ParseFails, EndOfInput, CollectObject, CollectedAll
  <2>2. DOMAIN byGVR = {}
    BY <2>1 DEF IndexInv
  <2> QED
    BY <2>1, <2>2 DEF IndexInv
<1>2. ASSUME NEW space \in referencedNS, SynthesizeMissing(space)
      PROVE  IndexInv'
  <2> DEFINE made == enrichMetadata(synthesizeNamespace(space))
             p    == <<NamespaceGVR, NoNamespace>>
  <2>1. phase = "synthesize" /\ phase' = phase
    BY <1>2 DEF SynthesizeMissing
  <2>2. CASE UNCHANGED byGVR
    BY <2>1, <2>2 DEF IndexInv
  <2>3. CASE add(NamespaceGVR, NoNamespace, made)
    <3>1. made \in Objects /\ made.doc = 0 /\ gvkOf(made) = NamespaceGVK
      BY MadeUpObject DEF ShapeInv
    <3> HIDE DEF made
    <3>2. Added(p, made)
      BY <2>3, <3>1, <1>0, AddEffect
    <3>3. \A b \in DOMAIN byGVR : \A j \in DOMAIN byGVR[b] :
            /\ byGVR[b][j].doc = 0
            /\ b = p /\ gvkOf(byGVR[b][j]) = NamespaceGVK
      BY <2>1 DEF IndexInv
    <3>4. \A b \in DOMAIN byGVR' : \A j \in DOMAIN byGVR'[b] :
            /\ byGVR'[b][j].doc = 0
            /\ b = p /\ gvkOf(byGVR'[b][j]) = NamespaceGVK
      BY <3>1, <3>2, <3>3 DEF Added
    <3> QED
      BY <2>1, <3>4 DEF IndexInv
  <2> QED
    BY <1>2, <2>2, <2>3 DEF SynthesizeMissing
<1>3. CASE SynthesizedAll
  <2>1. /\ phase = "synthesize" /\ phase' = "index" /\ next = 1
        /\ UNCHANGED <<objects, next, typeVars, byGVR>>
    BY <1>3 DEF SynthesizedAll, ShapeInv
  <2>2. \A b \in DOMAIN byGVR : \A j \in DOMAIN byGVR[b] :
          /\ byGVR[b][j].doc = 0
          /\ b = <<NamespaceGVR, NoNamespace>>
          /\ gvkOf(byGVR[b][j]) = NamespaceGVK
    BY <2>1 DEF IndexInv
  <2> QED
    BY <2>1, <2>2 DEF IndexInv
<1>4. CASE IndexObject
  <2> DEFINE obj == objects[next]
             put == enrichMetadata(obj)
             p   == PlaceOf(obj)
  <2>1. /\ next <= Len(objects) /\ next' = next + 1
        /\ phase = "index" /\ phase' = phase
        /\ objects' = [objects EXCEPT ![next] = put]
        /\ UNCHANGED typeVars
    BY <1>4 DEF IndexObject
  <2>2. obj \in Objects /\ next \in DOMAIN objects /\ obj.doc = next
    BY <2>1, <1>0
  <2>3. /\ put \in Objects /\ put.doc = next /\ put.ns = obj.ns
        /\ gvkOf(put) = gvkOf(obj)
    BY <2>2, EnrichedObject DEF Same
  <2>4. gvkToGVR[gvkOf(obj)] = GvrOf(gvkOf(obj))
    BY <2>1, <2>2 DEF RegistryInv, MapsAgree, Collected
  <2>5. add(p[1], p[2], put) /\ p = <<p[1], p[2]>>
    BY <1>4, <2>4 DEF IndexObject, PlaceOf
  <2>6. typeInfo' = typeInfo
    BY <2>1 DEF typeVars
  <2>7. /\ DOMAIN objects' = DOMAIN objects
        /\ \A i \in DOMAIN objects : i # next => objects'[i] = objects[i]
        /\ objects'[next] = put
    BY <2>1, <2>2
  <2>8. PlaceOf(put) = p
    BY <2>3 DEF PlaceOf
  <2> HIDE DEF obj, put, p
  <2>9. Added(p, put)
    BY <2>3, <2>5, <1>0, AddEffect
  <2>10. \A b \in DOMAIN byGVR : \A j \in DOMAIN byGVR[b] :
           /\ byGVR[b][j] \in Objects
           /\ byGVR[b][j].doc \in Nat /\ byGVR[b][j].doc < next
    <3>1. \A b \in DOMAIN byGVR : \A j \in DOMAIN byGVR[b] :
            byGVR[b][j] \in Objects
      BY <1>0
    <3>2. \A o \in Objects : o.doc \in Nat
      BY DEF Objects
    <3> QED
      BY <3>1, <3>2, <1>0 DEF IndexInv
  <2>11. ASSUME NEW b \in DOMAIN byGVR', NEW j \in DOMAIN byGVR'[b]
         PROVE  LET o == byGVR'[b][j]
                IN  IF o.doc = 0
                    THEN b = <<NamespaceGVR, NoNamespace>> /\ gvkOf(o) = NamespaceGVK
                    ELSE /\ o.doc < next'
                         /\ o = objects'[o.doc] /\ b = PlaceOf(o)
    <3>1. CASE /\ b \in DOMAIN byGVR /\ j \in DOMAIN byGVR[b]
               /\ byGVR'[b][j] = byGVR[b][j]
      <4>1. LET o == byGVR[b][j]
            IN  IF o.doc = 0
                THEN b = <<NamespaceGVR, NoNamespace>> /\ gvkOf(o) = NamespaceGVK
                ELSE o.doc < next /\ o = objects[o.doc] /\ b = PlaceOf(o)
        BY <3>1 DEF IndexInv
      <4>2. byGVR[b][j] \in Objects /\ byGVR[b][j].doc \in Nat
        BY <3>1, <2>10
      <4>3. byGVR[b][j].doc # 0 =>
              /\ byGVR[b][j].doc \in DOMAIN objects
              /\ byGVR[b][j].doc # next
        BY <4>1, <4>2, <1>0
      <4> QED
        BY <3>1, <4>1, <4>2, <4>3, <2>1, <2>7, <1>0
    <3>2. CASE b = p /\ byGVR'[b][j] = put
      BY <3>2, <2>1, <2>3, <2>7, <2>8, <1>0
    <3> QED
      BY <3>1, <3>2, <2>9 DEF Added
  <2>12. ASSUME NEW b \in DOMAIN byGVR', NEW j \in DOMAIN byGVR'[b],
                NEW k \in DOMAIN byGVR'[b], j < k
         PROVE  /\ byGVR'[b][j].doc <= byGVR'[b][k].doc
                /\ byGVR'[b][j].doc = byGVR'[b][k].doc => byGVR'[b][j].doc = 0
    <3>1. /\ b \in DOMAIN byGVR /\ j \in DOMAIN byGVR[b]
          /\ byGVR'[b][j] = byGVR[b][j]
      <4>1. DOMAIN byGVR'[b] = 1..Len(byGVR'[b]) /\ Len(byGVR'[b]) \in Nat
        BY DEF ShapeInv
      <4>2. j # Len(byGVR'[b])
        BY <2>12, <4>1
      <4> QED
        BY <4>2, <2>9 DEF Added
    <3>2. CASE k \in DOMAIN byGVR[b] /\ byGVR'[b][k] = byGVR[b][k]
      BY <2>12, <3>1, <3>2 DEF IndexInv
    <3>3. CASE byGVR'[b][k] = put
      BY <3>1, <3>3, <2>3, <2>10, <1>0
    <3> QED
      BY <3>2, <3>3, <2>9 DEF Added
  <2>13. ASSUME NEW i \in 1..(next' - 1)
         PROVE  LET q == PlaceOf(objects'[i])
                IN  /\ q \in DOMAIN byGVR'
                    /\ \E j \in DOMAIN byGVR'[q] : byGVR'[q][j].doc = i
    <3>1. CASE i = next
      <4>1. PlaceOf(objects'[i]) = p
        BY <3>1, <2>7, <2>8
      <4> QED
        BY <4>1, <3>1, <2>3, <2>9 DEF Added
    <3>2. CASE i \in 1..(next - 1)
      <4> DEFINE q == PlaceOf(objects[i])
      <4>1. i \in DOMAIN objects /\ objects'[i] = objects[i] /\ objects[i] \in Objects
        BY <3>2, <2>7, <1>0
      <4>2. PlaceOf(objects'[i]) = q
        BY <4>1
      <4>3. q \in DOMAIN byGVR /\ \E j \in DOMAIN byGVR[q] : byGVR[q][j].doc = i
        BY <3>2, <2>1 DEF IndexInv
      <4> HIDE DEF q
      <4> QED
        BY <4>2, <4>3, <2>9 DEF Added
    <3> QED
      BY <3>1, <3>2, <2>1, <1>0
  <2>14. phase' = "index"
    BY <2>1
  <2> QED
    BY <2>6, <2>11, <2>12, <2>13, <2>14 DEF IndexInv, PlaceOf
<1>5. CASE IndexedAll \/ UNCHANGED loadedVars
  <2>1. /\ UNCHANGED <<objects, next, typeVars, byGVR>>
        /\ \/ phase = "index" /\ phase' = "serve"
           \/ UNCHANGED phase
    BY <1>5 DEF IndexedAll, loadedVars
  <2> QED
    BY <2>1 DEF IndexInv, PlaceOf, typeVars
<1> QED
  BY <1>1, <1>2, <1>3, <1>4, <1>5, OnlyLoadingWrites DEF Loading

-----------------------------------------------------------------------------
(* The namespaces.                                                         *)

\* The namespaces with a manifest are told by apiVersion, kind and name.
LEMMA DefinedStays ==
    ASSUME objects \in Seq(Objects), DOMAIN objects' = DOMAIN objects,
           \A i \in DOMAIN objects : Same(objects'[i], objects[i])
    PROVE  definedNS' = definedNS
<1> DEFINE Defines(os) == {j \in DOMAIN os : /\ os[j].kind = "Namespace"
                                             /\ os[j].apiVersion = <<"v1">>}
<1>1. Defines(objects') = Defines(objects)
  BY DEF Same
<1>2. \A i \in DOMAIN objects : objects'[i].name = objects[i].name
  BY DEF Same
<1> QED
  BY <1>1, <1>2 DEF definedNS

\* An object that is put somewhere else, or was not made up, makes up nothing.
LEMMA MadeUpStays ==
    ASSUME NEW p, NEW obj \in Objects, Added(p, obj),
           byGVR \in [DOMAIN byGVR -> Seq(Objects)],
           obj.doc # 0
    PROVE  MadeUp' = MadeUp /\ (MadeUpOnce => MadeUpOnce')
<1> DEFINE q      == <<NamespaceGVR, NoNamespace>>
           spaces == Bucket(NamespaceGVR, NoNamespace)
<1>1. spaces = IF q \in DOMAIN byGVR THEN byGVR[q] ELSE << >>
  BY DEF Bucket
<1>2. spaces' = IF q \in DOMAIN byGVR' THEN byGVR'[q] ELSE << >>
  BY DEF Bucket
<1> HIDE DEF q, spaces
<1>3. \A j \in DOMAIN spaces : j \in DOMAIN spaces' /\ spaces'[j] = spaces[j]
  BY <1>1, <1>2 DEF Added
<1>4. \A j \in DOMAIN spaces' :
        spaces'[j].doc = 0 => j \in DOMAIN spaces /\ spaces'[j] = spaces[j]
  BY <1>1, <1>2 DEF Added
<1>5. {k \in DOMAIN spaces' : spaces'[k].doc = 0}
        = {k \in DOMAIN spaces : spaces[k].doc = 0}
  BY <1>3, <1>4
<1>6. /\ MadeUp = {spaces[j].name : j \in {k \in DOMAIN spaces : spaces[k].doc = 0}}
      /\ MadeUp' = {spaces'[j].name : j \in {k \in DOMAIN spaces' : spaces'[k].doc = 0}}
  BY DEF MadeUp, spaces
<1>7. MadeUp' = MadeUp
  BY <1>3, <1>5, <1>6
<1>8. MadeUpOnce => MadeUpOnce'
  BY <1>3, <1>4 DEF MadeUpOnce, spaces
<1> QED
  BY <1>7, <1>8

\* A namespace that is made up is one more, and is there once if it was not there.
LEMMA MadeUpGrows ==
    ASSUME NEW obj \in Objects, obj.doc = 0,
           Added(<<NamespaceGVR, NoNamespace>>, obj),
           byGVR \in [DOMAIN byGVR -> Seq(Objects)]
    PROVE  /\ MadeUp' = MadeUp \cup {obj.name}
           /\ MadeUpOnce /\ obj.name \notin MadeUp => MadeUpOnce'
<1> DEFINE q      == <<NamespaceGVR, NoNamespace>>
           spaces == Bucket(NamespaceGVR, NoNamespace)
           last   == Len(byGVR'[q])
<1>1. spaces = IF q \in DOMAIN byGVR THEN byGVR[q] ELSE << >>
  BY DEF Bucket
<1>2. q \in DOMAIN byGVR' /\ spaces' = byGVR'[q]
  BY DEF Bucket, Added
<1> HIDE DEF q, spaces
<1>3. \A j \in DOMAIN spaces : j \in DOMAIN spaces' /\ spaces'[j] = spaces[j]
  BY <1>1, <1>2 DEF Added
<1>4. last \in DOMAIN spaces' /\ spaces'[last] = obj
  BY <1>2 DEF Added, q
<1>5. \A j \in DOMAIN spaces' :
        \/ j = last
        \/ j \in DOMAIN spaces /\ spaces'[j] = spaces[j]
  BY <1>1, <1>2 DEF Added, q
<1> HIDE DEF last
<1>6. /\ MadeUp = {spaces[j].name : j \in {k \in DOMAIN spaces : spaces[k].doc = 0}}
      /\ MadeUp' = {spaces'[j].name : j \in {k \in DOMAIN spaces' : spaces'[k].doc = 0}}
  BY DEF MadeUp, spaces
<1>7. MadeUp' = MadeUp \cup {obj.name}
  <2>1. obj.name \in MadeUp'
    BY <1>4, <1>6
  <2>2. MadeUp \subseteq MadeUp'
    BY <1>3, <1>6
  <2>3. MadeUp' \subseteq MadeUp \cup {obj.name}
    BY <1>4, <1>5, <1>6
  <2> QED
    BY <2>1, <2>2, <2>3
<1>8. ASSUME MadeUpOnce, obj.name \notin MadeUp
      PROVE  MadeUpOnce'
  <2>1. ASSUME NEW i \in DOMAIN spaces', NEW j \in DOMAIN spaces',
               spaces'[i].doc = 0, spaces'[j].doc = 0,
               spaces'[i].name = spaces'[j].name
        PROVE  i = j
    <3>1. \A k \in DOMAIN spaces : spaces[k].doc = 0 => spaces[k].name # obj.name
      BY <1>6, <1>8
    <3>2. CASE i = last /\ j # last
      BY <2>1, <3>1, <3>2, <1>4, <1>5
    <3>3. CASE i # last /\ j = last
      BY <2>1, <3>1, <3>3, <1>4, <1>5
    <3>4. CASE i # last /\ j # last
      BY <2>1, <3>4, <1>5, <1>8 DEF MadeUpOnce, spaces
    <3> QED
      BY <3>2, <3>3, <3>4
  <2> QED
    BY <2>1 DEF MadeUpOnce, spaces
<1> QED
  BY <1>7, <1>8

\* No namespace is referenced at first.
LEMMA NamespaceInit ==
    ASSUME StoreInit
    PROVE  NamespaceInv
<1>1. /\ DOMAIN objects = {} /\ phase = "parse"
      /\ Bucket(NamespaceGVR, NoNamespace) = << >>
  BY DEF StoreInit, EmptyMap, Bucket
<1> QED
  BY <1>1 DEF NamespaceInv, Collected, Indexing, MadeUp, MadeUpOnce

\* A namespace is referenced when an object of it is indexed, and made up after the
\* last object.
LEMMA NamespaceStep ==
    ASSUME ShapeInv, ShapeInv', IndexInv, IndexInv', NamespaceInv,
           [StoreNext]_storeVars
    PROVE  NamespaceInv'
<1> USE DEF Collected, Indexing
<1> DEFINE Known(i) ==
             /\ Collected \/ (phase = "collect" /\ i < next)
             /\ LookupType(gvkOf(objects[i])).namespaced
             /\ objects[i].ns # NoNamespace
             => objects[i].ns \in referencedNS \cup definedNS \cup MadeUp
<1>0. /\ objects \in Seq(Objects) /\ Len(objects) \in Nat
      /\ DOMAIN objects = 1..Len(objects)
      /\ next \in 1..(Len(objects) + 1)
      /\ byGVR \in [DOMAIN byGVR -> Seq(Objects)]
      /\ \A b \in DOMAIN byGVR : byGVR[b] # << >>
  BY DEF ShapeInv
<1>a. \A i \in DOMAIN objects : Known(i)
  BY DEF NamespaceInv
<1>b. UNCHANGED byGVR => MadeUp' = MadeUp /\ (MadeUpOnce => MadeUpOnce')
  BY DEF MadeUp, MadeUpOnce, Bucket
<1>c. /\ MadeUp \cap (definedNS \cup referencedNS) = {} /\ MadeUpOnce
      /\ Indexing => referencedNS = {}
      /\ Collected => "default" \in referencedNS \cup definedNS \cup MadeUp
  BY DEF NamespaceInv
<1>d. UNCHANGED objects => definedNS' = definedNS
  BY DEF definedNS
<1>1. CASE \/ ReadDocument \/ ParseFails \/ EndOfInput
           \/ CollectObject \/ CollectedAll
  <2>1. /\ phase \in {"parse", "collect"}
        /\ UNCHANGED byGVR
        /\ phase' \notin {"index", "serve"}
    BY <1>1 DEF ReadDocument, ParseFails, EndOfInput, CollectObject, CollectedAll
  <2>2. MadeUp = {} /\ MadeUp' = {} /\ MadeUpOnce'
    <3>1. DOMAIN byGVR = {}
      BY <2>1 DEF IndexInv
    <3>2. Bucket(NamespaceGVR, NoNamespace) = << >>
      BY <3>1 DEF Bucket
    <3>3. MadeUp = {}
      BY <3>2 DEF MadeUp
    <3> QED
      BY <3>3, <2>1, <1>b, <1>c
  <2>3. CASE ReadDocument \/ ParseFails \/ EndOfInput
    <3>1. /\ phase' \in {"parse", "failed", "collect"}
          /\ phase' = "collect" => next' = 1
      BY <2>3 DEF ReadDocument, ParseFails, EndOfInput, ShapeInv
    <3>2. \A i \in DOMAIN objects' : i \in Nat /\ i >= 1
      BY DEF ShapeInv
    <3>3. ~Collected' /\ ~Indexing'
      BY <3>1
    <3>4. \A i \in DOMAIN objects' : ~(phase' = "collect" /\ i < next')
      BY <3>1, <3>2
    <3> QED
      BY <3>3, <3>4, <2>2 DEF NamespaceInv
  <2>4. CASE CollectObject
    <3> DEFINE obj  == objects[next]
               info == LookupType(gvkOf(obj))
               ns   == IF obj.ns = NoNamespace THEN "default" ELSE obj.ns
    <3>1. /\ next <= Len(objects) /\ next' = next + 1
          /\ phase = "collect" /\ phase' = phase
          /\ referencedNS' = referencedNS \cup IF info.namespaced THEN {ns} ELSE {}
      BY <2>4 DEF CollectObject
    <3>2. obj \in Objects /\ next \in DOMAIN objects
      BY <3>1, <1>0
    <3>3. \/ objects' = objects /\ (info.namespaced => obj.ns # NoNamespace)
          \/ /\ objects' = [objects EXCEPT ![next] = SetNamespace(obj, "default")]
             /\ obj.ns = NoNamespace
      BY <2>4 DEF CollectObject
    <3>4. /\ Same(SetNamespace(obj, "default"), obj)
          /\ SetNamespace(obj, "default").ns \in {obj.ns, "default"}
      BY <3>2, DefaultedObject
    <3>5. Same(obj, obj)
      BY DEF Same
    <3>6. \A i \in DOMAIN objects : Same(objects[i], objects[i])
      BY DEF Same
    <3> HIDE DEF obj
    <3>7. /\ DOMAIN objects' = DOMAIN objects
          /\ \A i \in DOMAIN objects : i # next => objects'[i] = objects[i]
          /\ Same(objects'[next], obj)
          /\ info.namespaced => objects'[next].ns \in {NoNamespace, ns}
      <4>1. CASE objects' = objects /\ (info.namespaced => obj.ns # NoNamespace)
        BY <4>1, <3>5 DEF obj
      <4>2. CASE /\ objects' = [objects EXCEPT ![next] = SetNamespace(obj, "default")]
                 /\ obj.ns = NoNamespace
        BY <4>2, <3>2, <3>4
      <4> QED
        BY <4>1, <4>2, <3>3
    <3>8. definedNS' = definedNS
      <4>1. \A i \in DOMAIN objects : Same(objects'[i], objects[i])
        BY <3>6, <3>7 DEF obj
      <4> QED
        BY <4>1, <3>7, <1>0, DefinedStays
    <3>9. ASSUME NEW i \in DOMAIN objects', i < next',
                 LookupType(gvkOf(objects'[i])).namespaced,
                 objects'[i].ns # NoNamespace
          PROVE  objects'[i].ns \in referencedNS' \cup definedNS' \cup MadeUp'
      <4>1. CASE i = next
        <5>1. info.namespaced
          BY <4>1, <3>7, <3>9 DEF Same
        <5> HIDE DEF info
        <5> QED
          BY <4>1, <5>1, <3>1, <3>7, <3>9
      <4>2. CASE i # next
        BY <4>2, <3>1, <3>7, <3>8, <3>9, <2>2, <1>0, <1>a
      <4> QED
        BY <4>1, <4>2
    <3> QED
      BY <3>1, <3>9, <2>1, <2>2 DEF NamespaceInv
  <2>5. CASE CollectedAll
    <3>1. /\ next > Len(objects) /\ objects' = objects
          /\ phase = "collect" /\ phase' = "synthesize"
          /\ referencedNS' = referencedNS \cup {"default"}
      BY <2>5 DEF CollectedAll
    <3> QED
      BY <3>1, <2>1, <2>2, <1>0, <1>a, <1>d DEF NamespaceInv
  <2> QED
    BY <1>1, <2>3, <2>4, <2>5
<1>2. ASSUME NEW ns \in referencedNS, SynthesizeMissing(ns)
      PROVE  NamespaceInv'
  <2> DEFINE made == enrichMetadata(synthesizeNamespace(ns))
  <2>1. /\ phase = "synthesize" /\ phase' = phase /\ next' = next
        /\ objects' = objects /\ referencedNS' = referencedNS \ {ns}
    BY <1>2 DEF SynthesizeMissing
  <2>2. CASE ns \in definedNS /\ UNCHANGED byGVR
    BY <2>1, <2>2, <1>a, <1>b, <1>c, <1>d DEF NamespaceInv
  <2>3. CASE ns \notin definedNS /\ add(NamespaceGVR, NoNamespace, made)
    <3>1. made \in Objects /\ made.doc = 0 /\ made.name = ns
      BY MadeUpObject DEF ShapeInv
    <3> HIDE DEF made
    <3>2. Added(<<NamespaceGVR, NoNamespace>>, made)
      BY <2>3, <3>1, <1>0, AddEffect
    <3>3. MadeUp' = MadeUp \cup {ns} /\ (ns \notin MadeUp => MadeUpOnce')
      BY <3>1, <3>2, <1>0, <1>c, MadeUpGrows
    <3>4. ns \notin MadeUp
      BY <1>c
    <3> QED
      BY <2>1, <2>3, <3>3, <3>4, <1>a, <1>c, <1>d DEF NamespaceInv
  <2> QED
    BY <1>2, <2>2, <2>3 DEF SynthesizeMissing
<1>3. CASE SynthesizedAll \/ IndexedAll \/ UNCHANGED loadedVars
  <2>1. /\ UNCHANGED <<objects, next, referencedNS, byGVR>>
        /\ \/ phase = "synthesize" /\ phase' = "index" /\ referencedNS = {}
           \/ phase = "index" /\ phase' = "serve"
           \/ UNCHANGED phase
    BY <1>3 DEF SynthesizedAll, IndexedAll, loadedVars
  <2> QED
    BY <2>1, <1>a, <1>b, <1>c, <1>d DEF NamespaceInv
<1>4. CASE IndexObject
  <2> DEFINE obj == objects[next]
             put == enrichMetadata(obj)
             gvr == gvkToGVR[gvkOf(obj)]
             ns  == IF typeInfo[gvr].namespaced THEN obj.ns ELSE NoNamespace
  <2>1. /\ next <= Len(objects) /\ UNCHANGED referencedNS
        /\ phase = "index" /\ phase' = phase
        /\ objects' = [objects EXCEPT ![next] = put]
        /\ add(gvr, ns, put)
    BY <1>4 DEF IndexObject
  <2>2. obj \in Objects /\ next \in DOMAIN objects /\ obj.doc # 0
    BY <2>1, <1>0 DEF ShapeInv
  <2>3. put \in Objects /\ Same(put, obj) /\ put.ns = obj.ns /\ put.doc # 0
    BY <2>2, EnrichedObject DEF Same
  <2>4. \A i \in DOMAIN objects : Same(objects[i], objects[i])
    BY DEF Same
  <2> HIDE DEF obj, put, gvr, ns
  <2>5. /\ DOMAIN objects' = DOMAIN objects
        /\ \A i \in DOMAIN objects : /\ Same(objects'[i], objects[i])
                                     /\ objects'[i].ns = objects[i].ns
    BY <2>1, <2>2, <2>3, <2>4 DEF obj
  <2>6. definedNS' = definedNS
    BY <2>5, <1>0, DefinedStays
  <2>7. Added(<<gvr, ns>>, put)
    BY <2>1, <2>3, <1>0, AddEffect
  <2>8. MadeUp' = MadeUp /\ MadeUpOnce'
    BY <2>3, <2>7, <1>0, <1>c, MadeUpStays
  <2>9. ASSUME NEW i \in DOMAIN objects',
               LookupType(gvkOf(objects'[i])).namespaced,
               objects'[i].ns # NoNamespace
        PROVE  objects'[i].ns \in referencedNS' \cup definedNS' \cup MadeUp'
    BY <2>1, <2>5, <2>6, <2>8, <2>9, <1>a DEF Same
  <2> QED
    BY <2>1, <2>6, <2>8, <2>9, <1>c DEF NamespaceInv
<1> QED
  BY <1>1, <1>2, <1>3, <1>4, OnlyLoadingWrites DEF Loading

-----------------------------------------------------------------------------
(* What the store promises.                                                *)

\* The four parts are inductive together.
LEMMA StoreInvariant == StoreSpec => []StoreInv
<1>1. StoreInit => StoreInv
  BY ShapeInit, RegistryInit, IndexInit, NamespaceInit DEF StoreInv
<1>2. StoreInv /\ [StoreNext]_storeVars => StoreInv'
  <2> SUFFICES ASSUME StoreInv, [StoreNext]_storeVars
               PROVE  StoreInv'
    OBVIOUS
  <2>1. ShapeInv'
    BY ShapeStep DEF StoreInv
  <2>2. RegistryInv'
    BY RegistryStep DEF StoreInv
  <2>3. IndexInv'
    BY <2>1, IndexStep DEF StoreInv
  <2>4. NamespaceInv'
    BY <2>1, <2>3, NamespaceStep DEF StoreInv
  <2> QED
    BY <2>1, <2>2, <2>3, <2>4 DEF StoreInv
<1> QED
  BY <1>1, <1>2, PTL DEF StoreSpec

\* Objects keep the shape that the parser gave them, and what is served under a
\* resource is of a kind with that resource.
THEOREM BucketsHoldTheirKind == StoreSpec => []StoreTypeOK
<1>1. StoreInv => StoreTypeOK
  <2> SUFFICES ASSUME StoreInv
               PROVE  StoreTypeOK
    OBVIOUS
  <2> USE DEF StoreInv
  <2>1. \A o \in Objects : o.labels \in Labels /\ o.doc \in Nat
    BY DEF Objects
  <2>2. \A i \in DOMAIN objects : objects[i].doc = i /\ objects[i].labels \in Labels
    BY <2>1 DEF ShapeInv
  <2>3. ASSUME NEW b \in DOMAIN byGVR, NEW j \in DOMAIN byGVR[b]
        PROVE  GvrOf(gvkOf(byGVR[b][j])) = b[1]
    <3> DEFINE obj == byGVR[b][j]
    <3>1. CASE obj.doc = 0
      BY <3>1 DEF IndexInv, NamespaceGVR
    <3>2. CASE obj.doc # 0
      BY <3>2 DEF IndexInv, PlaceOf
    <3> QED
      BY <3>1, <3>2
  <2> QED
    BY <2>2, <2>3 DEF StoreTypeOK, ShapeInv, RegistryInv, MapsAgree
<1> QED
  BY <1>1, StoreInvariant, PTL

\* Whatever the kinds, the namespaces and the metadata of the manifests, and in
\* whatever order the namespaces are made up: each manifest is in one place of the
\* index, and a bucket has them in the order of the documents.
THEOREM NoManifestLostOrTwice == StoreSpec => []EveryManifestOnce
<1>1. StoreInv => EveryManifestOnce
  <2> SUFFICES ASSUME StoreInv, BetweenRequests
               PROVE  EveryManifestOnce
    BY DEF EveryManifestOnce
  <2> USE DEF StoreInv
  <2>0. /\ objects \in Seq(Objects) /\ Len(objects) \in Nat
        /\ DOMAIN objects = 1..Len(objects)
        /\ next = Len(objects) + 1 /\ Indexing
    BY DEF ShapeInv, BetweenRequests, Indexing
  <2>1. \A b \in DOMAIN byGVR :
          /\ byGVR[b] \in Seq(Objects) /\ Len(byGVR[b]) \in Nat
          /\ DOMAIN byGVR[b] = 1..Len(byGVR[b])
    BY DEF ShapeInv
  <2>2. ASSUME NEW i \in DOMAIN objects
        PROVE  Cardinality(PlacesOf(i)) = 1
    <3> DEFINE q == PlaceOf(objects[i])
    <3>1. i \in 1..(next - 1) /\ i # 0 /\ i \in Nat
      BY <2>0
    <3>2. q \in DOMAIN byGVR
      BY <3>1, <2>0 DEF IndexInv
    <3>3. PICK j \in DOMAIN byGVR[q] : byGVR[q][j].doc = i
      BY <3>1, <2>0 DEF IndexInv
    <3>4. ASSUME NEW b \in DOMAIN byGVR, NEW k \in DOMAIN byGVR[b],
                 byGVR[b][k].doc = i
          PROVE  b = q /\ k = j
      <4>1. b = q
        BY <3>1, <3>4 DEF IndexInv
      <4>2. k \in Nat /\ j \in Nat
        BY <4>1, <3>2, <2>1
      <4>3. ~(k < j) /\ ~(j < k)
        BY <4>1, <3>1, <3>2, <3>3, <3>4 DEF IndexInv
      <4> QED
        BY <4>1, <4>2, <4>3
    <3> HIDE DEF q
    <3>5. PlacesOf(i) = {<<q, j>>}
      <4>1. <<q, j>> \in PlacesOf(i)
        BY <3>2, <3>3 DEF PlacesOf
      <4>2. ASSUME NEW x \in PlacesOf(i)
            PROVE  x = <<q, j>>
        <5>1. PICK b \in DOMAIN byGVR :
                x \in {<<b, k>> : k \in {l \in DOMAIN byGVR[b] : byGVR[b][l].doc = i}}
          BY <4>2 DEF PlacesOf
        <5>2. PICK k \in DOMAIN byGVR[b] : byGVR[b][k].doc = i /\ x = <<b, k>>
          BY <5>1
        <5> QED
          BY <5>2, <3>4
      <4> QED
        BY <4>1, <4>2
    <3> QED
      BY <3>5, FS_Singleton
  <2>3. ASSUME NEW b \in DOMAIN byGVR, NEW j \in 1..Len(byGVR[b]) - 1
        PROVE  byGVR[b][j].doc <= byGVR[b][j + 1].doc
    <3>1. j \in DOMAIN byGVR[b] /\ j + 1 \in DOMAIN byGVR[b] /\ j < j + 1
      BY <2>1
    <3> QED
      BY <3>1 DEF IndexInv
  <2> QED
    BY <2>2, <2>3 DEF EveryManifestOnce
<1> QED
  BY <1>1, StoreInvariant, PTL

\* A Namespace can be got for every namespace that has an object of a resource that
\* is namespaced for all its kinds; none is made up that a manifest defines, or
\* twice.
THEOREM NamespacesAreSynthesized == StoreSpec => []NamespacesExist
<1>1. StoreInv => NamespacesExist
  <2> SUFFICES ASSUME StoreInv, BetweenRequests
               PROVE  NamespacesExist
    BY DEF NamespacesExist
  <2> USE DEF StoreInv
  <2> DEFINE q      == <<NamespaceGVR, NoNamespace>>
             spaces == Bucket(NamespaceGVR, NoNamespace)
  <2>0. /\ objects \in Seq(Objects) /\ Len(objects) \in Nat
        /\ DOMAIN objects = 1..Len(objects)
        /\ next = Len(objects) + 1
        /\ Indexing /\ Collected /\ referencedNS = {}
    BY DEF ShapeInv, BetweenRequests, Indexing, Collected, NamespaceInv
  <2>1. \A i \in DOMAIN spaces : spaces[i].doc = 0 => gvkOf(spaces[i]) = NamespaceGVK
    BY DEF IndexInv, Bucket
  <2>2. \A o : gvkOf(o) = NamespaceGVK => o.kind = "Namespace"
    BY DEF gvkOf, NamespaceGVK
  <2>3. ASSUME NEW ns \in MadeUp
        PROVE  \E i \in DOMAIN spaces :
                 spaces[i].kind = "Namespace" /\ spaces[i].name = ns
    BY <2>1, <2>2 DEF MadeUp
  <2>4. ASSUME NEW ns \in definedNS
        PROVE  \E i \in DOMAIN spaces :
                 spaces[i].kind = "Namespace" /\ spaces[i].name = ns
    <3>1. PICK i \in DOMAIN objects :
            /\ objects[i].kind = "Namespace" /\ objects[i].apiVersion = <<"v1">>
            /\ objects[i].name = ns
      BY DEF definedNS
    <3>2. gvkOf(objects[i]) = NamespaceGVK
      BY <3>1 DEF gvkOf, NamespaceGVK
    <3>3. ~typeInfo[NamespaceGVR].namespaced
      BY <2>0, NamespaceAssumption DEF RegistryInv, LookupType
    <3>4. PlaceOf(objects[i]) = q
      BY <3>2, <3>3 DEF PlaceOf, NamespaceGVR
    <3>5. q \in DOMAIN byGVR /\ \E j \in DOMAIN byGVR[q] : byGVR[q][j].doc = i
      <4>1. i \in 1..(next - 1)
        BY <2>0
      <4> QED
        BY <4>1, <3>4, <2>0 DEF IndexInv
    <3>6. PICK j \in DOMAIN byGVR[q] : byGVR[q][j].doc = i
      BY <3>5
    <3>7. byGVR[q][j] = objects[i]
      BY <3>5, <3>6, <2>0 DEF IndexInv
    <3> QED
      BY <3>1, <3>5, <3>7 DEF Bucket
  <2>5. ASSUME NEW b \in DOMAIN byGVR, b[2] # NoNamespace, NamespacedOnly(b[1])
        PROVE  \E i \in DOMAIN spaces :
                 spaces[i].kind = "Namespace" /\ spaces[i].name = b[2]
    <3> DEFINE obj == byGVR[b][1]
    <3>1. 1 \in DOMAIN byGVR[b]
      BY DEF ShapeInv
    <3>2. obj.doc # 0
      BY <3>1, <2>5 DEF IndexInv
    <3>3. /\ obj = objects[obj.doc] /\ b = PlaceOf(obj)
          /\ obj.doc < next
      BY <3>1, <3>2 DEF IndexInv
    <3>4. obj.doc \in DOMAIN objects
      <4>1. obj \in Objects
        BY <3>1 DEF ShapeInv
      <4>2. obj.doc \in Nat
        BY <4>1 DEF Objects
      <4> HIDE DEF obj
      <4> QED
        BY <4>2, <3>2, <3>3, <2>0
    <3> HIDE DEF obj
    <3>5. obj.ns = b[2] /\ GvrOf(gvkOf(obj)) = b[1]
      BY <2>5, <3>3 DEF PlaceOf
    <3>6. gvkOf(obj) \in DOMAIN gvkToGVR /\ gvkToGVR[gvkOf(obj)] = b[1]
      BY <3>3, <3>4, <3>5, <2>0 DEF RegistryInv, MapsAgree
    <3>7. LookupType(gvkOf(obj)).namespaced
      BY <2>5, <3>6 DEF NamespacedOnly
    <3>8. b[2] \in definedNS \cup MadeUp
      BY <3>3, <3>4, <3>5, <3>7, <2>0, <2>5 DEF NamespaceInv
    <3> QED
      BY <3>8, <2>3, <2>4
  <2>6. ASSUME NEW i \in DOMAIN spaces, spaces[i].doc = 0
        PROVE  /\ spaces[i].name \notin definedNS
               /\ \A j \in DOMAIN spaces :
                    spaces[j].doc = 0 /\ spaces[j].name = spaces[i].name => j = i
    <3>1. spaces[i].name \in MadeUp
      BY <2>6 DEF MadeUp
    <3> QED
      BY <3>1, <2>6 DEF NamespaceInv, MadeUpOnce
  <2> QED
    BY <2>5, <2>6 DEF NamespacesExist
<1> QED
  BY <1>1, StoreInvariant, PTL

-----------------------------------------------------------------------------
(* Discovery.                                                              *)

\* Kinds have names, and their resources' words have ranks of their own.
LEMMA KindsAreNamed ==
    ASSUME NEW gvk \in Kinds
    PROVE  /\ gvk.kind # ""
           /\ GvrOf(gvk) = [group |-> gvk.group, version |-> gvk.version,
                            resource |-> GvrOf(gvk).resource]
           /\ gvk.group \in Words /\ gvk.version \in Words
           /\ GvrOf(gvk).resource \in Words
<1>1. gvk.kind # ""
  <2>1. CASE gvk = NamespaceGVK
    BY <2>1 DEF NamespaceGVK
  <2>2. ASSUME NEW d \in Complete, gvk = gvkOf(d)
        PROVE  gvk.kind # ""
    BY <2>2, StreamsAssumption DEF gvkOf
  <2> QED
    BY <2>1, <2>2 DEF Kinds
<1>2. GvrOf(gvk).group = gvk.group /\ GvrOf(gvk).version = gvk.version
  BY DEF GvrOf
<1>3. {GvrOf(gvk).group, GvrOf(gvk).version, GvrOf(gvk).resource} \subseteq Words
  <2> HIDE DEF GvrOf
  <2> QED
    BY DEF Words
<1> QED
  BY <1>1, <1>2, <1>3 DEF GvrOf

\* The indexes are finite, and the kinds registered are those of the objects and,
\* in the end, Namespace.
DiscoveryInv ==
    /\ IsFiniteSet(DOMAIN byGVR) /\ IsFiniteSet(DOMAIN typeInfo)
    /\ \A i \in DOMAIN objects : gvkOf(objects[i]) \in Kinds
    /\ \A gvk \in DOMAIN gvkToGVR :
         \/ Collected /\ gvk = NamespaceGVK
         \/ \E i \in DOMAIN objects : gvk = gvkOf(objects[i])

\* Nothing is indexed or registered at first.
LEMMA DiscoveryInit ==
    ASSUME StoreInit
    PROVE  DiscoveryInv
  BY FS_EmptySet DEF StoreInit, EmptyMap, DiscoveryInv

\* Objects keep their kinds, and one kind at a time is registered.
LEMMA DiscoveryStep ==
    ASSUME ShapeInv, MapsAgree, DiscoveryInv, [StoreNext]_storeVars
    PROVE  DiscoveryInv'
<1> USE DEF DiscoveryInv, Collected
<1> DEFINE SameKinds == /\ DOMAIN objects' = DOMAIN objects
                        /\ \A i \in DOMAIN objects : gvkOf(objects'[i]) = gvkOf(objects[i])
<1>0. /\ objects \in Seq(Objects) /\ Len(objects) \in Nat
      /\ DOMAIN objects = 1..Len(objects)
      /\ next \in 1..(Len(objects) + 1)
  BY DEF ShapeInv
<1>1. CASE ReadDocument
  <2>1. /\ UNCHANGED <<phase, byGVR, typeVars>> /\ phase = "parse"
    BY <1>1 DEF ReadDocument
  <2>2. CASE objects' = objects
    BY <2>1, <2>2 DEF typeVars
  <2>3. CASE objects' # objects
    <3> DEFINE d == Head(unread)
               obj == ObjectOf(d, Len(objects) + 1)
    <3>1. d \in Documents /\ d \in Complete
      BY <1>1, <2>3 DEF ReadDocument, ShapeInv, Complete
    <3>2. gvkOf(obj) \in Kinds
      <4>1. obj.apiVersion = d.apiVersion /\ obj.kind = d.kind
        BY DEF ObjectOf
      <4>2. gvkOf(obj) = gvkOf(d)
        BY <4>1 DEF gvkOf
      <4> QED
        BY <4>2, <3>1 DEF Kinds
    <3>3. obj \in Objects
      BY <3>1, <1>0, ParsedObject DEF Complete
    <3>4. objects' = Append(objects, obj)
      BY <1>1, <2>3 DEF ReadDocument
    <3> HIDE DEF obj
    <3>5. /\ DOMAIN objects' = 1..(Len(objects) + 1)
          /\ \A i \in 1..Len(objects) : objects'[i] = objects[i]
          /\ objects'[Len(objects) + 1] = obj
      BY <3>3, <3>4, <1>0
    <3> QED
      BY <2>1, <3>2, <3>5, <1>0 DEF typeVars
  <2> QED
    BY <2>2, <2>3
<1>2. ASSUME NEW gvk, RegisterType(gvk), byGVR' = byGVR, SameKinds,
             Collected => Collected',
             \/ Collected' /\ gvk = NamespaceGVK
             \/ \E i \in DOMAIN objects : gvk = gvkOf(objects[i])
      PROVE  DiscoveryInv'
  <2>1. DOMAIN gvkToGVR' = DOMAIN gvkToGVR \cup {gvk}
    BY <1>2, RegisterEffect
  <2>2. DOMAIN typeInfo' = DOMAIN typeInfo \cup {GvrOf(gvk)}
    BY <1>2 DEF RegisterType, Put
  <2>3. IsFiniteSet(DOMAIN typeInfo')
    BY <2>2, FS_AddElement
  <2>4. \A i \in DOMAIN objects' : gvkOf(objects'[i]) \in Kinds
    BY <1>2
  <2>5. ASSUME NEW k \in DOMAIN gvkToGVR'
        PROVE  \/ Collected' /\ k = NamespaceGVK
               \/ \E i \in DOMAIN objects' : k = gvkOf(objects'[i])
    BY <2>1, <1>2
  <2> QED
    BY <2>3, <2>4, <2>5, <1>2
<1>3. CASE CollectObject
  <2> DEFINE obj == objects[next]
  <2>1. /\ next <= Len(objects) /\ UNCHANGED <<phase, byGVR>>
        /\ RegisterType(gvkOf(obj))
        /\ \/ objects' = objects
           \/ objects' = [objects EXCEPT ![next] = SetNamespace(obj, "default")]
    BY <1>3 DEF CollectObject
  <2>2. obj \in Objects /\ next \in DOMAIN objects
    BY <2>1, <1>0
  <2>3. gvkOf(SetNamespace(obj, "default")) = gvkOf(obj)
    BY <2>2, DefaultedObject DEF Same
  <2> HIDE DEF obj
  <2>4. SameKinds
    BY <2>1, <2>2, <2>3 DEF obj
  <2>5. \E i \in DOMAIN objects : gvkOf(obj) = gvkOf(objects[i])
    BY <2>2 DEF obj
  <2> QED
    BY <2>1, <2>4, <2>5, <1>2
<1>4. CASE CollectedAll
  <2>1. /\ RegisterType(NamespaceGVK) /\ byGVR' = byGVR /\ objects' = objects
        /\ phase' = "synthesize"
    BY <1>4 DEF CollectedAll
  <2> QED
    BY <2>1, <1>2
<1>5. ASSUME NEW gvr, NEW ns, NEW obj, add(gvr, ns, obj), UNCHANGED <<phase, typeVars>>,
             SameKinds
      PROVE  DiscoveryInv'
  <2>1. DOMAIN byGVR' = DOMAIN byGVR \cup {<<gvr, ns>>}
    BY <1>5 DEF add, Put
  <2>2. IsFiniteSet(DOMAIN byGVR')
    BY <2>1, FS_AddElement
  <2> QED
    BY <2>2, <1>5 DEF typeVars
<1>6. ASSUME NEW ns \in referencedNS, SynthesizeMissing(ns)
      PROVE  DiscoveryInv'
  <2>1. UNCHANGED <<phase, objects, typeVars>>
    BY <1>6 DEF SynthesizeMissing
  <2>2. CASE byGVR' = byGVR
    BY <2>1, <2>2 DEF typeVars
  <2>3. CASE add(NamespaceGVR, NoNamespace, enrichMetadata(synthesizeNamespace(ns)))
    BY <2>1, <2>3, <1>5
  <2> QED
    BY <1>6, <2>2, <2>3 DEF SynthesizeMissing
<1>7. CASE IndexObject
  <2> DEFINE obj == objects[next]
             gvr == gvkToGVR[gvkOf(obj)]
             ns  == IF typeInfo[gvr].namespaced THEN obj.ns ELSE NoNamespace
  <2>1. /\ next <= Len(objects) /\ UNCHANGED <<phase, typeVars>>
        /\ add(gvr, ns, enrichMetadata(obj))
        /\ objects' = [objects EXCEPT ![next] = enrichMetadata(obj)]
    BY <1>7 DEF IndexObject
  <2>2. gvkOf(enrichMetadata(obj)) = gvkOf(obj) /\ next \in DOMAIN objects
    BY <2>1, <1>0, EnrichedObject DEF Same
  <2> HIDE DEF obj
  <2>3. SameKinds
    BY <2>1, <2>2 DEF obj
  <2> QED
    BY <2>1, <2>3, <1>5
<1>8. CASE ParseFails \/ EndOfInput \/ SynthesizedAll \/ IndexedAll
  <2>1. /\ UNCHANGED <<objects, byGVR, typeVars>>
        /\ Collected => Collected'
    BY <1>8 DEF ParseFails, EndOfInput, SynthesizedAll, IndexedAll
  <2> QED
    BY <2>1 DEF typeVars
<1>9. CASE UNCHANGED loadedVars
  BY <1>9 DEF loadedVars, typeVars
<1> QED
  BY <1>1, <1>3, <1>4, <1>6, <1>7, <1>8, <1>9, OnlyLoadingWrites DEF Loading

\* The store's invariants hold in every state.
LEMMA DiscoveryInvariant == StoreSpec => [](StoreInv /\ DiscoveryInv)
<1>1. StoreInit => DiscoveryInv
  BY DiscoveryInit
<1>2. StoreInv /\ DiscoveryInv /\ [StoreNext]_storeVars => DiscoveryInv'
  BY DiscoveryStep DEF StoreInv, RegistryInv
<1> QED
  BY <1>1, <1>2, StoreInvariant, PTL DEF StoreSpec

\* Once the store serves, the resources it knows are those it has objects of.  Each
\* has the kind of some manifest, and so a name.
LEMMA ServedResources ==
    ASSUME StoreInv, DiscoveryInv, phase = "serve"
    PROVE  /\ DOMAIN typeInfo = {b[1] : b \in DOMAIN byGVR}
           /\ \A gvr \in DOMAIN typeInfo :
                /\ KindForGVR(gvr) # ""
                /\ gvr = [group |-> gvr.group, version |-> gvr.version,
                          resource |-> gvr.resource]
                /\ gvr.group \in Words /\ gvr.version \in Words
                /\ gvr.resource \in Words
<1> USE DEF StoreInv
<1>0. /\ next = Len(objects) + 1 /\ Len(objects) \in Nat
      /\ DOMAIN objects = 1..Len(objects) /\ Collected /\ Indexing
  BY DEF ShapeInv, Collected, Indexing
<1>1. ASSUME NEW gvr \in DOMAIN typeInfo
      PROVE  \E b \in DOMAIN byGVR : gvr = b[1]
  <2> DEFINE gvk == gvrToGVK[gvr]
  <2>1. gvk \in DOMAIN gvkToGVR /\ GvrOf(gvk) = gvr
    BY DEF RegistryInv, MapsAgree
  <2>2. ASSUME NEW i \in DOMAIN objects, gvk = gvkOf(objects[i])
        PROVE  \E b \in DOMAIN byGVR : gvr = b[1]
    <3>1. PlaceOf(objects[i]) \in DOMAIN byGVR
      BY <1>0 DEF IndexInv
    <3>2. PlaceOf(objects[i])[1] = gvr
      BY <2>1, <2>2 DEF PlaceOf
    <3> QED
      BY <3>1, <3>2
  <2>3. CASE gvk = NamespaceGVK
    <3>1. referencedNS = {}
      BY <1>0 DEF NamespaceInv
    <3>2. "default" \in definedNS \cup MadeUp
      BY <1>0, <3>1 DEF NamespaceInv
    <3>3. CASE "default" \in definedNS
      <4>1. PICK i \in DOMAIN objects : objects[i].kind = "Namespace"
                                          /\ objects[i].apiVersion = <<"v1">>
        BY <3>3 DEF definedNS
      <4>2. gvkOf(objects[i]) = NamespaceGVK
        BY <4>1 DEF gvkOf, NamespaceGVK
      <4> QED
        BY <4>2, <2>2, <2>3
    <3>4. CASE "default" \in MadeUp
      <4>1. <<NamespaceGVR, NoNamespace>> \in DOMAIN byGVR
        BY <3>4 DEF MadeUp, Bucket
      <4> QED
        BY <4>1, <2>1, <2>3 DEF NamespaceGVR
    <3> QED
      BY <3>2, <3>3, <3>4
  <2> QED
    BY <2>1, <2>2, <2>3 DEF DiscoveryInv
<1>2. ASSUME NEW b \in DOMAIN byGVR
      PROVE  b[1] \in DOMAIN typeInfo
  <2> DEFINE obj == byGVR[b][1]
  <2>1. 1 \in DOMAIN byGVR[b] /\ obj \in Objects
    BY DEF ShapeInv
  <2>2. CASE obj.doc = 0
    BY <2>1, <2>2, <1>0 DEF IndexInv, RegistryInv
  <2>3. CASE obj.doc # 0
    <3>1. /\ obj = objects[obj.doc] /\ b = PlaceOf(obj) /\ obj.doc < next
          /\ obj.doc \in Nat
      BY <2>1, <2>3 DEF IndexInv, Objects
    <3> HIDE DEF obj
    <3>2. obj.doc \in DOMAIN objects
      BY <3>1, <2>3, <1>0
    <3>3. gvkOf(obj) \in DOMAIN gvkToGVR
      BY <3>1, <3>2, <1>0 DEF RegistryInv
    <3> QED
      BY <3>1, <3>3 DEF PlaceOf, RegistryInv, MapsAgree
  <2> QED
    BY <2>2, <2>3
<1>3. ASSUME NEW gvr \in DOMAIN typeInfo
      PROVE  /\ KindForGVR(gvr) # ""
             /\ gvr = [group |-> gvr.group, version |-> gvr.version,
                       resource |-> gvr.resource]
             /\ gvr.group \in Words /\ gvr.version \in Words
             /\ gvr.resource \in Words
  <2> DEFINE gvk == gvrToGVK[gvr]
  <2>1. gvk \in DOMAIN gvkToGVR /\ GvrOf(gvk) = gvr /\ gvr \in DOMAIN gvrToGVK
    BY DEF RegistryInv, MapsAgree
  <2>2. gvk \in Kinds
    BY <2>1 DEF DiscoveryInv, Kinds
  <2>3. KindForGVR(gvr) = gvk.kind
    BY <2>1 DEF KindForGVR
  <2> HIDE DEF gvk
  <2>4. gvr.group = gvk.group /\ gvr.version = gvk.version
    BY <2>1 DEF GvrOf
  <2> QED
    BY <2>1, <2>2, <2>3, <2>4, KindsAreNamed
<1> QED
  BY <1>1, <1>2, <1>3

\* What a function makes of a finite set is finite.
LEMMA FiniteImage ==
    ASSUME NEW f, IsFiniteSet(DOMAIN f)
    PROVE  IsFiniteSet({f[x] : x \in DOMAIN f})
<1> DEFINE g == [x \in DOMAIN f |-> f[x]]
           T == {f[x] : x \in DOMAIN f}
<1>1. g \in [DOMAIN f -> T] /\ \A t \in T : \E x \in DOMAIN f : g[x] = t
  OBVIOUS
<1>2. g \in Surjection(DOMAIN f, T)
  <2> HIDE DEF g, T
  <2> QED
    BY <1>1 DEF Surjection
<1> HIDE DEF g, T
<1>3. IsFiniteSet(T)
  BY <1>2, FS_Surjection
<1> QED
  BY <1>3 DEF T

\* The resources of a version that the store knows, and what is shown of them.
KnownIn(group, version) ==
    {gvr \in DOMAIN typeInfo : gvr.group = group /\ gvr.version = version}

ShownAs(gvr, suffix) ==
    [name |-> <<gvr.resource>> \o suffix, kind |-> KindForGVR(gvr),
     namespaced |-> typeInfo[gvr].namespaced]

ShownIn(group, version) ==
    {ShownAs(gvr, << >>) : gvr \in KnownIn(group, version)}
    \cup {ShownAs(gvr, <<"status">>) :
            gvr \in {h \in KnownIn(group, version) : isStatusSubresourceKind(KindForGVR(h))}}

RankOfName(r) == 2 * Rank[r.name[1]] + Len(r.name)

\* The resource list has all of these, in the order of their names.
LEMMA ResourceListIs ==
    ASSUME StoreInv, DiscoveryInv, phase = "serve", NEW group, NEW version
    PROVE  LET list == buildAPIResourceList(group, version)
           IN  /\ \E n \in Nat : DOMAIN list = 1..n
               /\ {list[i] : i \in DOMAIN list} = ShownIn(group, version)
               /\ \A i, j \in DOMAIN list : i < j => RankOfName(list[i]) < RankOfName(list[j])
<1> DEFINE known == {gvr \in DOMAIN typeInfo :
                       /\ gvr.group = group /\ gvr.version = version
                       /\ KindForGVR(gvr) # ""}
           withStatus == {gvr \in known : isStatusSubresourceKind(KindForGVR(gvr))}
           shown(gvr, suffix) ==
               [name |-> <<gvr.resource>> \o suffix, kind |-> KindForGVR(gvr),
                namespaced |-> typeInfo[gvr].namespaced]
           plain == {shown(gvr, << >>) : gvr \in known}
           status == {shown(gvr, <<"status">>) : gvr \in withStatus}
           resources == plain \cup status
           rank == [r \in resources |-> 2 * Rank[r.name[1]] + Len(r.name)]
<1>1. buildAPIResourceList(group, version) = SortedBy(resources, rank)
  BY DEF buildAPIResourceList
<1>2. known = KnownIn(group, version)
  BY ServedResources DEF KnownIn
<1>a. resources = ShownIn(group, version)
  <2>1. \A gvr, suffix : shown(gvr, suffix) = ShownAs(gvr, suffix)
    BY DEF ShownAs
  <2>2. plain = {ShownAs(gvr, << >>) : gvr \in KnownIn(group, version)}
    <3> HIDE DEF known, shown
    <3> QED
      BY <1>2, <2>1
  <2>3. withStatus = {h \in KnownIn(group, version) : isStatusSubresourceKind(KindForGVR(h))}
    <3> HIDE DEF known
    <3> QED
      BY <1>2
  <2>4. status = {ShownAs(gvr, <<"status">>) : gvr \in withStatus}
    <3> HIDE DEF withStatus, shown
    <3> QED
      BY <2>1
  <2> HIDE DEF plain, status, withStatus
  <2> QED
    BY <2>2, <2>3, <2>4 DEF ShownIn
<1>3. \A gvr \in known : /\ gvr.group = group /\ gvr.version = version
                         /\ gvr = [group |-> group, version |-> version,
                                   resource |-> gvr.resource]
                         /\ gvr.resource \in Words
  BY ServedResources
<1>4. IsFiniteSet(known) /\ IsFiniteSet(withStatus)
  <2>1. known \in SUBSET DOMAIN typeInfo /\ withStatus \in SUBSET known
    OBVIOUS
  <2> HIDE DEF known, withStatus
  <2> QED
    BY <2>1, FS_Subset DEF DiscoveryInv
<1> DEFINE P == [gvr \in known |-> shown(gvr, << >>)]
           W == [gvr \in withStatus |-> shown(gvr, <<"status">>)]
<1>5. IsFiniteSet(resources)
  <2>1. /\ DOMAIN P = known /\ {P[x] : x \in DOMAIN P} = plain
        /\ DOMAIN W = withStatus /\ {W[x] : x \in DOMAIN W} = status
    OBVIOUS
  <2> HIDE DEF P, W, known, withStatus, plain, status
  <2>2. IsFiniteSet(plain) /\ IsFiniteSet(status)
    BY <2>1, <1>4, FiniteImage
  <2> QED
    BY <2>2, FS_Union
<1>6. \A gvr : /\ shown(gvr, << >>).name[1] = gvr.resource
               /\ Len(shown(gvr, << >>).name) = 1
               /\ shown(gvr, <<"status">>).name[1] = gvr.resource
               /\ Len(shown(gvr, <<"status">>).name) = 2
  OBVIOUS
<1>7. ASSUME NEW r \in resources
      PROVE  \E gvr \in known : /\ r.name[1] = gvr.resource
                                /\ \/ r = shown(gvr, << >>) /\ Len(r.name) = 1
                                   \/ r = shown(gvr, <<"status">>) /\ Len(r.name) = 2
  <2> HIDE DEF shown
  <2> QED
    BY <1>6
<1> HIDE DEF known, shown
<1>8. ASSUME NEW r \in resources, NEW q \in resources
      PROVE  rank[r] \in Int /\ (rank[r] = rank[q] => r = q)
  <2> HIDE DEF resources
  <2>1. PICK g \in known : /\ r.name[1] = g.resource
                           /\ \/ r = shown(g, << >>) /\ Len(r.name) = 1
                              \/ r = shown(g, <<"status">>) /\ Len(r.name) = 2
    BY <1>7
  <2>2. PICK h \in known : /\ q.name[1] = h.resource
                           /\ \/ q = shown(h, << >>) /\ Len(q.name) = 1
                              \/ q = shown(h, <<"status">>) /\ Len(q.name) = 2
    BY <1>7
  <2>3. /\ Rank[g.resource] \in Nat /\ Rank[h.resource] \in Nat
        /\ Rank[g.resource] = Rank[h.resource] => g.resource = h.resource
    BY <1>3, RankAssumption
  <2>4. rank[r] = 2 * Rank[g.resource] + Len(r.name) /\ rank[q] = 2 * Rank[h.resource] + Len(q.name)
    BY <2>1, <2>2
  <2> HIDE DEF rank
  <2>5. rank[r] \in Int
    BY <2>1, <2>3, <2>4
  <2>6. ASSUME rank[r] = rank[q]
        PROVE  Rank[g.resource] = Rank[h.resource] /\ Len(r.name) = Len(q.name)
    <3>1. \A a, b \in Nat : \A m, n \in {1, 2} :
            2 * a + m = 2 * b + n => a = b /\ m = n
      OBVIOUS
    <3>2. Len(r.name) \in {1, 2} /\ Len(q.name) \in {1, 2}
      BY <2>1, <2>2
    <3>3. 2 * Rank[g.resource] + Len(r.name) = 2 * Rank[h.resource] + Len(q.name)
      BY <2>4, <2>6
    <3> QED
      BY <3>1, <3>2, <3>3, <2>3
  <2>7. ASSUME rank[r] = rank[q]
        PROVE  r = q
    <3>1. g = h
      BY <2>3, <2>6, <2>7, <1>3
    <3> QED
      BY <3>1, <2>1, <2>2, <2>6, <2>7
  <2> QED
    BY <2>5, <2>7
<1>9. /\ DOMAIN SortedBy(resources, rank) = 1..Cardinality(resources)
      /\ Cardinality(resources) \in Nat
      /\ {SortedBy(resources, rank)[i] : i \in 1..Cardinality(resources)} = resources
      /\ \A i, j \in 1..Cardinality(resources) :
           i < j => rank[SortedBy(resources, rank)[i]] < rank[SortedBy(resources, rank)[j]]
  <2> HIDE DEF resources, rank
  <2> QED
    BY <1>5, <1>8, SortedHasAll
<1>10. \A r \in resources : rank[r] = RankOfName(r)
  <2> HIDE DEF resources
  <2> QED
    BY DEF RankOfName
<1> HIDE DEF resources, rank
<1>11. \A i \in 1..Cardinality(resources) : SortedBy(resources, rank)[i] \in resources
  BY <1>9
<1> QED
  BY <1>1, <1>a, <1>9, <1>10, <1>11

\* The resources of a version that are offered are those the store knows.
LEMMA AllAreOffered ==
    ASSUME StoreInv, DiscoveryInv, phase = "serve", NEW group, NEW version
    PROVE  Offered(group, version) = KnownIn(group, version)
<1> DEFINE list == buildAPIResourceList(group, version)
           known == KnownIn(group, version)
           shown == ShownIn(group, version)
<1>1. ToSet(list) = shown
  BY ResourceListIs DEF ToSet
<1>2. \A gvr \in known : gvr = [group |-> group, version |-> version, resource |-> gvr.resource]
  BY ServedResources DEF KnownIn
<1>3. \A gvr : /\ ShownAs(gvr, << >>).name[1] = gvr.resource
               /\ ShownAs(gvr, <<"status">>).name[1] = gvr.resource
  BY DEF ShownAs
<1>4. ASSUME NEW r \in shown
      PROVE  \E gvr \in known : r.name[1] = gvr.resource
  BY <1>3 DEF ShownIn
<1>5. ASSUME NEW gvr \in known
      PROVE  \E r \in shown : r.name[1] = gvr.resource
  BY <1>3 DEF ShownIn
<1> HIDE DEF known, shown, list
<1>6. {[group |-> group, version |-> version, resource |-> r.name[1]] : r \in shown} = known
  <2>1. ASSUME NEW r \in shown
        PROVE  [group |-> group, version |-> version, resource |-> r.name[1]] \in known
    <3>1. PICK gvr \in known : r.name[1] = gvr.resource
      BY <1>4
    <3> QED
      BY <3>1, <1>2
  <2>2. ASSUME NEW gvr \in known
        PROVE  \E r \in shown :
                 gvr = [group |-> group, version |-> version, resource |-> r.name[1]]
    BY <1>2, <1>5
  <2> QED
    BY <2>1, <2>2
<1> QED
  BY <1>1, <1>6 DEF Offered, list, known

\* Words are sorted whole, and in the order of their ranks.
LEMMA WordsSorted ==
    ASSUME NEW S, IsFiniteSet(S), S \subseteq Words
    PROVE  /\ Cardinality(S) \in Nat /\ DOMAIN SortedBy(S, Rank) = 1..Cardinality(S)
           /\ {SortedBy(S, Rank)[i] : i \in 1..Cardinality(S)} = S
           /\ \A i, j \in 1..Cardinality(S) :
                i < j => Rank[SortedBy(S, Rank)[i]] < Rank[SortedBy(S, Rank)[j]]
           /\ S # {} => Head(SortedBy(S, Rank)) = SortedBy(S, Rank)[1]
<1> DEFINE sorted == SortedBy(S, Rank)
           n == Cardinality(S)
<1>1. \A x, y \in S : Rank[x] \in Int /\ (Rank[x] = Rank[y] => x = y)
  BY RankAssumption
<1>2. /\ n \in Nat /\ DOMAIN sorted = 1..n
      /\ {sorted[i] : i \in 1..n} = S
      /\ \A i, j \in 1..n : i < j => Rank[sorted[i]] < Rank[sorted[j]]
  BY <1>1, SortedHasAll
<1>3. sorted = [i \in 1..n |-> sorted[i]]
  <2> DEFINE at(i) == CHOOSE x \in S : Cardinality({y \in S : Rank[y] < Rank[x]}) = i - 1
  <2>1. sorted = [i \in 1..n |-> at(i)]
    BY DEF SortedBy
  <2> HIDE DEF at, sorted, n
  <2> QED
    BY <2>1
<1> HIDE DEF sorted, n
<1>4. ASSUME S # {}
      PROVE  Head(sorted) = sorted[1]
  <2>1. \A i \in 1..n : sorted[i] \in S
    BY <1>2
  <2>2. sorted \in Seq(S)
    BY <1>2, <1>3, <2>1
  <2>3. sorted # << >>
    BY <1>2, <1>4
  <2> QED
    BY <2>2, <2>3, HeadTailProperties
<1> QED
  BY <1>2, <1>4 DEF sorted, n

\* The versions of a group, and the groups but the core.
VersionsOf(group) == {gvr.version : gvr \in {h \in DOMAIN typeInfo : h.group = group}}
GroupsKnown == {gvr.group : gvr \in DOMAIN typeInfo} \ {""}

\* The group list has every group but the core, each with all its versions, both in
\* the order of their names; the first version is the preferred one.
LEMMA GroupListIs ==
    ASSUME StoreInv, DiscoveryInv, phase = "serve"
    PROVE  LET list == buildAPIGroupList
           IN  /\ {list[i].name : i \in DOMAIN list} = GroupsKnown
               /\ \A i, j \in DOMAIN list : i < j => Rank[list[i].name] < Rank[list[j].name]
               /\ \A i \in DOMAIN list :
                    LET versions == list[i].versions
                    IN  /\ {versions[j] : j \in DOMAIN versions} = VersionsOf(list[i].name)
                        /\ \A j, k \in DOMAIN versions :
                             j < k => Rank[versions[j]] < Rank[versions[k]]
                        /\ list[i].preferred = versions[1]
<1> DEFINE versions(g) == {gv.version : gv \in {h \in GroupVersions : h.group = g}}
           groups == {gv.group : gv \in GroupVersions} \ {""}
           names == SortedBy(groups, Rank)
           V == [gvr \in DOMAIN typeInfo |-> gvr.version]
           G == [gvr \in DOMAIN typeInfo |-> gvr.group]
<1>1. GroupVersions = {[group |-> gvr.group, version |-> gvr.version] : gvr \in DOMAIN typeInfo}
  <2>1. DOMAIN typeInfo = {b[1] : b \in DOMAIN byGVR}
    BY ServedResources
  <2> QED
    BY <2>1 DEF GroupVersions
<1>2. groups = GroupsKnown /\ \A g : versions(g) = VersionsOf(g)
  <2>1. ASSUME NEW gv \in GroupVersions
        PROVE  \E gvr \in DOMAIN typeInfo : gvr.group = gv.group /\ gvr.version = gv.version
    BY <1>1
  <2>2. ASSUME NEW gvr \in DOMAIN typeInfo
        PROVE  \E gv \in GroupVersions : gvr.group = gv.group /\ gvr.version = gv.version
    <3>1. [group |-> gvr.group, version |-> gvr.version] \in GroupVersions
      BY <1>1
    <3> QED
      BY <3>1
  <2>3. {gv.group : gv \in GroupVersions} = {gvr.group : gvr \in DOMAIN typeInfo}
    BY <2>1, <2>2
  <2>4. ASSUME NEW g
        PROVE  versions(g) = VersionsOf(g)
    BY <2>1, <2>2 DEF VersionsOf
  <2> QED
    BY <2>3, <2>4 DEF GroupsKnown
<1> HIDE DEF groups, versions
<1>3. \A gvr \in DOMAIN typeInfo : gvr.group \in Words /\ gvr.version \in Words
  BY ServedResources
<1>4. IsFiniteSet({G[x] : x \in DOMAIN G}) /\ IsFiniteSet({V[x] : x \in DOMAIN V})
  <2>1. DOMAIN G = DOMAIN typeInfo /\ DOMAIN V = DOMAIN typeInfo
    OBVIOUS
  <2> HIDE DEF G, V
  <2> QED
    BY <2>1, FiniteImage DEF DiscoveryInv
<1>5. IsFiniteSet(groups) /\ groups \subseteq Words
  <2>1. groups \in SUBSET {G[x] : x \in DOMAIN G} /\ groups \subseteq Words
    BY <1>2, <1>3 DEF GroupsKnown
  <2> HIDE DEF G
  <2> QED
    BY <2>1, <1>4, FS_Subset
<1>6. ASSUME NEW g
      PROVE  IsFiniteSet(versions(g)) /\ versions(g) \subseteq Words
  <2>1. VersionsOf(g) \in SUBSET {V[x] : x \in DOMAIN V} /\ VersionsOf(g) \subseteq Words
    BY <1>3 DEF VersionsOf
  <2> HIDE DEF V
  <2> QED
    BY <2>1, <1>2, <1>4, FS_Subset
<1> DEFINE m == Cardinality(groups)
<1>7. /\ DOMAIN names = 1..m
      /\ {names[i] : i \in 1..m} = groups
      /\ \A i, j \in 1..m : i < j => Rank[names[i]] < Rank[names[j]]
  BY <1>5, WordsSorted
<1> DEFINE sorted(g) == SortedBy(versions(g), Rank)
           list == buildAPIGroupList
<1>8. list = [i \in DOMAIN names |-> [name |-> names[i], versions |-> sorted(names[i]),
                                      preferred |-> Head(sorted(names[i]))]]
  BY DEF buildAPIGroupList, groups, versions
<1>9. ASSUME NEW g \in groups
      PROVE  /\ {sorted(g)[j] : j \in DOMAIN sorted(g)} = VersionsOf(g)
             /\ \A j, k \in DOMAIN sorted(g) : j < k => Rank[sorted(g)[j]] < Rank[sorted(g)[k]]
             /\ Head(sorted(g)) = sorted(g)[1]
  <2>1. versions(g) # {}
    BY <1>2 DEF GroupsKnown, VersionsOf
  <2>2. versions(g) = VersionsOf(g)
    BY <1>2
  <2> QED
    BY <2>1, <2>2, <1>6, WordsSorted
<1> HIDE DEF names, sorted, list, m
<1>10. /\ DOMAIN list = 1..m
       /\ \A i \in 1..m : /\ list[i].name = names[i] /\ names[i] \in groups
                          /\ list[i].versions = sorted(names[i])
                          /\ list[i].preferred = Head(sorted(names[i]))
  BY <1>7, <1>8
<1>11. {list[i].name : i \in DOMAIN list} = GroupsKnown
  BY <1>2, <1>7, <1>10
<1>12. \A i, j \in DOMAIN list : i < j => Rank[list[i].name] < Rank[list[j].name]
  BY <1>7, <1>10
<1>13. ASSUME NEW i \in DOMAIN list
       PROVE  LET versions_i == list[i].versions
              IN  /\ {versions_i[j] : j \in DOMAIN versions_i} = VersionsOf(list[i].name)
                  /\ \A j, k \in DOMAIN versions_i :
                       j < k => Rank[versions_i[j]] < Rank[versions_i[k]]
                  /\ list[i].preferred = versions_i[1]
  BY <1>9, <1>10
<1> QED
  BY <1>11, <1>12, <1>13 DEF list

\* A client finds every version of every group but the core in the group list.
LEMMA AllGroupsAreListed ==
    ASSUME StoreInv, DiscoveryInv, phase = "serve"
    PROVE  \A group, version :
             (\E g \in ToSet(buildAPIGroupList) : g.name = group /\ version \in ToSet(g.versions))
               <=> /\ group # ""
                   /\ \E gvr \in DOMAIN typeInfo : gvr.group = group /\ gvr.version = version
<1> DEFINE list == buildAPIGroupList
<1>1. /\ {list[i].name : i \in DOMAIN list} = GroupsKnown
      /\ \A i \in DOMAIN list : ToSet(list[i].versions) = VersionsOf(list[i].name)
  BY GroupListIs DEF ToSet
<1> HIDE DEF list
<1>2. ASSUME NEW group, NEW version
      PROVE  (\E g \in ToSet(list) : g.name = group /\ version \in ToSet(g.versions))
               <=> group \in GroupsKnown /\ version \in VersionsOf(group)
  <2>1. ToSet(list) = {list[i] : i \in DOMAIN list}
    BY DEF ToSet
  <2>2. ASSUME NEW g \in ToSet(list), g.name = group, version \in ToSet(g.versions)
        PROVE  group \in GroupsKnown /\ version \in VersionsOf(group)
    <3>1. PICK i \in DOMAIN list : g = list[i]
      BY <2>1
    <3> QED
      BY <3>1, <2>2, <1>1
  <2>3. ASSUME group \in GroupsKnown, version \in VersionsOf(group)
        PROVE  \E g \in ToSet(list) : g.name = group /\ version \in ToSet(g.versions)
    <3>1. PICK i \in DOMAIN list : group = list[i].name
      BY <2>3, <1>1
    <3>2. list[i] \in ToSet(list) /\ version \in ToSet(list[i].versions)
      BY <2>1, <2>3, <3>1, <1>1
    <3> QED
      BY <3>1, <3>2
  <2> QED
    BY <2>2, <2>3
<1>3. ASSUME NEW group, NEW version
      PROVE  group \in GroupsKnown /\ version \in VersionsOf(group)
               <=> /\ group # ""
                   /\ \E gvr \in DOMAIN typeInfo : gvr.group = group /\ gvr.version = version
  BY DEF GroupsKnown, VersionsOf
<1>4. ASSUME NEW group, NEW version
      PROVE  (\E g \in ToSet(list) : g.name = group /\ version \in ToSet(g.versions))
               <=> /\ group # ""
                   /\ \E gvr \in DOMAIN typeInfo : gvr.group = group /\ gvr.version = version
  <2>1. (\E g \in ToSet(list) : g.name = group /\ version \in ToSet(g.versions))
          <=> group \in GroupsKnown /\ version \in VersionsOf(group)
    BY ONLY <1>2, Zenon
  <2>2. group \in GroupsKnown /\ version \in VersionsOf(group)
          <=> /\ group # ""
              /\ \E gvr \in DOMAIN typeInfo : gvr.group = group /\ gvr.version = version
    BY ONLY <1>3, Zenon
  <2> QED
    BY ONLY <2>1, <2>2, Zenon
<1> QED
  BY <1>4 DEF list

\* A client that asks for the resources of /api/v1, and of each version of each
\* group, learns of all resources that have objects, and of no other; and what it
\* is told to be cluster-scoped is in no namespace.
THEOREM DiscoveryIsComplete == StoreSpec => []DiscoveryMatchesIndex
<1>1. ASSUME StoreInv, DiscoveryInv, phase = "serve"
      PROVE  Discovered = {gvr \in {b[1] : b \in DOMAIN byGVR} : Routed(gvr)}
  <2> DEFINE groups == ToSet(buildAPIGroupList)
             offers == UNION {UNION {Offered(g.name, v) : v \in ToSet(g.versions)} :
                                g \in groups}
             at(group, version) == {gvr \in DOMAIN typeInfo :
                                      gvr.group = group /\ gvr.version = version}
  <2>1. DOMAIN typeInfo = {b[1] : b \in DOMAIN byGVR}
    BY <1>1, ServedResources
  <2>2. \A group, version : Offered(group, version) = at(group, version)
    BY <1>1, AllAreOffered DEF KnownIn
  <2>3. \A gvr : gvr \in offers <=>
          \E g \in groups : \E v \in ToSet(g.versions) : gvr \in Offered(g.name, v)
    <3> HIDE DEF groups
    <3> QED
      OBVIOUS
  <2>4. \A gvr : gvr \in offers <=>
          \E g \in groups : gvr \in DOMAIN typeInfo /\ gvr.group = g.name
                              /\ gvr.version \in ToSet(g.versions)
    <3>1. \A g, v, gvr : gvr \in Offered(g, v) <=>
            gvr \in DOMAIN typeInfo /\ gvr.group = g /\ gvr.version = v
      BY <2>2
    <3> HIDE DEF groups, offers
    <3> QED
      BY <2>3, <3>1
  <2> HIDE DEF groups
  <2>5. \A gvr : gvr \in offers <=> gvr \in DOMAIN typeInfo /\ gvr.group # ""
    <3> HIDE DEF offers
    <3>1. \A gvr \in DOMAIN typeInfo :
            (\E g \in groups : g.name = gvr.group /\ gvr.version \in ToSet(g.versions))
              <=> gvr.group # ""
      BY <1>1, AllGroupsAreListed DEF groups
    <3> QED
      BY <2>4, <3>1
  <2>6. Discovered = at("", "v1") \cup offers
    BY <2>2 DEF Discovered, groups
  <2> HIDE DEF offers
  <2> QED
    BY <2>1, <2>5, <2>6 DEF Routed
<1>2. ASSUME StoreInv, NEW b \in DOMAIN byGVR, b[2] # NoNamespace
      PROVE  typeInfo[b[1]].namespaced
  <2>1. 1 \in DOMAIN byGVR[b]
    BY <1>2 DEF StoreInv, ShapeInv
  <2>2. b # <<NamespaceGVR, NoNamespace>>
    BY <1>2
  <2>3. b = PlaceOf(byGVR[b][1])
    BY <1>2, <2>1, <2>2 DEF StoreInv, IndexInv
  <2> QED
    BY <1>2, <2>3 DEF PlaceOf
<1>3. StoreInv /\ DiscoveryInv => DiscoveryMatchesIndex
  BY <1>1, <1>2 DEF DiscoveryMatchesIndex, BetweenRequests
<1> QED
  BY <1>3, DiscoveryInvariant, PTL
=============================================================================
