--------------------------- MODULE ManifestStore ----------------------------
(***************************************************************************)
(* The store behind the mock API server (internal/serve/resources.go): the *)
(* documents are parsed, their kinds collected, missing namespaces made up *)
(* and everything indexed by resource and namespace; then clients list,    *)
(* get and discover (discovery.go and the handlers of server.go).  Nothing *)
(* changes the store once it serves, so concurrent requests do not see one *)
(* another; what varies is the order in which Go iterates over maps.       *)
(***************************************************************************)
EXTENDS ResourceTypes, Sorting, SequencesExt

CONSTANTS
    Streams,        \* the streams of documents on standard input
    Resources,      \* the resources clients ask for,
    Namespaces,     \* the namespaces (none: all of them),
    Names,          \* the names,
    Selectors,      \* and the label selectors
    Rank            \* the order of groups, versions and resources as strings

\* The documents that streams are made of.  One that is neither unreadable nor
\* incomplete is an object, whose metadata are a map, null or not there.
Documents == UNION {{stream[i] : i \in DOMAIN stream} : stream \in Streams}

Complete == {d \in Documents : d.form \notin {"unreadable", "incomplete"}}

ASSUME StreamsAssumption ==
    /\ \A stream \in Streams : stream \in Seq(Documents)
    /\ \A d \in Complete : /\ d.metadata \in {"map", "null", "absent"}
                           /\ d.labels \in Labels /\ d.kind # ""

\* The kinds and the resources that there may be, and the order of their names.
Kinds == {NamespaceGVK} \cup {gvkOf(d) : d \in Complete}

Words == UNION {{gvr.group, gvr.version, gvr.resource} :
                  gvr \in {GvrOf(gvk) : gvk \in Kinds}}

ASSUME RankAssumption ==
    \A v, w \in Words : v \in DOMAIN Rank /\ Rank[v] \in Nat
                          /\ (Rank[v] = Rank[w] => v = w)

VARIABLES
    phase,          \* where ParseManifests, NewStore and the server are
    unread,         \* the documents not decoded yet
    objects,        \* what ParseManifests returns
    next,           \* the index of the loop over objects
    referencedNS,   \* namespaces that objects are in (then: still to visit)
    typeInfo, gvrToGVK, gvkToGVR,   \* the maps of the store,
    byGVR,          \* from pairs of a resource and a namespace to objects
    response        \* what a handler is writing

typeVars  == <<typeInfo, gvrToGVK, gvkToGVR>>
storeVars == <<phase, unread, objects, next, referencedNS, typeVars, byGVR,
               response>>

NoResponse == [request |-> << >>]

\* m[k] = v
Put(m, k, v) == [x \in DOMAIN m \cup {k} |-> IF x = k THEN v ELSE m[x]]

EmptyMap == [x \in {} |-> x]

StoreInit ==
    /\ phase = "parse"
    /\ unread \in Streams
    /\ objects = << >>
    /\ next = 1
    /\ referencedNS = {}
    /\ typeInfo = EmptyMap /\ gvrToGVK = EmptyMap /\ gvkToGVR = EmptyMap
    /\ byGVR = EmptyMap
    /\ response = NoResponse

-----------------------------------------------------------------------------
(* ParseManifests.                                                         *)

\* An object in memory.  What metadata holds is only there to be read if it is
\* a map ("metadata:" alone decodes to null).  What was parsed is remembered.
ObjectOf(d, i) ==
    [apiVersion |-> d.apiVersion, kind |-> d.kind,
     metadata |-> d.metadata, parsed |-> d.metadata,
     ns     |-> IF d.metadata = "map" THEN d.ns ELSE NoNamespace,
     name   |-> IF d.metadata = "map" THEN d.name ELSE "",
     labels |-> IF d.metadata = "map" THEN d.labels ELSE NoLabels,
     doc    |-> i]

\* An empty document, or one without a kind or an apiVersion, is skipped.
ReadDocument ==
    /\ phase = "parse" /\ unread # << >>
    /\ Head(unread).form # "unreadable"
    /\ unread' = Tail(unread)
    /\ objects' = IF Head(unread).form = "incomplete" THEN objects
                  ELSE Append(objects, ObjectOf(Head(unread), Len(objects) + 1))
    /\ UNCHANGED <<phase, next, referencedNS, typeVars, byGVR, response>>

\* Decode fails: nothing is served.
ParseFails ==
    /\ phase = "parse" /\ unread # << >>
    /\ Head(unread).form = "unreadable"
    /\ phase' = "failed"
    /\ UNCHANGED <<unread, objects, next, referencedNS, typeVars, byGVR,
                   response>>

EndOfInput ==
    /\ phase = "parse" /\ unread = << >>
    /\ phase' = "collect"
    /\ UNCHANGED <<unread, objects, next, referencedNS, typeVars, byGVR,
                   response>>

-----------------------------------------------------------------------------
(* NewStore.                                                               *)

\* Mutant: the kind of a resource is not recorded.
RegisterTypeOnly(gvk) ==
    /\ typeInfo' = Put(typeInfo, GvrOf(gvk), LookupType(gvk))
    /\ gvkToGVR' = Put(gvkToGVR, gvk, GvrOf(gvk))
    /\ UNCHANGED gvrToGVK

RegisterType(gvk) ==
    /\ typeInfo' = Put(typeInfo, GvrOf(gvk), LookupType(gvk))
    /\ gvrToGVK' = Put(gvrToGVK, GvrOf(gvk), gvk)
    /\ gvkToGVR' = Put(gvkToGVR, gvk, GvrOf(gvk))

\* SetNamespace fails silently if metadata is there and not a map.
SetNamespace(obj, ns) ==
    IF obj.metadata = "null" THEN obj
    ELSE [obj EXCEPT !.ns = ns, !.metadata = "map"]

\* The first loop: the kind of one object, and the namespace it is in.
CollectObject ==
    /\ phase = "collect" /\ next <= Len(objects)
    /\ LET obj  == objects[next]
           info == LookupType(gvkOf(obj))
           ns   == IF obj.ns = NoNamespace THEN "default" ELSE obj.ns
       IN  /\ RegisterType(gvkOf(obj))
           /\ referencedNS' = referencedNS \cup IF info.namespaced THEN {ns} ELSE {}
           /\ objects' = IF info.namespaced /\ obj.ns = NoNamespace
                         THEN [objects EXCEPT ![next] = SetNamespace(obj, "default")]
                         ELSE objects
    /\ next' = next + 1
    /\ UNCHANGED <<phase, unread, byGVR, response>>

\* The namespaces that have a manifest of their own.
definedNS ==
    {objects[i].name : i \in {j \in DOMAIN objects :
        objects[j].kind = "Namespace" /\ objects[j].apiVersion = <<"v1">>}}

\* Mutant: the kind Namespace is registered only if a manifest has it.
CollectedOnly ==
    /\ phase = "collect" /\ next > Len(objects)
    /\ referencedNS' = referencedNS \cup {"default"}
    /\ next' = 1
    /\ phase' = "synthesize"
    /\ UNCHANGED <<unread, objects, typeVars, byGVR, response>>

\* "default" is always there, and so is the resource of namespaces.
CollectedAll ==
    /\ phase = "collect" /\ next > Len(objects)
    /\ referencedNS' = referencedNS \cup {"default"}
    /\ RegisterType(NamespaceGVK)
    /\ next' = 1
    /\ phase' = "synthesize"
    /\ UNCHANGED <<unread, objects, byGVR, response>>

\* Mutant: a new slice for each object.
addAlone(gvr, ns, obj) == byGVR' = Put(byGVR, <<gvr, ns>>, <<obj>>)

\* add: one more object of a resource in a namespace.
add(gvr, ns, obj) ==
    byGVR' = Put(byGVR, <<gvr, ns>>,
                 IF <<gvr, ns>> \in DOMAIN byGVR
                 THEN Append(byGVR[<<gvr, ns>>], obj) ELSE <<obj>>)

\* enrichMetadata puts a map where there is none.
enrichMetadata(obj) == [obj EXCEPT !.metadata = "map"]

synthesizeNamespace(ns) ==
    [apiVersion |-> <<"v1">>, kind |-> "Namespace",
     metadata |-> "map", parsed |-> "map", ns |-> NoNamespace, name |-> ns,
     labels |-> NoLabels, doc |-> 0]

\* Mutant: every referenced namespace is made up, also those in the input.
SynthesizeAnyway(ns) ==
    /\ phase = "synthesize"
    /\ referencedNS' = referencedNS \ {ns}
    /\ add(NamespaceGVR, NoNamespace, enrichMetadata(synthesizeNamespace(ns)))
    /\ UNCHANGED <<phase, unread, objects, next, typeVars, response>>

\* One turn of the loop over the map of namespaces, in any order.
SynthesizeMissing(ns) ==
    /\ phase = "synthesize"
    /\ referencedNS' = referencedNS \ {ns}
    /\ IF ns \in definedNS THEN UNCHANGED byGVR
       ELSE add(NamespaceGVR, NoNamespace,
                enrichMetadata(synthesizeNamespace(ns)))
    /\ UNCHANGED <<phase, unread, objects, next, typeVars, response>>

SynthesizedAll ==
    /\ phase = "synthesize" /\ referencedNS = {}
    /\ phase' = "index"
    /\ UNCHANGED <<unread, objects, next, referencedNS, typeVars, byGVR,
                   response>>

\* The last loop: the scope is the one the resource ended up with.
IndexObject ==
    /\ phase = "index" /\ next <= Len(objects)
    /\ LET obj == objects[next]
           gvr == gvkToGVR[gvkOf(obj)]
           ns  == IF typeInfo[gvr].namespaced THEN obj.ns ELSE NoNamespace
       IN  /\ add(gvr, ns, enrichMetadata(obj))
           /\ objects' = [objects EXCEPT ![next] = enrichMetadata(obj)]
    /\ next' = next + 1
    /\ UNCHANGED <<phase, unread, referencedNS, typeVars, response>>

IndexedAll ==
    /\ phase = "index" /\ next > Len(objects)
    /\ phase' = "serve"
    /\ UNCHANGED <<unread, objects, next, referencedNS, typeVars, byGVR,
                   response>>

-----------------------------------------------------------------------------
(* Queries of the store.                                                   *)

Bucket(gvr, ns) ==
    IF <<gvr, ns>> \in DOMAIN byGVR THEN byGVR[<<gvr, ns>>] ELSE << >>

\* The namespaces a query goes through.
Buckets(gvr, ns) ==
    IF ns = NoNamespace THEN {b[2] : b \in {c \in DOMAIN byGVR : c[1] = gvr}}
    ELSE {ns}

\* Mutant: the objects are collected in a set first.
ListUnsorted(gvr, ns, sel) ==
    {SetToSeq({obj \in UNION {ToSet(Bucket(gvr, n)) : n \in Buckets(gvr, ns)} :
                 obj.labels \in parseSelector(sel)})}

\* List: one namespace after the other, in any order.
List(gvr, ns, sel) ==
    LET matching(n) == {i \in DOMAIN Bucket(gvr, n) :
                          Bucket(gvr, n)[i].labels \in parseSelector(sel)}
    IN  {FlattenSeq([i \in DOMAIN order |->
                       ElementsAt(Bucket(gvr, order[i]), matching(order[i]))]) :
            order \in SetToSeqs(Buckets(gvr, ns))}

\* Get: the first of that name, in whichever namespace comes first.
Get(gvr, ns, name) ==
    LET named(n) == {i \in DOMAIN Bucket(gvr, n) : Bucket(gvr, n)[i].name = name}
        first(n) == CHOOSE i \in named(n) : \A j \in named(n) : i <= j
        found    == {n \in Buckets(gvr, ns) : named(n) # {}}
    IN  IF found = {} THEN {<< >>} ELSE {<<Bucket(gvr, n)[first(n)]>> : n \in found}

KindForGVR(gvr) ==
    IF gvr \in DOMAIN gvrToGVK THEN gvrToGVK[gvr].kind ELSE ""

-----------------------------------------------------------------------------
(* The handlers.                                                           *)

\* The paths start with /api/v1 or with /apis/{group}/{version}.
Routed(gvr) == gvr.group # "" \/ gvr.version = "v1"

respondList(gvr, ns, sel) ==
    /\ phase = "serve" /\ response = NoResponse
    /\ Routed(gvr)
    /\ \E items \in List(gvr, ns, sel) :
         response' = [request |-> <<"list", gvr, ns, sel>>,
                      kind |-> IF KindForGVR(gvr) = "" THEN "Unknown"
                               ELSE KindForGVR(gvr),
                      items |-> items]
    /\ UNCHANGED <<phase, unread, objects, next, referencedNS, typeVars, byGVR>>

\* No item: 404.
respondGet(gvr, ns, name) ==
    /\ phase = "serve" /\ response = NoResponse
    /\ Routed(gvr)
    /\ \E items \in Get(gvr, ns, name) :
         response' = [request |-> <<"get", gvr, ns, name>>, items |-> items]
    /\ UNCHANGED <<phase, unread, objects, next, referencedNS, typeVars, byGVR>>

writeJSON ==
    /\ phase = "serve" /\ response # NoResponse
    /\ response' = NoResponse
    /\ UNCHANGED <<phase, unread, objects, next, referencedNS, typeVars, byGVR>>

-----------------------------------------------------------------------------
(* Discovery.                                                              *)

GroupVersions ==
    {[group |-> b[1].group, version |-> b[1].version] : b \in DOMAIN byGVR}

\* Sorted by name; the core group is served under /api, and the first version of
\* a group is the preferred one.
buildAPIGroupList ==
    LET versions(g) == {gv.version : gv \in {h \in GroupVersions : h.group = g}}
        names == SortedBy({gv.group : gv \in GroupVersions} \ {""}, Rank)
    IN  [i \in DOMAIN names |->
           [name |-> names[i], versions |-> SortedBy(versions(names[i]), Rank),
            preferred |-> Head(SortedBy(versions(names[i]), Rank))]]

\* The resources of a group and version, sorted by name; a name is that of the
\* resource, which "status" may follow.
buildAPIResourceList(group, version) ==
    LET known == {gvr \in DOMAIN typeInfo :
                    /\ gvr.group = group /\ gvr.version = version
                    /\ KindForGVR(gvr) # ""}
        withStatus == {gvr \in known : isStatusSubresourceKind(KindForGVR(gvr))}
        shown(gvr, suffix) ==
            [name |-> <<gvr.resource>> \o suffix, kind |-> KindForGVR(gvr),
             namespaced |-> typeInfo[gvr].namespaced]
        resources == {shown(gvr, << >>) : gvr \in known}
                     \cup {shown(gvr, <<"status">>) : gvr \in withStatus}
    IN  SortedBy(resources,
                 [r \in resources |-> 2 * Rank[r.name[1]] + Len(r.name)])

handleAPIs ==
    /\ phase = "serve" /\ response = NoResponse
    /\ response' = [request |-> <<"groups">>, items |-> buildAPIGroupList]
    /\ UNCHANGED <<phase, unread, objects, next, referencedNS, typeVars, byGVR>>

\* GET /api/v1, or /apis/{group}/{version}: what is not there has no resources.
handleGroupVersionDiscovery(group, version) ==
    /\ phase = "serve" /\ response = NoResponse
    /\ Routed([group |-> group, version |-> version])
    /\ response' = [request |-> <<"resources", group, version>>,
                    items |-> buildAPIResourceList(group, version)]
    /\ UNCHANGED <<phase, unread, objects, next, referencedNS, typeVars, byGVR>>

\* The handlers that do not look at the store.
handleFixed(path) ==
    /\ phase = "serve" /\ response = NoResponse
    /\ response' = [request |-> <<"fixed", path>>, items |-> FixedAnswers[path]]
    /\ UNCHANGED <<phase, unread, objects, next, referencedNS, typeVars, byGVR>>

-----------------------------------------------------------------------------
StoreNext ==
    \/ ReadDocument \/ ParseFails \/ EndOfInput
    \/ CollectObject \/ CollectedAll
    \/ \E ns \in referencedNS : SynthesizeMissing(ns)
    \/ SynthesizedAll \/ IndexObject \/ IndexedAll
    \/ \E gvr \in Resources, ns \in Namespaces :
         \/ \E sel \in Selectors : respondList(gvr, ns, sel)
         \/ \E name \in Names : respondGet(gvr, ns, name)
    \/ handleAPIs
    \/ \E gvr \in Resources : handleGroupVersionDiscovery(gvr.group, gvr.version)
    \/ \E path \in DOMAIN FixedAnswers : handleFixed(path)
    \/ writeJSON
    \/ phase = "failed" /\ UNCHANGED storeVars

StoreSpec == StoreInit /\ [][StoreNext]_storeVars

-----------------------------------------------------------------------------
(* Safety.                                                                 *)

\* Objects keep the shape that the parser gave them and buckets hold objects of
\* their resource.
StoreTypeOK ==
    /\ phase \in {"parse", "collect", "synthesize", "index", "serve", "failed"}
    /\ next \in 1..(Len(objects) + 1)
    /\ \A i \in DOMAIN objects :
         objects[i].doc = i /\ objects[i].labels \in Labels
    /\ DOMAIN gvrToGVK = DOMAIN typeInfo
    /\ \A b \in DOMAIN byGVR : \A i \in DOMAIN byGVR[b] :
         GvrOf(gvkOf(byGVR[b][i])) = b[1]

\* The store as the next request will find it.
BetweenRequests == phase = "serve" /\ response = NoResponse

\* Where the manifest of the i-th document is in the index.
PlacesOf(i) ==
    UNION {{<<b, j>> : j \in {k \in DOMAIN byGVR[b] : byGVR[b][k].doc = i}} :
             b \in DOMAIN byGVR}

\* Every manifest is served, once: whatever its kind, its namespace and its
\* metadata, it is in exactly one bucket of the store, and the buckets keep the
\* order of the documents.
EveryManifestOnce ==
    BetweenRequests =>
        /\ \A i \in DOMAIN objects : Cardinality(PlacesOf(i)) = 1
        /\ \A b \in DOMAIN byGVR : \A j \in 1..Len(byGVR[b]) - 1 :
             byGVR[b][j].doc <= byGVR[b][j + 1].doc

\* All kinds that are served under a resource are namespaced.
NamespacedOnly(gvr) ==
    \A gvk \in DOMAIN gvkToGVR : gvkToGVR[gvk] = gvr => LookupType(gvk).namespaced

\* "Synthesize Namespace objects for referenced but undefined namespaces": the
\* namespace of every object can be got, and none is made up that a manifest
\* defines, or twice.  (A resource that is both cluster-scoped and namespaced, by
\* two of its kinds, is left out: what was collected as cluster-scoped may be
\* indexed in a namespace that nobody collected.)
NamespacesExist ==
    BetweenRequests =>
        LET spaces == Bucket(NamespaceGVR, NoNamespace)
        IN  /\ \A b \in DOMAIN byGVR :
                 (b[2] # NoNamespace /\ NamespacedOnly(b[1])) =>
                   \E i \in DOMAIN spaces :
                     spaces[i].kind = "Namespace" /\ spaces[i].name = b[2]
            /\ \A i \in DOMAIN spaces : spaces[i].doc = 0 =>
                 /\ spaces[i].name \notin definedNS
                 /\ \A j \in DOMAIN spaces :
                      spaces[j].doc = 0 /\ spaces[j].name = spaces[i].name => j = i

\* What a client learns that asks for /api/v1, and for the resources of each
\* version of each group that /apis lists.
Offered(group, version) ==
    {[group |-> group, version |-> version, resource |-> r.name[1]] :
        r \in ToSet(buildAPIResourceList(group, version))}
Discovered ==
    Offered("", "v1")
    \cup UNION {UNION {Offered(g.name, v) : v \in ToSet(g.versions)} :
                  g \in ToSet(buildAPIGroupList)}

\* A client that discovers the resources and lists each of them sees every
\* object it could ask for, and no resource that has none; what discovery calls
\* cluster-scoped is never found in a namespace, whichever of two kinds of one
\* resource came last.
DiscoveryMatchesIndex ==
    BetweenRequests =>
        /\ Discovered = {gvr \in {b[1] : b \in DOMAIN byGVR} : Routed(gvr)}
        /\ \A b \in DOMAIN byGVR :
             b[2] # NoNamespace => typeInfo[b[1]].namespaced

-----------------------------------------------------------------------------
(* Refinement.                                                             *)

EntryOf(obj) ==
    Entry(obj.apiVersion, obj.kind, obj.ns, obj.name, obj.labels, obj.parsed # "null")

\* The objects as clients can tell them apart,
storeEntries == [i \in DOMAIN objects |-> EntryOf(objects[i])]

\* and so in what a handler answers that lists or gets objects.
storeAnswer ==
    IF response.request \in {<< >>, <<"groups">>} \/
         response.request[1] \in {"resources", "fixed"} THEN response
    ELSE [response EXCEPT !.items =
            [i \in DOMAIN response.items |->
               [entry |-> EntryOf(response.items[i]), doc |-> response.items[i].doc]]]

Catalog == INSTANCE ResourceCatalog WITH
    entries <- storeEntries, open <- phase = "serve", answer <- storeAnswer

\* Clients see the catalog of the documents, whatever the order in which Go
\* iterates over the store's maps.
ImplementsCatalog == Catalog!CatalogSpec
=============================================================================
