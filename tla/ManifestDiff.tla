---------------------------- MODULE ManifestDiff ----------------------------
(***************************************************************************)
(* The comparison of two streams (pkg/diff/engine.go).  Its maps are       *)
(* iterated over in any order, so an operator that does so yields the set  *)
(* of the results that the program may compute.                            *)
(***************************************************************************)
EXTENDS Manifests

CONSTANT Rank       \* from strings to their places in lexical order

ASSUME RankAssumption ==
    \A s, t \in DOMAIN Rank : Rank[s] \in Int /\ (Rank[s] = Rank[t] => s = t)

RefOf(d) == [apiVersion |-> d.apiVersion, kind |-> d.kind, name |-> d.name,
             ns |-> d.ns]

\* The strings of an identity are those that have been ranked.
IsRanked(d) == {d.apiVersion, d.kind, d.name, d.ns} \subseteq DOMAIN Rank

\* A document can be indexed: its identity is complete and made of strings, whatever
\* the types of its other fields are.
Indexable(d) == d.form = "mapping" /\ d.identified

\* The documents by identity, in a normal form; duplicates are rejected.
IndexNode(m, d) ==
    IF m.failed \/ ~Indexable(d) \/ RefOf(d) \in DOMAIN m.of
    THEN [m EXCEPT !.failed = TRUE]
    ELSE [m EXCEPT !.of = Entered(@, RefOf(d), Reorder(d))]

NoIndex == [failed |-> FALSE, of |-> [r \in {} |-> r]]

buildResourceMap(nodes) == FoldLeft(IndexNode, NoIndex, nodes)

\* Mutant: the apiVersion does not count.
lessKindNameNs(a, b) ==
    LET av == <<Rank[a.kind], Rank[a.name], Rank[a.ns]>>
        bv == <<Rank[b.kind], Rank[b.name], Rank[b.ns]>>
    IN  \E i \in DOMAIN av : av[i] < bv[i] /\ \A j \in 1..i - 1 : av[j] = bv[j]

\* By kind, name, namespace and apiVersion.
lessRef(a, b) ==
    LET av == <<Rank[a.kind], Rank[a.name], Rank[a.ns], Rank[a.apiVersion]>>
        bv == <<Rank[b.kind], Rank[b.name], Rank[b.ns], Rank[b.apiVersion]>>
    IN  \E i \in DOMAIN av : av[i] < bv[i] /\ \A j \in 1..i - 1 : av[j] = bv[j]

\* sort.Slice is not stable: any order in which no element is out of place.
sorted(refs) ==
    {s \in SetToSeqs(refs) : \A i, j \in DOMAIN s : i < j => ~lessRef(s[j], s[i])}

\* renderNode: what is compared is the text.
rendered(d) == <<d.fields, d.metaFields, d.value>>

diffResourceMaps(beforeMap, afterMap) ==
    {[added |-> added, removed |-> removed, modified |-> modified] :
        added    \in sorted(DOMAIN afterMap \ DOMAIN beforeMap),
        removed  \in sorted(DOMAIN beforeMap \ DOMAIN afterMap),
        modified \in sorted({key \in DOMAIN beforeMap \cap DOMAIN afterMap :
                       rendered(beforeMap[key]) # rendered(afterMap[key])})}

DiffFails(before, after) ==
    buildResourceMap(before).failed \/ buildResourceMap(after).failed

DiffNodes(before, after) ==
    diffResourceMaps(buildResourceMap(before).of, buildResourceMap(after).of)

HasChanges(d) == \E list \in DOMAIN d : d[list] # << >>
=============================================================================
