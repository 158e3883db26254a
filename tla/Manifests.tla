----------------------------- MODULE Manifests -----------------------------
(***************************************************************************)
(* The documents of a stream and what the filters of pkg/engine do to the  *)
(* stream (match.go, get.go, drop.go, count.go) and the order of fields    *)
(* that every YAML output is given (pkg/diff/reorder.go).                  *)
(*                                                                         *)
(* A document is a record: form ("mapping" or "other"), hasMeta (there is  *)
(* something for GetMeta to read), typed (metadata is a mapping whose      *)
(* fields have the types of ResourceMeta), identified (apiVersion, kind    *)
(* and name are strings with more than blanks in them, and namespace, if   *)
(* it is there, a string), apiVersion, group (the part of apiVersion       *)
(* before its last slash), kind, name, ns, labels, the order of its fields *)
(* (fields, metaFields) and what they hold (value: of, mutated and hole, a *)
(* place where the text may have a variable), rigid (a mutator that is     *)
(* applied to it fails, or makes something else of it than a mapping), and *)
(* what ResourceSum adds.  Documents that the YAML writer refuses, and     *)
(* patches that make them null, are left to module Mutators.               *)
(***************************************************************************)
EXTENDS Sorting, SequencesExt

CONSTANTS
    Folded,     \* from kinds, and what users write for them, to lower case
    Contained,  \* the pairs of a string and a group that contains it
    Selects     \* from the selectors that parse to the labels they match

NoSelector == ""

\* A map with an entry of its own for a key.
Entered(map, key, entry) ==
    [k \in DOMAIN map \cup {key} |-> IF k = key THEN entry ELSE map[k]]

\* A mapping has each of its fields once.
FieldsOnce(fields) ==
    /\ fields \in Seq(ToSet(fields))
    /\ \A i, j \in DOMAIN fields : fields[i] = fields[j] => i = j

\* What a stream is read into: records of the fields above that no mutator has
\* been applied to.
IsManifest(d) ==
    /\ d = [field \in DOMAIN d |-> d[field]]
    /\ {"form", "fields", "metaFields", "value"} \subseteq DOMAIN d
    /\ FieldsOnce(d.fields) /\ FieldsOnce(d.metaFields)
    /\ d.value = [of |-> d.value.of, mutated |-> FALSE,
                  hole |-> [is |-> d.value.hole.is, of |-> d.value.hole.of]]

\* GetMeta returns no error.
Readable(d) == d.form = "mapping" /\ d.hasMeta

\* The criteria that were given: an empty one is not.
NoCriteria(opts) ==
    /\ opts.resource = << >>
    /\ opts.kind = "" /\ opts.name = "" /\ opts.ns = "" /\ opts.group = ""
    /\ opts.selector = NoSelector

\* A positional filter is a kind and a name, or a kind or part of a group.
ResourceMatches(d, resource) ==
    IF Len(resource) = 2
    THEN Folded[d.kind] = Folded[resource[1]] /\ d.name = resource[2]
    ELSE \/ Folded[d.kind] = Folded[resource[1]]
         \/ <<resource[1], d.group>> \in Contained

\* What each of the given criteria says of a document.
matches(d, opts) ==
    {ResourceMatches(d, r) : r \in {opts.resource} \ {<< >>}}
    \cup {Folded[d.kind] = Folded[k] : k \in {opts.kind} \ {""}}
    \cup {d.name = n : n \in {opts.name} \ {""}}
    \cup {d.ns = n : n \in {opts.ns} \ {""}}
    \cup {(<<g, d.group>> \in Contained) : g \in {opts.group} \ {""}}
    \cup {(d.labels \in Selects[s]) : s \in {opts.selector} \ {NoSelector}}

Match(d, opts, mode) ==
    \/ NoCriteria(opts)
    \/ mode = "and" /\ FALSE \notin matches(d, opts)
    \/ mode = "or" /\ TRUE \in matches(d, opts)

-----------------------------------------------------------------------------
(* The filters.                                                            *)

GetFilter(nodes, opts) ==
    ElementsAt(nodes, {i \in DOMAIN nodes : Readable(nodes[i]) /\ Match(nodes[i], opts, "and")})

\* Mutant: a document has to satisfy all criteria to be dropped.
DropFilterAll(nodes, opts) ==
    ElementsAt(nodes, {i \in DOMAIN nodes : Readable(nodes[i]) /\ ~Match(nodes[i], opts, "and")})

\* What GetMeta cannot read is dropped too.
DropFilter(nodes, opts) ==
    ElementsAt(nodes, {i \in DOMAIN nodes : Readable(nodes[i]) /\ ~Match(nodes[i], opts, "or")})

\* The documents in the scope of a mutator.
InScope(nodes, opts) ==
    {i \in DOMAIN nodes : Readable(nodes[i]) /\ Match(nodes[i], opts, "and")}

\* ScopedMutator fails as soon as mutateFn does; the others pass through.
MutatorFails(nodes, opts) == \E i \in InScope(nodes, opts) : nodes[i].rigid

ScopedMutator(nodes, opts) ==
    [i \in DOMAIN nodes |->
       IF i \in InScope(nodes, opts)
       THEN [nodes[i] EXCEPT !.value.mutated = TRUE] ELSE nodes[i]]

\* How many documents match and, if wanted, how many of each kind.
CountJSON(nodes, opts, groupByKind) ==
    LET counted == InScope(nodes, opts)
        kinds   == IF groupByKind THEN {nodes[i].kind : i \in counted} ELSE {}
    IN  [count |-> Cardinality(counted),
         countByKind |-> [k \in kinds |->
                            Cardinality({i \in counted : nodes[i].kind = k})]]

-----------------------------------------------------------------------------
(* The order of fields.                                                    *)

topFieldOrder == [apiVersion |-> 0, kind |-> 1, metadata |-> 2, spec |-> 3,
                  data |-> 4, type |-> 5, rules |-> 6, subjects |-> 7,
                  status |-> 100]

metadataFieldOrder == [name |-> 0, generateName |-> 1, namespace |-> 2,
                       labels |-> 3, annotations |-> 4, ownerReferences |-> 5,
                       finalizers |-> 6, managedFields |-> 7,
                       creationTimestamp |-> 8, uid |-> 9,
                       resourceVersion |-> 10, generation |-> 11, selfLink |-> 12]

\* Known fields in their order, then the others in the order they had: by the
\* number of a field and then by its place, taken together as one rank.
reorderMapping(fields, order) ==
    LET number(i) == IF fields[i] \in DOMAIN order THEN order[fields[i]] ELSE 999
        at == SortedBy(DOMAIN fields,
                       [i \in DOMAIN fields |-> Len(fields) * number(i) + i])
    IN  IF Len(fields) < 2 THEN fields ELSE [i \in DOMAIN fields |-> fields[at[i]]]

Reorder(d) == [d EXCEPT !.fields = reorderMapping(@, topFieldOrder),
                        !.metaFields = reorderMapping(@, metadataFieldOrder)]

\* A document that is not a mapping has no metadata to look up: an error.
ReorderFails(nodes) == \E i \in DOMAIN nodes : nodes[i].form # "mapping"

ReorderFilter(nodes) == [i \in DOMAIN nodes |-> Reorder(nodes[i])]
=============================================================================
