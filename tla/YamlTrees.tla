----------------------------- MODULE YamlTrees ------------------------------
(***************************************************************************)
(* The documents of a stream as trees: what mutators change and how        *)
(* GetMeta of kyaml reads them.  A tree is a function from the paths of    *)
(* its nodes (the root's is << >>, a list's items are at positions) to     *)
(* what they hold: kind, the value of a scalar, and the text it was        *)
(* written as, which is not its value if it is quoted or has a comment.    *)
(* The order of fields is Manifests's business.                            *)
(***************************************************************************)
EXTENDS Manifests

CONSTANTS
    Positions,  \* the parts of a path that are taken for positions in a list
    Groups      \* from apiVersions to their groups

\* The fields that the commands look for are no numbers.
ASSUME PositionAssumption ==
    {"kind", "metadata", "labels", "annotations", "namespace", "name", "spec", "template",
     "jobTemplate", "containers", "replicas", "image"} \subseteq STRING \ Positions

workloadKinds == {"Deployment", "DaemonSet", "StatefulSet", "Job"}

containerPaths == <<
    <<"spec", "containers">>,
    <<"spec", "template", "spec", "containers">>,
    <<"spec", "jobTemplate", "spec", "template", "spec", "containers">> >>

nodeKinds == {"map", "list", "scalar", "null"}

Scalar(value) == [kind |-> "scalar", value |-> value, text |-> value]
Bare(kind) == [kind |-> kind, value |-> "", text |-> ""]

\* The nodes above a node are mappings, or lists, whose items are at positions.
IsTree(tree) ==
    /\ tree = [p \in DOMAIN tree |-> [kind |-> tree[p].kind, value |-> tree[p].value,
                                      text |-> tree[p].text]]
    /\ DOMAIN tree \subseteq Seq(STRING) /\ << >> \in DOMAIN tree
    /\ \A p \in DOMAIN tree : tree[p].kind \in nodeKinds
    /\ \A p \in DOMAIN tree \ {<< >>} :
         /\ Front(p) \in DOMAIN tree
         /\ \/ tree[Front(p)].kind = "map"
            \/ tree[Front(p)].kind = "list" /\ Last(p) \in Positions

Has(tree, path) == path \in DOMAIN tree
Kind(tree, path) == IF Has(tree, path) THEN tree[path].kind ELSE "missing"

\* IsMissingOrNull
Absent(tree, path) == Kind(tree, path) \in {"missing", "null"}

\* The keys of a mapping, the positions of a list.
Keys(tree, path) == {Last(p) : p \in {q \in DOMAIN tree : q # << >> /\ Front(q) = path}}

Without(tree, path) ==
    [p \in {q \in DOMAIN tree : ~IsPrefix(path, q)} |-> tree[p]]

\* There is a value and it is not an empty collection.
Filled(tree, path) ==
    Kind(tree, path) = "scalar" \/ (Has(tree, path) /\ Keys(tree, path) # {})

Value(tree, path) == IF Has(tree, path) THEN tree[path].value ELSE ""

\* GetMeta: a document with none of the three fields has no metadata.
GetMeta(tree) ==
    LET apiVersion == Value(tree, <<"apiVersion">>)
        labels == <<"metadata", "labels">>
    IN  [form    |-> IF Kind(tree, << >>) = "map" THEN "mapping" ELSE "other",
         hasMeta |-> \E f \in {"apiVersion", "kind", "metadata"} : Filled(tree, <<f>>),
         group   |-> Groups[apiVersion],
         kind    |-> Value(tree, <<"kind">>),
         name    |-> Value(tree, <<"metadata", "name">>),
         ns      |-> Value(tree, <<"metadata", "namespace">>),
         labels  |-> {<<k, Value(tree, Append(labels, k))>> : k \in Keys(tree, labels)}]

annotationsPath == <<"metadata", "annotations">>

\* The YAML writer of kyaml looks for annotations of its own: it fails if metadata
\* or annotations are values or lists.  A document that is null is written.
YamlWrites(tree) ==
    \/ Kind(tree, << >>) = "null"
    \/ /\ Kind(tree, << >>) = "map"
       /\ \A p \in {<<"metadata">>, annotationsPath} :
            Kind(tree, p) \in {"missing", "null", "map"}

\* It leaves out annotations that are null or empty.
YamlWritten(tree) ==
    IF Keys(tree, annotationsPath) = {} THEN Without(tree, annotationsPath) ELSE tree

\* The documents that are read from what was written of some: a null is none.
ReadBack(docs) ==
    ElementsAt([i \in DOMAIN docs |-> YamlWritten(docs[i])],
               {i \in DOMAIN docs : Kind(docs[i], << >>) # "null"})

\* A document that a mutator is applied to.
Selected(tree, opts) == Readable(GetMeta(tree)) /\ Match(GetMeta(tree), opts, "and")
=============================================================================
