----------------------------- MODULE TreeEdits ------------------------------
(***************************************************************************)
(* What each mutating command makes of a document, as a tree.  A command   *)
(* is a record: op, match, and for each op what it needs: key and value,   *)
(* prefix and suffix, path, number (the replicas are an integer), patch.   *)
(***************************************************************************)
EXTENDS YamlTrees

ValueOf(cmd, tree) ==
    IF cmd.op = "rename"
    THEN cmd.prefix \o Value(tree, <<"metadata", "name">>) \o cmd.suffix
    ELSE cmd.value

\* The mappings that get a field, whether they are there already or not.
Targets(cmd, tree) ==
    CASE cmd.op = "label" ->
           {<<"metadata", "labels">>}
           \cup IF Value(tree, <<"kind">>) \in workloadKinds
                THEN {<<"spec", "template", "metadata", "labels">>} ELSE {}
      [] cmd.op = "annotate"      -> {<<"metadata", "annotations">>}
      [] cmd.op = "set-namespace" -> {<<"metadata">>}
      [] cmd.op = "rename" ->
           {p \in {<<"metadata">>} : ~Absent(tree, p)
                                       /\ ValueOf(cmd, tree) # Value(tree, <<"metadata", "name">>)}
      [] cmd.op = "scale"         -> {p \in {<<"spec">>} : ~Absent(tree, p)}
      [] cmd.op = "set-image"     ->
           {Append(c, i) : c \in ToSet(containerPaths), i \in Positions}
             \cap {p \in DOMAIN tree : ~Absent(tree, Append(p, "name"))
                                         /\ tree[Append(p, "name")].text = cmd.key}
      [] cmd.op \in {"remove", "patch"} -> {}

FieldOf(cmd) ==
    CASE cmd.op \in {"label", "annotate"} -> cmd.key
      [] cmd.op = "set-namespace" -> "namespace"
      [] cmd.op = "rename"        -> "name"
      [] cmd.op = "scale"         -> "replicas"
      [] cmd.op = "set-image"     -> "image"
      [] cmd.op \in {"remove", "patch"} -> ""

PrefixesOf(path) == {SubSeq(path, 1, n) : n \in 1..Len(path)}

\* A null on the way to a mapping stops the way there: nothing is set.
Blocked(tree, path) == \E p \in PrefixesOf(path) : Kind(tree, p) = "null"

\* Each of some mappings gets a field, and is made if it is not there.
WithFields(tree, mappings, key, value) ==
    LET open  == {p \in mappings : ~Blocked(tree, p)}
        set   == {Append(p, key) : p \in open}
        kept  == {p \in DOMAIN tree : \A s \in set : ~IsPrefix(s, p)}
        made  == (UNION {PrefixesOf(p) : p \in open}) \ DOMAIN tree
    IN  [p \in kept \cup made \cup set |->
           IF p \in set THEN Scalar(value) ELSE IF p \in made THEN Bare("map") ELSE tree[p]]

\* A field that is not there, or null, is taken over from the patch (a null is
\* not); one that is there is replaced unless both sides are mappings; then
\* their fields are merged.
Boundary(tree, patch) ==
    LET both(p) == Kind(tree, p) = "map" /\ Kind(patch, p) = "map"
    IN  {p \in DOMAIN patch : ~both(p) /\ \A n \in 0..Len(p) - 1 : both(SubSeq(p, 1, n))}

Merged(tree, patch) ==
    LET edge == Boundary(tree, patch)
        gone == {p \in edge : Absent(tree, p) /\ Kind(patch, p) = "null"}
        kept == {p \in DOMAIN tree : \A e \in edge : ~IsPrefix(e, p)}
        new  == {p \in DOMAIN patch : \E e \in edge \ gone : IsPrefix(e, p)}
    IN  [p \in kept \cup new |-> IF p \in kept THEN tree[p] ELSE patch[p]]

\* The path leads through mappings and lists to something that is not null.
Leads(tree, path) ==
    /\ ~Absent(tree, path)
    /\ \A n \in 1..Len(path) :
         path[n] \in Positions <=> Kind(tree, SubSeq(path, 1, n - 1)) = "list"

Mutated(cmd, tree) ==
    IF cmd.op = "patch" THEN Merged(tree, cmd.patch)
    ELSE IF cmd.op = "remove"
         THEN IF Leads(tree, cmd.path) THEN Without(tree, cmd.path) ELSE tree
    ELSE WithFields(tree, Targets(cmd, tree), FieldOf(cmd), ValueOf(cmd, tree))

\* A value or a list where a mapping is needed, a number that is none, an item of
\* a list to be removed, containers that are no list, and a patch with a field
\* that could be a position.
Refused(cmd, tree) ==
    \/ cmd.op # "set-image" /\ \E t \in Targets(cmd, tree) : \E p \in PrefixesOf(t) :
         Kind(tree, p) \in {"scalar", "list"}
    \/ cmd.op = "scale" /\ Targets(cmd, tree) # {} /\ ~cmd.number
    \/ cmd.op = "set-image"
         /\ \E c \in ToSet(containerPaths) : Kind(tree, c) \in {"scalar", "map"}
    \/ cmd.op = "remove" /\ Leads(tree, cmd.path) /\ Last(cmd.path) \in Positions
    \/ cmd.op = "patch" /\ \E p \in DOMAIN cmd.patch :
         /\ p # << >> /\ Last(p) \in Positions
         /\ \A n \in 0..Len(p) - 1 : /\ Kind(tree, SubSeq(p, 1, n)) = "map"
                                     /\ Kind(cmd.patch, SubSeq(p, 1, n)) = "map"
=============================================================================
