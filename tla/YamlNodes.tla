----------------------------- MODULE YamlNodes ------------------------------
(***************************************************************************)
(* The nodes of kyaml in memory, as far as the mutators use them.  A heap  *)
(* is a function from nodes to their kind, value and text and, for a       *)
(* mapping or a list, from keys or positions to the nodes below: a field   *)
(* that is set to a node points to it, so documents may share nodes.  A    *)
(* node is named by the document it was made for (0: the patch) and the    *)
(* path it was made at.                                                    *)
(***************************************************************************)
EXTENDS YamlTrees

Nil == <<-1, << >> >>       \* no node
Bad == <<-2, << >> >>       \* an error

CONSTANT MaxDepth           \* bound: no path is longer

\* The longest path that is made on the way to a field has five keys.
ASSUME DepthAssumption == MaxDepth \in Nat /\ 5 <= MaxDepth

Shallow(tree) == \A p \in DOMAIN tree : Len(p) <= MaxDepth

NodeOf(tree, p, owner) ==
    [kind |-> tree[p].kind, value |-> tree[p].value, text |-> tree[p].text,
     fields |-> [k \in Keys(tree, p) |-> <<owner, Append(p, k)>>]]

NewNode(kind) == [kind |-> kind, value |-> "", text |-> "", fields |-> [k \in {} |-> Nil]]
NewScalarRNode(value) == [NewNode("scalar") EXCEPT !.value = value, !.text = value]

\* The heap after the reader is done; trees[0] is the patch.
Load(trees) ==
    [n \in UNION {{<<i, p>> : p \in DOMAIN trees[i]} : i \in DOMAIN trees} |->
       NodeOf(trees[n[1]], n[2], n[1])]

\* The nodes below a node, each with the path that leads to it.
Reached(heap, node) ==
    LET under(x) == {<<Append(x[1], k), heap[x[2]].fields[k]>> : k \in DOMAIN heap[x[2]].fields}
        upTo[d \in 0..MaxDepth] ==
          {<< << >>, node>>} \cup IF d = 0 THEN {} ELSE UNION {under(x) : x \in upTo[d - 1]}
    IN  upTo[MaxDepth]

Follow(heap, node, path) == FoldLeft(LAMBDA n, k : heap[n].fields[k], node, path)

\* What the writer makes of a document.
TreeAt(heap, node) ==
    LET held(n) == [kind |-> heap[n].kind, value |-> heap[n].value, text |-> heap[n].text]
    IN  [p \in {x[1] : x \in Reached(heap, node)} |-> held(Follow(heap, node, p))]

IsMapping(heap, node) == heap[node].kind = "map"

\* Lookup: missing and null are no node; a key where there is no mapping, and a
\* position where there is no list, are errors.
LookupPart(heap, node, part) ==
    IF node \in {Nil, Bad} THEN node
    ELSE IF heap[node].kind = "null" THEN Nil
    ELSE IF heap[node].kind # IF part \in Positions THEN "list" ELSE "map" THEN Bad
    ELSE IF part \notin DOMAIN heap[node].fields THEN Nil
    ELSE IF heap[heap[node].fields[part]].kind = "null" THEN Nil
    ELSE heap[node].fields[part]

Lookup(heap, node, path) ==
    FoldLeft(LAMBDA n, part : LookupPart(heap, n, part), node, path)

\* The node that is made for a field.
Child(node, key) == <<node[1], Append(node[2], key)>>

\* The field points to a node.
Attach(heap, node, key, target) ==
    [heap EXCEPT ![node].fields = Entered(@, key, target)]

\* LookupCreate of a path to a mapping: the heap and the node.
LookupCreate(heap, node, path) ==
    LET step(s, part) ==
          IF s.node = Nil \/ LookupPart(s.heap, s.node, part) # Nil
               \/ part \in DOMAIN s.heap[s.node].fields
          THEN [s EXCEPT !.node = LookupPart(s.heap, s.node, part)]
          ELSE LET made == Child(s.node, part)
               IN  [heap |-> Attach(Entered(s.heap, made, NewNode("map")), s.node, part, made),
                    node |-> made]
    IN  FoldLeft(step, [heap |-> heap, node |-> node], path)

\* SetField and Clear fail where there is no mapping; on no node at all they do
\* nothing.
Settable(heap, node) == node = Nil \/ (node # Bad /\ IsMapping(heap, node))

Clear(heap, node, key) ==
    [heap EXCEPT ![node].fields = [k \in DOMAIN @ \ {key} |-> @[k]]]

\* SetYNode copies what a node holds, and points to the same nodes below.
SetYNode(heap, node, source) == [heap EXCEPT ![node] = heap[source]]

\* SetField with a node of the heap: a null clears the field, a field that is
\* there becomes a copy, a new field points to the node itself.
SetField(heap, node, key, source) ==
    IF heap[source].kind = "null" THEN Clear(heap, node, key)
    ELSE IF key \in DOMAIN heap[node].fields
         THEN SetYNode(heap, heap[node].fields[key], source)
    ELSE Attach(heap, node, key, source)

\* SetField with a scalar made for it, on each of some nodes.
SetScalar(heap, nodes, key, value) ==
    LET made(n) == IF key \in DOMAIN heap[n].fields THEN heap[n].fields[key] ELSE Child(n, key)
        set == {n \in nodes : n # Nil}
        new == {made(n) : n \in set}
    IN  [n \in DOMAIN heap \cup new |->
           IF n \in new THEN NewScalarRNode(value)
           ELSE IF n \in set THEN [heap[n] EXCEPT !.fields = Entered(@, key, made(n))]
           ELSE heap[n]]
=============================================================================
