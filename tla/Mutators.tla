------------------------------ MODULE Mutators ------------------------------
(***************************************************************************)
(* The mutating commands (pkg/engine: label.go, annotate.go, namespace.go, *)
(* rename.go, scale.go, set_image.go, remove.go, patch.go) at work on the  *)
(* nodes of a stream: ScopedMutator goes from document to document, and    *)
(* the merge of a patch goes field by field with a stack of calls.  Then   *)
(* the output may go through the same command once more.  It implements    *)
(* module Mutation, whose commands these are.                              *)
(***************************************************************************)
EXTENDS YamlNodes

CONSTANTS
    Commands,   \* the commands
    Streams     \* and the streams of documents

\* What YAML can be read into, and what the command line can ask for.
ASSUME StreamAssumption == \A docs \in Streams :
    /\ docs \in Seq(ToSet(docs))
    /\ \A i \in DOMAIN docs :
         IsTree(docs[i]) /\ Shallow(docs[i]) /\ Kind(docs[i], << >>) # "null"

ASSUME CommandAssumption == \A cmd \in Commands :
    /\ cmd.op \in {"label", "annotate", "set-namespace", "rename", "scale", "set-image",
                   "remove", "patch"}
    /\ cmd.key \in STRING /\ cmd.number \in BOOLEAN
    /\ cmd.path \in Seq(STRING) /\ (cmd.op = "remove" => cmd.path # << >>)
    /\ IsTree(cmd.patch) /\ Shallow(cmd.patch)

VARIABLES
    command,    \* the command that runs,
    read,       \* the documents as they were read,
    heap,       \* the nodes of the documents and of the patch,
    turn,       \* the document ScopedMutator is at,
    frames,     \* the calls of recursiveMerge, outermost first,
    pass,       \* 1, or 2 if this is the output going through once more,
    outcome     \* "parsing", "running", "failed", "written" (as YAML) or "listed"

mutatorVars == <<command, read, heap, turn, frames, pass, outcome>>

Patch == <<0, << >> >>
Root(i) == <<i, << >> >>
Tree(i) == TreeAt(heap, Root(i))

Loaded(docs, patch) == Load([i \in 0..Len(docs) |-> IF i = 0 THEN patch ELSE docs[i]])

MutatorInit ==
    /\ command \in Commands /\ read \in Streams
    /\ heap = << >>
    /\ turn = 1 /\ frames = << >> /\ pass = 1
    /\ outcome = "parsing"

\* The reader, and Parse of the patch: every node is a new one.
ParseNodes ==
    /\ outcome = "parsing"
    /\ heap' = Loaded(read, command.patch)
    /\ outcome' = "running"
    /\ UNCHANGED <<command, read, turn, frames, pass>>

-----------------------------------------------------------------------------
(* ScopedMutator.                                                          *)

Running == outcome = "running" /\ frames = << >> /\ turn <= Len(read)

\* mutateFn is called for the document.
Visiting == Running /\ Selected(Tree(turn), command.match)

PassThrough ==
    /\ Running /\ ~Selected(Tree(turn), command.match)
    /\ turn' = turn + 1
    /\ UNCHANGED <<command, read, heap, frames, pass, outcome>>

\* mutateFn returns an error, or none and has left the heap so.
MutateFn(fails, result) ==
    /\ IF fails THEN outcome' = "failed" /\ UNCHANGED <<heap, turn>>
       ELSE heap' = result /\ turn' = turn + 1 /\ UNCHANGED outcome
    /\ UNCHANGED <<command, read, frames, pass>>

\* The label of the object and, for some kinds, that of the pod template.
LabelKinds(kinds) ==
    LET own   == LookupCreate(heap, Root(turn), <<"metadata", "labels">>)
        first == SetScalar(own.heap, {own.node}, command.key, command.value)
        tpl   == LookupCreate(first, Root(turn), <<"spec", "template", "metadata", "labels">>)
        pod   == GetMeta(Tree(turn)).kind \in kinds
    IN  /\ command.op = "label" /\ Visiting
        /\ MutateFn(~Settable(own.heap, own.node) \/ (pod /\ ~Settable(tpl.heap, tpl.node)),
                    IF pod THEN SetScalar(tpl.heap, {tpl.node}, command.key, command.value) ELSE first)

\* Mutant: only Deployments have a pod template to label.
LabelDeployments == LabelKinds({"Deployment"})

Label == LabelKinds(workloadKinds)

Annotate ==
    LET own == LookupCreate(heap, Root(turn), <<"metadata", "annotations">>)
    IN  /\ command.op = "annotate" /\ Visiting
        /\ MutateFn(~Settable(own.heap, own.node),
                    SetScalar(own.heap, {own.node}, command.key, command.value))

SetNamespace ==
    LET own == LookupCreate(heap, Root(turn), <<"metadata">>)
    IN  /\ command.op = "set-namespace" /\ Visiting
        /\ MutateFn(~Settable(own.heap, own.node),
                    SetScalar(own.heap, {own.node}, "namespace", command.value))

\* Nothing to do if the name stays what it is.
Rename ==
    LET meta    == Lookup(heap, Root(turn), <<"metadata">>)
        name    == GetMeta(Tree(turn)).name
        newName == command.prefix \o name \o command.suffix
    IN  /\ command.op = "rename" /\ Visiting
        /\ IF newName = name \/ meta \in {Nil, Bad} THEN MutateFn(FALSE, heap)
           ELSE MutateFn(~Settable(heap, meta), SetScalar(heap, {meta}, "name", newName))

\* The number is looked at only if there is a spec.
Scale ==
    LET spec == Lookup(heap, Root(turn), <<"spec">>)
    IN  /\ command.op = "scale" /\ Visiting
        /\ IF spec \in {Nil, Bad} THEN MutateFn(FALSE, heap)
           ELSE MutateFn(~command.number \/ ~Settable(heap, spec),
                         SetScalar(heap, {spec}, "replicas", command.value))

\* The name is compared as it is written.
Named(container, text) ==
    LET name == Lookup(heap, container, <<"name">>)
    IN  name \notin {Nil, Bad} /\ heap[name].text = text

\* All lists of containers that are there.  Whether one is looked up before the
\* containers of another are visited does not matter, nor does their order.
SetImage ==
    LET lists == {Lookup(heap, Root(turn), path) : path \in ToSet(containerPaths)} \ {Nil, Bad}
        containers == UNION {Range(heap[list].fields) : list \in lists}
    IN  /\ command.op = "set-image" /\ Visiting
        /\ MutateFn(\E list \in lists : heap[list].kind # "list",
                    SetScalar(heap, {c \in containers : Named(c, command.key)},
                              "image", command.value))

\* What is not there needs no removing.
RemoveField ==
    LET parent == Lookup(heap, Root(turn), Front(command.path))
        field  == Last(command.path)
    IN  /\ command.op = "remove" /\ Visiting
        /\ IF parent \in {Nil, Bad} \/ LookupPart(heap, parent, field) \in {Nil, Bad}
           THEN MutateFn(FALSE, heap)
           ELSE MutateFn(~Settable(heap, parent), Clear(heap, parent, field))

-----------------------------------------------------------------------------
(* recursiveMerge.                                                         *)

BothMappings(dst, src) == IsMapping(heap, dst) /\ IsMapping(heap, src)

\* A call: its arguments, and the fields its loop has not come to yet.
Frame(dst, src) ==
    [dst |-> dst, src |-> src,
     fields |-> IF BothMappings(dst, src) THEN DOMAIN heap[src].fields ELSE {}]

Top == Last(frames)

StartMerge ==
    /\ Visiting /\ command.op = "patch"
    /\ frames' = <<Frame(Root(turn), Patch)>>
    /\ UNCHANGED <<command, read, heap, turn, pass, outcome>>

\* Mutant: each call moves on to the next document.
ReturnToScope ==
    /\ frames' = Front(frames)
    /\ turn' = turn + 1
    /\ UNCHANGED <<command, read, pass, outcome>>

\* The call returns; the outermost one ends mutateFn.
Return ==
    /\ frames' = Front(frames)
    /\ turn' = IF Len(frames) = 1 THEN turn + 1 ELSE turn
    /\ UNCHANGED <<command, read, pass, outcome>>

\* Unless both are mappings the node in the document is replaced.
ReplaceNode ==
    /\ outcome = "running" /\ frames # << >>
    /\ ~BothMappings(Top.dst, Top.src)
    /\ heap' = SetYNode(heap, Top.dst, Top.src)
    /\ Return

FieldsMerged ==
    /\ outcome = "running" /\ frames # << >>
    /\ BothMappings(Top.dst, Top.src) /\ Top.fields = {}
    /\ Return /\ UNCHANGED heap

\* One turn of the loop over the fields of the patch, in whatever order it has
\* them: a field that is missing or null is set to the patch's own node.
MergeFieldBy(field, call(_, _)) ==
    LET srcVal == heap[Top.src].fields[field]
        dstVal == LookupPart(heap, Top.dst, field)
        rest   == [frames EXCEPT ![Len(frames)].fields = @ \ {field}]
    IN  /\ outcome = "running" /\ frames # << >>
        /\ IF dstVal = Bad THEN outcome' = "failed" /\ UNCHANGED <<heap, frames>>
           ELSE IF dstVal = Nil
                THEN /\ heap' = SetField(heap, Top.dst, field, srcVal)
                     /\ frames' = rest /\ UNCHANGED outcome
           ELSE /\ frames' = Append(rest, call(dstVal, srcVal))
                /\ UNCHANGED <<heap, outcome>>
        /\ UNCHANGED <<command, read, turn, pass>>

\* Mutant: the document is merged into the patch.
MergeIntoPatch(field) == MergeFieldBy(field, LAMBDA dst, src : Frame(src, dst))

MergeField(field) == MergeFieldBy(field, LAMBDA dst, src : Frame(dst, src))

-----------------------------------------------------------------------------
(* The output.                                                             *)

\* A writer takes all documents, or fails.
Output(taken, result) ==
    /\ outcome = "running" /\ frames = << >> /\ turn > Len(read)
    /\ outcome' = IF taken THEN result ELSE "failed"
    /\ UNCHANGED <<command, read, heap, turn, frames, pass>>

WriteYAML == Output(\A i \in DOMAIN read : YamlWrites(Tree(i)), "written")

\* A list of mappings; null is none.
WriteJSONList == Output(\A i \in DOMAIN read : IsMapping(heap, Root(i)), "listed")

\* The same command reads what it has written as YAML.
Again ==
    /\ outcome = "written" /\ pass = 1
    /\ read' = ReadBack([i \in DOMAIN read |-> Tree(i)])
    /\ turn' = 1 /\ pass' = 2 /\ outcome' = "parsing"
    /\ UNCHANGED <<command, heap, frames>>

MutatorNext ==
    \/ ParseNodes \/ PassThrough
    \/ Label \/ Annotate \/ SetNamespace \/ Rename \/ Scale \/ SetImage \/ RemoveField
    \/ StartMerge \/ ReplaceNode \/ FieldsMerged
    \/ frames # << >> /\ \E field \in Top.fields : MergeField(field)
    \/ WriteYAML \/ WriteJSONList \/ Again
    \/ (outcome \in {"failed", "listed"} \/ (outcome = "written" /\ pass = 2))
         /\ UNCHANGED mutatorVars

MutatorSpec == MutatorInit /\ [][MutatorNext]_mutatorVars

-----------------------------------------------------------------------------
(* Safety.                                                                 *)

\* The loop stays in the stream, the stack of calls goes down one level at a
\* time, and the heap has every node that a node, a call or a document needs.
MutatorTypeOK ==
    /\ turn \in 1..(Len(read) + 1) /\ pass \in 1..2
    /\ outcome \in {"parsing", "running", "failed", "written", "listed"}
    /\ Len(frames) <= MaxDepth + 1 /\ (frames # << >> => turn <= Len(read))
    /\ outcome # "parsing" => {Patch} \cup {Root(i) : i \in DOMAIN read} \subseteq DOMAIN heap
    /\ \A n \in DOMAIN heap : \A k \in DOMAIN heap[n].fields :
         /\ heap[n].fields[k] \in DOMAIN heap
         /\ heap[n].kind \in {"map", "list"}
    /\ \A d \in DOMAIN frames : {frames[d].dst, frames[d].src} \subseteq DOMAIN heap

\* The nodes of a document.
NodesOf(root) == {x[2] : x \in Reached(heap, root)}

\* A patched document goes on pointing to nodes of the patch, and so do others:
\* nothing that two documents share is ever written to.  What they share is the
\* patch's, and the patch says what it said on the command line.
SharedNodesArePatch == outcome # "parsing" =>
    /\ TreeAt(heap, Patch) = command.patch
    /\ \A i, j \in DOMAIN read : i # j =>
         NodesOf(Root(i)) \cap NodesOf(Root(j)) \subseteq NodesOf(Patch)

\* describe.go lists these commands as idempotent.
\* Mutant: rename, too.
IdempotentWithRename(op) ==
    op \in {"label", "annotate", "set-image", "patch", "remove", "scale",
            "set-namespace", "rename"}

Idempotent(op) ==
    op \in {"label", "annotate", "set-image", "patch", "remove", "scale",
            "set-namespace"}

\* Patches that are not: those that are null, or have a field, in mappings only,
\* that is null (what a null is merged into becomes null, and is gone the second
\* time) or could be a position (taken over with its mapping, it cannot be looked
\* up the second time).
Unrepeatable(patch) ==
    \E p \in DOMAIN patch :
      /\ \A n \in 0..Len(p) - 1 : Kind(patch, SubSeq(p, 1, n)) = "map"
      /\ Kind(patch, p) = "null" \/ (p # << >> /\ Last(p) \in Positions)

\* annotate leaves annotations that are null alone, the writer leaves them out, and
\* then there are none: annotate makes them.
AnnotatedLate(doc) == command.op = "annotate" /\ ~Has(doc, annotationsPath)

\* A command that is called idempotent changes nothing when its output goes
\* through it once more, nor does it fail then; all but some patches, and but
\* annotations that were null.
SecondPassChangesNothing ==
    pass = 2 /\ Idempotent(command.op) /\ ~Unrepeatable(command.patch) =>
        /\ outcome # "failed"
        /\ outcome \in {"written", "listed"} => \A i \in DOMAIN read :
             YamlWritten(Tree(i)) = read[i] \/ AnnotatedLate(read[i])

-----------------------------------------------------------------------------
(* Refinement.                                                             *)

\* While the merge of a document is going on the document is as it was read; of
\* one that fails nothing is left.
Promise == INSTANCE Mutation WITH
    docs <- IF outcome = "failed" THEN << >>
            ELSE [i \in DOMAIN read |->
                    IF outcome = "parsing" \/ (frames # << >> /\ i = turn)
                    THEN read[i] ELSE Tree(i)],
    outcome <- IF outcome = "parsing" THEN "running" ELSE outcome

\* What becomes of a document depends on the document and the command alone,
\* whatever the documents before it share with the patch; the others stay as they
\* are, and nothing comes out if one of them cannot be changed.
ImplementsMutation == Promise!MutationSpec
=============================================================================
