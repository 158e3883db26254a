---------------------------- MODULE MCMutators -----------------------------
(***************************************************************************)
(* Streams of up to two documents and some forty commands for Mutators:    *)
(* workloads of three shapes, lists with items of every kind, fields that  *)
(* are missing, null or of the wrong kind, and patches with all of these.  *)
(***************************************************************************)
EXTENDS Mutators

MCFolded == [k \in {"Pod", "Deployment", "CronJob", "ConfigMap", "Job", ""} |-> k]
MCContained == {}
MCSelects == [s \in {"app=web"} |-> {{<<"app", "web">>}}]
MCGroups == [v \in {"v1", ""} |-> ""]
MCPositions == {"0", "1", "2"}

\* A tree: what the leaves hold; all above are mappings, or lists of items.
Above(leaves) == UNION {{SubSeq(p, 1, n) : n \in 0..Len(p) - 1} : p \in DOMAIN leaves}

TreeOf(leaves) ==
    LET paths == DOMAIN leaves \cup Above(leaves)
        items(p) == \E q \in paths : Len(q) = Len(p) + 1 /\ Front(q) = p /\ Last(q) \in MCPositions
    IN  [p \in paths |-> IF p \in DOMAIN leaves THEN leaves[p]
                         ELSE Bare(IF items(p) THEN "list" ELSE "map")]

Null == Bare("null")
Quoted(value) == [kind |-> "scalar", value |-> value, text |-> "quoted"]

PodLeaves ==
    (<<"kind">> :> Scalar("Pod")) @@ (<<"metadata", "name">> :> Scalar("a"))
    @@ (<<"metadata", "labels", "app">> :> Scalar("web"))
    @@ (<<"spec", "containers", "0", "name">> :> Scalar("app"))
    @@ (<<"spec", "containers", "0", "image">> :> Scalar("v1"))
    @@ (<<"spec", "containers", "1", "name">> :> Quoted("app"))
    @@ (<<"spec", "containers", "2">> :> Null)

DeploymentLeaves ==
    (<<"kind">> :> Scalar("Deployment")) @@ (<<"metadata", "name">> :> Scalar("b"))
    @@ (<<"metadata", "annotations", "x">> :> Scalar("y"))
    @@ (<<"spec", "replicas">> :> Scalar("1"))
    @@ (<<"spec", "template", "spec", "containers", "0", "name">> :> Scalar("app"))

CronJobLeaves ==
    (<<"kind">> :> Scalar("CronJob")) @@ (<<"metadata">> :> Null)
    @@ (<<"spec", "containers">> :> Null)
    @@ (<<"spec", "jobTemplate", "spec", "template", "spec", "containers", "0">> :> Scalar("x"))
    @@ (<<"spec", "jobTemplate", "spec", "template", "spec", "containers", "1", "name">>
          :> Scalar("app"))

ConfigMapLeaves ==
    (<<"kind">> :> Scalar("ConfigMap")) @@ (<<"metadata", "labels">> :> Null)
    @@ (<<"metadata", "annotations">> :> Null)
    @@ (<<"data", "x">> :> Scalar("y")) @@ (<<"spec">> :> Null)

\* A ConfigMap with a key that is a number: 80 is not a position of its list.
NumberedData ==
    [p \in DOMAIN TreeOf(ConfigMapLeaves) \cup {<<"data", "0">>} |->
       IF p = <<"data", "0">> THEN Scalar("y") ELSE TreeOf(ConfigMapLeaves)[p]]

MCDocs == {
    TreeOf(PodLeaves), TreeOf(DeploymentLeaves), TreeOf(CronJobLeaves), TreeOf(ConfigMapLeaves),
    NumberedData,
    \* no metadata; nothing but names; values where mappings or lists should be
    TreeOf(<<"kind">> :> Scalar("Pod")),
    TreeOf((<<"kind">> :> Scalar("Job")) @@ (<<"spec", "x">> :> Scalar("y"))),
    TreeOf((<<"x">> :> Scalar("y")) @@ (<<"spec", "containers">> :> Scalar("y"))),
    TreeOf((<<"kind">> :> Scalar("Job")) @@ (<<"metadata">> :> Scalar("a"))
           @@ (<<"spec">> :> Scalar("y"))),
    TreeOf((<<"kind">> :> Scalar("Pod")) @@ (<<"metadata", "labels", "0">> :> Scalar("a"))
           @@ (<<"metadata", "annotations">> :> Scalar("a"))
           @@ (<<"spec", "containers">> :> Scalar("y"))),
    TreeOf(<<"0">> :> Scalar("y"))}

MCStreams == BoundedSeq(MCDocs, 2)

Anything == [resource |-> << >>, kind |-> "", name |-> "", ns |-> "", group |-> "",
             selector |-> NoSelector]

Do(op) == [op |-> op, match |-> Anything, key |-> "", value |-> "", prefix |-> "", suffix |-> "",
           path |-> << >>, number |-> TRUE, patch |-> << >> :> Bare("map")]

Removed == {<<"metadata", "labels">>, <<"metadata", "annotations", "x">>,
            <<"metadata", "labels", "app">>, <<"spec">>, <<"kind">>,
            <<"spec", "containers", "0">>, <<"spec", "containers", "1", "name">>,
            <<"spec", "containers", "0", "0">>, <<"data", "0">>, <<"metadata", "name", "x">>}

Patches == {
    << >> :> Scalar("x"),
    << >> :> Null,
    TreeOf((<<"spec", "replicas">> :> Scalar("3")) @@ (<<"spec", "new", "x">> :> Scalar("y"))),
    TreeOf((<<"spec", "replicas">> :> Null) @@ (<<"gone">> :> Null)),
    TreeOf((<<"metadata", "labels", "app">> :> Scalar("db"))
           @@ (<<"metadata", "labels", "x">> :> Scalar("y"))),
    TreeOf(<<"metadata", "annotations">> :> Bare("map")),
    TreeOf((<<"metadata", "labels">> :> Bare("map")) @@ (<<"spec", "template", "spec">> :> Null)
           @@ (<<"spec", "containers">> :> Scalar("y"))),
    TreeOf((<<"spec", "containers", "0", "name">> :> Scalar("app"))
           @@ (<<"spec", "template", "spec", "containers", "0">> :> Scalar("y"))
           @@ (<<"spec", "template", "spec", "containers", "1">> :> Null)),
    TreeOf(<<"kind">> :> Scalar("Job")),
    [p \in {<< >>, <<"data">>, <<"data", "0">>} |->
       IF p = <<"data", "0">> THEN Scalar("z") ELSE Bare("map")]}

Unscoped ==
    {[Do(op) EXCEPT !.key = "app", !.value = "db"] : op \in {"label", "annotate", "set-image"}}
    \cup {[Do("set-namespace") EXCEPT !.value = "prod"], [Do("rename") EXCEPT !.prefix = "p-"],
          [Do("rename") EXCEPT !.suffix = "-s"], Do("rename")}
    \cup {[Do("scale") EXCEPT !.value = "2", !.number = n] : n \in BOOLEAN}
    \cup {[Do("remove") EXCEPT !.path = p] : p \in Removed}
    \cup {[Do("patch") EXCEPT !.patch = p] : p \in Patches}

MCCommands ==
    Unscoped
    \cup {[c EXCEPT !.match.kind = "Pod"] : c \in {d \in Unscoped : d.op = "patch"}}
    \cup {[c EXCEPT !.match.selector = "app=web"] :
            c \in {d \in Unscoped : d.op \in {"label", "set-namespace"}}}
=============================================================================
