----------------------------- MODULE MCCommands -----------------------------
(***************************************************************************)
(* Streams of up to two documents and some forty commands for CommandRun.  *)
(***************************************************************************)
EXTENDS CommandRun

MCFolded == [k \in {"Pod", "pod", "Deployment", "app", ""} |->
               IF k = "Pod" THEN "pod" ELSE k]
MCContained == {<<"apps", "apps">>, <<"app", "apps">>}
MCSelects == [s \in {"app=web"} |-> {{"app=web"}}]

\* Lexical order.
MCRank == [s \in {"", "Deployment", "Pod", "a", "apps/v1", "b", "extensions/v1beta1",
                  "prod", "v1"} |->
             CASE s = "" -> 0 [] s = "Deployment" -> 1 [] s = "Pod" -> 2 [] s = "a" -> 3
               [] s = "apps/v1" -> 4 [] s = "b" -> 5 [] s = "extensions/v1beta1" -> 6
               [] s = "prod" -> 7 [] s = "v1" -> 8]

Says(cpu, memory) == {[cpu |-> cpu, memory |-> memory]}
Con(requests, limits) == [requests |-> requests, limits |-> limits]

Pod == [form |-> "mapping", hasMeta |-> TRUE, typed |-> TRUE, identified |-> TRUE,
        apiVersion |-> "v1", group |-> "", kind |-> "Pod", name |-> "a", ns |-> "",
        labels |-> {"app=web"}, fields |-> <<"apiVersion", "kind", "metadata", "x", "spec">>,
        metaFields |-> <<"name", "labels">>,
        value |-> [of |-> 1, mutated |-> FALSE, hole |-> [is |-> "none", of |-> ""]],
        rigid |-> FALSE,
        replicas |-> {}, generated |-> FALSE,
        pods |-> <<{<<Con(Says({2}, {1}), Says({3}, {1})), Con(Says({1}, {}), {})>>}, {}, {}>>]
Deployment == [Pod EXCEPT !.apiVersion = "apps/v1", !.group = "apps", !.kind = "Deployment",
                 !.labels = {}, !.replicas = {2},
                 !.pods = <<{}, {<<Con(Says({2}, {1}), Says({2}, {2}))>>}, {}>>]

Hole(is, of) == [is |-> is, of |-> of]

MCDocs == {
    Pod,
    [Pod EXCEPT !.value.hole = Hole("variable", "A")],
    [Pod EXCEPT !.name = "b", !.value.hole = Hole("variable", "B")],
    [Deployment EXCEPT !.value.hole = Hole("malformed", "")],
    [Pod EXCEPT !.fields = <<"x", "kind", "apiVersion", "spec", "metadata">>,
                !.metaFields = <<"labels", "name">>],
    [Pod EXCEPT !.name = "b", !.ns = "prod", !.fields = <<"y", "x">>,
                !.pods = <<{}, {}, {}>>],
    [Pod EXCEPT !.name = "b", !.ns = "prod", !.fields = <<"x", "y">>, !.value.of = 2,
                !.pods = <<{<<Con({}, {})>>}, {<<Con(Says({4}, {4}), {})>>}, {}>>],
    [Pod EXCEPT !.name = "", !.identified = FALSE, !.generated = TRUE],
    [Pod EXCEPT !.name = "", !.identified = FALSE,
                !.pods = <<{<<Con(Says({-1}, {}), {})>>}, {}, {}>>],
    [Pod EXCEPT !.typed = FALSE],
    [Pod EXCEPT !.identified = FALSE],
    [Pod EXCEPT !.hasMeta = FALSE, !.typed = FALSE, !.identified = FALSE,
                !.apiVersion = "", !.kind = "", !.name = "", !.labels = {}],
    [Pod EXCEPT !.form = "other", !.hasMeta = FALSE, !.typed = FALSE, !.identified = FALSE,
                !.apiVersion = "", !.kind = "", !.name = "", !.labels = {}],
    Deployment,
    [Deployment EXCEPT !.apiVersion = "extensions/v1beta1", !.group = "extensions",
                       !.replicas = {0}, !.rigid = TRUE],
    [Deployment EXCEPT !.name = "b", !.replicas = {-1}]}

Content(docs) == [broken |-> FALSE, docs |-> docs]
MCStdins == {Content(s) : s \in BoundedSeq(MCDocs, 2)} \cup {[broken |-> TRUE, docs |-> << >>]}

MCFiles == [p \in {"base.yaml", "empty.yaml", "broken.yaml"} |->
              CASE p = "base.yaml" -> Content(<<Pod, Deployment>>)
                [] p = "empty.yaml" -> Empty
                [] p = "broken.yaml" -> [broken |-> TRUE, docs |-> << >>]]
\* A is given two values, B one in a comment only.
Line(form, key, value) == [form |-> form, key |-> key, value |-> value]
MCEnvFiles == ("vars.env" :> <<Line("assignment", "A", "1"), Line("comment", "B", "2"),
                               Line("other", "", ""), Line("assignment", "A", "3")>>)

MCRooms == {0, 1, 9}

Anything == [resource |-> << >>, kind |-> "", name |-> "", ns |-> "", group |-> "",
             selector |-> NoSelector]
NoMax == [c \in Categories |-> [r \in Resources |-> {}]]

Command(op) == [op |-> op, tokens |-> << >>, usage |-> TRUE, json |-> FALSE, tty |-> FALSE,
                badOptions |-> FALSE, files |-> << >>, paths |-> << >>, base |-> "",
                env |-> "", match |-> Anything, require |-> {}, max |-> NoMax, groupByKind |-> FALSE]

\* Arguments that do not parse, and what is to be made of them.
Unparsable == {
    [Command("get") EXCEPT !.usage = FALSE, !.tokens = t[1], !.json = t[2]] :
      t \in {<< <<"-o", "json">>, TRUE>>, << <<"-ojson", "--output=yaml">>, FALSE>>,
             << <<"--", "-ojson">>, FALSE>>, << <<"-o">>, FALSE>>,
             << <<"-ojson", "-oyaml">>, FALSE>>, << <<"-o=yaml", "-o=json">>, TRUE>>,
             << <<"--output=yaml", "--output", "json", "--">>, TRUE>>}}

Matches == {
    [Anything EXCEPT !.kind = "pod"],
    [Anything EXCEPT !.kind = "Pod", !.ns = "prod"],
    [Anything EXCEPT !.resource = <<"app">>, !.name = "a"],
    [Anything EXCEPT !.resource = <<"pod", "a">>, !.selector = "app=web"]}

Filters ==
    {[Command(op) EXCEPT !.match = opts] : op \in {"get", "drop", "mutate"}, opts \in Matches}
    \cup {Command("mutate"), Command("get"), Command("drop")}
    \cup {[Command("subst") EXCEPT !.env = e] : e \in {"vars.env", "no.env"}}
    \cup {[Command(op) EXCEPT !.badOptions = TRUE] : op \in {"get", "mutate"}}
    \cup {[Command("mutate") EXCEPT !.files = fs] :
            fs \in {<<"base.yaml", "empty.yaml">>, <<"base.yaml", "no.yaml">>,
                    <<"base.yaml", "broken.yaml">>}}

Counts == {[Command("count") EXCEPT !.groupByKind = g, !.match = opts, !.badOptions = bad] :
             g \in BOOLEAN, bad \in BOOLEAN, opts \in {Anything, [Anything EXCEPT !.name = "a"]}}

Sums == {Command("sum"),
         [Command("sum") EXCEPT !.require = {"limits"}, !.match.name = "a"],
         [Command("sum") EXCEPT !.require = {"requests"}],
         [Command("sum") EXCEPT !.max["requests"]["cpu"] = {4}],
         [Command("sum") EXCEPT !.max["limits"]["memory"] = {2}, !.match.kind = "Deployment"],
         [Command("sum") EXCEPT !.max["limits"]["cpu"] = {-1}]}

Diffs == {[Command("diff") EXCEPT !.base = "base.yaml"],
          [Command("diff") EXCEPT !.base = "empty.yaml"],
          [Command("diff") EXCEPT !.base = "no.yaml"],
          [Command("diff") EXCEPT !.base = "empty.yaml", !.files = <<"base.yaml", "base.yaml">>],
          [Command("diff") EXCEPT !.base = "base.yaml", !.files = <<"no.yaml">>],
          [Command("diff") EXCEPT !.paths = <<"-">>],
          [Command("diff") EXCEPT !.paths = <<"base.yaml">>],
          [Command("diff") EXCEPT !.paths = <<"-", "-">>],
          [Command("diff") EXCEPT !.paths = <<"-", "base.yaml">>],
          [Command("diff") EXCEPT !.paths = <<"base.yaml", "no.yaml">>],
          [Command("diff") EXCEPT !.paths = <<"broken.yaml", "-">>],
          Command("diff")}

MCCommands ==
    LET text == Filters \cup Counts \cup Sums \cup Diffs
    IN  text \cup {[c EXCEPT !.json = TRUE] : c \in text}
        \cup {[c EXCEPT !.tty = TRUE] : c \in {f \in Filters : f.op # "drop"}}
        \cup Unparsable

\* README.md: exit code 2 is "Invalid input or an operational failure, including
\* read/write errors".  A count or a sum that cannot be printed, and documents
\* that a terminal does not take, go unnoticed.
WriteErrorsExitTwo == pc = "done" /\ lost => exit = 2
=============================================================================
