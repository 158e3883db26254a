---------------------------- MODULE CommandRun -----------------------------
(***************************************************************************)
(* One run of a command on a stream (main.go, pipeline.go and              *)
(* pkg/engine/output.go): arguments, inputs, the filter or analysis, the   *)
(* output in one of two formats, and the exit code.  serve is module       *)
(* ServeRun's.                                                             *)
(*                                                                         *)
(* A command is a record: op; tokens, the arguments as far as the output   *)
(* format goes, and usage, whether they parse; json and tty, the format    *)
(* and whether documents go to a coloured terminal; badOptions (a selector *)
(* that does not parse, no criterion where one is needed); files (those of *)
(* -f), paths and base (the sides of a diff), env (the --env-file of       *)
(* subst); match, require, max and groupByKind.                            *)
(***************************************************************************)
EXTENDS ManifestDiff, ResourceSum

CONSTANTS
    Commands,   \* the commands,
    Stdins,     \* what may be on standard input,
    Files,      \* from paths to what the files hold (none: no such file),
    EnvFiles,   \* from the paths of .env files to their lines,
    Rooms       \* how many writes the output accepts

Analyses == {"count", "sum", "diff"}

ASSUME RoomsAssumption == Rooms \subseteq Nat

ASSUME CommandsAssumption ==
    \A c \in Commands :
      /\ c.op \in {"get", "drop", "mutate", "subst"} \cup Analyses
      /\ c.files \in Seq(ToSet(c.files)) /\ c.json \in BOOLEAN
      /\ c.tty => ~c.json /\ c.op \notin Analyses
      /\ \A cat \in Categories, r \in Resources : c.max[cat][r] \subseteq Int

\* What a document is to each of the commands.
IsInput(d) == IsManifest(d) /\ IsRanked(d) /\ IsDocument(d)

ASSUME InputsAssumption ==
    \A content \in Stdins \cup {Files[path] : path \in DOMAIN Files} :
      /\ content.docs \in Seq(ToSet(content.docs))
      /\ \A d \in ToSet(content.docs) : IsInput(d)

ASSUME EnvFilesAssumption ==
    \A path \in DOMAIN EnvFiles : EnvFiles[path] \in Seq(ToSet(EnvFiles[path]))

VARIABLES
    pc,         \* where the run is
    cmd,        \* the command
    stdin,      \* what is left of standard input
    readers,    \* the inputs opened and not read yet
    streams,    \* the documents of the inputs read
    nodes,      \* the documents in the pipeline
    report,     \* what an analysis found
    err,        \* the error that Run returns
    buffer,     \* what the ColorWriter holds back
    room,       \* the writes the output still accepts
    stdout, stderr,     \* what was written
    lost,       \* a write has failed
    exit        \* the exit code

inputVars  == <<stdin, readers, streams>>
outputVars == <<buffer, room, stdout, stderr, lost>>
commandVars == <<pc, cmd, inputVars, nodes, report, err, outputVars, exit>>

\* Contents of files and streams: broken ones do not parse.
Empty == [broken |-> FALSE, docs |-> << >>]

Init ==
    /\ pc = "parse"
    /\ cmd \in Commands
    /\ stdin \in Stdins
    /\ readers = << >> /\ streams = << >> /\ nodes = << >>
    /\ report = << >>
    /\ err = "none"
    /\ buffer = << >> /\ room \in Rooms
    /\ stdout = << >> /\ stderr = << >> /\ lost = FALSE
    /\ exit = -1

\* Run returns an error.
Fail(e) == pc' = "exit" /\ err' = e

-----------------------------------------------------------------------------
(* Arguments.                                                              *)

Attached == ("-ojson" :> "json") @@ ("-o=json" :> "json") @@ ("--output=json" :> "json")
            @@ ("-oyaml" :> "yaml") @@ ("-o=yaml" :> "yaml") @@ ("--output=yaml" :> "yaml")

\* What the arguments say of the format, when they do not parse.
requestsJSON(tokens) ==
    LET scan(s, token) ==
          IF s.end THEN s
          ELSE IF s.value THEN [s EXCEPT !.output = token, !.value = FALSE]
          ELSE IF token = "--" THEN [s EXCEPT !.end = TRUE]
          ELSE IF token \in {"-o", "--output"} THEN [s EXCEPT !.value = TRUE]
          ELSE IF token \in DOMAIN Attached THEN [s EXCEPT !.output = Attached[token]]
          ELSE s
    IN  FoldLeft(scan, [end |-> FALSE, value |-> FALSE, output |-> ""],
                 tokens).output = "json"

ParseFails ==
    /\ pc = "parse" /\ ~cmd.usage
    /\ Fail("usage")
    /\ UNCHANGED <<cmd, inputVars, nodes, report, outputVars, exit>>

Parsed ==
    /\ pc = "parse" /\ cmd.usage
    /\ pc' = IF cmd.op \in {"count", "sum", "diff", "subst"} THEN "open" ELSE "options"
    /\ UNCHANGED <<cmd, inputVars, nodes, report, err, outputVars, exit>>

\* The selector and the other options of the filter; get and drop insist on a
\* criterion, count and sum open their inputs first.
CheckOptions ==
    /\ pc = "options"
    /\ IF cmd.badOptions \/ (cmd.op \in {"get", "drop"} /\ NoCriteria(cmd.match))
       THEN Fail("options")
       ELSE /\ pc' = IF readers = << >> THEN "open" ELSE "read"
            /\ UNCHANGED err
    /\ UNCHANGED <<cmd, inputVars, nodes, report, outputVars, exit>>

-----------------------------------------------------------------------------
(* Inputs.                                                                 *)

Stdin == [stdin |-> TRUE, content |-> Empty]
Reader(content) == [stdin |-> FALSE, content |-> content]

\* The files of -f, put together; standard input if there are none.
resolveInput(files) ==
    IF files = << >> THEN Stdin
    ELSE Reader([broken |-> \E i \in DOMAIN files : Files[files[i]].broken,
                 docs |-> FlattenSeq([i \in DOMAIN files |-> Files[files[i]].docs])])

OpenInput ==
    /\ pc = "open" /\ cmd.op # "diff"
    /\ IF \E i \in DOMAIN cmd.files : cmd.files[i] \notin DOMAIN Files
       THEN Fail("open") /\ UNCHANGED readers
       ELSE /\ readers' = <<resolveInput(cmd.files)>>
            /\ pc' = IF cmd.op \in {"count", "sum"} THEN "options" ELSE "read"
            /\ UNCHANGED err
    /\ UNCHANGED <<cmd, stdin, streams, nodes, report, outputVars, exit>>

openFileOrStdin(path) == IF path = "-" THEN Stdin ELSE Reader(Files[path])

\* diff compares the base with -f or standard input, or two files, or one file
\* with -f or standard input; only of two files may one be standard input.
resolveInputs(after) ==
    IF cmd.base # "" THEN <<Reader(Files[cmd.base]), after>>
    ELSE IF Len(cmd.paths) = 1 THEN <<Reader(Files[cmd.paths[1]]), after>>
    ELSE <<openFileOrStdin(cmd.paths[1]), openFileOrStdin(cmd.paths[2])>>

CannotOpen(path) == path \notin DOMAIN Files

OpenDiffFails ==
    \/ \E i \in DOMAIN cmd.files : CannotOpen(cmd.files[i])
    \/ cmd.base # "" /\ CannotOpen(cmd.base)
    \/ cmd.base = "" /\ Len(cmd.paths) = 1 /\ CannotOpen(cmd.paths[1])
    \/ cmd.base = "" /\ Len(cmd.paths) = 2
         /\ \E i \in 1..2 : CannotOpen(cmd.paths[i]) /\ cmd.paths[i] # "-"
    \/ cmd.base = "" /\ Len(cmd.paths) \notin 1..2

OpenDiffInputs ==
    /\ pc = "open" /\ cmd.op = "diff"
    /\ IF OpenDiffFails THEN Fail("open") /\ UNCHANGED readers
       ELSE /\ readers' = resolveInputs(resolveInput(cmd.files))
            /\ pc' = "read" /\ UNCHANGED err
    /\ UNCHANGED <<cmd, stdin, streams, nodes, report, outputVars, exit>>

\* KEY=VALUE lines (empty ones, comments and lines without "=" are of another
\* form): the last one of a key counts.
EnvMapFromBytes(lines) ==
    LET assign(env, line) ==
          IF line.form = "assignment" THEN Entered(env, line.key, line.value) ELSE env
    IN  FoldLeft(assign, << >>, lines)

\* envsubst puts what a variable is in its place, and nothing in the place of one
\* that is not in the map.
Eval(docs, env) ==
    LET value(v) == IF v \in DOMAIN env THEN env[v] ELSE ""
    IN  [i \in DOMAIN docs |->
           IF docs[i].value.hole.is = "variable"
           THEN [docs[i] EXCEPT !.value.hole = [is |-> "text", of |-> value(@.of)]]
           ELSE docs[i]]

\* The .env file is read after the input; a "${" that is never closed is an error.
EvalFails(docs) ==
    \/ cmd.env \notin DOMAIN EnvFiles
    \/ \E i \in DOMAIN docs : docs[i].value.hole.is = "malformed"

\* Reading standard input leaves nothing of it.
ReadNodes ==
    LET reader  == Head(readers)
        content == IF reader.stdin THEN stdin ELSE reader.content
    IN  /\ pc = "read" /\ readers # << >>
        /\ stdin' = IF reader.stdin THEN Empty ELSE stdin
        /\ readers' = Tail(readers)
        /\ IF content.broken \/ (cmd.op = "subst" /\ EvalFails(content.docs))
           THEN Fail("read") /\ UNCHANGED streams
           ELSE streams' = Append(streams, content.docs) /\ UNCHANGED <<pc, err>>
        /\ UNCHANGED <<cmd, nodes, report, outputVars, exit>>

\* subst has the text substituted before it is parsed.
InputsRead ==
    /\ pc = "read" /\ readers = << >>
    /\ pc' = "run"
    /\ nodes' = IF cmd.op = "subst"
                THEN Eval(streams[1], EnvMapFromBytes(EnvFiles[cmd.env]))
                ELSE streams[1]
    /\ UNCHANGED <<cmd, inputVars, report, err, outputVars, exit>>

-----------------------------------------------------------------------------
(* The output.                                                             *)

\* Mutant: a write that fails goes unnoticed.
PutAlways(item) ==
    stdout' = Append(stdout, item) /\ room' = room - 1 /\ UNCHANGED lost

\* One write to standard output; the error is the caller's business.
Put(item) ==
    IF room > 0
    THEN stdout' = Append(stdout, item) /\ room' = room - 1 /\ UNCHANGED lost
    ELSE lost' = TRUE /\ UNCHANGED <<stdout, room>>

\* Writes whose errors are returned.
Write(item, next) ==
    /\ Put(item)
    /\ IF room > 0 THEN next ELSE Fail("write")

-----------------------------------------------------------------------------
(* Filters.                                                                *)

Filtered ==
    CASE cmd.op = "get"    -> GetFilter(nodes, cmd.match)
      [] cmd.op = "drop"   -> DropFilter(nodes, cmd.match)
      [] cmd.op = "mutate" -> ScopedMutator(nodes, cmd.match)
      [] cmd.op = "subst"  -> nodes

FilterFails == cmd.op = "mutate" /\ MutatorFails(nodes, cmd.match)

\* runOrJSON and runPipeline: the filter, and for YAML the order of the fields.
RunFilter ==
    /\ pc = "run" /\ cmd.op \notin Analyses
    /\ IF FilterFails \/ (~cmd.json /\ ReorderFails(Filtered))
       THEN Fail("filter") /\ UNCHANGED nodes
       ELSE /\ nodes' = IF cmd.json THEN Filtered ELSE ReorderFilter(Filtered)
            /\ pc' = "write" /\ UNCHANGED err
    /\ UNCHANGED <<cmd, inputVars, report, outputVars, exit>>

\* One List of all documents, in one write.
WriteJSONList ==
    /\ pc = "write" /\ cmd.json
    /\ IF \E i \in DOMAIN nodes : nodes[i].form # "mapping"
       THEN Fail("filter") /\ UNCHANGED <<stdout, room, lost>>
       ELSE Write([type |-> "list", docs |-> nodes], pc' = "exit" /\ UNCHANGED err)
    /\ UNCHANGED <<cmd, inputVars, nodes, report, buffer, stderr, exit>>

\* Document after document, or into the buffer of the ColorWriter.
WriteDocument ==
    LET item == [type |-> "doc", doc |-> Head(nodes)]
    IN  /\ pc = "write" /\ ~cmd.json /\ nodes # << >>
        /\ nodes' = Tail(nodes)
        /\ IF cmd.tty
           THEN buffer' = Append(buffer, item) /\ UNCHANGED <<pc, err, stdout, room, lost>>
           ELSE Write(item, UNCHANGED <<pc, err>>) /\ UNCHANGED buffer
        /\ UNCHANGED <<cmd, inputVars, report, stderr, exit>>

DocumentsWritten ==
    /\ pc = "write" /\ ~cmd.json /\ nodes = << >>
    /\ pc' = "close"
    /\ UNCHANGED <<cmd, inputVars, nodes, report, err, outputVars, exit>>

\* The deferred Close writes the buffer; its error is dropped.
CloseColorWriter ==
    /\ pc = "close"
    /\ IF buffer = << >> THEN UNCHANGED <<stdout, room, lost>>
       ELSE IF room > 0
       THEN stdout' = stdout \o buffer /\ room' = room - 1 /\ UNCHANGED lost
       ELSE lost' = TRUE /\ UNCHANGED <<stdout, room>>
    /\ buffer' = << >>
    /\ pc' = "exit"
    /\ UNCHANGED <<cmd, inputVars, nodes, report, err, stderr, exit>>

-----------------------------------------------------------------------------
(* Analyses.                                                               *)

\* CountFilter prints what there is (no kind, no line) and does not look
\* whether it could.
Count ==
    LET counts == CountJSON(nodes, cmd.match, cmd.groupByKind)
        item   == [type |-> "count", counts |-> counts]
    IN  /\ pc = "run" /\ cmd.op = "count"
        /\ report' = <<item>>
        /\ IF cmd.json THEN Write(item, pc' = "exit" /\ UNCHANGED err)
           ELSE /\ IF cmd.groupByKind /\ counts.count = 0
                   THEN UNCHANGED <<stdout, room, lost>> ELSE Put(item)
                /\ pc' = "exit" /\ UNCHANGED err
        /\ UNCHANGED <<cmd, inputVars, nodes, buffer, stderr, exit>>

\* A failed assertion comes with the totals; as JSON it is part of them, and
\* what main need not report again.
Sum ==
    LET sum  == SumJSON(nodes, [match |-> cmd.match, require |-> cmd.require,
                                max |-> cmd.max])
        item == [type |-> "sum", totals |-> sum.totals, passed |-> sum.passed]
        verdict(failed) == pc' = "exit" /\ err' = IF sum.passed THEN err ELSE failed
    IN  /\ pc = "run" /\ cmd.op = "sum"
        /\ IF sum.invalid THEN Fail("invalid") /\ UNCHANGED <<report, stdout, room, lost>>
           ELSE /\ report' = <<item>>
                /\ IF cmd.json THEN Write(item, verdict("reported"))
                   ELSE Put(item) /\ verdict("assertion")
        /\ UNCHANGED <<cmd, inputVars, nodes, buffer, stderr, exit>>

\* As text, no differences are no output.
Diff ==
    /\ pc = "run" /\ cmd.op = "diff"
    /\ IF DiffFails(streams[1], streams[2])
       THEN Fail("invalid") /\ UNCHANGED <<report, stdout, room, lost>>
       ELSE \E d \in DiffNodes(streams[1], streams[2]) :
              LET outcome == /\ pc' = "exit"
                             /\ err' = IF HasChanges(d) THEN "differences" ELSE err
              IN  /\ report' = <<[type |-> "diff", diff |-> d]>>
                  /\ IF cmd.json \/ HasChanges(d) THEN Write(report'[1], outcome)
                     ELSE outcome /\ UNCHANGED <<stdout, room, lost>>
    /\ UNCHANGED <<cmd, inputVars, nodes, buffer, stderr, exit>>

-----------------------------------------------------------------------------
(* main.                                                                   *)

\* Mutant: an assertion is an error like any other.
ExitCodeUsual == IF err = "none" THEN 0
                 ELSE IF err \in {"reported", "differences"} THEN 1 ELSE 2

ExitCode == IF err = "none" THEN 0
            ELSE IF err \in {"differences", "assertion", "reported"} THEN 1 ELSE 2

\* Mutant: failed assertions are reported as well.
SilentOnDifferences == err \in {"none", "differences"}

\* What was reported is not reported again.
Silent == err \in {"none", "differences", "reported"}

\* The format that main takes the user to have asked for.
WantsJSON == IF err = "usage" THEN requestsJSON(cmd.tokens) ELSE cmd.json

Exit ==
    /\ pc = "exit"
    /\ exit' = ExitCode
    /\ pc' = "done"
    /\ IF Silent THEN UNCHANGED <<stdout, room, lost, stderr>>
       ELSE IF WantsJSON
       THEN Put([type |-> "error", reason |-> err]) /\ UNCHANGED stderr
       ELSE stderr' = Append(stderr, err) /\ UNCHANGED <<stdout, room, lost>>
    /\ UNCHANGED <<cmd, inputVars, nodes, report, err, buffer>>

-----------------------------------------------------------------------------
Next ==
    \/ ParseFails \/ Parsed \/ CheckOptions
    \/ OpenInput \/ OpenDiffInputs \/ ReadNodes \/ InputsRead
    \/ RunFilter \/ WriteJSONList \/ WriteDocument \/ DocumentsWritten
    \/ CloseColorWriter
    \/ Count \/ Sum \/ Diff
    \/ Exit
    \/ pc = "done" /\ UNCHANGED commandVars

Spec == Init /\ [][Next]_commandVars

-----------------------------------------------------------------------------
(* What the outputs and the exit code should be.                           *)

\* Which known fields there are, and the others in their order.
Formatted(fields, order) ==
    LET known == {i \in DOMAIN fields : fields[i] \in DOMAIN order}
    IN  [front |-> {fields[i] : i \in known},
         back  |-> ElementsAt(fields, DOMAIN fields \ known)]

\* Two manifests say the same: they differ in the order of known fields only.
SameManifest(d, e) ==
    /\ d.value = e.value
    /\ Formatted(d.fields, topFieldOrder) = Formatted(e.fields, topFieldOrder)
    /\ Formatted(d.metaFields, metadataFieldOrder)
         = Formatted(e.metaFields, metadataFieldOrder)

\* Every document has an identity of its own.
Comparable(docs) ==
    /\ \A i \in DOMAIN docs : Indexable(docs[i])
    /\ \A i, j \in DOMAIN docs : RefOf(docs[i]) = RefOf(docs[j]) => i = j

Refs(docs) == {RefOf(docs[i]) : i \in DOMAIN docs}

Changed(before, after) ==
    {r \in Refs(before) \cap Refs(after) :
       \E i \in DOMAIN before, j \in DOMAIN after :
         /\ RefOf(before[i]) = r /\ RefOf(after[j]) = r
         /\ ~SameManifest(before[i], after[j])}

Differ(before, after) ==
    Refs(before) # Refs(after) \/ Changed(before, after) # {}

\* Everything that takes part in a sum is well-formed.
Summable(docs) ==
    /\ validateThresholds(cmd)
    /\ \A i \in DOMAIN docs :
         /\ Accountable(docs[i])
         /\ Match(docs[i], cmd.match, "and") =>
              /\ Malformed \notin docs[i].replicas
              /\ \A p \in DOMAIN docs[i].pods : \A cs \in docs[i].pods[p] :
                   \A k \in DOMAIN cs : WellFormed(cs[k])

\* What the containers of a document request, or are limited to, all replicas
\* together.
Demand(d, c, r) ==
    LET containers(p) == TheOnly(d.pods[p])
        each == UNION {{<<p, k>> : k \in DOMAIN containers(p)} :
                         p \in {q \in DOMAIN d.pods : d.pods[q] # {}}}
        of(pk) == MapThenSumSet(LAMBDA q : q, Amount(containers(pk[1])[pk[2]], c, r))
    IN  (IF d.replicas = {} THEN 1 ELSE TheOnly(d.replicas)) * MapThenSumSet(of, each)

TotalDemand(docs, c, r) ==
    MapThenSumSet(LAMBDA i : Demand(docs[i], c, r), InScope(docs, cmd.match))

AssertionsHold(docs) ==
    /\ \A c \in Categories, r \in Resources :
         \A t \in cmd.max[c][r] : TotalDemand(docs, c, r) <= t
    /\ \A i \in InScope(docs, cmd.match), p \in 1..3 :
         (\A q \in 1..p - 1 : docs[i].pods[q] = {}) =>
           \A cs \in docs[i].pods[p] : \A k \in DOMAIN cs :
             \A c \in cmd.require, r \in Resources : Amount(cs[k], c, r) # {}

-----------------------------------------------------------------------------
(* Safety.                                                                 *)

\* The state of a run.
TypeOK ==
    /\ pc \in {"parse", "options", "open", "read", "run", "write", "close",
               "exit", "done"}
    /\ cmd \in Commands /\ room \in Nat
    /\ Len(streams) + Len(readers) <= 2 /\ Len(report) <= 1
    /\ err \in {"none", "usage", "options", "open", "read", "filter", "invalid",
                "write", "assertion", "reported", "differences"}
    /\ exit \in {-1, 0, 1, 2}

\* "JSON failures are emitted once": if JSON was asked for, a run whose output
\* can be written ends with exactly one JSON document and no other text; it is
\* an error exactly if the exit code is 2, and the code agrees with what an
\* analysis says in it.
JsonIsOneDocument ==
    pc = "done" /\ cmd.json /\ ~lost =>
        /\ Len(stdout) = 1 /\ stderr = << >>
        /\ exit = 2 <=> stdout[1].type = "error"
        /\ stdout[1].type = "sum" => (exit = 0 <=> stdout[1].passed)
        /\ stdout[1].type = "diff" => (exit = 1 <=> HasChanges(stdout[1].diff))

\* The exit code tells what came out: 0, nothing to report; 1, differences or
\* failed assertions of inputs that are in order; 2, anything that went wrong:
\* an input that could not be had, malformed documents, failed writes of
\* documents, JSON and differences.
ExitCodeIsOutcome ==
    pc = "done" =>
        exit = IF \/ Len(streams) < IF cmd.op = "diff" THEN 2 ELSE 1
                  \/ lost /\ (cmd.json \/ cmd.op \notin {"count", "sum"}) /\ ~cmd.tty
               THEN 2
               ELSE IF cmd.op = "diff" THEN
                    IF ~Comparable(streams[1]) \/ ~Comparable(streams[2]) THEN 2
                    ELSE IF Differ(streams[1], streams[2]) THEN 1 ELSE 0
               ELSE IF cmd.op = "sum" THEN
                    IF ~Summable(streams[1]) THEN 2
                    ELSE IF AssertionsHold(streams[1]) THEN 0 ELSE 1
               ELSE IF cmd.op = "mutate" /\ MutatorFails(streams[1], cmd.match) THEN 2
               ELSE IF /\ cmd.op \in {"mutate", "subst"}
                       /\ \E i \in DOMAIN streams[1] : streams[1][i].form # "mapping"
               THEN 2 ELSE 0

\* The totals of a sum are those of the matching containers, times the
\* replicas, and the verdict is about these totals.
SumIsExact ==
    \A i \in DOMAIN stdout : stdout[i].type = "sum" =>
        /\ Summable(streams[1])
        /\ \A c \in Categories, r \in Resources :
             stdout[i].totals[c][r] = TotalDemand(streams[1], c, r)
        /\ stdout[i].passed = AssertionsHold(streams[1])

\* A diff has every identity where it belongs, once, and is the same whatever
\* the order in which Go iterates over its maps.
DiffIsExact ==
    \A i \in DOMAIN report : report[i].type = "diff" =>
        LET d == report[i].diff  before == streams[1]  after == streams[2]
        IN  /\ ToSet(d.added) = Refs(after) \ Refs(before)
            /\ ToSet(d.removed) = Refs(before) \ Refs(after)
            /\ ToSet(d.modified) = Changed(before, after)
            /\ \A list \in DOMAIN d : Len(d[list]) = Cardinality(ToSet(d[list]))
            /\ DiffNodes(before, after) = {d}

\* The documents that a filter keeps.
Kept(docs) ==
    {i \in DOMAIN docs :
       CASE cmd.op = "get"  -> Readable(docs[i]) /\ FALSE \notin matches(docs[i], cmd.match)
         [] cmd.op = "drop" -> Readable(docs[i]) /\ TRUE \notin matches(docs[i], cmd.match)
         [] OTHER -> TRUE}

\* What stands in a place of a document that a variable may be in.
Substituted(hole) ==
    LET lines == EnvFiles[cmd.env]
        assigned == {i \in DOMAIN lines : lines[i].form = "assignment"
                                            /\ lines[i].key = hole.of}
    IN  IF cmd.op # "subst" \/ hole.is # "variable" THEN hole
        ELSE [is |-> "text",
              of |-> IF assigned = {} THEN "" ELSE lines[Max(assigned)].value]

Written == IF cmd.json THEN stdout[1].docs
           ELSE [i \in DOMAIN stdout |-> stdout[i].doc]

\* A stream that was filtered is written as a whole or not at all: the documents
\* that were kept in their order, with nothing lost but what the filter drops,
\* nothing changed that is out of scope, every variable replaced by the value the
\* .env file gives it last, and known fields first.
StreamIsExact ==
    pc = "done" /\ cmd.op \notin Analyses /\ ~lost =>
        IF exit # 0 THEN \A i \in DOMAIN stdout : stdout[i].type = "error"
        ELSE LET docs == streams[1]
             IN  /\ Len(Written) = Cardinality(Kept(docs))
                 /\ \A i \in Kept(docs) :
                      LET d == Written[Cardinality({j \in Kept(docs) : j <= i})]
                      IN  /\ [d EXCEPT !.value = docs[i].value, !.fields = docs[i].fields,
                                       !.metaFields = docs[i].metaFields] = docs[i]
                          /\ d.value.of = docs[i].value.of
                          /\ d.value.hole = Substituted(docs[i].value.hole)
                          /\ d.value.mutated =
                               (cmd.op = "mutate" /\ i \in InScope(docs, cmd.match))
                          /\ SameManifest([d EXCEPT !.value = docs[i].value], docs[i])
                          /\ ~cmd.json => \A j, k \in DOMAIN d.fields :
                               j < k /\ d.fields[k] \in DOMAIN topFieldOrder =>
                                 /\ d.fields[j] \in DOMAIN topFieldOrder
                                 /\ topFieldOrder[d.fields[j]] < topFieldOrder[d.fields[k]]
=============================================================================
