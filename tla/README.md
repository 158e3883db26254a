# k8q in TLA+

k8q (package `github.com/tobiash/k8q`) is a command-line tool for streams of
Kubernetes manifests. Most commands read YAML documents, run them through a kio
pipeline and write them again; `k8q serve` serves the documents as a mock
Kubernetes API server, optionally around a child command. This directory holds
TLA+ modules that model the program, TLC configurations that check them on
small instances, and proofs that TLAPS checks for every value of the constants.

Run things from this directory:

    tlc -workers 2 -config MCServeRun.cfg ServeRun     # check one run
    tlapm ServeProofs.tla                              # check one proof module

`PROJECT.json` lists the runs with their properties, the mutants (for each
property a plausible bug that makes it fail), the source lines of every
definition, the findings, the hazards and the theorems.

## Inventory

| Component | Code | State it keeps | Operations | Hard about it | What makes it correct |
|---|---|---|---|---|---|
| life of `serve` | `internal/serve/server.go` (`Run`), `main.go` | a context, deferred calls, errors joined | start, wait or run a child, shut down in reverse order | signals between any two steps, failures of each step | nothing is left behind, the child is always covered, the exit code tells the truth, the run ends |
| child process and terminal | `child_unix.go`, `child_other.go`, `execChild` | process group, foreground group, `sync.OnceValue` memo | configure, start, cancel, reap, clean up | the watcher races the end of the child; descendants outlive it; ids are reused | the group is gone before the terminal is returned, its end is reported |
| HTTP server | `server.go` (`Serve`, closure of `Run`) | listener, connections, `serveDone` | serve, shut down with a deadline, close | shutdown before, during and after `Serve`; clients that never stop | no leak, no late accept, failures are reported and cancel the child |
| kubeconfig | `kubeconfig.go` | a temporary directory | write, remove | a second signal while cleaning up | exists as long as the child does, removed at the end |
| manifest store | `resources.go`, `gvr.go` | buckets by resource and namespace, scopes, kinds | parse, index, make up namespaces, list, get | iteration over maps, two kinds of one resource, namespaces made up | every manifest is served exactly once; discovery and index agree |
| API handlers | `server.go`, `discovery.go` | none | lists, gets, groups, resources, reviews | invalid selectors, wrong groups, the order of what comes out of maps | clients see a catalog of manifests, sorted where they rely on it |
| certificates | `server.go` (`generateTLS`) | none | generate | nothing | its failure stops the start |
| matching, `get`, `drop` | `match.go`, `get.go`, `drop.go`, `selector_filter.go` | none | filter | documents without metadata, no criteria | what is kept is kept whole and in order |
| mutators | `label.go` ... `patch.go` | the documents' nodes | mutate in scope | failing midway, nodes shared by several documents, nulls, a second run on the output | what becomes of a document depends on it and the command alone; all or nothing is written |
| `subst` | `subst.go`, `main.go` | none | substitute, then parse | unknown variables, two lines for one key, errors in the text | every variable gets its last value, nothing else changes |
| `count`, `sum` | `count.go`, `sum.go` | totals | add up, check thresholds | malformed input, replicas, output as text and JSON | totals are exact, the verdict is about them |
| `diff` | `pkg/diff/*.go` | two maps of documents | index, compare, sort | map iteration, unstable sort, normalization, sharing standard input | every identity once, in its place; deterministic |
| pipeline and output | `pipeline.go`, `pkg/engine/engine.go`, `output.go`, `internal/prompt/color.go` | the `ColorWriter`'s buffer | read, filter, reorder, write | deferred writes, failing writes | one JSON document or a whole stream |
| command line | `main.go` | flags | parse, run, exit | errors reported once, format of usage errors | exit code 0, 1 or 2 as documented |
| `describe`, completion | `describe.go`, `kinds.go`, `version.go` | none | print | what it claims of the other commands | the commands it calls idempotent are |

`main` runs one command. Stream commands are sequential: an input is read to its
end, then filtered, then written; they share matching, the pipeline and the
output. `serve` is concurrent, and its store, built before the server starts, is
never written again, so the handlers need no lock. The models follow this: a
store and a stream command are each one process whose environment (what is on
the input, in which order a map is iterated over, when the output stops
accepting) is chosen; `serve` is a composition of processes.

## Serve: a process, its child and its server

`k8q serve [--port N] [-- command]` (`internal/serve/server.go`, `Run`) is the
concurrent part of the program. Four kinds of actors meet in it: the main
goroutine, the goroutine that runs the HTTP server, os/exec's watcher goroutine
together with the child's processes, and the outside world that sends signals
and requests.

| Module | Code | State | Actions |
|---|---|---|---|
| `RunContext` | the context made by `signal.NotifyContext` and `context.WithCancel` in `Run` | what the kernel does with SIGINT/SIGTERM, a signal waiting in the channel, whether the context is cancelled, whether a signal killed the process | register, catch, relay, cancel, stop |
| `ChildProcess` | `execChild`, `configureChildCancellation` and `cleanupChild` of `child_unix.go` and `child_other.go` | where `execChild` is, the watcher, the memo of `cmd.Cancel` (`sync.OnceValue`), the leader and its wait status, the live descendants in its process group, the terminal's foreground group, the errors joined so far | one action per step of `execChild` that another actor can interleave with; the kernel's and the child's steps are actions of their own |
| `HttpServer` | `Serve`, the goroutine started by `Run` and the deferred closure that shuts it down | the listener, `http.Server`'s flags, the state of every connection, both program counters, the channel `serveDone`, the errors | accept loop, shutdown, drain, timeout, forced close, receive |
| `ServeRun` | `Run` and `NewServer`, `WriteKubeconfig` and `Cleanup`, and how `main` turns the result into an exit code | where `Run` is, the kubeconfig directory, the exit code; and everything above | `Run`'s own steps, and the components' actions joined to what they need from one another |
| `ServeSession` | (abstract) | four facts: phase, kubeconfig, server, child | what a session may do |

How they interact: `Run` reads the manifests, listens, writes the kubeconfig,
registers for signals, starts the serving goroutine and either waits for the
context or runs the child. Its deferred calls run in the reverse order: shut the
server down, cancel, stop catching signals, remove the kubeconfig. The serving
goroutine cancels the context when `Serve` returns, so a server that breaks
kills the child. `RunContext` is shared by all of them: `ServeRun` extends both
components, and every action of a component is joined with `UNCHANGED` of the
others' variables, or with the context's action it calls (`CancelAfterServe /\
CancelContext`). The components can also be checked alone: then their context
is cancelled at any moment.

The code of net/http, os/exec and the kernel is modelled from how this program
uses it (the definitions marked external in `PROJECT.json`): what `Shutdown`
does between setting `inShutdown` and returning, that `Cmd.Start` refuses a
cancelled context, that `Wait` replaces a successful exit by the result of
`Cancel`, that `kill(2)` finds a group as long as one member is not reaped.
`KillGroup` answers both for the Unix build; `KillLeader` for the others.

### What the runs show

* `child_unix` (`MCChildUnix.cfg`): `execChild` alone, with each kind of
  terminal, cancelled at any moment. No process of the child's group is left
  when the terminal is restored (`GroupGoneAtRestore`), the terminal only goes
  back once the group is gone (`TerminalHandover`) and never stays with the
  child unless that is reported (`TerminalReturned`); the leader's end is
  reported unless the context was cancelled (`StatusReported`), a kill is never
  taken for an end of the child's own (`KillIsReported`); after one kill the
  group id is not signalled again (`NoSecondKill`); `execChild` returns
  (`ExecReturns`).
* `child_other` (`MCChildOther.cfg`): the same where there are no process
  groups, with what remains true of it.
* `http_server` (`MCHttpServer.cfg`): two connections. After the closure
  nothing of the server is left (`ServerGone`), no connection is accepted once
  `Shutdown` waited for `Serve` (`NoLateAccept`), no request is cut before the
  deadline (`NoRequestCut`), exactly a broken `Serve` is reported
  (`ServeFailureReported`) and it cancels the context (`ServeFailureCancels`),
  and the shutdown ends whatever the clients do (`ShutdownEnds`).
* `serve_run` (`MCServeRun.cfg`): the composition. A `Run` that returned has
  left nothing behind (`NothingLeftBehind`); while the child's group exists its
  kubeconfig is on disk, the server is not being shut down and no
  signal kills k8q (`ChildIsCovered`); exit code 0 means success of everything
  (`ExitZeroIsSuccess`); nothing that goes wrong later hides the child's code
  (`ChildFailureReported`); the run implements `ServeSession`
  (`ImplementsSession`) and ends (`RunEnds`).
* `kubeconfig_left`, `child_code_lost`, `stranger_killed` (`MCServe`): three
  sentences of the documentation that some interleaving refutes, see Findings.

### Bounds

`MaxSignals` = 2: the first signal begins the shutdown, the second may hit any
later step; a third finds the same states again. Two descendants for the child
alone, one in the composition: the properties only ask whether one is left, and
a fork may take place after any exit. Exit codes 0 and 3 and SIGINT stand for
success, failure and death by a signal; the code treats all others alike. Two
connections for the server alone, because a drain has to meet connections in
different states; one in the composition. `Killable` is TRUE in every run: with
FALSE (the kernel refuses the signal) a child can keep k8q waiting for ever and
the code can do nothing about it; the safety properties say so in their
hypotheses and the theorems cover both values.

### Fairness

Weak fairness of the main goroutine, of the serving goroutine, of the watcher
and of the goroutine inside `NotifyContext`: the Go scheduler runs what can run,
and a closed listener makes `Accept` fail. Strong fairness of the shutdown's
deadline (`ShutdownTimesOut`): the poll timer and `ctx.Done()` compete in one
select each time round; the deadline stays passed, and Go's select picks among
ready cases at random. Nothing is assumed of standard input, of the clients, of
the child and its descendants, or of whoever sends signals.

### What is proved

`ServeProofs` proves, first of the context, the child and the server, each by itself,
and then of the whole, for any number of signals, descendants, connections,
any set of exit codes and signals, any platform and with or without the right to
kill (assumptions: `MaxSignalsAssumption`, `ChildAssumption`):

* the type invariants (`ExecTypeCorrect`, `ServeTypeCorrect`, `TypeCorrect`);
* of the child: `GroupGone`, `TerminalIsReturned`, `TerminalIsHandedOver`,
  `EndIsReported`, `KillNeverPassesForAnEnd`, `CleanupKillsNoStranger`. None of
  the properties is inductive. `StageInv` says what `xpc` implies about the
  leader and the watcher; `GroupInv` that once `cmd.Cancel` has sent its signal,
  or found nobody, nobody of the group is left to fork (this is where the memo
  matters: `Cancel` does nothing the second time, so the first time must have
  been enough); `TerminalInv` ties the foreground group to the stage; `ReportInv`
  and `OutcomeInv` the joined errors to the wait status and to the one who killed
  the leader, using that a context once cancelled stays so (`CancelledForGood`);
* of the server: `ServerIsGone`, `ServeFailureIsReported`, `NoAcceptIsLate`,
  `RequestsAreAnswered`. `ShutdownInv` follows the closure: past `drain` the
  listener `Serve` knew is closed and untracked, so no connection becomes `new`
  any more; `ResultInv` says which of `serveErr`, `serveDone` and `serverErrs`
  holds the result;
* of the composition: `ChildAlwaysCovered`, `NothingIsLeftBehind`,
  `ZeroIsSuccess`, `ChildFailureIsReported`. `StepSplits` shows that every step
  of `ServeRun` is a step or a stutter of each component, so their invariants
  carry over; `RunInv` ties `mpc` to the components' stages. `CauseInv` is what
  the exit code needs: while the child may still run, only a signal or a server
  that broke has cancelled the context, and without either `execChild` reports a
  child that failed; `ExitInv` that nothing changes the joined errors afterwards;
* the refinement: `RunImplementsSession` says `Spec => ImplementsSession` where
  the child has a group of its own that k8q may kill (`Unix`, `Killable`). Every
  step of `ServeRun` is one of the session's or none (`SessionStep`); `SessionInv`
  says what the values of `mpc` mean for the four facts a session knows. The two
  hypotheses are needed, and they are where the runs check the refinement:
  without a group, or when `kill` fails with EPERM, descendants of the child
  outlive `execChild`, and a session's child does not.

Checked by TLC only: the liveness properties (`ExecReturns`, `ShutdownEnds`,
`ServeFailureCancels`, `RunEnds`). Leads-to under fairness is out of the
prover's reach.

### Findings

1. *The kubeconfig may stay on disk* (`kubeconfig_left`). `Run` defers
   `srv.Cleanup()` before it registers for signals, so the deferred `stop()`
   runs first. A second Ctrl+C between the two is not caught and kills k8q.
   README.md:240 promises that shutdown removes the kubeconfig.
2. *A child's own exit code may be lost* (`child_code_lost`). The child exits
   with 3; a signal arrives before `execChild` asks for `ctx.Err()`; k8q exits
   with 2. server.go:50 and README.md:196 promise the child's code.
3. *SIGKILL may reach a foreign group* (`stranger_killed`). After `cmd.Run` has
   reaped the leader of a group nobody else is in, the group's id is free; the
   deferred `cleanupChild` still signals it.

### Not modelled

SIGHUP, SIGQUIT and SIGKILL of k8q itself (not caught by the code, they end it
anywhere); an error of `os.RemoveAll`, which `Cleanup` ignores; the certificate
(`generateTLS` is a sequence of calls without state: it fails or not, which
`NewServerFails` covers); the kubeconfig's text; the error that `http.Server.Shutdown`
returns when closing a listener fails (`CloseListeners` does not fail, so the
deadline is the only thing a shutdown can report).

## Serve: the store behind the handlers

| Module | Code | What it holds |
|---|---|---|
| `ResourceTypes` | `gvr.go`, and what the handlers and the store ask of kinds, resources and selectors | the table of known types and selectors as constants; a kind that is not in the table is given a namespaced resource named by the rules of `Pluralize` (a word is a stem and an ending); the kinds with a `/status`; the answers that never vary |
| `ManifestStore` | `ParseManifests`, `NewStore`, `List`, `Get`, `KindForGVR`, `GroupVersions`, `discovery.go`, all handlers | the documents of a stream are read one by one, collected by resource, the missing namespaces made up, the objects indexed; afterwards requests are answered |
| `ResourceCatalog` | (abstract) | what a client may rely on: a list is the matching objects, those of one namespace in the order of the documents; a get is some object of that name, in that namespace if one is given; groups, their versions and the resources of each are those of the manifests, sorted, with the first version preferred |

`NewStore` iterates over maps three times. Each iteration takes one element that
is left, whichever it likes (`SynthesizeMissing`, `IndexObject`); `List` and
`Get` range over the namespaces in any order per request. Once the store is
built, only requests happen, one at a time, since the handlers share nothing
that changes.

* `store` (`MCStore.cfg`): every manifest that was collected is listed exactly
  once, under its own namespace (`EveryManifestOnce`); every namespace some
  object names exists, once, and none is made up that was in the stream
  (`NamespacesExist`); what discovery offers is what can be listed, under the
  kind and scope it says (`DiscoveryMatchesIndex`); what clients see is
  `ResourceCatalog` (`ImplementsCatalog`), whose answers about groups and
  resources are stated from the manifests and not from the store's maps. A
  manifest whose metadata is null (or no map) cannot be put into `default`: the
  catalog says so, and that a list of all namespaces still shows it.
* `store_cluster_list` (`MCStoreClusterList.cfg`): see the finding.

Bounds: streams of up to three documents out of those of `MCStore`: a namespace
needs one object that names it and one manifest that defines it, an order needs
two objects in one namespace, and a clash of kinds two kinds of one resource;
three documents hold any two of these situations. A second version of a group
and a second group are there for what has to be sorted. Requests are not
bounded. The invariants look at the store between requests, which is the store
that every request finds.

### What is proved

`ManifestStoreProofs` proves, for every table of kinds, any set of streams and
streams of any length, what the run `store` checks of the store itself:
`BucketsHoldTheirKind` (`StoreTypeOK`), `NoManifestLostOrTwice`
(`EveryManifestOnce`), `NamespacesAreSynthesized` (`NamespacesExist`) and
`DiscoveryIsComplete` (`DiscoveryMatchesIndex`).

The properties speak of the store between requests; the invariant has to follow
the three loops that build it. `ShapeInv` says what objects and buckets look
like; `RegistryInv` that the kind of everything collected is registered, and that
what is registered is what `LookupType` says; `IndexInv`, for the last loop, that
what is in a bucket either was made up or is an object the loop has been at, in
its place and in the order of the documents, and that nothing it has been at is
missing; `NamespaceInv` that a namespace some object is in is still to be
visited, or defined, or made up, and never two of these. `DiscoveryInv` adds that
the registered kinds are those of the objects and `Namespace`.

Assumed of the constants: that the table says of each type whether it is
namespaced and selectors match labels of the manifests (`TypesAssumption`); what
it says of core/v1 `Namespace` (`NamespaceAssumption`); that streams are
sequences of documents with the fields the parser gives them
(`StreamsAssumption`); that no two names have the same rank in the lexical order
(`RankAssumption`). `NamespacesExist` has the
condition `NamespacedOnly`: where a cluster-scoped and a namespaced kind share a
resource, the scope asked for first decides what is collected and the other may
decide where it is indexed.

The order of groups and versions is `SortedBy` of `Sorting`, the sequence with each element
where the number of smaller ones says; the library's sort is overridden by code
and cannot be reasoned about.

`CatalogProofs` proves that clients see `ResourceCatalog`
(`StoreServesTheCatalog`: `StoreSpec => ImplementsCatalog`). Reading a document
adds a manifest to the catalog or nothing; every other step that builds the store
is a stutter (`BuildingIsSilent`): the namespace that the first loop writes into
an object and the map that `enrichMetadata` puts into it are not for a client to
see, since `EntryOf` already says where the manifest will be found. `EntryInv` is
what that needs: an object that the first loop has been at is settled (it has a
namespace, or no room for one), and a namespace is made up only for an object
that is in it, or for `default`. Once the store serves, what is in the indexes and
what the catalog holds are the same things, each in one place (`IndexedIsServed`,
`ServedIsIndexed`, `ServedOnce`), and where the kinds of a resource agree, in the
bucket that clients ask for (`InItsNamespace`). Then each handler: `ListIs` says
what appending one bucket after the other comes to in any order of the buckets
(`FlattenPlaces`, by induction over the buckets), `GetFinds` that the first match
of a bucket is the first of its namespace, `GroupListIs` and `ResourceListIs` that
what is sorted is whole, ascending and without repetition.

The proof changed the model in two places. `NewStore` compares the apiVersion of a
namespace's manifest with `"v1"` (resources.go:90), while the group and version of
`"/v1"` are the same: such a manifest is served as a namespace and does not count
as one, so the namespace is also made up. The catalog said otherwise until the
invariant about made-up namespaces could not be proved; now `Entry` keeps the
apiVersion, and the run has such a manifest. And an empty selector selects
everything before it is looked up (server.go:394).

Finding 4. *A list of a cluster-scoped resource in a namespace is empty*
(`store_cluster_list`). resources.go:145 says the namespace is ignored; `List`
looks into the bucket of that name, where nothing cluster-scoped is.

Left out: `uid`, `resourceVersion` and `creationTimestamp`; verbs, singular names
and addresses, which never vary. No route leads to the `/status` that
discovery.go:99 promises; requests for one are not among those of the model.

## Stream commands

| Module | Code | What it holds |
|---|---|---|
| `Sorting` | `sort.Slice`, loops that skip elements | both by counting, without recursion, so that proofs can use them; also the store's |
| `Manifests` | `match.go`, `get.go`, `drop.go`, `count.go`, `pkg/diff/reorder.go` | documents as records; matching, the filters, scoped mutation, the order of fields, as operators |
| `ManifestDiff` | `pkg/diff/engine.go` | indexing, comparison and sorting; where a map is iterated over, the set of the results the program may compute |
| `ResourceSum` | `sum.go` | quantities, replicas, assertions |
| `CommandRun` | `main.go`, `pipeline.go`, `pkg/engine/engine.go`, `output.go`, `ColorWriter` | one run: arguments, options, inputs, filter or analysis, writes one by one, exit |
| `MCCommands` | | sixteen documents, three files, a `.env` file, some ninety commands |
| `YamlTrees` | `match.go` as far as it reads nodes | documents as trees: functions from paths to what is there |
| `YamlNodes` | (kyaml) | nodes in memory that point to others, `Lookup`, `LookupCreate`, `SetField`, `Clear` |
| `Mutators` | `label.go`, `annotate.go`, `namespace.go`, `rename.go`, `scale.go`, `set_image.go`, `remove.go`, `patch.go`, `ScopedMutator` | the mutating commands at work on nodes, the merge of a patch call by call, and a second run on the output |
| `TreeEdits` | the same files | what each of them makes of a document, as a value |
| `Mutation` | (abstract) | what they promise of a stream |
| `MCMutators` | | eleven documents and some forty commands |

A run is one process. Its environment is chosen at the start: the command, what
is on standard input, and how many writes the output will take (`room`). A write
that finds no room fails; `Write` is used where the code returns the error and
`Put` where it does not, and `lost` remembers that something was not written.
The order of the steps is the code's: `count` and `sum` open their inputs before
they look at the selector, the others after; a mutator runs over all documents
before the first is written; the `ColorWriter` holds everything back until
its deferred `Close`; `main` decides last whether an error is to be reported,
in which format and with which exit code.

Documents keep what the commands tell apart: whether they are mappings and have
readable metadata, identity, labels, the order of their fields, what these hold
(two contents, mutated or not), replicas and the containers at each of the three
paths of `sum.go`. Types are two flags, because two commands look at them and not
at the same fields: `typed` is what `sum` insists on (every field of the metadata
has the type that `ResourceMeta` gives it), `identified` what `diff` insists on
(the four strings of the identity only). Labels of a wrong type are refused by
one and not by the other; so is a name of blanks, the other way round. Case folding, substrings of groups, label selectors and
lexical order are constants. In `CommandRun` what a mutator writes is one flag,
and a document has one place where the text may have a variable for `subst`:
the `.env` file is read line by line (`EnvMapFromBytes`), `Eval` is the library's
substitution of plain variables.

### The mutators

`CommandRun` knows of a mutator which documents it changes and whether it fails;
to make a value or a list of a document is to fail there, because no writer takes
it. Patches that make a document null, and documents that the YAML writer refuses,
are not among its inputs. What is written is the business of `Mutators`. There the documents are in a heap:
a node is named by the document it was made for and the path it was made at, and
holds a kind, a value, the text it was written as, and the nodes below. That is
needed for `patch`: `SetField` of a field that is missing sets the patch's own
node, so all the documents that were patched point to the same nodes from then
on, and a later write through one of them would be seen in the others. Each
`mutateFn` is one action; the merge of a patch is one action for each field and
each return of `recursiveMerge`, with the stack of calls in `frames` and the
fields of a mapping in any order.

The documents are written as YAML or as one JSON list (`WriteYAML`,
`WriteJSONList`), and the two differ at the edges. A document that a patch made
null is written as YAML (`null`), and refused as JSON. kyaml's YAML writer looks
for annotations of its own: it fails if `metadata` or `annotations` are a value or
a list, and it leaves out `annotations` that are null or empty (`YamlWrites`,
`YamlWritten`). When the stream has been written as YAML, the same command may read
it once more (`Again`); a document that is null is not read back (`ReadBack`).

`Mutation` has none of this. Documents are values; each is changed by `Mutated`
(in `TreeEdits`), which is stated for all the mutators that set a field at once (which mappings
get it, what is there is left) and for a merge by where the patch ends
(`Boundary`), and `Refused` says when a command fails.

### What the runs show

* `commands` (`MCCommands.cfg`). `JsonIsOneDocument`: with `-o json`, whatever
  goes wrong, exactly one JSON document is written, and the exit code and
  the document agree. `ExitCodeIsOutcome`: 0, 1 and 2 as in the README's table,
  stated from the inputs. `SumIsExact`: totals and verdict against a definition
  of demand per container and replica. `DiffIsExact`: each identity once where
  it belongs, modified exactly if the documents say something else, and one
  result whatever the maps' order. `StreamIsExact`: a filtered stream is written
  whole or not at all, in order, nothing lost but what the filter drops, nothing
  changed out of scope, every variable replaced by the value the `.env` file
  gives it last, and by nothing if it gives none, known fields first.
* `write_errors` (`MCCommandsWriteErrors.cfg`): see the finding.
* `mutators` (`MCMutators.cfg`). `ImplementsMutation`: what becomes of a document
  depends on it and on the command alone, although the program patches it with
  nodes that other documents have been given; documents out of scope stay as they
  are; nothing comes out if one document is refused. `SharedNodesArePatch`: what
  two documents share is the patch's, and the patch says what it said on the
  command line. `SecondPassChangesNothing`: the commands that
  describe.go:65-67 lists as idempotent write the second time what they read, but
  for the patches and the annotations named below.

Bounds: streams of up to two documents, because the operators treat documents
one by one except for duplicates, sorting and order, which need two. The
documents include each way to be unreadable or malformed, each matching
criterion both ways, both orders of fields, no replicas, and two documents that
differ in apiVersion only. For `mutators`, two documents are what sharing needs:
each mutator has a document with the mapping it wants missing, null, filled and
of the wrong kind, and `MaxDepth` is no less than the depth of any document.
`Rooms` is 0, 1 and 9: nothing is written, the second
write fails, all succeed. No liveness is stated: a run takes each step once.

### What is proved

`CommandRunProofs` proves of every run, whatever the commands, files, streams
and the room in the output:

* `RunsAreTyped` (`TypeOK`). `InputInv` says which inputs are open and read at
  which point, `OutcomeInv` which error can have come up there;
* `SumsAreExact` (`SumIsExact`), from `OutputInv`: a sum that is printed, or held
  to be printed, is `SumJSON` of the one stream that was read. That `SumJSON` is
  the sum is a theorem about the loops (`SumJSONIsTheSum` in `StreamProofs`): the
  fold over documents, containers and replicas refuses exactly the streams that
  have a malformed document in scope, and else its totals and its verdict are
  those of the definition over sets;
* `JsonRunsEndInOneDocument` (`JsonIsOneDocument`), from `JsonInv`: nothing is
  written before the run knows its answer; then either the answer is written, or
  `main` writes the error. Its hypothesis `FormatsRecognized` says that for
  arguments that parse, `requestsJSON`, the scan `main` falls back on, finds the
  format that the parser found. A command is given to the model both as its
  arguments and as what they parse to, and this says that the two belong together;
  TLC checks the property with commands that satisfy it;
* `DiffsAreExact` (`DiffIsExact`), from `ReportInv`: what is reported as a diff is
  one of the results that the program may compute of the two streams it read.
  That there is one only, and which, is `DiffIs` in `StreamProofs`, in three
  steps. `FieldsArranged` and `SameOrder`: `reorderMapping` puts known fields
  first and leaves the others as they were, so two mappings come out alike
  exactly if they have the same known fields and the others in the same order.
  `IndexIs`: the loop of `buildResourceMap` fails exactly if a document has no
  identity or one has two documents. `SortedUnique`: `lessRef` tells any two
  identities apart, so a set of them has one order;
* `ExitCodesTellTheOutcome` (`ExitCodeIsOutcome`), from `VerdictInv`: the run ends
  with `Verdict`, a function of the command and the streams that were read, with
  a failed write that somebody notices, or, if not all inputs were read, with
  the error that says why. It rests on `SumJSONIsTheSum` and `DiffIs` for the
  analyses and on `ResultForms` for the filters: no filter or mutator makes a
  mapping of something else, or something else of a mapping;
* `StreamsAreExact` (`StreamIsExact`), from `FilterInv`: at any time the output,
  or the `ColorWriter`'s buffer, has the first k documents of `Ready`, and the
  pipeline has the others. `ResultIs` says what `Ready` has, filter by filter;
  for `subst` it rests on `EnvIs`, that the loop over the `.env` file leaves each
  key with its last value. `OptionsInv` is needed because `Match` takes anything
  when there are no criteria, and `drop` would remove the whole stream.

`FoldProofs` has the lemmas about the library's folds. The library's induction
theorems take an operator as a parameter and cannot be used here; induction is
derived from its theorem that < is well-founded on the naturals, stated with sets
instead of predicates. A fold is then replaced by a
function on prefixes, or on finite subsets, that obeys the recursion. The lemmas
about `Sorting` (`Ascends`, `AscentLength`, `ElementsThere`) are there as well, for
the store's groups, the filters and the fields.

Assumed of the constants: `Rooms` are natural numbers (`RoomsAssumption`). A
command is one of those there are, its files are a sequence and its thresholds
integers, and only the filters write documents to a coloured terminal, as YAML
(`CommandsAssumption`). The inputs are sequences of documents (`InputsAssumption`):
records with the fields that `IsManifest` and `IsDocument` list, and with each
field of a mapping once, as YAML demands and `node.Map()` insists on. `.env` files
are sequences of lines (`EnvFilesAssumption`). Different strings have different
places in the lexical order, and those of an identity have one
(`RankAssumption`, `IsRanked`).

### What is proved of the mutators

`MutatorProofs` proves, for every set of commands and streams:

* `NodesAreThere` (`MutatorTypeOK`): no node ever points to one that is not there,
  and the merge's stack is no deeper than the documents;
* `OnlyThePatchIsShared` (`SharedNodesArePatch`): two documents share no node but
  the patch's, and the patch is never written to;
* `MutatorsKeepTheirPromise` (`ImplementsMutation`): every step on the nodes is a
  step of `Mutation`, or none that it sees. The merge of a document, call by call
  and with the fields of each mapping in any order, is one step there, and so its
  result does not depend on the order;
* `SecondPassIsQuiet` (`SecondPassChangesNothing`).

The argument. `Shows(heap, i, t, S)` says that the nodes of document i show the
tree t, those at the paths in S being the patch's own and all others made for this
document. `NodeProofs` says of each operation on nodes what it makes of a document
that is shown: of `TreeAt`, the writer (`ShownTree`), of `Lookup` (`LookupIs`), of
`LookupCreate` followed by setting a scalar (`FieldSet`), of `Clear` (`Cleared`);
and then for each command but `patch` that its nodes come to show `Mutated`, or that
it fails exactly if `Refused` (`LabelDoes`, `AnnotateDoes`, `SetNamespaceDoes`,
`RenameDoes`, `ScaleDoes`, `SetImageDoes`, `RemoveDoes`). Nodes of other documents,
and the patch's, are left alone (`Aside`). What is found by walking down the nodes
is shown with an induction along the path and, for the folds that fill sets of
nodes by their distance, along the depth; the induction over numbers is the one
that `FoldProofs` derives.

The inductive invariant, `MutatorInv`, has four parts. `ReadInv` and `LoopInv` are
the inputs and the loop over the documents. `HeapInv` says that each document shows
what should have become of it by now (`Now`): those before `turn` what the command
makes of them, and of a patch only the parts that were missing (`Shared`) are the
patch's nodes; the others are as they were read, and all their own. This is why a
patched document cannot spoil the next: a command only writes to nodes of the
document at its turn, and there is nothing in it yet that is not its own.
`MergeInv` holds while a merge goes on: the document at `turn` shows what the merge
has done so far (`Merging`). What it has done is a set of paths at which the patch
ends (`Boundary`); which ones is told by the stack (`Done`): all but those that are
at or below a field which a call on the stack has still to come to (`Left`). `Stack`
says that each call is for a path at which both sides are mappings, and for the field
that the call below it has just taken. Each step of `recursiveMerge` then adds the
paths that it disposes of: `FieldTaken` (the field is missing, the patch's node is
attached), `FieldPushed` (a call), `NodeReplaced` and `LoopEnded` (its return), and
`FieldStops` says that a field fails exactly if the patch is `Refused`. With an empty
stack nothing is left, and the document shows `Merged` (`MergeEnded`).

For the second pass, `CommandAgain` says of trees that a command called idempotent
makes nothing more of what it made, and does not refuse it; for the patch this is
`PatchAgain`, and it holds under the condition `~Unrepeatable` that the property
has. What is read again is not quite what was made: annotations with nothing below
them are gone (`Unannotated`). `TidyAgain` says that this makes no difference to
any command but `annotate`. No other command looks for annotations or makes them
(`TargetsUnannotated`, `SetUnannotated`, `RemoveUnannotated`), the scope of a
command does not depend on them (`UnannotatedScope`), and a patch may put them in
again, empty, for the writer to leave out (`PatchUnannotated`); for `annotate` there
remains that the command succeeds (`AnnotateUnannotated`). `AgainInv` then says that
what is read in the second pass has been written in the first (`Mutant`), and hence
consists of mappings that the writer takes.

Assumed: the words that the commands look for are strings and none of them could be
a position in a list (`PositionAssumption`); no document and no patch is deeper than
`MaxDepth`, which is at least 5, the depth `label` may have to make
(`DepthAssumption`, `StreamAssumption`, `CommandAssumption`); what is read is a tree
whose inner nodes are mappings and lists, and items of lists are at positions
(`IsTree`); what is to be removed has a path with a key in it.

Three things in the model are as they are because of the proofs. `IsTree` rules out a
field below a scalar, which no reader can produce. `SetImage` sets the images of all
containers at once: the order in which they are visited does not matter. And
`Unrepeatable` is no wider than it must be: a null or a number within a list does no
harm, because a list is taken as a whole.

### Findings and remarks

Finding 5. *A result that cannot be written is not an error* (`write_errors`).
`count` and `sum` print with `fmt.Println` and drop its error, and
`runPipeline` drops the error of `ColorWriter.Close`. README.md:194 counts write
errors among those that exit with 2.

*What describe says of `patch`.* describe.go:65-67 lists `patch` as idempotent.
`SecondPassChangesNothing` fails without its condition `~Unrepeatable`, for two
reasons. A null in the patch makes a field that is there null (`SetYNode`); on
the output, where the field is null and so missing to `Lookup`, `SetField` with
a null removes it. And a key that is a number, such as the data of a ConfigMap
may have, is taken over with the mapping it belongs to; once that mapping is
there, `Lookup` takes the key for a position in a list and the command ends with
2. The condition leaves out the patches that have a null or such a key in mappings;
within a list they do no harm. A patch that is null as a whole is among them: as
YAML it leaves nothing to read the second time.

*What describe says of `annotate`.* Annotations that are null are left alone, without
a word; the YAML writer leaves them out, and the second time there are none, so that
`annotate` makes them. `AnnotatedLate` is this case: a document without annotations
that `annotate` reads in the second pass. All that is said of it there is that the
command does not fail.

*Silent mutations.* The promise that `Mutators` keeps has three cases in which a
matching document is left alone without a word, because that is what the code
does: labels, annotations or metadata that are null (`Blocked`); a container
whose name is quoted or has a comment, because the name is compared as it is
written; containers and fields behind a path that cannot be looked up. The number
of `scale` is looked at only if a document in scope has a spec.

Left out, of what kyaml does to nodes: the style that `SetField` writes into the node
it is given (at patch.go:49 the patch's own) when the field is there already, which
changes how a value looks and not what it is; anchors and aliases, which `IsTree`
has no place for; and the tag of a scalar that a command sets. Scalars are compared
as texts, while one that was set without a tag (`1`, `true`, `null`) is read back as
a number, a boolean or nothing: the second pass takes it for the same text. The
annotations by which kyaml remembers the place of a document in its input are not
there, because the reader omits them.

Left out, besides: the unified diff and other formatting; defaults of flags from the
environment; comments and the order of fields that mutators keep or make; label
arguments without `=`, which are refused before anything is read; the forms of
`envsubst` other than a plain variable.

## Plan of the development

Done, in this order: the serve core with its proofs (the concurrent part, and the
one whose failures are hardest to reproduce), the store with discovery and all
handlers, the stream commands, the mutators on shared nodes, `subst`; then the
proofs: all safety and action properties of the serve core and its refinement,
all invariants of the store, all invariants of a run of a command, that the
store serves the catalog (`ImplementsCatalog`), and all properties of the mutators.

What stays with the runs: liveness under fairness (`ExecReturns`, `ShutdownEnds`,
`ServeFailureCancels`, `RunEnds`), which is out of the prover's reach. Every
other property that a run checks and that holds is a theorem.

## Not modelled

* Certificates (`generateTLS`): calls of `crypto/x509` without state; that they may
  fail is `ServeRun`'s `NewServerFails`.
* The text of `describe`, completion, `kinds` and `version`: tables printed in one
  go. What `describe` claims of other commands is checked (`Idempotent`).
* Which characters are coloured (`internal/prompt/color.go`): wording and layout;
  when they are written is `CommandRun`'s.
* The unified diff, the YAML and JSON writers and readers, `envsubst` beyond plain
  variables: libraries, modelled by how the code uses them.
* `WriteNodes`, which only tests call; build, CI and release.
* The time that `sum` takes: it adds the totals up once per replica (sum.go:112),
  where the model multiplies.
