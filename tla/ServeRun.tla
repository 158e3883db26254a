------------------------------ MODULE ServeRun ------------------------------
(***************************************************************************)
(* One `k8q serve`, from the command line to the exit code: Run            *)
(* (internal/serve/server.go) with NewServer and the kubeconfig, composed  *)
(* with the server (HttpServer), the child (ChildProcess) and the context  *)
(* both share (RunContext), and main's mapping of the result (main.go).    *)
(*                                                                         *)
(* Run's deferred calls happen in the reverse of their order in the code:  *)
(* the closure that shuts the server down, cancel, stop, srv.Cleanup.      *)
(***************************************************************************)
EXTENDS ChildProcess, HttpServer

VARIABLES
    mpc,            \* where the main goroutine is
    command,        \* `k8q serve -- command`, or interactive
    kubeconfig,     \* the temporary directory: "absent", "dir" or "file"
    startFailed,    \* Run returned an error before it served
    exitCode        \* the process's exit code, or NotExited

runVars == <<mpc, command, kubeconfig, startFailed, exitCode>>
vars == <<contextVars, childVars, serverVars, runVars>>

NotExited == 256

Starting == mpc \in {"parse", "listen", "mkdir", "write", "notify"}

RunTypeOK ==
    /\ mpc \in {"parse", "listen", "mkdir", "write", "notify", "spawn", "run",
                "shutdown", "cancel", "stop", "cleanup", "returned", "exited"}
    /\ command \in BOOLEAN
    /\ kubeconfig \in {"absent", "dir", "file"}
    /\ startFailed \in BOOLEAN
    /\ exitCode \in 0..NotExited

TypeOK == ContextTypeOK /\ ChildTypeOK /\ ServerTypeOK /\ RunTypeOK

Init ==
    /\ ContextInit
    /\ ChildInit
    /\ ServerInit
    /\ mpc = "parse"
    /\ command \in BOOLEAN
    /\ kubeconfig = "absent"
    /\ startFailed = FALSE
    /\ exitCode = NotExited

\* The process exists: its goroutines run and signals reach it.
Alive == ~killed /\ mpc # "exited"

-----------------------------------------------------------------------------
(* Run until it serves.                                                    *)

\* The manifests are read (or are not): ParseManifests and NewStore.
ReadManifests ==
    /\ ~killed /\ mpc = "parse"
    /\ \/ mpc' = "listen" /\ UNCHANGED startFailed
       \/ mpc' = "returned" /\ startFailed' = TRUE
    /\ UNCHANGED <<command, kubeconfig, exitCode, contextVars, childVars,
                   serverVars>>

OpenListener ==
    /\ ~killed /\ mpc = "listen"
    /\ Listen
    /\ mpc' = "mkdir"
    /\ UNCHANGED <<command, kubeconfig, startFailed, exitCode, contextVars,
                   childVars>>

\* No certificate, or the port is taken.
NewServerFails ==
    /\ ~killed /\ mpc = "listen"
    /\ mpc' = "returned"
    /\ startFailed' = TRUE
    /\ UNCHANGED <<command, kubeconfig, exitCode, contextVars, childVars,
                   serverVars>>

MakeKubeconfigDir ==
    /\ ~killed /\ mpc = "mkdir"
    /\ kubeconfig' = "dir"
    /\ mpc' = "write"
    /\ UNCHANGED <<command, startFailed, exitCode, contextVars, childVars,
                   serverVars>>

WriteKubeconfig ==
    /\ ~killed /\ mpc = "write"
    /\ kubeconfig' = "file"
    /\ mpc' = "notify"
    /\ UNCHANGED <<command, startFailed, exitCode, contextVars, childVars,
                   serverVars>>

\* Mutant: NewServer keeps the listener when the kubeconfig cannot be written.
KubeconfigFailsOnly ==
    /\ ~killed /\ mpc \in {"mkdir", "write"}
    /\ kubeconfig' = "absent"
    /\ mpc' = "returned"
    /\ startFailed' = TRUE
    /\ UNCHANGED <<command, exitCode, contextVars, childVars, serverVars>>

\* Either step fails: the directory is removed and the listener closed.
KubeconfigFails ==
    /\ ~killed /\ mpc \in {"mkdir", "write"}
    /\ kubeconfig' = "absent"
    /\ CloseListener
    /\ mpc' = "returned"
    /\ startFailed' = TRUE
    /\ UNCHANGED <<command, exitCode, contextVars, childVars, tracked,
                   inShutdown, gpc, serveErr, serveDone, spc, timedOut,
                   serverErrs>>

RegisterSignals ==
    /\ ~killed /\ mpc = "notify"
    /\ Register
    /\ mpc' = "spawn"
    /\ UNCHANGED <<command, kubeconfig, startFailed, exitCode, childVars,
                   serverVars>>

SpawnServe ==
    /\ ~killed /\ mpc = "spawn"
    /\ GoServe
    /\ mpc' = "run"
    /\ UNCHANGED <<command, kubeconfig, startFailed, exitCode, contextVars,
                   childVars>>

-----------------------------------------------------------------------------
(* Run while it serves, and its deferred calls.                            *)

RunChild ==
    /\ ~killed /\ mpc = "run"
    /\ command
    /\ CallExecChild \/ ExecSteps
    /\ UNCHANGED <<contextVars, serverVars, runVars>>

\* Mutant: the shutdown does not wait for execChild.
StartShutdownEarly ==
    /\ ~killed /\ mpc = "run"
    /\ cancelled \/ (command /\ xpc = "returned")
    /\ BeginShutdown
    /\ mpc' = "shutdown"
    /\ UNCHANGED <<command, kubeconfig, startFailed, exitCode, contextVars,
                   childVars>>

\* execChild returned, or <-ctx.Done() did.
StartShutdown ==
    /\ ~killed /\ mpc = "run"
    /\ IF command THEN xpc = "returned" ELSE cancelled
    /\ BeginShutdown
    /\ mpc' = "shutdown"
    /\ UNCHANGED <<command, kubeconfig, startFailed, exitCode, contextVars,
                   childVars>>

\* Mutant: the closure ends with Shutdown.
RunClosureShutdownOnly ==
    /\ ~killed /\ mpc = "shutdown"
    /\ ClosureSteps
    /\ mpc' = IF spc' \in {"unlisten", "done"} THEN "cancel" ELSE "shutdown"
    /\ UNCHANGED <<command, kubeconfig, startFailed, exitCode, contextVars,
                   childVars>>

RunClosure ==
    /\ ~killed /\ mpc = "shutdown"
    /\ ClosureSteps
    /\ mpc' = IF spc' = "done" THEN "cancel" ELSE "shutdown"
    /\ UNCHANGED <<command, kubeconfig, startFailed, exitCode, contextVars,
                   childVars>>

DeferredCancel ==
    /\ ~killed /\ mpc = "cancel"
    /\ CancelContext
    /\ mpc' = "stop"
    /\ UNCHANGED <<command, kubeconfig, startFailed, exitCode, childVars,
                   serverVars>>

DeferredStop ==
    /\ ~killed /\ mpc = "stop"
    /\ StopNotify
    /\ mpc' = "cleanup"
    /\ UNCHANGED <<command, kubeconfig, startFailed, exitCode, childVars,
                   serverVars>>

Cleanup ==
    /\ ~killed /\ mpc = "cleanup"
    /\ kubeconfig' = "absent"
    /\ mpc' = "returned"
    /\ UNCHANGED <<command, startFailed, exitCode, contextVars, childVars,
                   serverVars>>

-----------------------------------------------------------------------------
(* main.                                                                   *)

\* Everything errors.Join put together.
RunErrors == childErrs \cup serverErrs \cup IF startFailed THEN {"start"} ELSE {}

\* Mutant: the code is found only when nothing is joined to it.
ExitStatusAlone ==
    IF RunErrors = {"child"} THEN CodeOf(status)
    ELSE IF RunErrors = {} THEN 0 ELSE 2

\* Mutant: ExitCode() of a child that died of a signal.
ExitStatusOfSignal ==
    IF "child" \in RunErrors
    THEN IF status[1] = "signal" THEN 0 - 1 ELSE status[2]
    ELSE IF RunErrors = {} THEN 0 ELSE 2

\* serve.ExitCode looks for the child's code first, anything else is 2.
ExitStatus ==
    IF "child" \in RunErrors THEN CodeOf(status)
    ELSE IF RunErrors = {} THEN 0 ELSE 2

Exit ==
    /\ ~killed /\ mpc = "returned"
    /\ exitCode' = ExitStatus
    /\ mpc' = "exited"
    /\ UNCHANGED <<command, kubeconfig, startFailed, contextVars, childVars,
                   serverVars>>

-----------------------------------------------------------------------------
MainSteps ==
    \/ OpenListener \/ NewServerFails
    \/ MakeKubeconfigDir \/ WriteKubeconfig \/ KubeconfigFails
    \/ RegisterSignals \/ SpawnServe
    \/ RunChild \/ StartShutdown \/ RunClosure
    \/ DeferredCancel \/ DeferredStop \/ Cleanup \/ Exit

Watcher ==
    Alive /\ WatcherCancels /\ UNCHANGED <<contextVars, serverVars, runVars>>

ServeLoop ==
    Alive /\ GoroutineSteps /\ UNCHANGED <<contextVars, childVars, runVars>>

ServeEnds ==
    Alive /\ CancelAfterServe /\ CancelContext /\ UNCHANGED <<childVars, runVars>>

\* Clients, handlers and the accept loop.
Traffic ==
    /\ Alive
    /\ ClientSteps \/ HandlerSteps \/ AcceptSteps
    /\ UNCHANGED <<contextVars, childVars, runVars>>

Relay == Alive /\ RelaySignal /\ UNCHANGED <<childVars, serverVars, runVars>>

Signal == Alive /\ CatchSignal /\ UNCHANGED <<childVars, serverVars, runVars>>

Die == Alive /\ DieOfSignal /\ ServerDies /\ UNCHANGED <<childVars, runVars>>

ChildActs == ChildSteps /\ UNCHANGED <<contextVars, serverVars, runVars>>

Terminated == ~Alive /\ UNCHANGED vars

Next ==
    \/ ReadManifests \/ MainSteps
    \/ Watcher \/ ServeLoop \/ ServeEnds \/ Relay
    \/ Traffic \/ Signal \/ Die \/ ChildActs
    \/ Terminated

Spec == Init /\ [][Next]_vars

\* Goroutines that can run do; the shutdown's deadline passes.  Standard input,
\* the clients, the child and whoever sends signals owe nothing.
Fairness ==
    /\ WF_vars(MainSteps)
    /\ WF_vars(Watcher)
    /\ WF_vars(ServeLoop)
    /\ WF_vars(ServeEnds)
    /\ WF_vars(Relay)
    /\ SF_vars(RunClosure /\ ShutdownTimesOut)

FairSpec == Spec /\ Fairness

-----------------------------------------------------------------------------
(* Safety.                                                                 *)

\* "Shutdown removes the temporary kubeconfig", and with it goes everything
\* else: a Run that returned, on whatever path, has no directory on disk, no
\* listener or connection, no signal handler and no process of the child's
\* group, and has taken the terminal back unless it reports that it could not.
NothingLeftBehind ==
    (mpc \in {"returned", "exited"} /\ ~killed) =>
        /\ kubeconfig = "absent"
        /\ listener # "open" /\ \A c \in Conns : conns[c] = "closed"
        /\ disposition = "default"
        /\ (Unix /\ Killable) => ~GroupExists
        /\ foreground = "child" => "restore" \in childErrs

\* As long as a process of the child's group exists the kubeconfig it was
\* given is on disk, the server is not being shut down, and no SIGINT or
\* SIGTERM kills k8q, which would leave the group behind.
ChildIsCovered ==
    (Unix /\ Killable /\ GroupExists) =>
        /\ kubeconfig = "file"
        /\ ~inShutdown
        /\ disposition = "notify" /\ ~killed

\* Exit code 0 is a promise: the manifests were served, the child (if any) ran
\* and succeeded, the server never broke, no client was cut off, and the
\* terminal is back.
ExitZeroIsSuccess ==
    exitCode = 0 =>
        /\ ~startFailed /\ serveErr = "closed" /\ ~timedOut
        /\ command => leader = "reaped" /\ Succeeded
        /\ foreground # "child"

\* "k8q exits with the child command's exit code": if no signal came and the
\* server did not break, nothing that goes wrong after a child failed - the
\* cleanup, the terminal, a shutdown that times out - hides its exit code.
ChildFailureReported ==
    (mpc = "exited" /\ leader = "reaped" /\ ~Succeeded
       /\ signals = 0 /\ serveErr # "accept") =>
        exitCode = CodeOf(status)

-----------------------------------------------------------------------------
(* Refinement and liveness.                                                *)

\* What a session is at: Run, not its goroutines, moves it on.
SessionPhase ==
    IF killed THEN "dead"
    ELSE IF Starting THEN "starting"
    ELSE IF mpc \in {"spawn", "run"} THEN "running"
    ELSE IF mpc \in {"returned", "exited"} THEN "returned"
    ELSE "stopping"

\* Somebody is connected, or can be.
ServerUp == listener = "open" \/ \E c \in Conns : conns[c] # "closed"

\* The nested lifetimes of ServeSession.
Session == INSTANCE ServeSession WITH
    phase  <- SessionPhase,
    config <- kubeconfig # "absent",
    server <- ServerUp,
    child  <- GroupExists

\* Run implements the session: its goroutines, the child's processes and the
\* clients, in any order, only take steps a session may take.
ImplementsSession == Session!SessionSpec

\* A caught signal, a server that breaks, a child that exits and a failure to
\* start each bring the process to its end, with the child still forking and
\* clients that never finish.
RunEnds ==
    (inbox \/ cancelled \/ serveErr = "accept" \/ leader = "zombie" \/ startFailed)
        ~> ~Alive
=============================================================================
