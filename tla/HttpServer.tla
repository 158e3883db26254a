----------------------------- MODULE HttpServer -----------------------------
(***************************************************************************)
(* The mock API server's life (internal/serve/server.go): the goroutine    *)
(* that Run starts to call Serve, the deferred closure that shuts the      *)
(* server down, and the parts of net/http they rely on (external): the     *)
(* accept loop, the tracking of listeners and connections, Shutdown and    *)
(* Close.                                                                  *)
(*                                                                         *)
(* A request only reads the store, so a connection is its http.ConnState.  *)
(* A connection in the "backlog" is established by the kernel but not yet  *)
(* accepted.                                                               *)
(***************************************************************************)
EXTENDS RunContext

CONSTANT Conns                  \* the connections clients may hold at a time

VARIABLES
    listener,       \* the TCP listener: "none", "open" or "closed"
    tracked,        \* Serve has registered it (srv.listeners, listenerGroup)
    inShutdown,     \* http.Server.inShutdown
    conns,          \* the state of every connection
    gpc,            \* where the serving goroutine is
    serveErr,       \* what Serve returned to it
    serveDone,      \* the channel serveDone (capacity 1)
    spc,            \* where the deferred closure is
    timedOut,       \* shutdownErr # nil
    serverErrs      \* the errors the closure joins to Run's result

serverVars == <<listener, tracked, inShutdown, conns, gpc, serveErr, serveDone,
                spc, timedOut, serverErrs>>

ConnStates == {"closed", "backlog", "new", "active", "idle"}

\* Connections that the http.Server tracks (srv.activeConn).
Accepted == {c \in Conns : conns[c] \in {"new", "active", "idle"}}

ServerTypeOK ==
    /\ listener \in {"none", "open", "closed"}
    /\ tracked \in BOOLEAN
    /\ inShutdown \in BOOLEAN
    /\ conns \in [Conns -> ConnStates]
    /\ gpc \in {"none", "ready", "accepting", "close", "send", "cancel",
                "done"}
    /\ serveErr \in {"none", "closed", "accept"}
    /\ serveDone \in {"empty", "closed", "accept"}
    /\ spc \in {"idle", "close", "drain", "sleep", "unlisten", "abort",
                "receive", "done"}
    /\ timedOut \in BOOLEAN
    /\ serverErrs \subseteq {"shutdown", "serve"}

ServerInit ==
    /\ listener = "none"
    /\ tracked = FALSE
    /\ inShutdown = FALSE
    /\ conns = [c \in Conns |-> "closed"]
    /\ gpc = "none"
    /\ serveErr = "none"
    /\ serveDone = "empty"
    /\ spc = "idle"
    /\ timedOut = FALSE
    /\ serverErrs = {}

-----------------------------------------------------------------------------
(* net.Listener and the connections (external).                            *)

\* Closing the listener resets the connections nobody accepted.
CloseListener ==
    /\ listener' = "closed"
    /\ conns' = [c \in Conns |-> IF conns[c] = "backlog" THEN "closed"
                                                         ELSE conns[c]]

\* tls.Listen in NewServer.
Listen ==
    /\ listener = "none"
    /\ listener' = "open"
    /\ UNCHANGED <<tracked, inShutdown, conns, gpc, serveErr, serveDone, spc,
                   timedOut, serverErrs>>

\* A client connects; the kernel completes the connection.
Dial(c) ==
    /\ listener = "open"
    /\ conns[c] = "closed"
    /\ conns' = [conns EXCEPT ![c] = "backlog"]
    /\ UNCHANGED <<listener, tracked, inShutdown, gpc, serveErr, serveDone, spc,
                   timedOut, serverErrs>>

\* The client hangs up, or a read, write or idle timeout of the server passes.
HangUp(c) ==
    /\ conns[c] # "closed"
    /\ conns' = [conns EXCEPT ![c] = "closed"]
    /\ UNCHANGED <<listener, tracked, inShutdown, gpc, serveErr, serveDone, spc,
                   timedOut, serverErrs>>

\* The first byte of a request arrives.
RequestBegins(c) ==
    /\ conns[c] \in {"new", "idle"}
    /\ conns' = [conns EXCEPT ![c] = "active"]
    /\ UNCHANGED <<listener, tracked, inShutdown, gpc, serveErr, serveDone, spc,
                   timedOut, serverErrs>>

\* The handler has answered.  No keep-alive once the server shuts down.
RequestEnds(c) ==
    /\ conns[c] = "active"
    /\ conns' = [conns EXCEPT ![c] = IF inShutdown THEN "closed" ELSE "idle"]
    /\ UNCHANGED <<listener, tracked, inShutdown, gpc, serveErr, serveDone, spc,
                   timedOut, serverErrs>>

-----------------------------------------------------------------------------
(* The goroutine: err := srv.Serve(); serveDone <- err; cancel().          *)

\* go func() { ... }(): the goroutine exists but has not run yet.
GoServe ==
    /\ gpc = "none"
    /\ gpc' = "ready"
    /\ UNCHANGED <<listener, tracked, inShutdown, conns, serveErr, serveDone,
                   spc, timedOut, serverErrs>>

\* Mutant: Serve does not look at inShutdown.
ServeBeginsLate ==
    /\ gpc = "ready"
    /\ tracked' = TRUE
    /\ gpc' = "accepting"
    /\ UNCHANGED <<listener, inShutdown, conns, serveErr, serveDone, spc,
                   timedOut, serverErrs>>

\* http.Server.Serve registers the listener, under the server's mutex ...
ServeBegins ==
    /\ gpc = "ready"
    /\ ~inShutdown
    /\ tracked' = TRUE
    /\ gpc' = "accepting"
    /\ UNCHANGED <<listener, inShutdown, conns, serveErr, serveDone, spc,
                   timedOut, serverErrs>>

\* ... or finds that Shutdown came first and returns ErrServerClosed.
ServeRefused ==
    /\ gpc = "ready"
    /\ inShutdown
    /\ serveErr' = "closed"
    /\ gpc' = "close"
    /\ UNCHANGED <<listener, tracked, inShutdown, conns, serveDone, spc,
                   timedOut, serverErrs>>

Accept(c) ==
    /\ gpc = "accepting"
    /\ listener = "open"
    /\ conns[c] = "backlog"
    /\ conns' = [conns EXCEPT ![c] = "new"]
    /\ UNCHANGED <<listener, tracked, inShutdown, gpc, serveErr, serveDone, spc,
                   timedOut, serverErrs>>

\* Accept fails: Serve calls it ErrServerClosed if a shutdown is on its way,
\* and gives the listener up (listenerGroup.Done).
LeaveAcceptLoop ==
    /\ gpc = "accepting"
    /\ serveErr' = IF inShutdown THEN "closed" ELSE "accept"
    /\ tracked' = FALSE
    /\ gpc' = "close"
    /\ UNCHANGED <<listener, inShutdown, conns, serveDone, spc, timedOut,
                   serverErrs>>

AcceptClosed == listener = "closed" /\ LeaveAcceptLoop
AcceptBreaks == listener = "open" /\ LeaveAcceptLoop

\* The deferred l.Close() of http.Server.Serve.
ServeCloses ==
    /\ gpc = "close"
    /\ CloseListener
    /\ gpc' = "send"
    /\ UNCHANGED <<tracked, inShutdown, serveErr, serveDone, spc, timedOut,
                   serverErrs>>

\* Mutant: the goroutine ends without cancel().
SendWithoutCancel ==
    /\ gpc = "send"
    /\ serveDone = "empty"
    /\ serveDone' = serveErr
    /\ gpc' = "done"
    /\ UNCHANGED <<listener, tracked, inShutdown, conns, serveErr, spc, timedOut,
                   serverErrs>>

\* serveDone <- err never blocks: the channel has room for one.
SendServeResult ==
    /\ gpc = "send"
    /\ serveDone = "empty"
    /\ serveDone' = serveErr
    /\ gpc' = "cancel"
    /\ UNCHANGED <<listener, tracked, inShutdown, conns, serveErr, spc, timedOut,
                   serverErrs>>

\* cancel(): wakes Run, and ends the child.
CancelAfterServe ==
    /\ gpc = "cancel"
    /\ gpc' = "done"
    /\ UNCHANGED <<listener, tracked, inShutdown, conns, serveErr, serveDone,
                   spc, timedOut, serverErrs>>
-----------------------------------------------------------------------------
(* The deferred closure of Run.                                            *)

\* srv.Shutdown: inShutdown is set before the mutex is taken ...
BeginShutdown ==
    /\ spc = "idle"
    /\ inShutdown' = TRUE
    /\ spc' = "close"
    /\ UNCHANGED <<listener, tracked, conns, gpc, serveErr, serveDone, timedOut,
                   serverErrs>>

\* ... then the listeners Serve registered are closed.
CloseListeners ==
    /\ spc = "close"
    /\ IF tracked THEN CloseListener ELSE UNCHANGED <<listener, conns>>
    /\ spc' = "drain"
    /\ UNCHANGED <<tracked, inShutdown, gpc, serveErr, serveDone, timedOut,
                   serverErrs>>

\* listenerGroup.Wait(), then closeIdleConns: idle connections are closed, and
\* those that sent nothing for five seconds (old).
Drain(old) ==
    /\ spc = "drain"
    /\ ~tracked
    /\ conns' = [c \in Conns |-> IF conns[c] = "idle" \/ c \in old
                                 THEN "closed" ELSE conns[c]]
    /\ spc' = IF \E c \in Conns : conns'[c] \in {"new", "active"}
              THEN "sleep" ELSE "unlisten"
    /\ UNCHANGED <<listener, tracked, inShutdown, gpc, serveErr, serveDone,
                   timedOut, serverErrs>>

\* Mutant: Close in the place of Shutdown.
DrainByForce ==
    /\ spc = "drain"
    /\ ~tracked
    /\ conns' = [c \in Conns |-> IF c \in Accepted THEN "closed" ELSE conns[c]]
    /\ spc' = "unlisten"
    /\ UNCHANGED <<listener, tracked, inShutdown, gpc, serveErr, serveDone,
                   timedOut, serverErrs>>

DrainConns == \E old \in SUBSET {c \in Conns : conns[c] = "new"} : Drain(old)

\* The poll timer fires first ...
PollAgain ==
    /\ spc = "sleep"
    /\ spc' = "drain"
    /\ UNCHANGED <<listener, tracked, inShutdown, conns, gpc, serveErr,
                   serveDone, timedOut, serverErrs>>

\* Mutant: Shutdown is given a context without a deadline.
ShutdownHasNoDeadline == FALSE

\* ... or the five seconds of shutdownCtx are over.
ShutdownTimesOut ==
    /\ spc = "sleep"
    /\ timedOut' = TRUE
    /\ spc' = "unlisten"
    /\ UNCHANGED <<listener, tracked, inShutdown, conns, gpc, serveErr,
                   serveDone, serverErrs>>

\* Mutant: the connections that outlived Shutdown are left alone.
UnlistenOnly ==
    /\ spc = "unlisten"
    /\ CloseListener
    /\ spc' = "receive"
    /\ UNCHANGED <<tracked, inShutdown, gpc, serveErr, serveDone, timedOut,
                   serverErrs>>

\* _ = srv.listener.Close(), whether or not Serve has seen the listener.
Unlisten ==
    /\ spc = "unlisten"
    /\ CloseListener
    /\ spc' = IF timedOut THEN "abort" ELSE "receive"
    /\ UNCHANGED <<tracked, inShutdown, gpc, serveErr, serveDone, timedOut,
                   serverErrs>>

\* srv.server.Close(): every accepted connection is cut.
AbortConns ==
    /\ spc = "abort"
    /\ ~tracked
    /\ conns' = [c \in Conns |-> IF c \in Accepted THEN "closed" ELSE conns[c]]
    /\ spc' = "receive"
    /\ UNCHANGED <<listener, tracked, inShutdown, gpc, serveErr, serveDone,
                   timedOut, serverErrs>>

\* Mutant: ErrServerClosed is joined like any other error.
ReceiveUnfiltered ==
    /\ spc = "receive"
    /\ serveDone # "empty"
    /\ serveDone' = "empty"
    /\ serverErrs' = (IF timedOut THEN {"shutdown"} ELSE {}) \cup {"serve"}
    /\ spc' = "done"
    /\ UNCHANGED <<listener, tracked, inShutdown, conns, gpc, serveErr, timedOut>>

\* Mutant: the value received is joined as it is.
ReceiveRaw ==
    /\ spc = "receive"
    /\ serveDone # "empty"
    /\ serveDone' = "empty"
    /\ serverErrs' = (IF timedOut THEN {"shutdown"} ELSE {}) \cup {serveDone}
    /\ spc' = "done"
    /\ UNCHANGED <<listener, tracked, inShutdown, conns, gpc, serveErr, timedOut>>

\* Mutant: the error of Shutdown is not joined.
ReceiveOnly ==
    /\ spc = "receive"
    /\ serveDone # "empty"
    /\ serveDone' = "empty"
    /\ serverErrs' = IF serveDone = "closed" THEN {} ELSE {"serve"}
    /\ spc' = "done"
    /\ UNCHANGED <<listener, tracked, inShutdown, conns, gpc, serveErr, timedOut>>

\* serveErr := <-serveDone; ErrServerClosed is no error.
ReceiveServeResult ==
    /\ spc = "receive"
    /\ serveDone # "empty"
    /\ serveDone' = "empty"
    /\ serverErrs' = (IF timedOut THEN {"shutdown"} ELSE {})
                     \cup (IF serveDone = "closed" THEN {} ELSE {"serve"})
    /\ spc' = "done"
    /\ UNCHANGED <<listener, tracked, inShutdown, conns, gpc, serveErr, timedOut>>

\* The process dies: the kernel closes what it had open.
ServerDies ==
    /\ listener' = "closed"
    /\ conns' = [c \in Conns |-> "closed"]
    /\ UNCHANGED <<tracked, inShutdown, gpc, serveErr, serveDone, spc, timedOut,
                   serverErrs>>

-----------------------------------------------------------------------------
(* The component on its own: Run has started it and may shut it down at    *)
(* any moment.                                                             *)

ClientSteps == \E c \in Conns : Dial(c) \/ HangUp(c) \/ RequestBegins(c)

HandlerSteps == \E c \in Conns : RequestEnds(c)

GoroutineSteps ==
    \/ ServeBegins \/ ServeRefused \/ AcceptClosed \/ ServeCloses
    \/ SendServeResult

AcceptSteps == (\E c \in Conns : Accept(c)) \/ AcceptBreaks

ClosureSteps ==
    \/ CloseListeners \/ DrainConns \/ PollAgain \/ ShutdownTimesOut
    \/ Unlisten \/ AbortConns \/ ReceiveServeResult

serverAllVars == <<contextVars, serverVars>>

ServeInit ==
    /\ ContextInit
    /\ ServerInit

ServeFinished ==
    /\ spc = "done" /\ gpc = "done"
    /\ UNCHANGED serverAllVars

ServeNext ==
    \/ /\ \/ Listen
          \/ listener = "open" /\ GoServe
          \/ ClientSteps \/ HandlerSteps
          \/ GoroutineSteps \/ AcceptSteps \/ ClosureSteps
       /\ UNCHANGED contextVars
    \/ gpc # "none" /\ BeginShutdown /\ UNCHANGED contextVars
    \/ CancelAfterServe /\ CancelContext
    \/ ServeFinished

ServeSpec == ServeInit /\ [][ServeNext]_serverAllVars

\* The goroutine and the closure run; ctx.Done() wins over the poll timer once
\* it has passed, so a closure that keeps polling times out.  Nothing obliges a
\* client to finish.
ServeFairness ==
    /\ WF_serverAllVars(GoroutineSteps /\ UNCHANGED contextVars)
    /\ WF_serverAllVars(CancelAfterServe /\ CancelContext)
    /\ WF_serverAllVars(ClosureSteps /\ UNCHANGED contextVars)
    /\ SF_serverAllVars(ShutdownTimesOut /\ UNCHANGED contextVars)

FairServeSpec == ServeSpec /\ ServeFairness

-----------------------------------------------------------------------------
(* Safety.                                                                 *)

ServeTypeOK == ContextTypeOK /\ ServerTypeOK

\* When Run goes on after the closure nothing of the server is left: no
\* listener, no connection of any kind, and no Serve that could accept one,
\* however the shutdown raced with Serve starting, with Serve failing and with
\* connections waiting to be accepted.
ServerGone ==
    spc = "done" =>
        /\ listener = "closed"
        /\ \A c \in Conns : conns[c] = "closed"
        /\ ~tracked
        /\ gpc \in {"cancel", "done"}

\* The closure reports a Serve that broke, and only that: the accept error
\* that the shutdown itself causes is never mistaken for one.
ServeFailureReported ==
    spc = "done" => ("serve" \in serverErrs) = (serveErr = "accept")

-----------------------------------------------------------------------------
(* What a step may never do.                                               *)

\* Once Shutdown has waited for Serve no connection is accepted, so the set of
\* connections it drains can only shrink.
NoLateAccept ==
    [][ spc' \in {"sleep", "unlisten", "abort", "receive", "done"} =>
          {c \in Conns : conns'[c] \in {"new", "active", "idle"}}
            \subseteq Accepted ]_serverAllVars

\* The closure cuts a request that is being answered only when the graceful
\* shutdown has run out of time.
NoRequestCut ==
    [][ \A c \in Conns :
          (conns[c] = "active" /\ conns'[c] = "closed" /\ spc' # spc) => timedOut
      ]_serverAllVars

-----------------------------------------------------------------------------
(* Liveness.                                                               *)

\* The closure always comes to its end: Serve answers it, whenever it started,
\* and clients that never finish hold it up for five seconds only.
ShutdownEnds == (spc = "close") ~> (spc = "done")

\* A Serve that breaks wakes Run up.
ServeFailureCancels == (serveErr = "accept") ~> cancelled
=============================================================================
