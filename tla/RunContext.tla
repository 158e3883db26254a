----------------------------- MODULE RunContext -----------------------------
(***************************************************************************)
(* The context that ends `k8q serve`: signal.NotifyContext wrapped in      *)
(* context.WithCancel (internal/serve/server.go, Run).  Both contexts are  *)
(* cancelled by anything that cancels the outer one, and the program only  *)
(* looks at the inner one, so one boolean stands for the pair.             *)
(*                                                                         *)
(* SIGINT and SIGTERM reach the process at any moment.  They are caught    *)
(* only between NotifyContext and its stop function; outside that window   *)
(* the kernel's default action ends the process.                           *)
(***************************************************************************)
EXTENDS Naturals

CONSTANT MaxSignals             \* bound on the signals sent in one behaviour

ASSUME MaxSignalsAssumption == MaxSignals \in Nat

VARIABLES
    disposition,    \* what the kernel does with SIGINT/SIGTERM
    signals,        \* how many of them were sent so far (bounded by MaxSignals)
    inbox,          \* a signal waits in the channel NotifyContext made
    cancelled,      \* ctx.Err() # nil
    killed          \* the default action of a signal ended the process

contextVars == <<disposition, signals, inbox, cancelled, killed>>

ContextTypeOK ==
    /\ disposition \in {"default", "notify"}
    /\ signals \in 0..MaxSignals
    /\ inbox \in BOOLEAN
    /\ cancelled \in BOOLEAN
    /\ killed \in BOOLEAN

ContextInit ==
    /\ disposition = "default"
    /\ signals = 0
    /\ inbox = FALSE
    /\ cancelled = FALSE
    /\ killed = FALSE

-----------------------------------------------------------------------------
\* ctx, stop := signal.NotifyContext(...); ctx, cancel := context.WithCancel(ctx)
Register ==
    /\ disposition' = "notify"
    /\ UNCHANGED <<signals, inbox, cancelled, killed>>

\* Somebody sends SIGINT or SIGTERM while the runtime catches them.
CatchSignal ==
    /\ ~killed
    /\ disposition = "notify"
    /\ signals < MaxSignals
    /\ signals' = signals + 1
    /\ inbox' = TRUE
    /\ UNCHANGED <<disposition, cancelled, killed>>

\* The same signal while nothing catches it.
DieOfSignal ==
    /\ ~killed
    /\ disposition = "default"
    /\ signals < MaxSignals
    /\ signals' = signals + 1
    /\ killed' = TRUE
    /\ UNCHANGED <<disposition, inbox, cancelled>>

\* The goroutine inside NotifyContext receives the signal and cancels.
RelaySignal ==
    /\ ~killed
    /\ inbox
    /\ ~cancelled
    /\ cancelled' = TRUE
    /\ inbox' = FALSE
    /\ UNCHANGED <<disposition, signals, killed>>

\* cancel(), by the goroutine that served or by the deferred call of Run.
CancelContext ==
    /\ cancelled' = TRUE
    /\ UNCHANGED <<disposition, signals, inbox, killed>>

\* stop(): cancels the signal context and gives the signals back.
StopNotify ==
    /\ disposition' = "default"
    /\ cancelled' = TRUE
    /\ inbox' = FALSE
    /\ UNCHANGED <<signals, killed>>
=============================================================================
