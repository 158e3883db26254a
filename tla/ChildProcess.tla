---------------------------- MODULE ChildProcess ----------------------------
(***************************************************************************)
(* execChild (internal/serve/server.go) with the two implementations of    *)
(* configureChildCancellation and cleanupChild (child_unix.go,             *)
(* child_other.go), the parts of os/exec they rely on (external) and the   *)
(* operating system's view of the child: its leader, the descendants that  *)
(* stay in its process group, and the terminal's foreground group.         *)
(*                                                                         *)
(* Three actors interleave: the goroutine that runs execChild, the         *)
(* goroutine os/exec starts to watch the context, and the child's          *)
(* processes.                                                              *)
(***************************************************************************)
EXTENDS RunContext

CONSTANTS
    Unix,            \* built for a Unix (child_unix.go) or not (child_other.go)
    ExitCodes,       \* codes the leader may exit with on its own
    DeathSignals,    \* signals the leader may die of
    MaxDescendants,  \* bound on the live descendants in the child's group
    Killable,        \* the kernel lets k8q signal the group (no EPERM)
    PidReuse         \* a process outside k8q may take over the group's id

ASSUME ChildAssumption ==
    /\ Unix \in BOOLEAN
    /\ ExitCodes \subseteq 0..255
    /\ DeathSignals \subseteq 1..64
    /\ MaxDescendants \in Nat
    /\ Killable \in BOOLEAN
    /\ PidReuse \in BOOLEAN

VARIABLES
    xpc,          \* where execChild is
    tty,          \* what configureChildCancellation found out
    foreground,   \* the group that owns the terminal
    leader,       \* cmd.Process, as the kernel sees it
    status,       \* the leader's wait status
    descendants,  \* live processes of the group other than the leader
    watcher,      \* os/exec's watchCtx goroutine
    cancelMemo,   \* the memo of cmd.Cancel (sync.OnceValue)
    ran,          \* what cmd.Run returned
    reused,       \* the group's id now names somebody else's group
    strangerHit,  \* SIGKILL reached that group
    childErrs     \* the errors joined in execChild's result

osVars    == <<foreground, leader, status, descendants, reused, strangerHit>>
execVars  == <<xpc, tty, watcher, cancelMemo, ran, childErrs>>
childVars == <<execVars, osVars>>

-----------------------------------------------------------------------------
SIGKILL == 9

NoStatus == <<"none", 0>>

\* How a killed leader ends: of SIGKILL, or with TerminateProcess(handle, 1).
KilledStatus == IF Unix THEN <<"signal", SIGKILL>> ELSE <<"exit", 1>>

\* How the leader may end when k8q does not kill it.
OwnStatuses == {<<"exit", c>> : c \in ExitCodes}
               \cup {<<"signal", n>> : n \in DeathSignals}

Statuses == {NoStatus, KilledStatus} \cup OwnStatuses

Succeeded == status = <<"exit", 0>>

\* exitCodeError: the child's code, or 128 + the number of the signal.
CodeOf(st) == IF st[1] = "signal" THEN 128 + st[2] ELSE st[2]

\* kill(2) finds a group as long as one member is not reaped.
GroupExists == leader \in {"running", "zombie"} \/ descendants > 0

\* Some process of the group can still do something.
GroupRuns == leader = "running" \/ descendants > 0

ChildTypeOK ==
    /\ xpc \in {"idle", "configure", "start", "wait", "collect", "check",
                "cleanup", "restore", "returned"}
    /\ tty \in {"unset", "none", "background", "foreground"}
    /\ foreground \in {"none", "k8q", "caller", "child"}
    /\ leader \in {"none", "running", "zombie", "reaped"}
    /\ status \in Statuses
    /\ descendants \in 0..MaxDescendants
    /\ watcher \in {"none", "watching", "signalled", "done"}
    /\ cancelMemo \in {"unset", "sent", "gone", "denied"}
    /\ ran \in {"none", "nil", "exit", "ctx", "denied", "failed"}
    /\ reused \in BOOLEAN
    /\ strangerHit \in BOOLEAN
    /\ childErrs \subseteq {"terminal", "exec", "ctx", "child", "cleanup",
                            "restore"}

ChildInit ==
    /\ xpc = "idle"
    /\ tty = "unset"
    /\ foreground \in IF Unix THEN {"none", "k8q", "caller"} ELSE {"none"}
    /\ leader = "none"
    /\ status = NoStatus
    /\ descendants = 0
    /\ watcher = "none"
    /\ cancelMemo = "unset"
    /\ ran = "none"
    /\ reused = FALSE
    /\ strangerHit = FALSE
    /\ childErrs = {}

-----------------------------------------------------------------------------
(* execChild up to cmd.Run.                                                *)

CallExecChild ==
    /\ xpc = "idle"
    /\ xpc' = "configure"
    /\ UNCHANGED <<tty, watcher, cancelMemo, ran, childErrs, osVars>>

\* /dev/tty cannot be opened, or TIOCGPGRP fails: execChild returns at once.
ConfigureFails ==
    /\ xpc = "configure"
    /\ Unix
    /\ xpc' = "returned"
    /\ childErrs' = {"terminal"}
    /\ UNCHANGED <<tty, watcher, cancelMemo, ran, osVars>>

\* No terminal (or not a Unix): nothing to restore.  Another group in the
\* foreground: leave the terminal alone.  Otherwise hand it to the child.
ConfigureChild ==
    /\ xpc = "configure"
    /\ tty' = CASE foreground = "none" -> "none"
                [] foreground = "k8q"  -> "foreground"
                [] OTHER               -> "background"
    /\ xpc' = "start"
    /\ UNCHANGED <<watcher, cancelMemo, ran, childErrs, osVars>>

\* cmd.Start: the context is already cancelled, cmd.Process stays nil.
StartCancelled ==
    /\ xpc = "start"
    /\ cancelled
    /\ ran' = "ctx"
    /\ xpc' = "check"
    /\ UNCHANGED <<tty, watcher, cancelMemo, childErrs, osVars>>

\* No such command, or fork or exec fails.  The forked process takes the
\* terminal before it execs, so the terminal may be left with a dead group.
StartFails ==
    /\ xpc = "start"
    /\ ~cancelled
    /\ ran' = "failed"
    /\ foreground' \in {foreground} \cup IF tty = "foreground" THEN {"child"} ELSE {}
    /\ xpc' = "check"
    /\ UNCHANGED <<tty, watcher, cancelMemo, childErrs, leader, status,
                   descendants, reused, strangerHit>>

StartChild ==
    /\ xpc = "start"
    /\ ~cancelled
    /\ leader' = "running"
    /\ foreground' = IF tty = "foreground" THEN "child" ELSE foreground
    /\ watcher' = "watching"
    /\ xpc' = "wait"
    /\ UNCHANGED <<tty, cancelMemo, ran, childErrs, status, descendants,
                   reused, strangerHit>>

-----------------------------------------------------------------------------
(* cmd.Cancel.                                                             *)

LeaderKilled ==
    IF leader = "running"
    THEN leader' = "zombie" /\ status' = KilledStatus
    ELSE UNCHANGED <<leader, status>>

\* Mutant: kill(pid, SIGKILL), the leader only.
KillGroupLeaderOnly ==
    \/ /\ leader \in {"running", "zombie"} /\ Killable
       /\ LeaderKilled
       /\ cancelMemo' = "sent"
       /\ UNCHANGED <<descendants, strangerHit>>
    \/ /\ leader \in {"running", "zombie"} /\ ~Killable
       /\ cancelMemo' = "denied"
       /\ UNCHANGED <<leader, status, descendants, strangerHit>>
    \/ /\ leader \notin {"running", "zombie"}
       /\ cancelMemo' = "gone"
       /\ UNCHANGED <<leader, status, descendants, strangerHit>>

\* Mutant: SIGTERM, which the leader ignores.
KillGroupPolitely ==
    /\ cancelMemo' = IF GroupExists THEN "sent" ELSE "gone"
    /\ descendants' = 0
    /\ UNCHANGED <<leader, status, strangerHit>>

\* kill(-pid, SIGKILL): every member of the group dies, whoever they are.
KillGroup ==
    \/ /\ GroupExists /\ Killable
       /\ LeaderKilled
       /\ descendants' = 0
       /\ cancelMemo' = "sent"
       /\ UNCHANGED strangerHit
    \/ /\ GroupExists /\ ~Killable
       /\ cancelMemo' = "denied"
       /\ UNCHANGED <<leader, status, descendants, strangerHit>>
    \/ /\ ~GroupExists
       /\ cancelMemo' \in IF reused THEN {"sent", "denied"} ELSE {"gone"}
       /\ strangerHit' = (cancelMemo' = "sent")
       /\ UNCHANGED <<leader, status, descendants>>

\* Mutant: CommandContext's Cancel replaced by one that does nothing.
KillLeaderNot ==
    /\ cancelMemo' = "gone"
    /\ UNCHANGED <<leader, status, descendants, strangerHit>>

\* Process.Kill, where there are no groups.
KillLeader ==
    /\ \/ leader = "running" /\ Killable  /\ cancelMemo' = "sent" /\ LeaderKilled
       \/ leader = "running" /\ ~Killable /\ cancelMemo' = "denied"
          /\ UNCHANGED <<leader, status>>
       \/ leader # "running" /\ cancelMemo' = "gone" /\ UNCHANGED <<leader, status>>
    /\ UNCHANGED <<descendants, strangerHit>>

\* Mutant: cmd.Cancel without sync.OnceValue.
CancelEveryTime == IF Unix THEN KillGroup ELSE KillLeader

Cancel ==
    IF cancelMemo = "unset"
    THEN IF Unix THEN KillGroup ELSE KillLeader
    ELSE UNCHANGED <<cancelMemo, leader, status, descendants, strangerHit>>

\* watchCtx: <-ctx.Done() and then cmd.Cancel().
WatcherCancels ==
    /\ watcher = "watching"
    /\ cancelled
    /\ watcher' = "signalled"
    /\ Cancel
    /\ UNCHANGED <<xpc, tty, ran, childErrs, foreground, reused>>

-----------------------------------------------------------------------------
(* cmd.Wait and what follows it in execChild.                              *)

ReapLeader ==
    /\ xpc = "wait"
    /\ leader = "zombie"
    /\ leader' = "reaped"
    /\ xpc' = "collect"
    /\ UNCHANGED <<tty, watcher, cancelMemo, ran, childErrs, foreground, status,
                   descendants, reused, strangerHit>>

\* Wait receives the watcher's result before the watcher saw ctx.Done().
CollectQuiet ==
    /\ xpc = "collect"
    /\ watcher = "watching"
    /\ ran' = IF Succeeded THEN "nil" ELSE "exit"
    /\ watcher' = "done"
    /\ xpc' = "check"
    /\ UNCHANGED <<tty, cancelMemo, childErrs, osVars>>

\* Mutant: Wait returns the result of cmd.Cancel itself.
CollectCancelledRaw ==
    /\ xpc = "collect"
    /\ watcher = "signalled"
    /\ ran' = cancelMemo
    /\ watcher' = "done"
    /\ xpc' = "check"
    /\ UNCHANGED <<tty, cancelMemo, childErrs, osVars>>

\* The watcher has cancelled: its error replaces a successful exit.
CollectCancelled ==
    /\ xpc = "collect"
    /\ watcher = "signalled"
    /\ ran' = IF ~Succeeded THEN "exit"
              ELSE CASE cancelMemo = "sent"   -> "ctx"
                     [] cancelMemo = "denied" -> "denied"
                     [] OTHER                 -> "nil"
    /\ watcher' = "done"
    /\ xpc' = "check"
    /\ UNCHANGED <<tty, cancelMemo, childErrs, osVars>>

\* The result of cmd.Run: nothing, an exitCodeError, or "executing ...".
RunError == CASE ran = "nil"  -> {}
              [] ran = "exit" -> {"child"}
              [] OTHER        -> {"exec"}

\* Mutant: a child that did not start returns before restore is deferred.
CheckSkipsRestore ==
    /\ xpc = "check"
    /\ childErrs' = IF cancelled /\ leader # "none" THEN {"ctx"} ELSE RunError
    /\ xpc' = IF leader = "none" THEN "returned" ELSE "cleanup"
    /\ UNCHANGED <<tty, watcher, cancelMemo, ran, osVars>>

\* Mutant: the ExitError is not unwrapped.
CheckNoExitError ==
    /\ xpc = "check"
    /\ childErrs' = IF cancelled /\ leader # "none" THEN {"ctx"}
                    ELSE IF ran = "nil" THEN {} ELSE {"exec"}
    /\ xpc' = IF leader = "none" THEN "restore" ELSE "cleanup"
    /\ UNCHANGED <<tty, watcher, cancelMemo, ran, osVars>>

\* Mutant: the result of cmd.Run is used without a look at the context.
CheckIgnoresContext ==
    /\ xpc = "check"
    /\ childErrs' = RunError
    /\ xpc' = IF leader = "none" THEN "restore" ELSE "cleanup"
    /\ UNCHANGED <<tty, watcher, cancelMemo, ran, osVars>>

\* ctx.Err() # nil && cmd.Process # nil wins over the result of cmd.Run.
Check ==
    /\ xpc = "check"
    /\ childErrs' = IF cancelled /\ leader # "none" THEN {"ctx"} ELSE RunError
    /\ xpc' = IF leader = "none" THEN "restore" ELSE "cleanup"
    /\ UNCHANGED <<tty, watcher, cancelMemo, ran, osVars>>

\* Mutant: the group is cleaned up after a cancellation only.
CleanupIfCancelled ==
    /\ xpc = "cleanup"
    /\ IF Unix /\ cancelled
       THEN Cancel
       ELSE UNCHANGED <<cancelMemo, leader, status, descendants, strangerHit>>
    /\ xpc' = "restore"
    /\ UNCHANGED <<tty, watcher, ran, childErrs, foreground, reused>>

\* The deferred cleanupChild: cmd.Cancel again on a Unix, nothing elsewhere.
CleanupChild ==
    /\ xpc = "cleanup"
    /\ IF Unix
       THEN Cancel
       ELSE UNCHANGED <<cancelMemo, leader, status, descendants, strangerHit>>
    /\ childErrs' = childErrs \cup
                    IF Unix /\ cancelMemo' = "denied" THEN {"cleanup"} ELSE {}
    /\ xpc' = "restore"
    /\ UNCHANGED <<tty, watcher, ran, foreground, reused>>

\* The deferred restore(): /bin/sh in the old group takes the terminal back.
RestoreTerminal ==
    /\ xpc = "restore"
    /\ foreground' = IF tty = "foreground" THEN "k8q" ELSE foreground
    /\ xpc' = "returned"
    /\ UNCHANGED <<tty, watcher, cancelMemo, ran, childErrs, leader, status,
                   descendants, reused, strangerHit>>

\* The helper fails before or after it took the terminal back.
RestoreFails ==
    /\ xpc = "restore"
    /\ tty = "foreground"
    /\ foreground' \in {foreground, "k8q"}
    /\ childErrs' = childErrs \cup {"restore"}
    /\ xpc' = "returned"
    /\ UNCHANGED <<tty, watcher, cancelMemo, ran, leader, status, descendants,
                   reused, strangerHit>>
-----------------------------------------------------------------------------
(* The child's processes (external).                                       *)

LeaderExits ==
    /\ leader = "running"
    /\ leader' = "zombie"
    /\ status' \in OwnStatuses
    /\ UNCHANGED <<execVars, foreground, descendants, reused, strangerHit>>

ForkDescendant ==
    /\ GroupRuns
    /\ descendants < MaxDescendants
    /\ descendants' = descendants + 1
    /\ UNCHANGED <<execVars, foreground, leader, status, reused, strangerHit>>

\* A descendant exits, or leaves for a group of its own.
DescendantLeaves ==
    /\ descendants > 0
    /\ descendants' = descendants - 1
    /\ UNCHANGED <<execVars, foreground, leader, status, reused, strangerHit>>

\* Once nobody is left in the group its id may be given to another group.
ReuseGroupId ==
    /\ PidReuse
    /\ leader = "reaped"
    /\ descendants = 0
    /\ ~reused
    /\ reused' = TRUE
    /\ UNCHANGED <<execVars, foreground, leader, status, descendants, strangerHit>>

-----------------------------------------------------------------------------
(* The component on its own.  The context may be cancelled at any moment,  *)
(* by a signal or by the goroutine that serves.                            *)

ExecSteps ==
    \/ ConfigureFails \/ ConfigureChild
    \/ StartCancelled \/ StartFails \/ StartChild
    \/ ReapLeader \/ CollectQuiet \/ CollectCancelled
    \/ Check \/ CleanupChild \/ RestoreTerminal \/ RestoreFails

ChildSteps ==
    LeaderExits \/ ForkDescendant \/ DescendantLeaves \/ ReuseGroupId

ContextSteps ==
    /\ \/ CatchSignal
       \/ RelaySignal
       \/ ~cancelled /\ CancelContext
    /\ UNCHANGED childVars

Finished == xpc = "returned" /\ UNCHANGED <<contextVars, childVars>>

execAllVars == <<contextVars, childVars>>

ExecInit ==
    /\ ChildInit
    /\ disposition = "notify"
    /\ signals = 0
    /\ inbox = FALSE
    /\ cancelled = FALSE
    /\ killed = FALSE

ExecNext ==
    \/ (CallExecChild \/ ExecSteps \/ WatcherCancels \/ ChildSteps)
       /\ UNCHANGED contextVars
    \/ ContextSteps
    \/ Finished

ExecSpec == ExecInit /\ [][ExecNext]_execAllVars

\* Go keeps running the goroutines that can run, and a signal in the channel
\* is received; nothing obliges the child to exit or a signal to be sent.
ExecFairness ==
    /\ WF_execAllVars((CallExecChild \/ ExecSteps) /\ UNCHANGED contextVars)
    /\ WF_execAllVars(WatcherCancels /\ UNCHANGED contextVars)
    /\ WF_execAllVars(RelaySignal /\ UNCHANGED childVars)

FairExecSpec == ExecSpec /\ ExecFairness

-----------------------------------------------------------------------------
(* Safety.                                                                 *)

ExecTypeOK == ContextTypeOK /\ ChildTypeOK

\* "On Unix, cancellation or completion of the main child also terminates
\* descendants remaining in its process group": whichever of the watcher and
\* the deferred cleanup kills first, and however often the group forks, no
\* process of it is left when execChild restores the terminal.
GroupGoneAtRestore ==
    (Unix /\ Killable /\ xpc \in {"restore", "returned"}) => ~GroupExists

\* execChild always takes the terminal back from the child's group, also when
\* the child could not be started, unless it reports that it failed to.
TerminalReturned ==
    (xpc = "returned" /\ "restore" \notin childErrs) => foreground # "child"

\* Without cancellation the caller learns how the leader ended, and nothing
\* else: its code or signal when it failed, no error when it succeeded.
StatusReported ==
    (xpc \in {"restore", "returned"} /\ leader = "reaped" /\ ~cancelled) =>
        /\ ("child" \in childErrs) = ~Succeeded
        /\ childErrs \subseteq {"child", "restore", "cleanup"}

\* A leader that died of k8q's own SIGKILL is reported as cancelled, never as
\* having ended by itself, let alone as a success.
KillIsReported ==
    (xpc = "returned" /\ leader = "reaped" /\ status \notin OwnStatuses) =>
        "ctx" \in childErrs /\ "child" \notin childErrs

-----------------------------------------------------------------------------
(* What a step may never do.                                               *)

\* The terminal goes back to k8q's group only when nothing of the child's
\* group can read from it or write to it any more.
TerminalHandover ==
    [][ (foreground = "child" /\ foreground' = "k8q" /\ Unix /\ Killable)
          => ~GroupExists ]_execAllVars

\* What sync.OnceValue is for: after the watcher killed the group, the deferred
\* cleanup does not signal the id again, whoever owns it by then.
NoSecondKill ==
    [][ cancelMemo # "unset" => strangerHit' = strangerHit ]_execAllVars

-----------------------------------------------------------------------------
(* Liveness.                                                               *)

\* Once the context is cancelled, or the leader has ended, execChild returns,
\* though descendants may go on forking.
ExecReturns == (cancelled \/ leader = "zombie") ~> (xpc = "returned")
=============================================================================
