---------------------------- MODULE ServeProofs -----------------------------
(***************************************************************************)
(* Proofs about `k8q serve`, on every platform, for every terminal and any *)
(* number of clients, connections, descendants and signals: first about the *)
(* parts that ServeRun is composed of - the context, the child process and *)
(* the HTTP server, each by itself - then about the whole.  A step of the  *)
(* composition is a step of each part (StepSplits), so the parts' invariants *)
(* carry over; RunInv ties their stages to Run's.                          *)
(***************************************************************************)
EXTENDS ServeRun, TLAPS

-----------------------------------------------------------------------------
(* The context: what the other parts need to know of its actions.          *)

\* The context starts in its types.
LEMMA ContextInitOK ==
    ASSUME ContextInit
    PROVE  ContextTypeOK
<1>1. signals \in 0..MaxSignals
  BY MaxSignalsAssumption DEF MaxSignalsAssumption, ContextInit
<1> QED
  BY <1>1 DEF ContextInit, ContextTypeOK

\* The context's actions keep its types.
LEMMA ContextTypeStep ==
    ASSUME ContextTypeOK,
           \/ Register \/ CatchSignal \/ DieOfSignal \/ RelaySignal
           \/ CancelContext \/ StopNotify \/ UNCHANGED contextVars
    PROVE  ContextTypeOK'
<1> USE DEF ContextTypeOK, contextVars
<1>1. signals' \in 0..MaxSignals
  BY MaxSignalsAssumption
     DEF MaxSignalsAssumption, Register, CatchSignal, DieOfSignal, RelaySignal,
         CancelContext, StopNotify
<1>2. CASE Register
  BY <1>1, <1>2 DEF Register
<1>3. CASE CatchSignal
  BY <1>1, <1>3 DEF CatchSignal
<1>4. CASE DieOfSignal
  BY <1>1, <1>4 DEF DieOfSignal
<1>5. CASE RelaySignal
  BY <1>1, <1>5 DEF RelaySignal
<1>6. CASE CancelContext
  BY <1>1, <1>6 DEF CancelContext
<1>7. CASE StopNotify
  BY <1>1, <1>7 DEF StopNotify
<1>8. CASE UNCHANGED contextVars
  BY <1>1, <1>8
<1> QED
  BY <1>2, <1>3, <1>4, <1>5, <1>6, <1>7, <1>8

\* A cancelled context stays cancelled: no action of the context, nor the end
\* of the process, takes ctx.Err() back.
LEMMA CancelledForGood ==
    ASSUME cancelled,
           \/ Register \/ CatchSignal \/ DieOfSignal \/ RelaySignal
           \/ CancelContext \/ StopNotify \/ UNCHANGED contextVars
    PROVE  cancelled'
BY DEF Register, CatchSignal, DieOfSignal, RelaySignal, CancelContext,
       StopNotify, contextVars

-----------------------------------------------------------------------------
(* The child process.                                                      *)

\* A step of the component: of execChild, of the watcher, of the child.
ChildAct == CallExecChild \/ ExecSteps \/ WatcherCancels \/ ChildSteps

\* What each stage of execChild knows of the leader ...
StageInv ==
    /\ xpc \in {"idle", "configure"} => tty = "unset"
    /\ xpc \in {"idle", "configure", "start"} => leader = "none"
    /\ xpc = "wait" => leader \in {"running", "zombie"}
    /\ xpc \in {"collect", "cleanup"} => leader = "reaped"
    /\ xpc \in {"check", "restore", "returned"} => leader \in {"none", "reaped"}

\* ... and of the group: nothing exists before the leader; after a kill that
\* the kernel carried out nothing runs; and that kill has been sent before the
\* terminal is restored.
GroupInv ==
    /\ leader = "none" =>
         descendants = 0 /\ watcher = "none" /\ cancelMemo = "unset"
    /\ (Unix /\ Killable) =>
         /\ cancelMemo # "unset" => ~GroupRuns
         /\ (xpc \in {"restore", "returned"} /\ leader # "none")
              => cancelMemo # "unset"

\* The child's group has the terminal only if it was given it on purpose, and
\* only until execChild returns.
TerminalInv ==
    /\ foreground = "child" => tty = "foreground"
    /\ TerminalReturned

ChildInv == StageInv /\ GroupInv /\ TerminalInv

\* What is known of the leader's end on its way to the caller.  The watcher has
\* killed only because of the context, and the context stays cancelled.
ReportInv ==
    /\ watcher = "signalled" => cancelled
    /\ (leader \in {"zombie", "reaped"} /\ status \notin OwnStatuses) => cancelled
    /\ (xpc = "check" /\ leader = "reaped" /\ ~cancelled) =>
         ran = IF Succeeded THEN "nil" ELSE "exit"
    /\ (xpc = "cleanup" /\ ~cancelled) =>
         /\ childErrs \subseteq {"child"}
         /\ "child" \in childErrs <=> ~Succeeded
    /\ StatusReported
    /\ (xpc \in {"cleanup", "restore", "returned"} /\ leader = "reaped"
          /\ status \notin OwnStatuses) =>
         "ctx" \in childErrs /\ "child" \notin childErrs

\* What execChild's result tells of the leader: nothing is reported only of one
\* that succeeded, and a child's failure only of one that failed.
OutcomeInv ==
    /\ leader \in {"zombie", "reaped"} => status # NoStatus
    /\ xpc \in {"idle", "configure", "start", "wait", "collect", "check"}
         => childErrs = {}
    /\ xpc = "check" =>
         /\ ran = "nil" => leader = "reaped" /\ Succeeded
         /\ ran = "exit" => leader = "reaped" /\ ~Succeeded
    /\ (xpc \in {"cleanup", "restore", "returned"} /\ childErrs = {})
         => leader = "reaped" /\ Succeeded
    /\ "child" \in childErrs => leader = "reaped" /\ ~Succeeded

-----------------------------------------------------------------------------
\* The component starts in its types and its invariants.
LEMMA ChildInitOK ==
    ASSUME ChildInit
    PROVE  ChildTypeOK /\ ChildInv /\ ReportInv /\ OutcomeInv
<1> USE DEF ChildInit
<1>1. foreground \in {"none", "k8q", "caller", "child"}
  OBVIOUS
<1>2. descendants \in 0..MaxDescendants
  BY ChildAssumption DEF ChildAssumption
<1>3. ChildTypeOK
  BY <1>1, <1>2 DEF ChildTypeOK, Statuses
<1>4. ChildInv
  BY DEF ChildInv, StageInv, GroupInv, TerminalInv, TerminalReturned, GroupRuns
<1>5. ReportInv
  BY DEF ReportInv, StatusReported
<1>6. OutcomeInv
  BY DEF OutcomeInv
<1> QED
  BY <1>3, <1>4, <1>5, <1>6

\* Every step keeps the types: the number of descendants stays within its
\* bound, a status is one the leader can end with.
LEMMA ChildTypeStep ==
    ASSUME ChildTypeOK, [ChildAct]_childVars
    PROVE  ChildTypeOK'
<1> USE ChildAssumption DEF ChildAssumption, ChildTypeOK, Statuses, osVars, execVars, childVars
<1>1. ASSUME Cancel
      PROVE  /\ cancelMemo' \in {"unset", "sent", "gone", "denied"}
             /\ leader' \in {"none", "running", "zombie", "reaped"}
             /\ status' \in Statuses
             /\ descendants' \in 0..MaxDescendants
             /\ strangerHit' \in BOOLEAN
  <2>1. CASE cancelMemo # "unset"
    BY <1>1, <2>1 DEF Cancel
  <2>2. CASE cancelMemo = "unset" /\ Unix
    <3>1. KillGroup
      BY <1>1, <2>2 DEF Cancel
    <3>2. strangerHit' \in BOOLEAN
      BY <3>1 DEF KillGroup
    <3> QED
      BY <3>1, <3>2 DEF KillGroup, LeaderKilled
  <2>3. CASE cancelMemo = "unset" /\ ~Unix
    <3>1. KillLeader
      BY <1>1, <2>3 DEF Cancel
    <3> QED
      BY <3>1 DEF KillLeader, LeaderKilled
  <2> QED
    BY <2>1, <2>2, <2>3
<1>2. CASE CallExecChild
  BY <1>2 DEF CallExecChild
<1>3. CASE ConfigureFails
  BY <1>3 DEF ConfigureFails
<1>4. CASE ConfigureChild
  BY <1>4 DEF ConfigureChild
<1>5. CASE StartCancelled
  BY <1>5 DEF StartCancelled
<1>6. CASE StartFails
  BY <1>6 DEF StartFails
<1>7. CASE StartChild
  BY <1>7 DEF StartChild
<1>8. CASE ReapLeader
  BY <1>8 DEF ReapLeader
<1>9. CASE CollectQuiet
  BY <1>9 DEF CollectQuiet
<1>10. CASE CollectCancelled
  BY <1>10 DEF CollectCancelled
<1>11. CASE Check
  BY <1>11 DEF Check, RunError
<1>12. CASE RestoreTerminal
  BY <1>12 DEF RestoreTerminal
<1>13. CASE RestoreFails
  BY <1>13 DEF RestoreFails
<1>14. CASE LeaderExits
  BY <1>14 DEF LeaderExits
<1>15. CASE ForkDescendant
  BY <1>15 DEF ForkDescendant
<1>16. CASE DescendantLeaves
  BY <1>16 DEF DescendantLeaves
<1>17. CASE ReuseGroupId
  BY <1>17 DEF ReuseGroupId
<1>18. CASE WatcherCancels
  BY <1>1, <1>18 DEF WatcherCancels
<1>19. CASE CleanupChild
  BY <1>1, <1>19 DEF CleanupChild
<1>20. CASE UNCHANGED childVars
  BY <1>20
<1> QED
  BY <1>2, <1>3, <1>4, <1>5, <1>6, <1>7, <1>8, <1>9, <1>10, <1>11, <1>12, <1>13, <1>14, <1>15, <1>16, <1>17, <1>18, <1>19, <1>20
     DEF ChildAct, ExecSteps, ChildSteps

\* The effect of cmd.Cancel on the group, whoever calls it first: afterwards it
\* has been called, and if the kernel allows it nothing of the group runs.
LEMMA CancelEffect ==
    ASSUME ChildTypeOK, GroupInv, Cancel
    PROVE  /\ cancelMemo' # "unset"
           /\ (Unix /\ Killable) => leader' # "running" /\ descendants' = 0
           /\ leader' = leader \/ (leader = "running" /\ leader' = "zombie")
           /\ descendants' \in {descendants, 0}
<1> USE DEF ChildTypeOK, GroupInv, GroupRuns
<1>1. CASE cancelMemo # "unset"
  BY <1>1 DEF Cancel
<1>2. CASE cancelMemo = "unset" /\ Unix
  <2>1. KillGroup
    BY <1>2 DEF Cancel
  <2> QED
    BY <2>1 DEF KillGroup, LeaderKilled, GroupExists
<1>3. CASE cancelMemo = "unset" /\ ~Unix
  <2>1. KillLeader
    BY <1>3 DEF Cancel
  <2> QED
    BY <1>3, <2>1 DEF KillLeader, LeaderKilled
<1> QED
  BY <1>1, <1>2, <1>3

\* Every step keeps the invariant.
LEMMA ChildInvStep ==
    ASSUME ChildTypeOK, ChildInv, [ChildAct]_childVars
    PROVE  ChildInv'
<1> USE ChildAssumption
    DEF ChildAssumption, ChildTypeOK, ChildInv, StageInv, GroupInv, TerminalInv, TerminalReturned,
        GroupRuns, osVars, execVars, childVars
<1>1. CASE CallExecChild
  BY <1>1 DEF CallExecChild
<1>2. CASE ConfigureFails
  BY <1>2 DEF ConfigureFails
<1>3. CASE ConfigureChild
  BY <1>3 DEF ConfigureChild
<1>4. CASE StartCancelled
  BY <1>4 DEF StartCancelled
<1>5. CASE StartFails
  <2>1. foreground' = "child" => tty = "foreground"
    BY <1>5 DEF StartFails
  <2>2. /\ leader = "none"
        /\ xpc' = "check"
        /\ UNCHANGED <<tty, leader, descendants, watcher, cancelMemo, childErrs>>
    BY <1>5 DEF StartFails
  <2>3. StageInv'
    BY <2>2
  <2>4. GroupInv'
    BY <2>2
  <2>5. TerminalInv'
    BY <2>1, <2>2
  <2> QED
    BY <2>3, <2>4, <2>5
<1>6. CASE StartChild
  BY <1>6 DEF StartChild
<1>7. CASE ReapLeader
  BY <1>7 DEF ReapLeader
<1>8. CASE CollectQuiet
  BY <1>8 DEF CollectQuiet
<1>9. CASE CollectCancelled
  BY <1>9 DEF CollectCancelled
<1>10. CASE Check
  BY <1>10 DEF Check, RunError
<1>11. CASE RestoreTerminal
  BY <1>11 DEF RestoreTerminal
<1>12. CASE RestoreFails
  BY <1>12 DEF RestoreFails
<1>13. CASE LeaderExits
  BY <1>13 DEF LeaderExits
<1>14. CASE ForkDescendant
  BY <1>14 DEF ForkDescendant
<1>15. CASE DescendantLeaves
  BY <1>15 DEF DescendantLeaves
<1>16. CASE ReuseGroupId
  BY <1>16 DEF ReuseGroupId
<1>17. CASE WatcherCancels
  BY CancelEffect, <1>17 DEF WatcherCancels
<1>18. CASE CleanupChild
  BY CancelEffect, <1>18 DEF CleanupChild
<1>19. CASE UNCHANGED childVars
  BY <1>19
<1> QED
  BY <1>1, <1>2, <1>3, <1>4, <1>5, <1>6, <1>7, <1>8, <1>9, <1>10, <1>11, <1>12, <1>13, <1>14, <1>15, <1>16, <1>17, <1>18, <1>19
     DEF ChildAct, ExecSteps, ChildSteps

\* The status of a leader that has ended does not change any more, and a kill
\* gives a leader that had not ended the status of a killed one.
LEMMA CancelKeepsStatus ==
    ASSUME Cancel
    PROVE  \/ UNCHANGED <<leader, status>>
           \/ leader = "running" /\ leader' = "zombie" /\ status' = KilledStatus
<1>1. CASE cancelMemo # "unset"
  BY <1>1 DEF Cancel
<1>2. CASE cancelMemo = "unset" /\ Unix
  <2>1. KillGroup
    BY <1>2 DEF Cancel
  <2> QED
    BY <2>1 DEF KillGroup, LeaderKilled
<1>3. CASE cancelMemo = "unset" /\ ~Unix
  <2>1. KillLeader
    BY <1>3 DEF Cancel
  <2> QED
    BY <2>1 DEF KillLeader, LeaderKilled
<1> QED
  BY <1>1, <1>2, <1>3

\* Every step keeps what is known of the leader's end, as long as no step takes
\* the cancellation back.
LEMMA ReportInvStep ==
    ASSUME ChildTypeOK, ChildInv, ReportInv, [ChildAct]_childVars,
           cancelled => cancelled'
    PROVE  ReportInv'
<1> USE DEF ChildTypeOK, ChildInv, StageInv, ReportInv, StatusReported, Succeeded,
            osVars, execVars, childVars
<1>1. CASE CallExecChild
  BY <1>1 DEF CallExecChild
<1>2. CASE ConfigureFails
  BY <1>2 DEF ConfigureFails
<1>3. CASE ConfigureChild
  BY <1>3 DEF ConfigureChild
<1>4. CASE StartCancelled
  BY <1>4 DEF StartCancelled
<1>5. CASE StartFails
  BY <1>5 DEF StartFails
<1>6. CASE StartChild
  BY <1>6 DEF StartChild
<1>7. CASE ReapLeader
  BY <1>7 DEF ReapLeader
<1>8. CASE CollectQuiet
  BY <1>8 DEF CollectQuiet
<1>9. CASE CollectCancelled
  BY <1>9 DEF CollectCancelled
<1>10. CASE Check
  <2>1. CASE leader = "none"
    <3>1. xpc' = "restore" /\ leader' = "none"
          /\ UNCHANGED <<watcher, status, cancelMemo>>
      BY <1>10, <2>1 DEF Check, RunError
    <3> QED
      BY <2>1, <3>1
  <2>2. CASE leader = "reaped" /\ cancelled
    <3>1. /\ xpc' = "cleanup" /\ childErrs' = {"ctx"}
          /\ UNCHANGED <<watcher, leader, status>>
      BY <1>10, <2>2 DEF Check, RunError
    <3> QED
      BY <2>2, <3>1
  <2>3. CASE leader = "reaped" /\ ~cancelled
    <3>1. /\ xpc' = "cleanup"
          /\ childErrs' = IF Succeeded THEN {} ELSE {"child"}
          /\ UNCHANGED <<watcher, leader, status>>
      BY <1>10, <2>3 DEF Check, RunError
    <3> QED
      BY <2>3, <3>1
  <2> QED
    BY <1>10, <2>1, <2>2, <2>3 DEF Check, RunError
<1>11. CASE RestoreTerminal
  BY <1>11 DEF RestoreTerminal
<1>12. CASE RestoreFails
  BY <1>12 DEF RestoreFails
<1>13. CASE LeaderExits
  BY <1>13 DEF LeaderExits
<1>14. CASE ForkDescendant
  BY <1>14 DEF ForkDescendant
<1>15. CASE DescendantLeaves
  BY <1>15 DEF DescendantLeaves
<1>16. CASE ReuseGroupId
  BY <1>16 DEF ReuseGroupId
<1>17. CASE WatcherCancels
  BY CancelKeepsStatus, <1>17 DEF WatcherCancels
<1>18. CASE CleanupChild
  BY CancelKeepsStatus, <1>18 DEF CleanupChild
<1>19. CASE UNCHANGED childVars
  BY <1>19
<1> QED
  BY <1>1, <1>2, <1>3, <1>4, <1>5, <1>6, <1>7, <1>8, <1>9, <1>10, <1>11,
     <1>12, <1>13, <1>14, <1>15, <1>16, <1>17, <1>18, <1>19
     DEF ChildAct, ExecSteps, ChildSteps

\* Every step keeps what the result tells of the leader.
LEMMA OutcomeInvStep ==
    ASSUME ChildTypeOK, ChildInv, OutcomeInv, [ChildAct]_childVars
    PROVE  OutcomeInv'
<1> USE DEF ChildTypeOK, ChildInv, StageInv, OutcomeInv, Succeeded,
            osVars, execVars, childVars
<1>1. KilledStatus # NoStatus /\ \A st \in OwnStatuses : st # NoStatus
  BY DEF KilledStatus, OwnStatuses, NoStatus
<1>2. CASE CallExecChild
  BY <1>2 DEF CallExecChild
<1>3. CASE ConfigureFails
  BY <1>3 DEF ConfigureFails
<1>4. CASE ConfigureChild
  BY <1>4 DEF ConfigureChild
<1>5. CASE StartCancelled
  BY <1>5 DEF StartCancelled
<1>6. CASE StartFails
  BY <1>6 DEF StartFails
<1>7. CASE StartChild
  BY <1>7 DEF StartChild
<1>8. CASE ReapLeader
  BY <1>8 DEF ReapLeader
<1>9. CASE CollectQuiet
  BY <1>9 DEF CollectQuiet
<1>10. CASE CollectCancelled
  BY <1>10 DEF CollectCancelled
<1>11. CASE Check
  BY <1>11 DEF Check, RunError
<1>12. CASE RestoreTerminal
  BY <1>12 DEF RestoreTerminal
<1>13. CASE RestoreFails
  BY <1>13 DEF RestoreFails
<1>14. CASE LeaderExits
  BY <1>1, <1>14 DEF LeaderExits
<1>15. CASE ForkDescendant
  BY <1>15 DEF ForkDescendant
<1>16. CASE DescendantLeaves
  BY <1>16 DEF DescendantLeaves
<1>17. CASE ReuseGroupId
  BY <1>17 DEF ReuseGroupId
<1>18. CASE WatcherCancels
  BY <1>1, CancelKeepsStatus, <1>18 DEF WatcherCancels
<1>19. CASE CleanupChild
  BY CancelKeepsStatus, <1>19 DEF CleanupChild
<1>20. CASE UNCHANGED childVars
  BY <1>20
<1> QED
  BY <1>2, <1>3, <1>4, <1>5, <1>6, <1>7, <1>8, <1>9, <1>10, <1>11, <1>12, <1>13, <1>14, <1>15, <1>16, <1>17, <1>18, <1>19, <1>20
     DEF ChildAct, ExecSteps, ChildSteps

\* A leader's failure stays in the result, once it is there; it gets there when
\* execChild looks at the exit status and the context is not cancelled.
LEMMA FailureStays ==
    ASSUME ChildTypeOK, ChildInv, ReportInv, [ChildAct]_childVars,
           xpc' \in {"cleanup", "restore", "returned"},
           leader' = "reaped", ~Succeeded'
    PROVE  /\ leader = "reaped" /\ ~Succeeded
           /\ \/ /\ xpc \in {"cleanup", "restore", "returned"}
                 /\ childErrs \subseteq childErrs'
              \/ /\ xpc = "check"
                 /\ cancelled \/ "child" \in childErrs'
<1> USE DEF ChildTypeOK, ChildInv, StageInv, Succeeded, osVars, execVars, childVars
<1>1. CASE Check
  <2>1. /\ xpc = "check" /\ UNCHANGED <<leader, status, ran>>
        /\ childErrs' = IF cancelled /\ leader # "none" THEN {"ctx"} ELSE RunError
    BY <1>1 DEF Check
  <2>2. leader = "reaped" /\ ~Succeeded
    BY <2>1
  <2>3. ~cancelled => ran = "exit"
    BY <2>1, <2>2 DEF ReportInv
  <2>4. ran = "exit" => RunError = {"child"}
    BY DEF RunError
  <2> QED
    BY <2>1, <2>2, <2>3, <2>4
<1>2. CASE ConfigureFails \/ RestoreTerminal \/ RestoreFails
  BY <1>2 DEF ConfigureFails, RestoreTerminal, RestoreFails
<1>3. CASE CleanupChild
  BY <1>3, CancelKeepsStatus DEF CleanupChild
<1>4. CASE WatcherCancels
  BY <1>4, CancelKeepsStatus DEF WatcherCancels
<1>5. CASE \/ CallExecChild \/ ConfigureChild \/ StartCancelled \/ StartFails
           \/ StartChild \/ ReapLeader \/ CollectQuiet \/ CollectCancelled
  BY <1>5 DEF CallExecChild, ConfigureChild, StartCancelled, StartFails, StartChild,
              ReapLeader, CollectQuiet, CollectCancelled
<1>6. CASE ChildSteps
  BY <1>6 DEF ChildSteps, LeaderExits, ForkDescendant, DescendantLeaves, ReuseGroupId
<1>7. CASE UNCHANGED childVars
  BY <1>7
<1> QED
  BY <1>1, <1>2, <1>3, <1>4, <1>5, <1>6, <1>7 DEF ChildAct, ExecSteps

-----------------------------------------------------------------------------
\* The component on its own keeps its types, for every platform and bound.
THEOREM ExecTypeCorrect == ExecSpec => []ExecTypeOK
<1>1. ExecInit => ExecTypeOK
  <2>1. ExecInit => signals \in 0..MaxSignals
    BY MaxSignalsAssumption DEF MaxSignalsAssumption, ExecInit
  <2> QED
    BY <2>1, ChildInitOK DEF ExecInit, ExecTypeOK, ContextTypeOK
<1>2. ExecTypeOK /\ [ExecNext]_execAllVars => ExecTypeOK'
  <2> SUFFICES ASSUME ExecTypeOK, [ExecNext]_execAllVars
               PROVE  ExecTypeOK'
    OBVIOUS
  <2>1. CASE ChildAct /\ UNCHANGED contextVars
    BY <2>1, ChildTypeStep DEF ExecTypeOK, ContextTypeOK, contextVars
  <2>2. CASE ContextSteps
    <3>1. UNCHANGED childVars
      BY <2>2 DEF ContextSteps
    <3>2. ChildTypeOK'
      BY <3>1, ChildTypeStep DEF ExecTypeOK
    <3>3. ContextTypeOK'
      BY <2>2, ContextTypeStep DEF ExecTypeOK, ContextSteps
    <3> QED
      BY <3>2, <3>3 DEF ExecTypeOK
  <2>3. CASE UNCHANGED execAllVars
    BY <2>3, ChildTypeStep DEF ExecTypeOK, ContextTypeOK, contextVars, execAllVars
  <2> QED
    BY <2>1, <2>2, <2>3
       DEF ExecNext, ChildAct, Finished, execAllVars
<1> QED
  BY <1>1, <1>2, PTL DEF ExecSpec

\* The invariant behind the theorems that follow.
LEMMA ChildInvariant == ExecSpec => [](ExecTypeOK /\ ChildInv)
<1>1. ExecInit => ChildInv
  BY ChildInitOK DEF ExecInit
<1>2. ExecTypeOK /\ ChildInv /\ [ExecNext]_execAllVars => ChildInv'
  <2> SUFFICES ASSUME ExecTypeOK, ChildInv, [ExecNext]_execAllVars
               PROVE  ChildInv'
    OBVIOUS
  <2>1. [ChildAct]_childVars
    BY DEF ExecNext, ChildAct, ContextSteps, Finished, execAllVars
  <2> QED
    BY <2>1, ChildInvStep DEF ExecTypeOK
<1> QED
  BY <1>1, <1>2, ExecTypeCorrect, PTL DEF ExecSpec

\* No process of the child's group is left when the terminal is restored,
\* however many descendants there are and whoever killed them.
THEOREM GroupGone == ExecSpec => []GroupGoneAtRestore
<1>1. ExecTypeOK /\ ChildInv => GroupGoneAtRestore
  BY ChildAssumption
     DEF ChildAssumption, ExecTypeOK, ChildTypeOK, ChildInv, StageInv, GroupInv, GroupRuns,
         GroupExists, GroupGoneAtRestore
<1> QED
  BY <1>1, ChildInvariant, PTL

\* The terminal never stays with the child's group unless that is reported.
THEOREM TerminalIsReturned == ExecSpec => []TerminalReturned
<1>1. ChildInv => TerminalReturned
  BY DEF ChildInv, TerminalInv
<1> QED
  BY <1>1, ChildInvariant, PTL

\* While the child's group has the terminal, it goes back to k8q's group in one
\* step only, the restoration, and by then the group is gone.
THEOREM TerminalIsHandedOver == ExecSpec => TerminalHandover
<1>1. ExecTypeOK /\ ChildInv /\ [ExecNext]_execAllVars
        => [ (foreground = "child" /\ foreground' = "k8q" /\ Unix /\ Killable)
               => ~GroupExists ]_execAllVars
  <2> SUFFICES ASSUME ExecTypeOK, ChildInv, [ExecNext]_execAllVars,
                      foreground = "child", foreground' = "k8q", Unix, Killable
               PROVE  ~GroupExists
    OBVIOUS
  <2>1. xpc = "restore"
    <3>1. [ChildAct]_childVars
      BY DEF ExecNext, ChildAct, ContextSteps, Finished, execAllVars
    <3>2. CASE \/ StartCancelled \/ StartFails \/ StartChild
      BY <3>2 DEF StartCancelled, StartFails, StartChild, osVars
    <3>3. CASE \/ CallExecChild \/ ConfigureFails \/ ConfigureChild \/ ReapLeader
               \/ CollectQuiet \/ CollectCancelled \/ Check \/ CleanupChild
               \/ WatcherCancels \/ ChildSteps \/ UNCHANGED childVars
      BY <3>3
         DEF CallExecChild, ConfigureFails, ConfigureChild, ReapLeader,
             CollectQuiet, CollectCancelled, Check, CleanupChild, WatcherCancels,
             ChildSteps, LeaderExits, ForkDescendant, DescendantLeaves,
             ReuseGroupId, osVars, childVars
    <3>4. CASE RestoreTerminal \/ RestoreFails
      BY <3>4 DEF RestoreTerminal, RestoreFails
    <3> QED
      BY <3>1, <3>2, <3>3, <3>4 DEF ChildAct, ExecSteps
  <2> QED
    BY <2>1, ChildAssumption
       DEF ChildAssumption, ExecTypeOK, ChildTypeOK, ChildInv, StageInv, GroupInv,
           GroupRuns, GroupExists
<1> QED
  BY <1>1, ChildInvariant, PTL DEF ExecSpec, TerminalHandover

\* The invariant behind the two theorems about the leader's end.
LEMMA ReportInvariant == ExecSpec => []ReportInv
<1>1. ExecInit => ReportInv
  BY ChildInitOK DEF ExecInit
<1>2. ExecTypeOK /\ ChildInv /\ ReportInv /\ [ExecNext]_execAllVars => ReportInv'
  <2> SUFFICES ASSUME ExecTypeOK, ChildInv, ReportInv, [ExecNext]_execAllVars
               PROVE  ReportInv'
    OBVIOUS
  <2>1. [ChildAct]_childVars
    BY DEF ExecNext, ChildAct, ContextSteps, Finished, execAllVars
  <2>2. cancelled => cancelled'
    BY CancelledForGood DEF ExecNext, ContextSteps, Finished, execAllVars
  <2> QED
    BY <2>1, <2>2, ReportInvStep DEF ExecTypeOK
<1> QED
  BY <1>1, <1>2, ChildInvariant, PTL DEF ExecSpec

\* Without cancellation the caller learns how the leader ended, and nothing else.
THEOREM EndIsReported == ExecSpec => []StatusReported
<1>1. ReportInv => StatusReported
  BY DEF ReportInv
<1> QED
  BY <1>1, ReportInvariant, PTL

\* A leader that k8q killed is reported as cancelled, never as having ended by
\* itself: the watcher is the only one that kills a leader, and it does so after
\* the cancellation that execChild asks for before it looks at the exit status.
THEOREM KillNeverPassesForAnEnd == ExecSpec => []KillIsReported
<1>1. ReportInv => KillIsReported
  BY DEF ReportInv, KillIsReported
<1> QED
  BY <1>1, ReportInvariant, PTL

\* Only a first call of cmd.Cancel can signal a group that is not the child's.
LEMMA OneKill ==
    ASSUME cancelMemo # "unset", [ChildAct]_childVars
    PROVE  strangerHit' = strangerHit
<1> USE DEF osVars, execVars, childVars
<1>1. CASE Cancel
  BY <1>1 DEF Cancel
<1>2. CASE CleanupChild
  BY <1>1, <1>2 DEF CleanupChild
<1>3. CASE WatcherCancels
  BY <1>1, <1>3 DEF WatcherCancels
<1>4. CASE CallExecChild \/ ConfigureFails \/ ConfigureChild \/ StartCancelled
  BY <1>4 DEF CallExecChild, ConfigureFails, ConfigureChild, StartCancelled
<1>5. CASE StartFails \/ StartChild \/ ReapLeader \/ CollectQuiet \/ CollectCancelled
  BY <1>5 DEF StartFails, StartChild, ReapLeader, CollectQuiet, CollectCancelled
<1>6. CASE Check \/ RestoreTerminal \/ RestoreFails
  BY <1>6 DEF Check, RestoreTerminal, RestoreFails
<1>7. CASE ChildSteps
  BY <1>7 DEF ChildSteps, LeaderExits, ForkDescendant, DescendantLeaves, ReuseGroupId
<1> QED
  BY <1>2, <1>3, <1>4, <1>5, <1>6, <1>7 DEF ChildAct, ExecSteps

\* Once the watcher has signalled the group the deferred cleanup signals nobody.
THEOREM CleanupKillsNoStranger == ExecSpec => NoSecondKill
<1>1. [ExecNext]_execAllVars
        => [ cancelMemo # "unset" => strangerHit' = strangerHit ]_execAllVars
  <2> SUFFICES ASSUME [ExecNext]_execAllVars, cancelMemo # "unset"
               PROVE  strangerHit' = strangerHit
    OBVIOUS
  <2>1. [ChildAct]_childVars
    BY DEF ExecNext, ChildAct, ContextSteps, Finished, execAllVars
  <2> QED
    BY <2>1, OneKill
<1> QED
  BY <1>1, PTL DEF ExecSpec, NoSecondKill

-----------------------------------------------------------------------------
(* The HTTP server.                                                        *)

\* NewServer gives the listener up when the kubeconfig cannot be written.
GiveListenerUp ==
    /\ CloseListener
    /\ UNCHANGED <<tracked, inShutdown, gpc, serveErr, serveDone, spc, timedOut,
                   serverErrs>>

\* A step of the component.
ServerAct ==
    \/ Listen \/ GoServe \/ ClientSteps \/ HandlerSteps \/ GoroutineSteps
    \/ AcceptSteps \/ BeginShutdown \/ ClosureSteps \/ CancelAfterServe
    \/ ServerDies \/ GiveListenerUp

\* How far the closure is, the server is closed: the flag, then no Serve, then
\* no listener; a closed listener has no backlog, and once the closure has seen
\* the server quiescent, or has cut what was left, nothing is connected.
ShutdownInv ==
    /\ spc # "idle" => inShutdown
    /\ tracked <=> gpc = "accepting"
    /\ spc \in {"sleep", "unlisten", "abort", "receive", "done"} => ~tracked
    /\ spc \in {"abort", "receive", "done"} => listener = "closed"
    /\ spc = "abort" => timedOut
    /\ listener = "closed" => \A c \in Conns : conns[c] # "backlog"
    /\ (spc = "unlisten" /\ ~timedOut) \/ spc \in {"receive", "done"}
         => Accepted = {}

\* What travels through serveDone, and what the closure makes of it: Serve says
\* "closed" only once there is a shutdown, and a timeout is reported.
ResultInv ==
    /\ serveErr # "none" <=> gpc \in {"close", "send", "cancel", "done"}
    /\ serveDone # "empty" => serveDone = serveErr /\ gpc \in {"cancel", "done"}
    /\ serveErr = "closed" => inShutdown
    /\ spc = "done" => /\ gpc \in {"cancel", "done"}
                       /\ "shutdown" \in serverErrs <=> timedOut
    /\ spc # "done" => serverErrs = {}
    /\ ServeFailureReported

ServerInv == ShutdownInv /\ ResultInv

-----------------------------------------------------------------------------
\* The component starts in its types and its invariant.
LEMMA ServerInitOK ==
    ASSUME ServerInit
    PROVE  ServerTypeOK /\ ServerInv
BY DEF ServerInit, ServerTypeOK, ConnStates, ServerInv, ShutdownInv, ResultInv,
       ServeFailureReported, Accepted

\* Every step keeps the types.  (That serveDone only carries what Serve
\* returned takes the invariant: the goroutine sends after Serve has returned.)
LEMMA ServerTypeStep ==
    ASSUME ServerTypeOK, ResultInv, [ServerAct]_serverVars
    PROVE  ServerTypeOK'
<1> USE DEF ServerTypeOK, ConnStates, serverVars
<1>1. ASSUME NEW c \in Conns, Dial(c)
      PROVE  ServerTypeOK'
  BY <1>1 DEF Dial
<1>2. ASSUME NEW c \in Conns, HangUp(c)
      PROVE  ServerTypeOK'
  BY <1>2 DEF HangUp
<1>3. ASSUME NEW c \in Conns, RequestBegins(c)
      PROVE  ServerTypeOK'
  BY <1>3 DEF RequestBegins
<1>4. ASSUME NEW c \in Conns, RequestEnds(c)
      PROVE  ServerTypeOK'
  BY <1>4 DEF RequestEnds
<1>5. ASSUME NEW c \in Conns, Accept(c)
      PROVE  ServerTypeOK'
  BY <1>5 DEF Accept
<1>6. CASE Listen
  BY <1>6 DEF Listen
<1>7. CASE GoServe
  BY <1>7 DEF GoServe
<1>8. CASE ServeBegins
  BY <1>8 DEF ServeBegins
<1>9. CASE ServeRefused
  BY <1>9 DEF ServeRefused
<1>10. CASE AcceptClosed
  BY <1>10 DEF AcceptClosed, LeaveAcceptLoop
<1>11. CASE AcceptBreaks
  BY <1>11 DEF AcceptBreaks, LeaveAcceptLoop
<1>12. CASE ServeCloses
  BY <1>12 DEF ServeCloses, CloseListener
<1>13. CASE SendServeResult
  BY <1>13 DEF SendServeResult, ResultInv
<1>14. CASE BeginShutdown
  BY <1>14 DEF BeginShutdown
<1>15. CASE CloseListeners
  BY <1>15 DEF CloseListeners, CloseListener
<1>16. CASE DrainConns
  BY <1>16 DEF DrainConns, Drain
<1>17. CASE PollAgain
  BY <1>17 DEF PollAgain
<1>18. CASE ShutdownTimesOut
  BY <1>18 DEF ShutdownTimesOut
<1>19. CASE Unlisten
  BY <1>19 DEF Unlisten, CloseListener
<1>20. CASE AbortConns
  BY <1>20 DEF AbortConns
<1>21. CASE ReceiveServeResult
  BY <1>21 DEF ReceiveServeResult
<1>22. CASE CancelAfterServe
  BY <1>22 DEF CancelAfterServe
<1>23. CASE ServerDies
  BY <1>23 DEF ServerDies
<1>24. CASE GiveListenerUp
  BY <1>24 DEF GiveListenerUp, CloseListener
<1>25. CASE UNCHANGED serverVars
  BY <1>25
<1> QED
  BY <1>1, <1>2, <1>3, <1>4, <1>5, <1>6, <1>7, <1>8, <1>9, <1>10, <1>11,
     <1>12, <1>13, <1>14, <1>15, <1>16, <1>17, <1>18, <1>19, <1>20, <1>21,
     <1>22, <1>23, <1>24, <1>25
     DEF ServerAct, ClientSteps, HandlerSteps, GoroutineSteps, AcceptSteps,
         ClosureSteps

\* Every step keeps the invariant.
LEMMA ServerInvStep ==
    ASSUME ServerTypeOK, ServerInv, [ServerAct]_serverVars
    PROVE  ServerInv'
<1> USE DEF ServerTypeOK, ConnStates, ServerInv, ShutdownInv, ResultInv,
            ServeFailureReported, Accepted, serverVars
<1>1. ASSUME NEW c \in Conns, Dial(c)
      PROVE  ServerInv'
  BY <1>1 DEF Dial
<1>2. ASSUME NEW c \in Conns, HangUp(c)
      PROVE  ServerInv'
  BY <1>2 DEF HangUp
<1>3. ASSUME NEW c \in Conns, RequestBegins(c)
      PROVE  ServerInv'
  BY <1>3 DEF RequestBegins
<1>4. ASSUME NEW c \in Conns, RequestEnds(c)
      PROVE  ServerInv'
  BY <1>4 DEF RequestEnds
<1>5. ASSUME NEW c \in Conns, Accept(c)
      PROVE  ServerInv'
  BY <1>5 DEF Accept
<1>6. CASE Listen
  BY <1>6 DEF Listen
<1>7. CASE GoServe
  BY <1>7 DEF GoServe
<1>8. CASE ServeBegins
  BY <1>8 DEF ServeBegins
<1>9. CASE ServeRefused
  BY <1>9 DEF ServeRefused
<1>10. CASE AcceptClosed
  BY <1>10 DEF AcceptClosed, LeaveAcceptLoop
<1>11. CASE AcceptBreaks
  BY <1>11 DEF AcceptBreaks, LeaveAcceptLoop
<1>12. CASE ServeCloses
  BY <1>12 DEF ServeCloses, CloseListener
<1>13. CASE SendServeResult
  BY <1>13 DEF SendServeResult
<1>14. CASE BeginShutdown
  BY <1>14 DEF BeginShutdown
<1>15. CASE CloseListeners
  BY <1>15 DEF CloseListeners, CloseListener
<1>16. CASE DrainConns
  BY <1>16 DEF DrainConns, Drain
<1>17. CASE PollAgain
  BY <1>17 DEF PollAgain
<1>18. CASE ShutdownTimesOut
  BY <1>18 DEF ShutdownTimesOut
<1>19. CASE Unlisten
  BY <1>19 DEF Unlisten, CloseListener
<1>20. CASE AbortConns
  BY <1>20 DEF AbortConns
<1>21. CASE ReceiveServeResult
  BY <1>21 DEF ReceiveServeResult
<1>22. CASE CancelAfterServe
  BY <1>22 DEF CancelAfterServe
<1>23. CASE ServerDies
  BY <1>23 DEF ServerDies
<1>24. CASE GiveListenerUp
  BY <1>24 DEF GiveListenerUp, CloseListener
<1>25. CASE UNCHANGED serverVars
  BY <1>25
<1> QED
  BY <1>1, <1>2, <1>3, <1>4, <1>5, <1>6, <1>7, <1>8, <1>9, <1>10, <1>11,
     <1>12, <1>13, <1>14, <1>15, <1>16, <1>17, <1>18, <1>19, <1>20, <1>21,
     <1>22, <1>23, <1>24, <1>25
     DEF ServerAct, ClientSteps, HandlerSteps, GoroutineSteps, AcceptSteps,
         ClosureSteps

\* What Serve returned does not change.
LEMMA ServeReturnsOnce ==
    ASSUME ServerTypeOK, ServerInv, [ServerAct]_serverVars, serveErr # "none"
    PROVE  serveErr' = serveErr
<1> USE DEF ServerInv, ResultInv, serverVars
<1>1. CASE GoroutineSteps \/ AcceptSteps
  BY <1>1 DEF GoroutineSteps, AcceptSteps, ServeBegins, ServeRefused, AcceptClosed,
              AcceptBreaks, LeaveAcceptLoop, ServeCloses, SendServeResult, Accept
<1>2. CASE ClosureSteps
  BY <1>2 DEF ClosureSteps, CloseListeners, DrainConns, Drain, PollAgain,
              ShutdownTimesOut, Unlisten, AbortConns, ReceiveServeResult
<1>3. CASE ClientSteps \/ HandlerSteps
  BY <1>3 DEF ClientSteps, HandlerSteps, Dial, HangUp, RequestBegins, RequestEnds
<1>4. CASE \/ Listen \/ GoServe \/ BeginShutdown \/ CancelAfterServe \/ ServerDies
           \/ GiveListenerUp \/ UNCHANGED serverVars
  BY <1>4 DEF Listen, GoServe, BeginShutdown, CancelAfterServe, ServerDies,
              GiveListenerUp
<1> QED
  BY <1>1, <1>2, <1>3, <1>4 DEF ServerAct

-----------------------------------------------------------------------------
\* The component on its own keeps its types and the invariant.
LEMMA ServerInvariant == ServeSpec => [](ServerTypeOK /\ ServerInv)
<1>1. ServeInit => ServerTypeOK /\ ServerInv
  BY ServerInitOK DEF ServeInit
<1>2. ServerTypeOK /\ ServerInv /\ [ServeNext]_serverAllVars
        => ServerTypeOK' /\ ServerInv'
  <2> SUFFICES ASSUME ServerTypeOK, ServerInv, [ServeNext]_serverAllVars
               PROVE  ServerTypeOK' /\ ServerInv'
    OBVIOUS
  <2>1. [ServerAct]_serverVars
    BY DEF ServeNext, ServerAct, ServeFinished, serverAllVars
  <2> QED
    BY <2>1, ServerTypeStep, ServerInvStep DEF ServerInv
<1> QED
  BY <1>1, <1>2, PTL DEF ServeSpec

\* Types, with the context's.
THEOREM ServeTypeCorrect == ServeSpec => []ServeTypeOK
<1>1. ServeInit => ContextTypeOK
  BY ContextInitOK DEF ServeInit
<1>2. ContextTypeOK /\ [ServeNext]_serverAllVars => ContextTypeOK'
  BY ContextTypeStep
     DEF ServeNext, ServeFinished, serverAllVars
<1>3. ServeSpec => []ContextTypeOK
  BY <1>1, <1>2, PTL DEF ServeSpec
<1> QED
  BY <1>3, ServerInvariant, PTL DEF ServeTypeOK

\* When the closure is done nothing of the server is left, whatever raced with
\* what and however many clients there were.
THEOREM ServerIsGone == ServeSpec => []ServerGone
<1>1. ServerTypeOK /\ ServerInv => ServerGone
  BY DEF ServerTypeOK, ConnStates, ServerInv, ShutdownInv, ResultInv, Accepted,
         ServerGone
<1> QED
  BY <1>1, ServerInvariant, PTL

\* The closure reports a Serve that broke, and only that.
THEOREM ServeFailureIsReported == ServeSpec => []ServeFailureReported
<1>1. ServerInv => ServeFailureReported
  BY DEF ServerInv, ResultInv
<1> QED
  BY <1>1, ServerInvariant, PTL

\* Once Shutdown has waited for Serve no connection is accepted any more.
THEOREM NoAcceptIsLate == ServeSpec => NoLateAccept
<1>1. /\ ServerTypeOK /\ ServerInv /\ ServerInv'
      /\ [ServeNext]_serverAllVars
      => [ spc' \in {"sleep", "unlisten", "abort", "receive", "done"} =>
             {c \in Conns : conns'[c] \in {"new", "active", "idle"}}
               \subseteq Accepted ]_serverAllVars
  <2> SUFFICES ASSUME ServerTypeOK, ServerInv, ServerInv',
                      [ServeNext]_serverAllVars,
                      spc' \in {"sleep", "unlisten", "abort", "receive", "done"},
                      NEW c \in Conns, conns'[c] \in {"new", "active", "idle"}
               PROVE  c \in Accepted
    OBVIOUS
  <2>1. gpc' # "accepting"
    BY DEF ServerInv, ShutdownInv
  <2>2. [ServerAct]_serverVars
    BY DEF ServeNext, ServerAct, ServeFinished, serverAllVars
  <2> USE DEF ServerTypeOK, ConnStates, Accepted, serverVars
  <2>3. ASSUME NEW d \in Conns,
               Dial(d) \/ HangUp(d) \/ RequestBegins(d) \/ RequestEnds(d)
        PROVE  c \in Accepted
    BY <2>3 DEF Dial, HangUp, RequestBegins, RequestEnds
  <2>4. ASSUME NEW d \in Conns, Accept(d)
        PROVE  c \in Accepted
    BY <2>1, <2>4 DEF Accept
  <2>5. CASE \/ Listen \/ GoServe \/ ServeBegins \/ ServeRefused
             \/ AcceptClosed \/ AcceptBreaks \/ SendServeResult
             \/ BeginShutdown \/ PollAgain \/ ShutdownTimesOut
             \/ ReceiveServeResult \/ CancelAfterServe \/ UNCHANGED serverVars
    <3>1. UNCHANGED conns
      BY <2>5
         DEF Listen, GoServe, ServeBegins, ServeRefused, AcceptClosed,
             AcceptBreaks, LeaveAcceptLoop, SendServeResult, BeginShutdown,
             PollAgain, ShutdownTimesOut, ReceiveServeResult, CancelAfterServe
    <3> QED
      BY <3>1
  <2>6. CASE \/ ServeCloses \/ CloseListeners \/ DrainConns \/ Unlisten
             \/ AbortConns \/ ServerDies \/ GiveListenerUp
    <3>1. conns'[c] \in {conns[c], "closed"}
      BY <2>6
         DEF ServeCloses, CloseListeners, DrainConns, Drain, Unlisten, AbortConns,
             ServerDies, GiveListenerUp, CloseListener
    <3> QED
      BY <3>1
  <2> QED
    BY <2>2, <2>3, <2>4, <2>5, <2>6
       DEF ServerAct, ClientSteps, HandlerSteps, GoroutineSteps, AcceptSteps,
           ClosureSteps
<1> QED
  BY <1>1, ServerInvariant, PTL DEF ServeSpec, NoLateAccept

\* No request that is being answered is cut while the graceful shutdown has time:
\* of the closure's steps only the last resort, Close, ends an active connection.
THEOREM RequestsAreAnswered == ServeSpec => NoRequestCut
<1>1. ServerTypeOK /\ ServerInv /\ [ServeNext]_serverAllVars
        => [ \A c \in Conns :
               (conns[c] = "active" /\ conns'[c] = "closed" /\ spc' # spc)
                 => timedOut ]_serverAllVars
  <2> SUFFICES ASSUME ServerTypeOK, ServerInv, [ServeNext]_serverAllVars,
                      NEW c \in Conns,
                      conns[c] = "active", conns'[c] = "closed", spc' # spc
               PROVE  timedOut
    OBVIOUS
  <2>1. ASSUME ClosureSteps
        PROVE  spc = "abort"
    <3>1. CASE CloseListeners \/ Unlisten
      <4>1. conns'[c] = conns[c]
        BY <3>1 DEF CloseListeners, Unlisten, CloseListener
      <4> QED
        BY <4>1
    <3>2. CASE DrainConns
      <4>1. PICK old \in SUBSET {d \in Conns : conns[d] = "new"} : Drain(old)
        BY <3>2 DEF DrainConns
      <4>2. conns'[c] = conns[c]
        BY <4>1 DEF Drain
      <4> QED
        BY <4>2
    <3>3. CASE PollAgain \/ ShutdownTimesOut \/ ReceiveServeResult
      BY <3>3 DEF PollAgain, ShutdownTimesOut, ReceiveServeResult
    <3>4. CASE AbortConns
      BY <3>4 DEF AbortConns
    <3> QED
      BY <2>1, <3>1, <3>2, <3>3, <3>4 DEF ClosureSteps
  <2>2. CASE ClosureSteps
    BY <2>1, <2>2 DEF ServerInv, ShutdownInv
  <2>3. CASE BeginShutdown
    BY <2>3 DEF BeginShutdown
  <2>4. CASE Listen \/ GoServe \/ ClientSteps \/ HandlerSteps
    BY <2>4 DEF Listen, GoServe, ClientSteps, HandlerSteps, Dial, HangUp,
                RequestBegins, RequestEnds
  <2>5. CASE GoroutineSteps \/ AcceptSteps \/ CancelAfterServe
    BY <2>5 DEF GoroutineSteps, AcceptSteps, ServeBegins, ServeRefused, AcceptClosed,
                AcceptBreaks, LeaveAcceptLoop, ServeCloses, SendServeResult, Accept,
                CancelAfterServe
  <2>6. CASE UNCHANGED serverAllVars
    BY <2>6 DEF serverAllVars, serverVars
  <2> QED
    BY <2>2, <2>3, <2>4, <2>5, <2>6 DEF ServeNext, ServeFinished
<1> QED
  BY <1>1, ServerInvariant, PTL DEF ServeSpec, NoRequestCut

-----------------------------------------------------------------------------
(* The whole run.                                                          *)

Serving == mpc \in {"spawn", "run"}
Returned == mpc \in {"returned", "exited"}

\* Signals are caught from NotifyContext to stop, and k8q dies of one only
\* outside of that stretch.
SignalInv ==
    /\ disposition = "notify"
         <=> mpc \in {"spawn", "run", "shutdown", "cancel", "stop"}
    /\ killed => disposition = "default"

\* The kubeconfig is on disk while anybody may use it.
ConfigInv ==
    /\ kubeconfig = "file"
         <=> mpc \in {"notify", "spawn", "run", "shutdown", "cancel", "stop",
                      "cleanup"}
    /\ kubeconfig = "dir" <=> mpc = "write"

\* execChild runs while Run does, and nowhere else.
ExecInv ==
    /\ Starting \/ mpc = "spawn" => xpc = "idle"
    /\ mpc # "run" => xpc \in {"idle", "returned"}
    /\ startFailed \/ ~command => xpc = "idle"
    /\ (command /\ ~Starting /\ ~Serving /\ ~startFailed) => xpc = "returned"

\* The closure runs after that; a Run that could not start has none.
ClosureInv ==
    /\ inShutdown <=> spc # "idle"
    /\ spc = "idle" <=> Starting \/ Serving \/ startFailed
    /\ spc = "done" <=> mpc \in {"cancel", "stop", "cleanup"}
                        \/ (Returned /\ ~startFailed)

\* Before the goroutine exists nobody is accepted, before the listener exists
\* nobody can connect, and a Run that could not start holds neither.
StartInv ==
    /\ gpc = "none" <=> Starting \/ mpc = "spawn" \/ startFailed
    /\ gpc = "none" => Accepted = {}
    /\ listener = "none" => \A c \in Conns : conns[c] = "closed"
    /\ ~killed =>
         /\ mpc \in {"parse", "listen"} => listener = "none"
         /\ mpc \in {"mkdir", "write", "notify", "spawn"} => listener = "open"
    /\ startFailed => /\ Returned /\ listener # "open"
                      /\ \A c \in Conns : conns[c] = "closed"

\* While the child may still run, only a signal or a server that broke has
\* cancelled the context; without either, execChild reports a child that failed.
CauseInv ==
    /\ inbox => signals > 0
    /\ (Starting \/ Serving) /\ cancelled => signals > 0 \/ serveErr = "accept"
    /\ (xpc \in {"cleanup", "restore", "returned"} /\ leader = "reaped"
          /\ ~Succeeded /\ signals = 0 /\ serveErr # "accept") =>
         "child" \in childErrs

\* The exit code is that of the joined errors, which nothing changes any more.
ExitInv ==
    /\ mpc # "exited" => exitCode = NotExited
    /\ mpc = "exited" => exitCode = ExitStatus

RunInv == SignalInv /\ ConfigInv /\ ExecInv /\ ClosureInv /\ StartInv

Inv ==
    /\ TypeOK /\ ChildInv /\ ReportInv /\ OutcomeInv /\ ServerInv
    /\ RunInv /\ CauseInv /\ ExitInv

-----------------------------------------------------------------------------
\* A step of the whole is a step, or none, of each of its parts.
LEMMA StepSplits ==
    ASSUME [Next]_vars
    PROVE  /\ [ChildAct]_childVars
           /\ [ServerAct]_serverVars
           /\ \/ Register \/ CatchSignal \/ DieOfSignal \/ RelaySignal
              \/ CancelContext \/ StopNotify \/ UNCHANGED contextVars
<1> USE DEF ChildAct, ServerAct
<1>1. CASE \/ ReadManifests \/ NewServerFails \/ MakeKubeconfigDir
           \/ WriteKubeconfig \/ Cleanup \/ Exit
  BY <1>1 DEF ReadManifests, NewServerFails, MakeKubeconfigDir, WriteKubeconfig,
              Cleanup, Exit
<1>2. CASE OpenListener \/ SpawnServe \/ StartShutdown \/ RunClosure
  BY <1>2 DEF OpenListener, SpawnServe, StartShutdown, RunClosure
<1>3. CASE KubeconfigFails
  BY <1>3 DEF KubeconfigFails, GiveListenerUp
<1>4. CASE RegisterSignals \/ DeferredCancel \/ DeferredStop
  BY <1>4 DEF RegisterSignals, DeferredCancel, DeferredStop
<1>5. CASE RunChild \/ Watcher \/ ChildActs
  BY <1>5 DEF RunChild, Watcher, ChildActs
<1>6. CASE ServeLoop \/ ServeEnds \/ Traffic
  BY <1>6 DEF ServeLoop, ServeEnds, Traffic
<1>7. CASE Relay \/ Signal \/ Die
  BY <1>7 DEF Relay, Signal, Die
<1>8. CASE UNCHANGED vars
  BY <1>8 DEF vars
<1> QED
  BY <1>1, <1>2, <1>3, <1>4, <1>5, <1>6, <1>7, <1>8
     DEF Next, MainSteps, Terminated

\* Whatever ended the child, its code fits an exit status.
LEMMA CodeInRange ==
    ASSUME NEW st \in Statuses
    PROVE  CodeOf(st) \in 0..255
<1> USE ChildAssumption DEF ChildAssumption, CodeOf
<1>1. CASE st = NoStatus
  BY <1>1 DEF NoStatus
<1>2. CASE st = KilledStatus
  BY <1>2 DEF KilledStatus, SIGKILL
<1>3. CASE st \in {<<"exit", c>> : c \in ExitCodes}
  <2>1. PICK c \in ExitCodes : st = <<"exit", c>>
    BY <1>3
  <2>2. CodeOf(st) = c
    BY <2>1
  <2> QED
    BY <2>2
<1>4. CASE st \in {<<"signal", n>> : n \in DeathSignals}
  <2>1. PICK n \in DeathSignals : st = <<"signal", n>>
    BY <1>4
  <2>2. CodeOf(st) = 128 + n
    BY <2>1
  <2>3. n \in 1..64
    OBVIOUS
  <2> QED
    BY <2>2, <2>3
<1> QED
  BY <1>1, <1>2, <1>3, <1>4 DEF Statuses, OwnStatuses

\* Types of the run's own variables.
LEMMA RunTypeStep ==
    ASSUME TypeOK, [Next]_vars
    PROVE  RunTypeOK'
<1> USE DEF TypeOK, RunTypeOK, runVars
<1>1. CASE ReadManifests \/ NewServerFails
  BY <1>1 DEF ReadManifests, NewServerFails
<1>2. CASE MakeKubeconfigDir \/ WriteKubeconfig \/ KubeconfigFails \/ Cleanup
  BY <1>2 DEF MakeKubeconfigDir, WriteKubeconfig, KubeconfigFails, Cleanup
<1>3. CASE OpenListener \/ SpawnServe \/ StartShutdown \/ RunClosure
  BY <1>3 DEF OpenListener, SpawnServe, StartShutdown, RunClosure
<1>4. CASE RegisterSignals \/ DeferredCancel \/ DeferredStop
  BY <1>4 DEF RegisterSignals, DeferredCancel, DeferredStop
<1>5. CASE Exit
  <2>1. exitCode' \in 0..NotExited
    BY <1>5, CodeInRange DEF Exit, ExitStatus, ChildTypeOK, NotExited
  <2>2. /\ mpc' = "exited"
        /\ UNCHANGED <<command, kubeconfig, startFailed>>
    BY <1>5 DEF Exit
  <2> QED
    BY <2>1, <2>2
<1>6. CASE \/ RunChild \/ Watcher \/ ChildActs \/ ServeLoop \/ ServeEnds
           \/ Traffic \/ Relay \/ Signal \/ Die \/ UNCHANGED vars
  BY <1>6 DEF RunChild, Watcher, ChildActs, ServeLoop, ServeEnds, Traffic, Relay,
              Signal, Die, vars
<1> QED
  BY <1>1, <1>2, <1>3, <1>4, <1>5, <1>6 DEF Next, MainSteps, Terminated

-----------------------------------------------------------------------------
\* Every step keeps the stages of Run and of its parts together.
LEMMA RunInvStep ==
    ASSUME Inv, [Next]_vars
    PROVE  RunInv'
<1> USE DEF Inv, TypeOK, RunTypeOK, ServerTypeOK, ConnStates, ServerInv,
            ShutdownInv, ResultInv, RunInv, SignalInv, ConfigInv, ExecInv,
            ClosureInv, StartInv, Starting, Serving, Returned, Accepted, Alive,
            contextVars, childVars, execVars, osVars, serverVars, runVars
<1>1. CASE ReadManifests
  BY <1>1 DEF ReadManifests
<1>2. CASE OpenListener
  BY <1>2 DEF OpenListener, Listen
<1>3. CASE NewServerFails
  BY <1>3 DEF NewServerFails
<1>4. CASE MakeKubeconfigDir
  BY <1>4 DEF MakeKubeconfigDir
<1>5. CASE WriteKubeconfig
  BY <1>5 DEF WriteKubeconfig
<1>6. CASE KubeconfigFails
  BY <1>6 DEF KubeconfigFails, CloseListener
<1>7. CASE RegisterSignals
  BY <1>7 DEF RegisterSignals, Register
<1>8. CASE SpawnServe
  BY <1>8 DEF SpawnServe, GoServe
<1>9. CASE RunChild
  BY <1>9 DEF RunChild
<1>10. CASE StartShutdown
  BY <1>10 DEF StartShutdown, BeginShutdown
<1>11. CASE RunClosure
  BY <1>11 DEF RunClosure, ClosureSteps, CloseListeners, DrainConns, Drain,
     PollAgain, ShutdownTimesOut, Unlisten, AbortConns, ReceiveServeResult,
     CloseListener
<1>12. CASE DeferredCancel
  BY <1>12 DEF DeferredCancel, CancelContext
<1>13. CASE DeferredStop
  BY <1>13 DEF DeferredStop, StopNotify
<1>14. CASE Cleanup
  BY <1>14 DEF Cleanup
<1>15. CASE Exit
  BY <1>15 DEF Exit
<1>16. CASE Watcher
  BY <1>16 DEF Watcher, WatcherCancels
<1>17. CASE ServeLoop
  BY <1>17 DEF ServeLoop, GoroutineSteps, ServeBegins, ServeRefused,
     AcceptClosed, LeaveAcceptLoop, ServeCloses, CloseListener,
     SendServeResult
<1>18. CASE ServeEnds
  BY <1>18 DEF ServeEnds, CancelAfterServe, CancelContext
<1>19. CASE Traffic
  BY <1>19 DEF Traffic, ClientSteps, HandlerSteps, AcceptSteps, Dial, HangUp,
     RequestBegins, RequestEnds, Accept, AcceptBreaks, LeaveAcceptLoop
<1>20. CASE Relay
  BY <1>20 DEF Relay, RelaySignal
<1>21. CASE Signal
  BY <1>21 DEF Signal, CatchSignal
<1>22. CASE Die
  BY <1>22 DEF Die, DieOfSignal, ServerDies
<1>23. CASE ChildActs
  BY <1>23 DEF ChildActs, ChildSteps, LeaderExits, ForkDescendant,
     DescendantLeaves, ReuseGroupId
<1>24. CASE UNCHANGED vars
  BY <1>24 DEF vars
<1> QED
  BY <1>1, <1>2, <1>3, <1>4, <1>5, <1>6, <1>7, <1>8, <1>9, <1>10, <1>11,
     <1>12, <1>13, <1>14, <1>15, <1>16, <1>17, <1>18, <1>19, <1>20, <1>21,
     <1>22, <1>23, <1>24 DEF Next, MainSteps, Terminated

\* Every step keeps what is known of the causes of a cancellation.
LEMMA CauseInvStep ==
    ASSUME Inv, [Next]_vars
    PROVE  CauseInv'
<1>1. /\ [ChildAct]_childVars /\ [ServerAct]_serverVars
      /\ \/ Register \/ CatchSignal \/ DieOfSignal \/ RelaySignal
         \/ CancelContext \/ StopNotify \/ UNCHANGED contextVars
  BY StepSplits
<1>2. (inbox' => signals' > 0) /\ signals' \in Nat /\ signals' >= signals
  BY <1>1, MaxSignalsAssumption
     DEF MaxSignalsAssumption, Inv, TypeOK, ContextTypeOK, CauseInv, Register, CatchSignal, DieOfSignal,
         RelaySignal, CancelContext, StopNotify, contextVars
<1>3. serveErr = "accept" => serveErr' = "accept"
  BY <1>1, ServeReturnsOnce DEF Inv, TypeOK
<1>4. ASSUME (Starting \/ Serving)', cancelled'
      PROVE  signals' > 0 \/ serveErr' = "accept"
  <2>1. Starting \/ Serving
    BY <1>4
       DEF Next, MainSteps, ReadManifests, OpenListener, NewServerFails,
           MakeKubeconfigDir, WriteKubeconfig, KubeconfigFails, RegisterSignals,
           SpawnServe, RunChild, StartShutdown, RunClosure, DeferredCancel,
           DeferredStop, Cleanup, Exit, Watcher, ServeLoop, ServeEnds, Traffic,
           Relay, Signal, Die, ChildActs, Terminated, Starting, Serving, runVars,
           vars
  <2>2. CASE cancelled
    BY <1>2, <1>3, <2>1, <2>2, MaxSignalsAssumption
       DEF MaxSignalsAssumption, Inv, TypeOK, ContextTypeOK, CauseInv
  <2>3. CASE Relay
    BY <1>2, <2>3 DEF Relay, RelaySignal, Inv, TypeOK, ContextTypeOK, CauseInv
  <2>4. CASE ServeEnds
    <3>1. spc = "idle" /\ ~inShutdown
      BY <2>1 DEF Inv, TypeOK, ServerTypeOK, RunInv, ClosureInv
    <3>2. serveErr = "accept"
      BY <2>4, <3>1
         DEF ServeEnds, CancelAfterServe, Inv, TypeOK, ServerTypeOK, ServerInv,
             ResultInv
    <3> QED
      BY <1>3, <3>2
  <2>5. (cancelled' = cancelled) \/ Relay \/ ServeEnds
    BY <1>4, <2>1
       DEF Next, MainSteps, ReadManifests, OpenListener, NewServerFails,
           MakeKubeconfigDir, WriteKubeconfig, KubeconfigFails, RegisterSignals,
           Register, SpawnServe, RunChild, StartShutdown, RunClosure, DeferredCancel,
           DeferredStop, Cleanup, Exit, Watcher, ServeLoop, Traffic, Signal,
           CatchSignal, Die, DieOfSignal, ChildActs, Terminated, Starting, Serving,
           contextVars, vars
  <2> QED
    BY <1>4, <2>2, <2>3, <2>4, <2>5
<1>5. ASSUME xpc' \in {"cleanup", "restore", "returned"}, leader' = "reaped",
             ~Succeeded', signals' = 0, serveErr' # "accept"
      PROVE  "child" \in childErrs'
  <2>1. /\ leader = "reaped" /\ ~Succeeded
        /\ \/ /\ xpc \in {"cleanup", "restore", "returned"}
              /\ childErrs \subseteq childErrs'
           \/ /\ xpc = "check"
              /\ cancelled \/ "child" \in childErrs'
    BY <1>1, <1>5, FailureStays DEF Inv, TypeOK
  <2>2. signals = 0 /\ serveErr # "accept"
    BY <1>2, <1>3, <1>5 DEF Inv, TypeOK, ContextTypeOK
  <2>3. xpc = "check" => ~cancelled
    BY <2>2 DEF Inv, RunInv, ExecInv, CauseInv, Serving
  <2> QED
    BY <2>1, <2>2, <2>3 DEF Inv, CauseInv
<1> QED
  BY <1>2, <1>4, <1>5 DEF CauseInv

\* Nothing that makes up the exit code changes after main has used it.
LEMMA ExitInvStep ==
    ASSUME Inv, [Next]_vars
    PROVE  ExitInv'
<1>1. CASE Exit
  BY <1>1 DEF Exit, ExitInv, ExitStatus, RunErrors, childVars, serverVars, osVars,
              execVars
<1>2. CASE mpc = "exited" /\ ChildActs
  <2>1. UNCHANGED <<childErrs, serverErrs, startFailed, mpc, exitCode>>
    BY <1>2 DEF ChildActs, ChildSteps, LeaderExits, ForkDescendant,
                DescendantLeaves, ReuseGroupId, execVars, serverVars, runVars
  <2>2. "child" \in childErrs => status' = status
    BY <1>2 DEF ChildActs, ChildSteps, LeaderExits, ForkDescendant,
                DescendantLeaves, ReuseGroupId, Inv, OutcomeInv
  <2>3. "child" \in RunErrors => "child" \in childErrs
    BY DEF RunErrors, Inv, TypeOK, ServerTypeOK
  <2> QED
    BY <1>2, <2>1, <2>2, <2>3 DEF Inv, ExitInv, ExitStatus, RunErrors, CodeOf
<1>3. CASE mpc = "exited" /\ UNCHANGED vars
  BY <1>3 DEF Inv, ExitInv, ExitStatus, RunErrors, CodeOf, vars, runVars, childVars,
              serverVars, osVars, execVars
<1>4. CASE mpc # "exited" /\ ~Exit
  BY <1>4
     DEF Inv, ExitInv, Next, MainSteps, ReadManifests, OpenListener, NewServerFails,
         MakeKubeconfigDir, WriteKubeconfig, KubeconfigFails, RegisterSignals,
         SpawnServe, RunChild, StartShutdown, RunClosure, DeferredCancel,
         DeferredStop, Cleanup, Watcher, ServeLoop, ServeEnds, Traffic, Relay,
         Signal, Die, ChildActs, Terminated, runVars, vars
<1>5. mpc = "exited" => ChildActs \/ UNCHANGED vars
  BY DEF Next, MainSteps, ReadManifests, OpenListener, NewServerFails,
         MakeKubeconfigDir, WriteKubeconfig, KubeconfigFails, RegisterSignals,
         SpawnServe, RunChild, StartShutdown, RunClosure, DeferredCancel,
         DeferredStop, Cleanup, Exit, Watcher, ServeLoop, ServeEnds, Traffic, Relay,
         Signal, Die, Alive, Terminated
<1> QED
  BY <1>1, <1>2, <1>3, <1>4, <1>5

-----------------------------------------------------------------------------
\* The invariant that everything below rests on.
LEMMA Invariance == Spec => []Inv
<1>1. Init => Inv
  <2> SUFFICES ASSUME Init
               PROVE  Inv
    OBVIOUS
  <2>1. /\ ContextTypeOK /\ ServerTypeOK /\ ServerInv
        /\ ChildTypeOK /\ ChildInv /\ ReportInv /\ OutcomeInv
    BY ContextInitOK, ChildInitOK, ServerInitOK DEF Init
  <2>2. RunTypeOK
    <3>1. exitCode \in 0..NotExited
      BY DEF Init, NotExited
    <3> QED
      BY <3>1 DEF Init, RunTypeOK
  <2>3. RunInv
    BY DEF Init, ContextInit, ChildInit, ServerInit, RunInv, SignalInv, ConfigInv,
           ExecInv, ClosureInv, StartInv, Starting, Serving, Returned, Accepted
  <2>4. CauseInv /\ ExitInv
    BY DEF Init, ContextInit, ChildInit, CauseInv, ExitInv
  <2> QED
    BY <2>1, <2>2, <2>3, <2>4 DEF Inv, TypeOK
<1>2. Inv /\ [Next]_vars => Inv'
  <2> SUFFICES ASSUME Inv, [Next]_vars
               PROVE  Inv'
    OBVIOUS
  <2>1. ContextTypeOK'
    BY StepSplits, ContextTypeStep DEF Inv, TypeOK
  <2>2. ChildTypeOK' /\ ChildInv'
    BY StepSplits, ChildTypeStep, ChildInvStep DEF Inv, TypeOK
  <2>8. ReportInv' /\ OutcomeInv'
    BY StepSplits, CancelledForGood, ReportInvStep, OutcomeInvStep DEF Inv, TypeOK
  <2>3. ServerTypeOK' /\ ServerInv'
    BY StepSplits, ServerTypeStep, ServerInvStep DEF Inv, TypeOK, ServerInv
  <2>4. RunTypeOK'
    BY RunTypeStep DEF Inv
  <2>5. RunInv'
    BY RunInvStep
  <2>6. CauseInv'
    BY CauseInvStep
  <2>7. ExitInv'
    BY ExitInvStep
  <2> QED
    BY <2>1, <2>2, <2>3, <2>4, <2>5, <2>6, <2>7, <2>8 DEF Inv, TypeOK
<1> QED
  BY <1>1, <1>2, PTL DEF Spec

\* Type correctness of the whole.
THEOREM TypeCorrect == Spec => []TypeOK
<1>1. Inv => TypeOK
  BY DEF Inv
<1> QED
  BY <1>1, Invariance, PTL

\* While a process of the child's group exists its kubeconfig is there, the
\* server is not being shut down and no SIGINT or SIGTERM kills k8q.
THEOREM ChildAlwaysCovered == Spec => []ChildIsCovered
<1>1. Inv => ChildIsCovered
  <2> SUFFICES ASSUME Inv, Unix, Killable, GroupExists
               PROVE  /\ kubeconfig = "file"
                      /\ ~inShutdown
                      /\ disposition = "notify" /\ ~killed
    BY DEF ChildIsCovered
  <2>1. xpc \notin {"idle", "restore", "returned"}
    BY ChildAssumption
       DEF ChildAssumption, Inv, TypeOK, ChildTypeOK, ChildInv, StageInv, GroupInv,
           GroupRuns, GroupExists
  <2>2. mpc = "run"
    BY <2>1 DEF Inv, RunInv, ExecInv
  <2> QED
    BY <2>2
       DEF Inv, RunInv, SignalInv, ConfigInv, ClosureInv, Starting, Serving,
           TypeOK, ContextTypeOK
<1> QED
  BY <1>1, Invariance, PTL

\* A Run that returned has left nothing behind, on whatever path it went.
THEOREM NothingIsLeftBehind == Spec => []NothingLeftBehind
<1>1. Inv => NothingLeftBehind
  <2> SUFFICES ASSUME Inv, Returned, ~killed
               PROVE  /\ kubeconfig = "absent"
                      /\ listener # "open" /\ \A c \in Conns : conns[c] = "closed"
                      /\ disposition = "default"
                      /\ (Unix /\ Killable) => ~GroupExists
                      /\ foreground = "child" => "restore" \in childErrs
    BY DEF NothingLeftBehind, Returned
  <2>1. kubeconfig = "absent" /\ disposition = "default"
    BY DEF Inv, TypeOK, RunTypeOK, ContextTypeOK, RunInv, SignalInv, ConfigInv,
           Returned
  <2>2. listener # "open" /\ \A c \in Conns : conns[c] = "closed"
    <3>1. CASE startFailed
      BY <3>1 DEF Inv, RunInv, StartInv
    <3>2. CASE ~startFailed
      <4>1. spc = "done"
        BY <3>2 DEF Inv, RunInv, ClosureInv
      <4> QED
        BY <4>1 DEF Inv, TypeOK, ServerTypeOK, ConnStates, ServerInv, ShutdownInv,
                    Accepted
    <3> QED
      BY <3>1, <3>2
  <2>3. xpc \in {"idle", "returned"}
    BY DEF Inv, RunInv, ExecInv, Returned
  <2>4. (Unix /\ Killable) => ~GroupExists
    BY <2>3, ChildAssumption
       DEF ChildAssumption, Inv, TypeOK, ChildTypeOK, ChildInv, StageInv, GroupInv,
           GroupRuns, GroupExists
  <2>5. foreground = "child" => "restore" \in childErrs
    BY <2>3 DEF Inv, ChildInv, StageInv, TerminalInv, TerminalReturned
  <2> QED
    BY <2>1, <2>2, <2>4, <2>5
<1> QED
  BY <1>1, Invariance, PTL

-----------------------------------------------------------------------------
\* A leader that did not end with 0 gives a code that is not 0.
LEMMA CodeOfFailure ==
    ASSUME NEW st \in Statuses, st # NoStatus, st # <<"exit", 0>>
    PROVE  CodeOf(st) # 0
<1> USE ChildAssumption DEF ChildAssumption, CodeOf
<1>1. CASE st = KilledStatus
  BY <1>1 DEF KilledStatus, SIGKILL
<1>2. CASE st \in {<<"exit", c>> : c \in ExitCodes}
  BY <1>2
<1>3. CASE st \in {<<"signal", n>> : n \in DeathSignals}
  <2>1. PICK n \in DeathSignals : st = <<"signal", n>>
    BY <1>3
  <2>2. CodeOf(st) = 128 + n /\ n \in 1..64
    BY <2>1
  <2> QED
    BY <2>2
<1> QED
  BY <1>1, <1>2, <1>3 DEF Statuses, OwnStatuses

\* Exit code 0 is a promise: the manifests were served to the end, the child
\* succeeded, nobody was cut off and the terminal is back.
THEOREM ZeroIsSuccess == Spec => []ExitZeroIsSuccess
<1>1. Inv => ExitZeroIsSuccess
  <2> SUFFICES ASSUME Inv, exitCode = 0
               PROVE  /\ ~startFailed /\ serveErr = "closed" /\ ~timedOut
                      /\ command => leader = "reaped" /\ Succeeded
                      /\ foreground # "child"
    BY DEF ExitZeroIsSuccess
  <2>1. mpc = "exited" /\ ExitStatus = 0
    BY DEF Inv, ExitInv, NotExited
  <2>2. "child" \notin childErrs
    <3> SUFFICES ASSUME "child" \in childErrs
                 PROVE  FALSE
      OBVIOUS
    <3>1. CodeOf(status) = 0
      BY <2>1 DEF ExitStatus, RunErrors
    <3>2. status \in Statuses /\ status # NoStatus /\ status # <<"exit", 0>>
      BY DEF Inv, TypeOK, ChildTypeOK, OutcomeInv, Succeeded
    <3> QED
      BY <3>1, <3>2, CodeOfFailure
  <2>3. childErrs = {} /\ serverErrs = {} /\ ~startFailed
    BY <2>1, <2>2 DEF ExitStatus, RunErrors, Inv, TypeOK, ServerTypeOK
  <2>4. serveErr = "closed" /\ ~timedOut
    <3>1. spc = "done"
      BY <2>1, <2>3 DEF Inv, RunInv, ClosureInv, Returned
    <3> QED
      BY <2>3, <3>1 DEF Inv, TypeOK, ServerTypeOK, ServerInv, ResultInv,
                        ServeFailureReported
  <2>5. command => leader = "reaped" /\ Succeeded
    <3>1. command => xpc = "returned"
      BY <2>1, <2>3 DEF Inv, RunInv, ExecInv, Starting, Serving
    <3> QED
      BY <2>3, <3>1 DEF Inv, OutcomeInv
  <2>6. foreground # "child"
    <3>1. xpc \in {"idle", "returned"}
      BY <2>1 DEF Inv, RunInv, ExecInv
    <3> QED
      BY <2>3, <3>1 DEF Inv, ChildInv, StageInv, TerminalInv, TerminalReturned
  <2> QED
    BY <2>3, <2>4, <2>5, <2>6
<1> QED
  BY <1>1, Invariance, PTL

\* The exit code of a child that failed reaches the caller of k8q, unless a
\* signal came or the server broke: nothing that goes wrong later hides it.
THEOREM ChildFailureIsReported == Spec => []ChildFailureReported
<1>1. Inv => ChildFailureReported
  <2> SUFFICES ASSUME Inv, mpc = "exited", leader = "reaped", ~Succeeded,
                      signals = 0, serveErr # "accept"
               PROVE  exitCode = CodeOf(status)
    BY DEF ChildFailureReported
  <2>1. xpc = "returned"
    BY DEF Inv, RunInv, ExecInv, ChildInv, StageInv
  <2>2. "child" \in childErrs
    BY <2>1 DEF Inv, CauseInv
  <2> QED
    BY <2>2 DEF Inv, ExitInv, ExitStatus, RunErrors
<1> QED
  BY <1>1, Invariance, PTL

-----------------------------------------------------------------------------
(* Refinement of ServeSession.                                             *)

\* Where Run is tells who is there: the child's group exists only while Run waits
\* for execChild, the server is up from NewServer until the closure is done, and
\* the directory of the kubeconfig is there from newKubeconfig to Cleanup.
SessionInv ==
    /\ (Unix /\ Killable /\ GroupExists) => mpc = "run" /\ ~killed
    /\ ~killed =>
         /\ mpc \in {"parse", "listen"} => ~ServerUp
         /\ mpc \in {"mkdir", "write", "notify", "spawn"} => ServerUp
    /\ mpc \in {"cancel", "stop", "cleanup", "returned", "exited"} => ~ServerUp
    /\ kubeconfig = "absent"
         <=> mpc \in {"parse", "listen", "mkdir", "returned", "exited"}
    /\ killed => mpc \notin {"spawn", "run", "shutdown", "cancel", "stop"}

\* What the refinement needs to know of a state follows from the invariant.
LEMMA SessionInvariant == Inv => SessionInv
<1> SUFFICES ASSUME Inv
             PROVE  SessionInv
  OBVIOUS
<1>1. ASSUME Unix, Killable, GroupExists
      PROVE  mpc = "run" /\ ~killed
  <2>1. xpc \notin {"idle", "restore", "returned"}
    BY <1>1, ChildAssumption
       DEF ChildAssumption, Inv, TypeOK, ChildTypeOK, ChildInv, StageInv, GroupInv,
           GroupRuns, GroupExists
  <2>2. mpc = "run"
    BY <2>1 DEF Inv, RunInv, ExecInv
  <2> QED
    BY <2>2 DEF Inv, RunInv, SignalInv, TypeOK, ContextTypeOK
<1>2. ~killed =>
        /\ mpc \in {"parse", "listen"} => ~ServerUp
        /\ mpc \in {"mkdir", "write", "notify", "spawn"} => ServerUp
  BY DEF Inv, RunInv, StartInv, ServerUp
<1>3. ASSUME mpc \in {"cancel", "stop", "cleanup", "returned", "exited"}
      PROVE  ~ServerUp
  <2>1. CASE startFailed
    BY <2>1 DEF Inv, RunInv, StartInv, ServerUp
  <2>2. CASE ~startFailed
    <3>1. spc = "done"
      BY <1>3, <2>2 DEF Inv, RunInv, ClosureInv, Returned
    <3> QED
      BY <3>1 DEF Inv, TypeOK, ServerTypeOK, ConnStates, ServerInv, ShutdownInv,
                  Accepted, ServerUp
  <2> QED
    BY <2>1, <2>2
<1>4. /\ kubeconfig = "absent"
           <=> mpc \in {"parse", "listen", "mkdir", "returned", "exited"}
      /\ killed => mpc \notin {"spawn", "run", "shutdown", "cancel", "stop"}
  BY DEF Inv, TypeOK, RunTypeOK, ContextTypeOK, RunInv, ConfigInv, SignalInv
<1> QED
  BY <1>1, <1>2, <1>3, <1>4 DEF SessionInv

\* Nothing connects to a server that is down.
LEMMA NoServerFromNothing ==
    ASSUME ServerTypeOK, ~ServerUp,
           \/ ClientSteps \/ HandlerSteps \/ GoroutineSteps \/ AcceptSteps
           \/ ClosureSteps \/ BeginShutdown
    PROVE  ~ServerUp'
<1> USE DEF ServerTypeOK, ConnStates, ServerUp
<1>1. CASE ClientSteps \/ HandlerSteps
  BY <1>1 DEF ClientSteps, HandlerSteps, Dial, HangUp, RequestBegins, RequestEnds
<1>2. CASE GoroutineSteps \/ AcceptSteps
  BY <1>2 DEF GoroutineSteps, AcceptSteps, ServeBegins, ServeRefused, AcceptClosed,
              AcceptBreaks, LeaveAcceptLoop, ServeCloses, CloseListener,
              SendServeResult, Accept
<1>3. CASE ClosureSteps
  <2>1. CASE CloseListeners \/ Unlisten
    BY <2>1 DEF CloseListeners, Unlisten, CloseListener
  <2>2. CASE DrainConns \/ AbortConns
    BY <2>2 DEF DrainConns, Drain, AbortConns
  <2>3. CASE PollAgain \/ ShutdownTimesOut \/ ReceiveServeResult
    BY <2>3 DEF PollAgain, ShutdownTimesOut, ReceiveServeResult
  <2> QED
    BY <1>3, <2>1, <2>2, <2>3 DEF ClosureSteps
<1>4. CASE BeginShutdown
  BY <1>4 DEF BeginShutdown
<1> QED
  BY <1>1, <1>2, <1>3, <1>4

\* Every step of Run, of its goroutines, of the child and of the clients is a step
\* of the session, or none.
LEMMA SessionStep ==
    ASSUME Unix, Killable, TypeOK, SessionInv, SessionInv', [Next]_vars
    PROVE  [Session!SessionNext]_(Session!sessionVars)
<1> USE DEF Session!SessionNext, Session!sessionVars
<1>1. /\ GroupExists => mpc = "run" /\ ~killed
      /\ GroupExists' => mpc' = "run" /\ ~killed'
  BY DEF SessionInv
<1>2. /\ ServerUp \in BOOLEAN /\ ServerUp' \in BOOLEAN
      /\ GroupExists \in BOOLEAN /\ GroupExists' \in BOOLEAN
      /\ UNCHANGED serverVars => UNCHANGED ServerUp
      /\ UNCHANGED childVars => UNCHANGED GroupExists
  BY DEF ServerUp, GroupExists, serverVars, childVars, osVars
\* A step that moves neither Run nor the server is one of the child's, if any.
<1>3. ASSUME UNCHANGED <<SessionPhase, ServerUp>>,
             kubeconfig' = "absent" <=> kubeconfig = "absent"
      PROVE  [Session!SessionNext]_(Session!sessionVars)
  <2>1. CASE SessionPhase = "running"
    BY <1>2, <1>3, <2>1 DEF Session!StartChild, Session!EndChild
  <2>2. CASE SessionPhase # "running"
    <3>1. ~GroupExists /\ ~GroupExists'
      BY <1>1, <1>3, <2>2 DEF SessionPhase, Starting
    <3> QED
      BY <1>2, <1>3, <3>1
  <2> QED
    BY <2>1, <2>2
\* A step that moves neither Run nor the child can take the server down.
<1>4. ASSUME UNCHANGED <<SessionPhase, GroupExists>>,
             SessionPhase \in {"running", "stopping"},
             kubeconfig' = "absent" <=> kubeconfig = "absent",
             ~ServerUp => ~ServerUp'
      PROVE  [Session!SessionNext]_(Session!sessionVars)
  BY <1>2, <1>4 DEF Session!CloseServer
\* A start that fails gives everything back.
<1>5. ASSUME UNCHANGED childVars, ~killed, ~killed', Starting, mpc' = "returned"
      PROVE  [Session!SessionNext]_(Session!sessionVars)
  <2>1. SessionPhase = "starting" /\ SessionPhase' = "returned"
    BY <1>5 DEF SessionPhase, Starting
  <2>2. ~ServerUp' /\ kubeconfig' = "absent"
    BY <1>5 DEF SessionInv
  <2> QED
    BY <1>2, <1>5, <2>1, <2>2 DEF Session!GiveUp
\* Run's own steps, in their order.
<1> USE DEF SessionPhase, Starting
<1>6. CASE ReadManifests
  <2>1. CASE mpc' = "listen"
    BY <1>2, <1>3, <1>6, <2>1 DEF ReadManifests, contextVars
  <2>2. CASE mpc' = "returned"
    BY <1>5, <1>6, <2>2 DEF ReadManifests, contextVars
  <2> QED
    BY <1>6, <2>1, <2>2 DEF ReadManifests
<1>7. CASE OpenListener
  <2>1. ~ServerUp /\ ServerUp'
    BY <1>7 DEF OpenListener, SessionInv, contextVars
  <2> QED
    BY <1>2, <1>7, <2>1 DEF OpenListener, Session!Open, contextVars
<1>8. CASE NewServerFails \/ KubeconfigFails
  BY <1>5, <1>8 DEF NewServerFails, KubeconfigFails, contextVars
<1>9. CASE MakeKubeconfigDir
  <2>1. ServerUp /\ kubeconfig = "absent"
    BY <1>9 DEF MakeKubeconfigDir, SessionInv
  <2> QED
    BY <1>2, <1>9, <2>1 DEF MakeKubeconfigDir, Session!WriteConfig, contextVars
<1>10. CASE WriteKubeconfig \/ SpawnServe
  <2>1. UNCHANGED ServerUp
    BY <1>2, <1>10 DEF WriteKubeconfig, SpawnServe, GoServe, ServerUp
  <2> QED
    BY <1>3, <1>10, <2>1 DEF WriteKubeconfig, SpawnServe, SessionInv, contextVars
<1>11. CASE RegisterSignals
  <2>1. ServerUp /\ kubeconfig # "absent"
    BY <1>11 DEF RegisterSignals, SessionInv
  <2> QED
    BY <1>2, <1>11, <2>1 DEF RegisterSignals, Register, Session!Begin
<1>12. CASE RunChild
  BY <1>2, <1>3, <1>12 DEF RunChild, contextVars, runVars
<1>13. CASE StartShutdown
  <2>1. UNCHANGED ServerUp
    BY <1>13 DEF StartShutdown, BeginShutdown, ServerUp
  <2>2. ~GroupExists'
    BY <1>1, <1>13 DEF StartShutdown
  <2> QED
    BY <1>2, <1>13, <2>1, <2>2 DEF StartShutdown, Session!Stop, contextVars
<1>14. CASE RunClosure
  <2>1. ~ServerUp => ~ServerUp'
    BY <1>14, NoServerFromNothing DEF RunClosure, TypeOK
  <2> QED
    BY <1>2, <1>4, <1>14, <2>1 DEF RunClosure, contextVars
<1>15. CASE DeferredCancel \/ DeferredStop
  BY <1>2, <1>3, <1>15
     DEF DeferredCancel, DeferredStop, CancelContext, StopNotify
<1>16. CASE Cleanup
  <2>1. ~ServerUp
    BY <1>16 DEF Cleanup, SessionInv
  <2> QED
    BY <1>2, <1>16, <2>1 DEF Cleanup, Session!Return, contextVars
<1>17. CASE Exit
  BY <1>2, <1>3, <1>17 DEF Exit, contextVars
\* The goroutines, the clients, signals and the child.
<1>18. CASE Watcher \/ ChildActs \/ Relay \/ Signal
  BY <1>2, <1>3, <1>18
     DEF Watcher, ChildActs, Relay, RelaySignal, Signal, CatchSignal, contextVars,
         runVars
<1>19. CASE ServeLoop \/ Traffic
  <2>1. ~ServerUp => ~ServerUp'
    BY <1>19, NoServerFromNothing DEF ServeLoop, Traffic, TypeOK
  <2>2. UNCHANGED <<mpc, killed, kubeconfig, GroupExists>> /\ ~killed /\ mpc # "exited"
    BY <1>2, <1>19 DEF ServeLoop, Traffic, Alive, contextVars, runVars
  <2>3. CASE SessionPhase \in {"running", "stopping"}
    BY <1>4, <2>1, <2>2, <2>3
  <2>4. CASE SessionPhase \in {"starting", "returned"}
    <3>1. UNCHANGED ServerUp
      BY <1>2, <2>1, <2>2, <2>4 DEF SessionInv
    <3> QED
      BY <1>3, <2>2, <3>1
  <2> QED
    BY <2>2, <2>3, <2>4
<1>20. CASE ServeEnds
  <2>1. UNCHANGED ServerUp
    BY <1>20 DEF ServeEnds, CancelAfterServe, ServerUp
  <2> QED
    BY <1>3, <1>20, <2>1 DEF ServeEnds, CancelContext, runVars
<1>21. CASE Die
  <2>1. ~killed /\ killed' /\ SessionPhase \in {"starting", "stopping", "returned"}
    BY <1>21 DEF Die, DieOfSignal, runVars, SessionInv, TypeOK, RunTypeOK
  <2>2. ~ServerUp'
    BY <1>21 DEF Die, ServerDies, ServerUp
  <2> QED
    BY <1>2, <1>21, <2>1, <2>2 DEF Die, runVars, Session!Die
<1>22. CASE UNCHANGED vars
  BY <1>2, <1>3, <1>22 DEF vars, contextVars, runVars
<1> QED
  BY <1>6, <1>7, <1>8, <1>9, <1>10, <1>11, <1>12, <1>13, <1>14, <1>15, <1>16,
     <1>17, <1>18, <1>19, <1>20, <1>21, <1>22 DEF Next, MainSteps, Terminated

\* Run implements the session, wherever the child lives in a group that k8q may
\* kill.  (Elsewhere the child's descendants may outlive it: a session's child
\* never does.)
THEOREM RunImplementsSession ==
    ASSUME Unix, Killable
    PROVE  Spec => ImplementsSession
<1>1. Init => Session!SessionInit
  BY DEF Init, ContextInit, ChildInit, ServerInit, SessionPhase, Starting, ServerUp,
         GroupExists, Session!SessionInit
<1>2. TypeOK /\ SessionInv /\ SessionInv' /\ [Next]_vars
        => [Session!SessionNext]_(Session!sessionVars)
  BY SessionStep
<1>3. Inv => TypeOK /\ SessionInv
  BY SessionInvariant DEF Inv
<1> QED
  BY <1>1, <1>2, <1>3, Invariance, PTL DEF Spec, ImplementsSession, Session!SessionSpec
=============================================================================
