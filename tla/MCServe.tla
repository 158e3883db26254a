------------------------------ MODULE MCServe -------------------------------
(***************************************************************************)
(* ServeRun against sentences of the documentation that the code does not  *)
(* keep on every interleaving.  Each is checked by a run of its own, which *)
(* TLC refutes; the README tells the counterexamples.                      *)
(***************************************************************************)
EXTENDS ServeRun

\* README.md: "Shutdown removes the temporary kubeconfig."  A second Ctrl+C
\* that arrives after the deferred stop() and before the deferred Cleanup() is
\* not caught any more and kills k8q in the middle of its shutdown.
ShutdownRemovesKubeconfig ==
    (~Alive /\ ~Starting) => kubeconfig = "absent"

\* server.go: Run returns "an exitCodeError when the child exits non-zero".  A
\* child that failed by itself loses its code when the context is cancelled
\* after it exited and before execChild asks for ctx.Err().
ChildCodeIsExitCode ==
    (mpc = "exited" /\ leader = "reaped" /\ status \in OwnStatuses /\ ~Succeeded)
        => exitCode = CodeOf(status)

\* server.go: the deferred cleanup is there to "clean up the owned group".
\* It runs after the leader is reaped, when the id of an empty group is free:
\* the SIGKILL may reach a group that k8q does not own.
OnlyOwnedGroupKilled == ~strangerHit
=============================================================================
