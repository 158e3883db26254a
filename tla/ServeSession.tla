---------------------------- MODULE ServeSession ----------------------------
(***************************************************************************)
(* What `k8q serve` promises, without goroutines, signals or terminals:    *)
(* the kubeconfig, the server and the child have nested lifetimes.  A child*)
(* runs only while the kubeconfig it was given is on disk and k8q is there *)
(* to clean up after it; the server is gone before the kubeconfig is; and  *)
(* a session that returns leaves nothing behind.                           *)
(***************************************************************************)
VARIABLES
    phase,      \* "starting", "running", "stopping", "returned" or "dead"
    config,     \* the kubeconfig directory exists
    server,     \* clients hold, or can get, a connection
    child       \* a process of the child's group exists

sessionVars == <<phase, config, server, child>>

SessionInit ==
    /\ phase = "starting"
    /\ config = FALSE /\ server = FALSE /\ child = FALSE

Open ==
    /\ phase = "starting"
    /\ ~server /\ server' = TRUE
    /\ UNCHANGED <<phase, config, child>>

WriteConfig ==
    /\ phase = "starting"
    /\ server /\ ~config /\ config' = TRUE
    /\ UNCHANGED <<phase, server, child>>

\* Starting fails: what was acquired so far is given back.
GiveUp ==
    /\ phase = "starting"
    /\ phase' = "returned"
    /\ config' = FALSE /\ server' = FALSE
    /\ UNCHANGED child

Begin ==
    /\ phase = "starting"
    /\ server /\ config
    /\ phase' = "running"
    /\ UNCHANGED <<config, server, child>>

StartChild ==
    /\ phase = "running"
    /\ ~child /\ child' = TRUE
    /\ UNCHANGED <<phase, config, server>>

EndChild ==
    /\ phase = "running"
    /\ child /\ child' = FALSE
    /\ UNCHANGED <<phase, config, server>>

\* The server may break at any time; stopping closes it for good.
CloseServer ==
    /\ phase \in {"running", "stopping"}
    /\ server /\ server' = FALSE
    /\ UNCHANGED <<phase, config, child>>

Stop ==
    /\ phase = "running"
    /\ ~child
    /\ phase' = "stopping"
    /\ UNCHANGED <<config, server, child>>

Return ==
    /\ phase = "stopping"
    /\ ~server /\ config' = FALSE
    /\ phase' = "returned"
    /\ UNCHANGED <<server, child>>

\* A signal nobody catches: possible only while there is no child.
Die ==
    /\ phase \in {"starting", "stopping", "returned"}
    /\ phase' = "dead"
    /\ server' = FALSE
    /\ UNCHANGED <<config, child>>

SessionNext ==
    \/ Open \/ WriteConfig \/ GiveUp \/ Begin \/ StartChild \/ EndChild
    \/ CloseServer \/ Stop \/ Return \/ Die

SessionSpec == SessionInit /\ [][SessionNext]_sessionVars
=============================================================================
