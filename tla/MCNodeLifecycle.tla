-------------------------- MODULE MCNodeLifecycle --------------------------
(* One node that can serve a filesystem, with two guest threads: nodes share *)
(* nothing here, and a third guest thread could only wait behind the second. *)
(* Or (part) two remote clients of a server with two terminals.  The two     *)
(* share no state, and a behaviour is one of the one or of the other; what   *)
(* stands still is in its initial state, where no fair action is enabled.    *)
EXTENDS NodeLifecycle

CONSTANTS t1, t2, c1, c2    \* the terminals and the clients

VARIABLES part, nodes, config, term, attached, cmds, up, down, conn, pump, cli, heard
rmVars == <<nodes, config, term, attached, cmds, up, down, conn, pump, cli, heard>>

\* Pairs of programs: one that attaches as it likes and may not read, one follower,
\* one `wk attach`, one that may not, and two that create nodes.
Pairs == {<<"api", "none">>, <<"logs", "none">>, <<"attach", "none">>,
          <<"none", "attach">>, <<"create", "add">>}
Rm == INSTANCE Remote WITH
        Terminals <- {t1, t2}, Idle <- {t2}, NewIds <- 1..2, Clients <- {c1, c2},
        Programs <- {[c \in {c1, c2} |-> IF c = c1 THEN p[1] ELSE p[2]] : p \in Pairs},
        MayUpdate <- {c1}, OutCap <- 2, LOG_CAP <- 1, MaxOut <- 2, MaxMsgs <- 3

\* Remote clients may all be gone; the server that runs a node never rests.
AtRest == part = "remote" /\ UNCHANGED <<part, vars, rmVars>>
MCInit == /\ part \in {"node", "remote"} /\ Init /\ Rm!Init
          /\ part = "node" => cli[c1].prog = "create"
MCNext ==
  \/ part = "node" /\ Next /\ UNCHANGED <<part, rmVars>>
  \/ part = "remote" /\ Rm!Next /\ UNCHANGED <<part, vars>>
  \/ AtRest
MCSpec == MCInit /\ [][MCNext]_<<part, vars, rmVars>> /\ Fairness /\ Rm!Fairness

\* A node is the window's again once the client attached to it has gone.
ReclaimedAfterHangup == Rm!ReclaimedAfterHangup
=============================================================================
