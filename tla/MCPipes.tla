------------------------------ MODULE MCPipes -------------------------------
(* Where bytes cross from one runtime to another through a bounded buffer and *)
(* a waker, and where one program waits for another: a pipe of two bytes      *)
(* between at most two producers and two consumers, or (part) a host          *)
(* connection with a pipe of two bytes each way, so that both fill up, or a   *)
(* UDP socket behind a Gateway, or a node that starts three programs, two     *)
(* levels deep.  They share no state, and a behaviour is one of one of them;  *)
(* what stands still is in its initial state, where no fair action is         *)
(* enabled.                                                                   *)
EXTENDS ExecPipe, ExecTree, Gateway

VARIABLES
    part, api, sock, u_remote, receivers, sender, rx, tx, bridge, u_abort, reader, hq, host_access, used
udp == <<api, sock, u_remote, receivers, sender, rx, tx, bridge, u_abort, reader, hq, host_access, used>>
U == INSTANCE Udp WITH FabricPeers <- {"f"}, HostPeers <- {"h"}, Foreign <- {}, Receivers <- {"r"},
         HOST_UDP_QUEUE <- 1, UDP_SLOTS <- 1, Anyone <- "anyone", MaxArrivals <- 2, MaxSwitches <- 1,
         MaxFailures <- 1, abort <- u_abort, remote <- u_remote

MCInit == /\ part \in {"exec", "gateway", "udp", "tree"} /\ Init /\ GwInit /\ U!Init /\ TreeInit
          /\ part # "exec" => pipeline = Programs
          /\ part # "udp" => api = "p2"
          /\ part # "tree" => exec_permit
MCNext ==
  \/ part = "exec" /\ Next /\ UNCHANGED <<part, gwVars, udp, treeVars>>
  \/ part = "gateway" /\ GwNext /\ UNCHANGED <<part, vars, udp, treeVars>>
  \/ part = "udp" /\ U!Next /\ UNCHANGED <<part, vars, gwVars, treeVars>>
  \/ part = "tree" /\ TreeNext /\ UNCHANGED <<part, vars, gwVars, udp>>
MCSpec == /\ MCInit /\ [][MCNext]_<<part, vars, gwVars, udp, treeVars>>
          /\ Fairness /\ GwFairness /\ U!Fairness

\* A parked receiver does not sleep over a datagram (see Udp).
DatagramIsHeard == U!DatagramIsHeard
=============================================================================
