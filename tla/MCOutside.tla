----------------------------- MODULE MCOutside ------------------------------
(* How a network reaches the world outside the canvas, four independent      *)
(* parts: the ports and services the server publishes; two iroh uplinks;     *)
(* three Veilid uplinks; a host multicast bridge.                            *)
(* What stands still has nothing under way, so the fairness of one part asks *)
(* nothing of the behaviours of another.                                     *)
(*                                                                           *)
(* Two fabric nodes, one of them able to serve http instead, two HostPorts   *)
(* over two port numbers.                                                    *)
EXTENDS Serve, IrohUplink
CONSTANTS a1, a2, hp1, hp2, n1, n2
MCPorts == (hp1 :> 80) @@ (hp2 :> 81)
MCNothing == [links |-> {}, wired |-> {}]
MCLoads == {[links |-> {<<a1, hp1>>, <<a2, hp2>>}, wired |-> {}],
            [links |-> {<<a2, hp1>>}, wired |-> {a1}],
            [links |-> {}, wired |-> {a1, a2}],
            MCNothing}
MCNet == [a \in Apps |-> n1]
-----------------------------------------------------------------------------
VARIABLES
    part, v_dial_rx, v_target, up, attached, local, routes, live, dht, peers, msgs, v_dials, failures, v_losses,
    m_wired, bridge, trunk, started, pumping, rx, batch, hostq, m_failures
veilid == <<v_dial_rx, v_target, up, attached, local, routes, live, dht, peers, msgs, v_dials, failures, v_losses>>
mcast == <<m_wired, bridge, trunk, started, pumping, rx, batch, hostq, m_failures>>

\* Three, so that a third uplink can dial in; the route of one of them churns.
VEnds == {"a", "b", "c"}
VRoutes == [e \in VEnds |-> IF e = "b" THEN 2 ELSE 1]
V == INSTANCE VeilidUplink WITH Ends <- VEnds, MaxRoutes <- VRoutes, MaxDials <- 2, MaxFailures <- 1, MaxLosses <- 1,
         dial_rx <- v_dial_rx, target <- v_target, dials <- v_dials, losses <- v_losses
H == INSTANCE HostMcast WITH Groups <- {<<"g1", 1>>}, Configs <- {{}, {<<"g1", 1>>}},
         MaxBridges <- 2, MaxFailures <- 2, failures <- m_failures, wired <- m_wired

MCInit == /\ part \in {"serve", "iroh", "veilid", "mcast"}
          /\ Init /\ UplinkInit /\ V!Init /\ H!Init
          /\ IF part = "serve" THEN links \cup wired # {} ELSE links \cup wired \cup ready = {}
MCNext == \/ part = "serve" /\ Next /\ UNCHANGED <<part, uplinkVars, veilid, mcast>>
          \/ part = "iroh" /\ UplinkNext /\ UNCHANGED <<part, vars, veilid, mcast>>
          \/ part = "veilid" /\ V!Next /\ UNCHANGED <<part, vars, uplinkVars, mcast>>
          \/ part = "mcast" /\ H!Next /\ UNCHANGED <<part, vars, uplinkVars, veilid>>
MCSpec == /\ MCInit /\ [][MCNext]_<<part, vars, uplinkVars, veilid, mcast>>
          /\ Fairness /\ UplinkFairness /\ V!Fairness /\ H!Fairness

\* A dialler that goes on wanting a peer gets a route to it (see VeilidUplink).
DialerReaches == V!DialerReaches
\* A group that stays configured is joined (see HostMcast).
GroupIsJoined == H!GroupIsJoined
=============================================================================
