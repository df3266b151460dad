------------------------------ MODULE MCNetwork -----------------------------
(* The fabric between nodes, or (part) the socket interface of one node; they *)
(* share no state here, and a behaviour is one of the one or of the other.    *)
(*                                                                            *)
(* Two servers: the first with two nets, a router and two uplinks, the second *)
(* with one net, an uplink, and a node at the address the second node of the  *)
(* first server gets.  For the sockets, one guest of either WASI generation   *)
(* and three remote nodes, one of the other address family.                   *)
EXTENDS Fabric, Sockets, TLC

CONSTANTS h1, h2, n_a, n_b, n_c, r1, t, t2, u, n1, n2, m1

MCHubOf == [x \in {n_a, n_b, r1, t, t2, n1, n2} |-> h1] @@ [x \in {n_c, u, m1} |-> h2]
MCFamilyOf == [p \in Peers |-> IF p = "b" THEN "v6" ELSE "v4"]
MCDials == {<<t, u>>, <<t2, u>>, <<t, t2>>, <<t2, t>>}
MCSymmetry == Permutations({t, t2})
MCSeed == [x \in Apps |-> IF x = n_c THEN 3 ELSE 2]

(* Workspaces as loaded: two nodes on two nets, with the router and the       *)
(* uplinks not wired yet, or the nets bridged and both uplinks on the first   *)
(* of them.                                                                   *)
Unwired == {<<n_a, n1>>, <<n_b, n2>>, <<u, m1>>, <<n_c, m1>>}
Joined == Unwired \cup {<<t, n1>>, <<t2, n1>>, <<r1, n1>>, <<r1, n2>>}
MCLoads == {Unwired, Joined}
-----------------------------------------------------------------------------
VARIABLE part

(* What stands still has one initial state.  In the unwired workspace a wire  *)
(* may be drawn and a token change; in the joined one, either.                *)
MCInit == /\ part \in {"unwired", "joined", "sockets"} /\ Init /\ SockInit
          /\ part # "sockets" => api = "p2"
          /\ links = IF part = "joined" THEN Joined ELSE Unwired
MCNext ==
  \/ part = "unwired" /\ Next /\ UNCHANGED <<part, sockVars>>
  \/ part = "joined" /\ Next /\ budget'.toggles + budget'.auth <= 1 /\ UNCHANGED <<part, sockVars>>
  \/ part = "sockets" /\ SockNext /\ UNCHANGED <<part, vars>>
MCSpec == MCInit /\ [][MCNext]_<<part, vars, sockVars>>

=============================================================================
