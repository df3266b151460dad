----------------------------- MODULE IrohUplink -----------------------------
(* Iroh uplinks (wk-fabric uplink.rs): each extends its network over QUIC     *)
(* connections it dials or accepts.  The server's set_node_args sends dial    *)
(* targets to a dialer task, which blocks in connect; connections are kept    *)
(* in a list shared with the accept loop and the frame pump.                  *)
EXTENDS Naturals, Sequences, FiniteSets

CONSTANTS
    Ends,         \* the uplinks
    MaxDials,     \* how often tickets are set and cleared
    MaxLosses,    \* connections the network loses
    MaxConns      \* connections made in all

VARIABLES
    node_args,    \* the ticket the document holds for each uplink
    dial_rx,      \* dial targets on their way to the dialer
    target,       \* the dialer's current one
    dialing,      \* the peer a connect is under way to
    tunnels,      \* conns, and those no longer in it: [from, to, open, listed]
    alive,        \* uplinks not dropped
    dials, losses

uplinkVars == <<node_args, dial_rx, target, dialing, tunnels, alive, dials, losses>>

Nowhere == "none"
ASSUME UplinkAssumption == Nowhere \notin Ends

UplinkInit == /\ node_args = [e \in Ends |-> Nowhere]
              /\ dial_rx = [e \in Ends |-> <<>>]
              /\ target = [e \in Ends |-> Nowhere]
              /\ dialing = [e \in Ends |-> Nowhere]
              /\ tunnels = <<>>
              /\ alive = Ends
              /\ dials = 0 /\ losses = 0

-----------------------------------------------------------------------------
\* peers: the live connections in e's list.
LiveConns(e, cs) == {i \in DOMAIN cs : cs[i].open /\ e \in cs[i].listed}

\* set_node_args with a ticket, or with nothing, which undials.
set_node_args(e, t) ==
    /\ dials < MaxDials /\ dials' = dials + 1
    /\ e \in alive /\ t # e /\ t # node_args[e]
    /\ node_args' = [node_args EXCEPT ![e] = t]
    /\ dial_rx' = [dial_rx EXCEPT ![e] = Append(@, t)]
    /\ UNCHANGED <<target, dialing, tunnels, alive, losses>>

\* The end of each turn of the dialer: connect unless some connection is live.
Connect(e, t, cs) ==
    dialing' = [dialing EXCEPT ![e] = IF t # Nowhere /\ LiveConns(e, cs) = {} THEN t ELSE Nowhere]

\* Mutant: the target is cleared, what was dialed is left alone.
dialer_recv_keeps(e) ==
    /\ e \in alive /\ dialing[e] = Nowhere /\ dial_rx[e] # <<>>
    /\ dial_rx' = [dial_rx EXCEPT ![e] = Tail(@)]
    /\ target' = [target EXCEPT ![e] = Head(dial_rx[e])]
    /\ UNCHANGED tunnels
    /\ Connect(e, target'[e], tunnels)
    /\ UNCHANGED <<node_args, alive, dials, losses>>

\* A new target; none closes the connections this side dialed.
dialer_recv(e) ==
    /\ e \in alive /\ dialing[e] = Nowhere /\ dial_rx[e] # <<>>
    /\ dial_rx' = [dial_rx EXCEPT ![e] = Tail(@)]
    /\ target' = [target EXCEPT ![e] = Head(dial_rx[e])]
    /\ tunnels' = IF target'[e] # Nowhere THEN tunnels
                ELSE [i \in DOMAIN tunnels |->
                        IF tunnels[i].from = e /\ e \in tunnels[i].listed
                        THEN [tunnels[i] EXCEPT !.open = FALSE, !.listed = @ \ {e}] ELSE tunnels[i]]
    /\ Connect(e, target'[e], tunnels')
    /\ UNCHANGED <<node_args, alive, dials, losses>>

dialer_retry(e) ==
    /\ e \in alive /\ dialing[e] = Nowhere
    /\ Connect(e, target[e], tunnels)
    /\ dialing' # dialing
    /\ UNCHANGED <<node_args, dial_rx, target, tunnels, alive, dials, losses>>

\* register: closed connections leave the list, the new one joins it.
Registered(cs, e) == [i \in DOMAIN cs |-> IF cs[i].open THEN cs[i]
                                          ELSE [cs[i] EXCEPT !.listed = @ \ {e}]]
connected(e) ==
    /\ e \in alive /\ dialing[e] \in alive /\ Len(tunnels) < MaxConns
    /\ tunnels' = Append(Registered(tunnels, e),
                       [from |-> e, to |-> dialing[e], open |-> TRUE, listed |-> {e}])
    /\ dialing' = [dialing EXCEPT ![e] = Nowhere]
    /\ UNCHANGED <<node_args, dial_rx, target, alive, dials, losses>>
\* Mutant: a failed connect is not tried again.
connect_fails_once(e) ==
    /\ e \in alive /\ dialing[e] # Nowhere
    /\ dialing[e] \notin alive \/ losses < MaxLosses
    /\ losses' = IF dialing[e] \in alive THEN losses + 1 ELSE losses
    /\ dialing' = [dialing EXCEPT ![e] = Nowhere]
    /\ target' = [target EXCEPT ![e] = Nowhere]
    /\ UNCHANGED <<node_args, dial_rx, tunnels, alive, dials>>
connect_fails(e) ==
    /\ e \in alive /\ dialing[e] # Nowhere
    /\ dialing[e] \notin alive \/ losses < MaxLosses
    /\ losses' = IF dialing[e] \in alive THEN losses + 1 ELSE losses
    /\ dialing' = [dialing EXCEPT ![e] = Nowhere]
    /\ UNCHANGED <<node_args, dial_rx, target, tunnels, alive, dials>>

accept_loop(i) ==
    /\ tunnels[i].open /\ tunnels[i].to \in alive /\ tunnels[i].to \notin tunnels[i].listed
    /\ tunnels' = [Registered(tunnels, tunnels[i].to) EXCEPT ![i].listed = @ \union {tunnels[i].to}]
    /\ UNCHANGED <<node_args, dial_rx, target, dialing, alive, dials, losses>>

\* The network drops a connection; both ends see it closed.
Lost(i) ==
    /\ tunnels[i].open /\ losses < MaxLosses
    /\ losses' = losses + 1
    /\ tunnels' = [tunnels EXCEPT ![i].open = FALSE]
    /\ UNCHANGED <<node_args, dial_rx, target, dialing, alive, dials>>

\* The uplink node is deleted: dropping the uplink closes its endpoint.
Drop(e) ==
    /\ e \in alive /\ dials < MaxDials /\ dials' = dials + 1
    /\ alive' = alive \ {e}
    /\ node_args' = [node_args EXCEPT ![e] = Nowhere]
    /\ dial_rx' = [dial_rx EXCEPT ![e] = <<>>]
    /\ target' = [target EXCEPT ![e] = Nowhere]
    /\ dialing' = [dialing EXCEPT ![e] = Nowhere]
    /\ tunnels' = [i \in DOMAIN tunnels |-> IF e \in {tunnels[i].from, tunnels[i].to}
                                        THEN [tunnels[i] EXCEPT !.open = FALSE] ELSE tunnels[i]]
    /\ UNCHANGED losses

Dialer(e) == dialer_recv(e) \/ dialer_retry(e)
UplinkNext ==
    \/ \E e \in Ends : \/ \E t \in Ends \union {Nowhere} : set_node_args(e, t)
                       \/ dialer_recv(e) \/ dialer_retry(e) \/ connected(e) \/ connect_fails(e)
                       \/ Drop(e)
    \/ \E i \in DOMAIN tunnels : accept_loop(i) \/ Lost(i)

UplinkFairness == \A e \in Ends : /\ WF_uplinkVars(Dialer(e))
                                  /\ WF_uplinkVars(connected(e) \/ connect_fails(e))
                                  /\ WF_uplinkVars(\E i \in DOMAIN tunnels : tunnels[i].to = e /\ accept_loop(i))
UplinkSpec == UplinkInit /\ [][UplinkNext]_uplinkVars /\ UplinkFairness

-----------------------------------------------------------------------------
(* Properties.                                                                *)

Conn == [from : Ends, to : Ends, open : BOOLEAN, listed : SUBSET Ends]
UplinkTypeOK == /\ node_args \in [Ends -> Ends \union {Nowhere}]
                /\ dial_rx \in [Ends -> Seq(Ends \union {Nowhere})]
                /\ tunnels \in Seq(Conn)
                /\ target \in [Ends -> Ends \union {Nowhere}]
                /\ dialing \in [Ends -> Ends \union {Nowhere}]
                /\ alive \subseteq Ends

\* Once its ticket is cleared and the dialer has heard of it, an uplink has no
\* connection of its own dialing, also when the clearing came while a connect
\* was under way or after earlier ones (Uplink::dial: "it stops re-connecting
\* AND closes the connection it dialed").
UndialParts ==
    \A e \in Ends : node_args[e] = Nowhere /\ dial_rx[e] = <<>> /\ dialing[e] = Nowhere
        => \A i \in LiveConns(e, tunnels) : tunnels[i].from # e

\* An uplink whose ticket stays set has in the end a live connection, through
\* peers that are not up yet, connects that fail and connections that drop.
TunnelComesUp ==
    \A e \in Ends : <>[](node_args[e] \in alive /\ Len(tunnels) < MaxConns)
                        => <>[](LiveConns(e, tunnels) # {})

(* What does not hold.                                                        *)

\* server.rs, set_node_args: "this dials it live".  A new ticket is not dialed
\* while any connection is live, the old ticket's or one dialed in.
RetargetTakesEffect ==
    \A e, t \in Ends : <>[](node_args[e] = t /\ t \in alive /\ Len(tunnels) < MaxConns)
        => <>(\E i \in LiveConns(e, tunnels) : t \in {tunnels[i].from, tunnels[i].to})

\* Two uplinks that hold each other's ticket can both dial: every frame then
\* crosses twice.
OneTunnel == \A i, j \in {k \in DOMAIN tunnels : tunnels[k].open} :
                 {tunnels[i].from, tunnels[i].to} = {tunnels[j].from, tunnels[j].to} => i = j
=============================================================================
