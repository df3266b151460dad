---------------------------- MODULE FabricProofs ----------------------------
(* Proofs about the networks: the uplinks that join them, the fabric, and the *)
(* sockets of a node on it.                                                   *)
EXTENDS Fabric, IrohUplink, Sockets, SequenceTheorems, FiniteSetTheorems,
        WellFoundedInduction, TLAPS

(* That an undialled uplink keeps no tunnel of its own, for any number of     *)
(* uplinks, tickets, losses and connections.                                  *)
(*                                                                            *)
(* A ticket travels: from the document through the channel to the dialer's    *)
(* target.  Whatever is last on that way is the document's ticket; a target   *)
(* of none means that nothing this side dialed is live, because the dialer    *)
(* clears its target and closes what it dialed in one turn, and is connecting *)
(* only on behalf of a target; and a connection that is open is in the list   *)
(* of the side that dialed it, so that there is nothing the clearing misses.  *)

\* The last thing the dialer was told, or is about to hear.
Heading(e) == IF dial_rx[e] = <<>> THEN target[e] ELSE dial_rx[e][Len(dial_rx[e])]
TicketArrives == \A e \in Ends : Heading(e) = node_args[e]

DialsItsTarget == \A e \in Ends : target[e] = Nowhere => dialing[e] = Nowhere

\* An open connection is in the list of the side that dialed it.
DialerLists == \A i \in DOMAIN tunnels : tunnels[i].open => tunnels[i].from \in tunnels[i].listed

NoTargetNoTunnel ==
    \A e \in Ends : target[e] = Nowhere =>
        \A i \in DOMAIN tunnels : ~(tunnels[i].open /\ tunnels[i].from = e)

UplinkInv == UplinkTypeOK /\ TicketArrives /\ DialsItsTarget /\ DialerLists /\ NoTargetNoTunnel
-----------------------------------------------------------------------------
(* Lists of connections *)

LEMMA FunctionIsSeq ==
    ASSUME NEW S, NEW n \in Nat, NEW f \in [1..n -> S]
    PROVE  f \in Seq(S) /\ Len(f) = n /\ DOMAIN f = 1..n
OBVIOUS

\* What is last in a queue after a send, and after a receive.
LEMMA LastOfAppend ==
    ASSUME NEW S, NEW s \in Seq(S), NEW x \in S
    PROVE  /\ Append(s, x) \in Seq(S) /\ Append(s, x) # <<>>
           /\ Append(s, x)[Len(Append(s, x))] = x
BY AppendProperties

LEMMA LastOfTail ==
    ASSUME NEW S, NEW s \in Seq(S), s # <<>>
    PROVE  /\ Head(s) \in S /\ Tail(s) \in Seq(S)
           /\ Tail(s) = <<>> => s[Len(s)] = Head(s)
           /\ Tail(s) # <<>> => Tail(s)[Len(Tail(s))] = s[Len(s)]
<1>1. /\ Head(s) \in S /\ Tail(s) \in Seq(S) /\ Head(s) = s[1]
      /\ Len(s) \in Nat /\ Len(Tail(s)) = Len(s) - 1
      /\ \A i \in 1..Len(Tail(s)) : Tail(s)[i] = s[i + 1]
    BY HeadTailProperties, LenProperties
<1>2. ASSUME Tail(s) = <<>> PROVE s[Len(s)] = Head(s)
    <2>1. Len(Tail(s)) = 0
        BY <1>2, EmptySeq
    <2>2. Len(s) \in Nat /\ Len(Tail(s)) = Len(s) - 1
        BY <1>1
    <2>3. Len(s) = 1
        BY <2>1, <2>2
    <2> QED
        BY <1>1, <2>3
<1>3. ASSUME Tail(s) # <<>> PROVE Tail(s)[Len(Tail(s))] = s[Len(s)]
    <2>1. Len(Tail(s)) \in Nat \ {0}
        BY <1>1, <1>3, EmptySeq
    <2> QED
        BY <1>1, <2>1
<1> QED
    BY <1>1, <1>2, <1>3

LEMMA ConnsShape ==
    ASSUME NEW cs \in Seq(Conn)
    PROVE  /\ Len(cs) \in Nat /\ DOMAIN cs = 1..Len(cs)
           /\ \A i \in DOMAIN cs : cs[i] \in Conn
BY LenProperties, ElementOfSeq

\* What closing and unlisting do to one connection.
LEMMA ConnFields ==
    ASSUME NEW c \in Conn, NEW e \in Ends
    PROVE  /\ c.from \in Ends /\ c.to \in Ends /\ c.open \in BOOLEAN /\ c.listed \subseteq Ends
           /\ [c EXCEPT !.listed = @ \ {e}] \in Conn
           /\ [c EXCEPT !.listed = @ \union {e}] \in Conn
           /\ [c EXCEPT !.open = FALSE] \in Conn
           /\ [c EXCEPT !.open = FALSE, !.listed = @ \ {e}] \in Conn
BY DEF Conn

\* register keeps every connection, and the open ones as they are.
LEMMA RegisteredKeeps ==
    ASSUME NEW cs \in Seq(Conn), NEW e \in Ends
    PROVE  /\ Registered(cs, e) \in Seq(Conn) /\ Len(Registered(cs, e)) = Len(cs)
           /\ DOMAIN Registered(cs, e) = DOMAIN cs
           /\ \A i \in DOMAIN cs : /\ cs[i].open => Registered(cs, e)[i] = cs[i]
                                   /\ Registered(cs, e)[i].open = cs[i].open
<1>1. Registered(cs, e) \in [1..Len(cs) -> Conn]
    <2>1. \A i \in DOMAIN cs : Registered(cs, e)[i] \in Conn
        BY ConnsShape, ConnFields DEF Registered
    <2> QED
        BY <2>1, ConnsShape DEF Registered
<1>2. \A i \in DOMAIN cs : /\ cs[i].open => Registered(cs, e)[i] = cs[i]
                           /\ Registered(cs, e)[i].open = cs[i].open
    BY ConnsShape DEF Registered, Conn
<1>3. Len(cs) \in Nat /\ DOMAIN cs = 1..Len(cs)
    BY ConnsShape
<1>4. /\ Registered(cs, e) \in Seq(Conn) /\ Len(Registered(cs, e)) = Len(cs)
      /\ DOMAIN Registered(cs, e) = 1..Len(cs)
    BY <1>1, <1>3, FunctionIsSeq
<1>5. DOMAIN Registered(cs, e) = DOMAIN cs
    BY <1>3, <1>4
<1> QED
    BY <1>2, <1>4, <1>5, Zenon
-----------------------------------------------------------------------------
(* Steps *)

LEMMA InitUplink ==
    ASSUME UplinkInit
    PROVE  UplinkInv
<1>1. UplinkTypeOK
    <2>1. <<>> \in Seq(Conn) /\ <<>> \in Seq(Ends \union {Nowhere})
        BY EmptySeq
    <2> QED
        BY <2>1 DEF UplinkInit, UplinkTypeOK
<1>2. TicketArrives /\ DialsItsTarget
    BY DEF UplinkInit, TicketArrives, Heading, DialsItsTarget
<1>3. DialerLists /\ NoTargetNoTunnel
    BY DEF UplinkInit, DialerLists, NoTargetNoTunnel
<1> QED
    BY <1>1, <1>2, <1>3 DEF UplinkInv

\* The ticket is sent: it is the last on its way.
LEMMA SetStep ==
    ASSUME UplinkInv, NEW e \in Ends, NEW t \in Ends \union {Nowhere}, set_node_args(e, t)
    PROVE  UplinkInv'
<1> USE DEF UplinkInv
<1>1. /\ node_args' = [node_args EXCEPT ![e] = t]
      /\ dial_rx' = [dial_rx EXCEPT ![e] = Append(@, t)]
      /\ target' = target /\ dialing' = dialing /\ tunnels' = tunnels /\ alive' = alive
    BY DEF set_node_args
<1>2. /\ Append(dial_rx[e], t) \in Seq(Ends \union {Nowhere})
      /\ Append(dial_rx[e], t) # <<>>
      /\ Append(dial_rx[e], t)[Len(Append(dial_rx[e], t))] = t
    <2>1. dial_rx[e] \in Seq(Ends \union {Nowhere})
        BY DEF UplinkTypeOK
    <2> QED
        BY <2>1, LastOfAppend
<1>3. UplinkTypeOK'
    BY <1>1, <1>2 DEF UplinkTypeOK
<1>4. TicketArrives'
    BY <1>1, <1>2 DEF TicketArrives, Heading, UplinkTypeOK
<1>5. DialsItsTarget' /\ DialerLists' /\ NoTargetNoTunnel'
    BY <1>1 DEF DialsItsTarget, DialerLists, NoTargetNoTunnel
<1> QED
    BY <1>3, <1>4, <1>5

\* The dialer hears of a ticket; of none, it closes what it dialed.
LEMMA RecvStep ==
    ASSUME UplinkInv, NEW e \in Ends, dialer_recv(e)
    PROVE  UplinkInv'
<1> USE DEF UplinkInv
<1> DEFINE t == Head(dial_rx[e])
           Closed(c) == [c EXCEPT !.open = FALSE, !.listed = @ \ {e}]
<1>1. /\ dialing[e] = Nowhere /\ dial_rx[e] # <<>>
      /\ dial_rx' = [dial_rx EXCEPT ![e] = Tail(@)]
      /\ target' = [target EXCEPT ![e] = t]
      /\ node_args' = node_args /\ alive' = alive
    BY DEF dialer_recv
<1>2. /\ t \in Ends \union {Nowhere} /\ Tail(dial_rx[e]) \in Seq(Ends \union {Nowhere})
      /\ Tail(dial_rx[e]) = <<>> => dial_rx[e][Len(dial_rx[e])] = t
      /\ Tail(dial_rx[e]) # <<>> =>
            Tail(dial_rx[e])[Len(Tail(dial_rx[e]))] = dial_rx[e][Len(dial_rx[e])]
    <2>1. dial_rx[e] \in Seq(Ends \union {Nowhere})
        BY DEF UplinkTypeOK
    <2> QED
        BY <1>1, <2>1, LastOfTail
<1> HIDE DEF t
<1>3. /\ target'[e] = t
      /\ \A f \in Ends \ {e} : target'[f] = target[f]
    BY <1>1 DEF UplinkTypeOK
<1>4. dialing' = [dialing EXCEPT ![e] = IF t # Nowhere /\ LiveConns(e, tunnels') = {} THEN t ELSE Nowhere]
    <2>1. Connect(e, target'[e], tunnels')
        BY DEF dialer_recv
    <2>2. Connect(e, t, tunnels')
        BY <1>3, <2>1
    <2> QED
        BY <2>2 DEF Connect
<1>5. tunnels' = IF t # Nowhere THEN tunnels
               ELSE [i \in DOMAIN tunnels |->
                       IF tunnels[i].from = e /\ e \in tunnels[i].listed
                       THEN [tunnels[i] EXCEPT !.open = FALSE, !.listed = @ \ {e}] ELSE tunnels[i]]
    BY <1>3 DEF dialer_recv
<1>6. tunnels' \in Seq(Conn) /\ DOMAIN tunnels' = DOMAIN tunnels
    <2>1. CASE t # Nowhere
        BY <1>5, <2>1 DEF UplinkTypeOK
    <2>2. CASE t = Nowhere
        <3>1. tunnels' \in [1..Len(tunnels) -> Conn]
            BY <1>5, <2>2, ConnsShape, ConnFields DEF UplinkTypeOK
        <3> QED
            BY <3>1, ConnsShape, FunctionIsSeq DEF UplinkTypeOK
    <2> QED
        BY <2>1, <2>2
<1>7. \A i \in DOMAIN tunnels :
        \/ tunnels'[i] = tunnels[i]
        \/ /\ t = Nowhere /\ tunnels[i].from = e
           /\ tunnels'[i].open = FALSE /\ tunnels'[i].from = tunnels[i].from
    BY <1>5, ConnsShape DEF UplinkTypeOK, Conn
<1>8. t = Nowhere => \A i \in DOMAIN tunnels : tunnels[i].from = e /\ tunnels[i].open => tunnels'[i].open = FALSE
    BY <1>5, ConnsShape DEF UplinkTypeOK, Conn, DialerLists
<1>9. UplinkTypeOK'
    BY <1>1, <1>2, <1>4, <1>6 DEF UplinkTypeOK
<1>10. TicketArrives'
    BY <1>1, <1>2, <1>3 DEF TicketArrives, Heading, UplinkTypeOK
<1>11. DialsItsTarget'
    BY <1>3, <1>4 DEF DialsItsTarget, UplinkTypeOK
<1>12. DialerLists'
    BY <1>6, <1>7 DEF DialerLists
<1>13. NoTargetNoTunnel'
    <2> SUFFICES ASSUME NEW f \in Ends, target'[f] = Nowhere, NEW i \in DOMAIN tunnels,
                        tunnels'[i].open, tunnels'[i].from = f
                 PROVE  FALSE
        BY <1>6 DEF NoTargetNoTunnel
    <2>1. tunnels'[i] = tunnels[i]
        BY <1>7
    <2>2. CASE f = e
        BY <1>3, <1>8, <2>1, <2>2
    <2>3. CASE f # e
        BY <1>3, <2>1, <2>3 DEF NoTargetNoTunnel
    <2> QED
        BY <2>2, <2>3
<1> QED
    BY <1>9, <1>10, <1>11, <1>12, <1>13

LEMMA RetryStep ==
    ASSUME UplinkInv, NEW e \in Ends, dialer_retry(e)
    PROVE  UplinkInv'
<1> USE DEF UplinkInv
<1>1. /\ dialing' = [dialing EXCEPT ![e] =
                        IF target[e] # Nowhere /\ LiveConns(e, tunnels) = {} THEN target[e] ELSE Nowhere]
      /\ node_args' = node_args /\ dial_rx' = dial_rx /\ target' = target
      /\ tunnels' = tunnels /\ alive' = alive
    BY DEF dialer_retry, Connect
<1>2. UplinkTypeOK'
    BY <1>1 DEF UplinkTypeOK
<1>3. DialsItsTarget'
    BY <1>1 DEF DialsItsTarget, UplinkTypeOK
<1>4. TicketArrives' /\ DialerLists' /\ NoTargetNoTunnel'
    BY <1>1 DEF TicketArrives, Heading, DialerLists, NoTargetNoTunnel
<1> QED
    BY <1>2, <1>3, <1>4

\* A connection comes up: the dialer still has its target.
LEMMA ConnectedStep ==
    ASSUME UplinkInv, NEW e \in Ends, connected(e)
    PROVE  UplinkInv'
<1> USE DEF UplinkInv
<1> DEFINE new == [from |-> e, to |-> dialing[e], open |-> TRUE, listed |-> {e}]
           old == Registered(tunnels, e)
<1>1. /\ dialing[e] \in Ends /\ tunnels' = Append(old, new)
      /\ dialing' = [dialing EXCEPT ![e] = Nowhere]
      /\ node_args' = node_args /\ dial_rx' = dial_rx /\ target' = target /\ alive' = alive
    BY DEF connected, UplinkTypeOK
<1>2. target[e] # Nowhere
    BY <1>1, UplinkAssumption DEF DialsItsTarget
<1>3. new \in Conn /\ new.from = e /\ e \in new.listed
    BY <1>1 DEF Conn
<1>4. /\ old \in Seq(Conn) /\ Len(old) = Len(tunnels) /\ DOMAIN old = DOMAIN tunnels
      /\ \A i \in DOMAIN tunnels : /\ tunnels[i].open => old[i] = tunnels[i]
                                 /\ old[i].open = tunnels[i].open
    BY RegisteredKeeps DEF UplinkTypeOK
<1> HIDE DEF new, old
<1>5. /\ tunnels' \in Seq(Conn) /\ Len(tunnels) \in Nat /\ DOMAIN tunnels = 1..Len(tunnels)
      /\ DOMAIN tunnels' = 1..(Len(tunnels) + 1)
      /\ tunnels'[Len(tunnels) + 1] = new
      /\ \A i \in DOMAIN tunnels : tunnels'[i] = old[i]
    BY <1>1, <1>3, <1>4, ConnsShape, AppendProperties DEF UplinkTypeOK
<1>6. \A i \in DOMAIN tunnels' : tunnels'[i] = new \/ (i \in DOMAIN tunnels /\ tunnels'[i] = old[i])
    BY <1>5
<1>7. UplinkTypeOK'
    BY <1>1, <1>5 DEF UplinkTypeOK
<1>8. TicketArrives' /\ DialsItsTarget'
    BY <1>1 DEF TicketArrives, Heading, DialsItsTarget, UplinkTypeOK
<1>9. DialerLists'
    BY <1>3, <1>4, <1>6 DEF DialerLists
<1>10. NoTargetNoTunnel'
    BY <1>1, <1>2, <1>3, <1>4, <1>6 DEF NoTargetNoTunnel
<1> QED
    BY <1>7, <1>8, <1>9, <1>10

LEMMA FailsStep ==
    ASSUME UplinkInv, NEW e \in Ends, connect_fails(e)
    PROVE  UplinkInv'
<1> USE DEF UplinkInv
<1>1. /\ dialing' = [dialing EXCEPT ![e] = Nowhere]
      /\ node_args' = node_args /\ dial_rx' = dial_rx /\ target' = target
      /\ tunnels' = tunnels /\ alive' = alive
    BY DEF connect_fails
<1>2. UplinkTypeOK' /\ DialsItsTarget'
    BY <1>1 DEF UplinkTypeOK, DialsItsTarget
<1>3. TicketArrives' /\ DialerLists' /\ NoTargetNoTunnel'
    BY <1>1 DEF TicketArrives, Heading, DialerLists, NoTargetNoTunnel
<1> QED
    BY <1>2, <1>3

\* Steps that only close connections or list them on the other side.
LEMMA ConnsStep ==
    ASSUME UplinkInv, tunnels' \in Seq(Conn), DOMAIN tunnels' = DOMAIN tunnels,
           \A i \in DOMAIN tunnels : tunnels'[i].open =>
                /\ tunnels[i].open /\ tunnels'[i].from = tunnels[i].from
                /\ tunnels[i].listed \subseteq tunnels'[i].listed,
           node_args' = node_args, dial_rx' = dial_rx, target' = target,
           dialing' = dialing, alive' = alive
    PROVE  UplinkInv'
<1> USE DEF UplinkInv
<1>1. UplinkTypeOK'
    BY DEF UplinkTypeOK
<1>2. TicketArrives' /\ DialsItsTarget'
    BY DEF TicketArrives, Heading, DialsItsTarget
<1>3. DialerLists' /\ NoTargetNoTunnel'
    BY DEF DialerLists, NoTargetNoTunnel
<1> QED
    BY <1>1, <1>2, <1>3

LEMMA AcceptStep ==
    ASSUME UplinkInv, NEW i \in DOMAIN tunnels, accept_loop(i)
    PROVE  UplinkInv'
<1> DEFINE e == tunnels[i].to
           old == Registered(tunnels, e)
           new == [old[i] EXCEPT !.listed = @ \union {e}]
<1>1. e \in Ends /\ tunnels[i] \in Conn /\ tunnels[i].open
    BY ConnsShape, ConnFields DEF UplinkInv, UplinkTypeOK, accept_loop
<1>2. /\ old \in Seq(Conn) /\ Len(old) = Len(tunnels) /\ DOMAIN old = DOMAIN tunnels
      /\ \A j \in DOMAIN tunnels : /\ tunnels[j].open => old[j] = tunnels[j]
                                 /\ old[j].open = tunnels[j].open
    BY <1>1, RegisteredKeeps DEF UplinkInv, UplinkTypeOK
<1>3. tunnels' = [old EXCEPT ![i] = new]
    BY DEF accept_loop
<1>4. /\ new \in Conn /\ new.from = tunnels[i].from /\ tunnels[i].listed \subseteq new.listed
    <2>1. old[i] = tunnels[i]
        BY <1>1, <1>2
    <2> QED
        BY <1>1, <2>1, ConnFields DEF Conn
<1> HIDE DEF e, old, new
<1>5. tunnels' \in Seq(Conn) /\ DOMAIN tunnels' = DOMAIN tunnels
    BY <1>2, <1>3, <1>4, ConnsShape, ExceptSeq
<1>6. \A j \in DOMAIN tunnels : tunnels'[j] = IF j = i THEN new ELSE old[j]
    BY <1>2, <1>3
<1> QED
    BY <1>1, <1>2, <1>4, <1>5, <1>6, ConnsStep DEF accept_loop

LEMMA LostStep ==
    ASSUME UplinkInv, NEW i \in DOMAIN tunnels, Lost(i)
    PROVE  UplinkInv'
<1> DEFINE new == [tunnels[i] EXCEPT !.open = FALSE]
<1>1. /\ tunnels \in Seq(Conn) /\ tunnels[i] \in Conn /\ tunnels[i].from \in Ends
    BY ConnsShape DEF UplinkInv, UplinkTypeOK, Conn
<1>2. tunnels' = [tunnels EXCEPT ![i] = new]
    BY DEF Lost
<1>3. new \in Conn /\ ~new.open
    BY <1>1, ConnFields DEF Conn
<1> HIDE DEF new
<1>4. tunnels' \in Seq(Conn) /\ DOMAIN tunnels' = DOMAIN tunnels
    BY <1>1, <1>2, <1>3, ConnsShape, ExceptSeq
<1>5. \A j \in DOMAIN tunnels : tunnels'[j] = IF j = i THEN new ELSE tunnels[j]
    BY <1>2
<1> QED
    BY <1>3, <1>4, <1>5, ConnsStep DEF Lost

\* An uplink is dropped: its endpoint closes all that ends at it.
LEMMA DropStep ==
    ASSUME UplinkInv, NEW e \in Ends, Drop(e)
    PROVE  UplinkInv'
<1> USE DEF UplinkInv
<1>1. /\ alive' = alive \ {e}
      /\ node_args' = [node_args EXCEPT ![e] = Nowhere]
      /\ dial_rx' = [dial_rx EXCEPT ![e] = <<>>]
      /\ target' = [target EXCEPT ![e] = Nowhere]
      /\ dialing' = [dialing EXCEPT ![e] = Nowhere]
      /\ tunnels' = [i \in DOMAIN tunnels |-> IF e \in {tunnels[i].from, tunnels[i].to}
                                          THEN [tunnels[i] EXCEPT !.open = FALSE] ELSE tunnels[i]]
    BY DEF Drop
<1>2. tunnels' \in Seq(Conn) /\ DOMAIN tunnels' = DOMAIN tunnels
    <2>1. tunnels' \in [1..Len(tunnels) -> Conn]
        BY <1>1, ConnsShape, ConnFields DEF UplinkTypeOK
    <2> QED
        BY <2>1, ConnsShape, FunctionIsSeq DEF UplinkTypeOK
<1>3. \A i \in DOMAIN tunnels : tunnels'[i].open => tunnels'[i] = tunnels[i] /\ tunnels[i].from # e
    BY <1>1, ConnsShape DEF UplinkTypeOK, Conn
<1>4. UplinkTypeOK'
    BY <1>1, <1>2, EmptySeq DEF UplinkTypeOK
<1>5. TicketArrives' /\ DialsItsTarget'
    BY <1>1 DEF TicketArrives, Heading, DialsItsTarget, UplinkTypeOK
<1>6. DialerLists'
    BY <1>2, <1>3 DEF DialerLists
<1>7. NoTargetNoTunnel'
    BY <1>1, <1>2, <1>3 DEF NoTargetNoTunnel, UplinkTypeOK
<1> QED
    BY <1>4, <1>5, <1>6, <1>7

LEMMA UplinkStep ==
    ASSUME UplinkInv, [UplinkNext]_uplinkVars
    PROVE  UplinkInv'
<1>1. CASE UNCHANGED uplinkVars
    BY <1>1 DEF uplinkVars, UplinkInv, UplinkTypeOK, TicketArrives, Heading, DialsItsTarget, DialerLists, NoTargetNoTunnel
<1> QED
    BY <1>1, SetStep, RecvStep, RetryStep, ConnectedStep, FailsStep, AcceptStep, LostStep, DropStep DEF UplinkNext

-----------------------------------------------------------------------------
\* The uplinks' state keeps its type, whatever is dialed, lost and dropped.
THEOREM UplinkTypeCorrect == UplinkSpec => []UplinkTypeOK
<1>1. UplinkInit => UplinkInv
    BY InitUplink
<1>2. UplinkInv /\ [UplinkNext]_uplinkVars => UplinkInv'
    BY UplinkStep
<1>3. UplinkInv => UplinkTypeOK
    BY DEF UplinkInv
<1> QED
    BY <1>1, <1>2, <1>3, PTL DEF UplinkSpec

\* Uplink::dial("") against the dialer: once a cleared ticket has been heard of,
\* no connection this uplink dialed is live, whatever connect was under way
\* when it was cleared.
THEOREM UndialledIsParted == UplinkSpec => []UndialParts
<1>1. UplinkInit => UplinkInv
    BY InitUplink
<1>2. UplinkInv /\ [UplinkNext]_uplinkVars => UplinkInv'
    BY UplinkStep
<1>3. UplinkInv => UndialParts
    BY DEF UplinkInv, TicketArrives, Heading, NoTargetNoTunnel, UndialParts, LiveConns
<1> QED
    BY <1>1, <1>2, <1>3, PTL DEF UplinkSpec

-----------------------------------------------------------------------------
(***************************************************************************)
(* The isolation boundary of the fabric, for any number of servers, nodes, *)
(* nets, routers, trunks and frames.                                       *)
(*                                                                         *)
(* A net, a route, a bridge or a queued frame may be out of date when the  *)
(* driver uses it: the server thread rewires in between.  What never goes  *)
(* out of date is that the wire was once there.  So each of them is tied   *)
(* to `ever`, which only grows: a stack's and a trunk's net, the nets of a *)
(* router's port, the routes and bridges the driver has noted in this      *)
(* step, the net a frame is tagged with, and, once a frame has left by a   *)
(* trunk, that its sender had shared a net with that trunk, and then that  *)
(* the trunk was tunnelled to the one it comes in by.  What came in by a   *)
(* trunk leaves by none, so there is one tunnel to account for.            *)
(***************************************************************************)

Spots == Apps \cup Trunks \cup Nets \cup {Off}
Route == [app : Apps, net : Spots, ip : Octets]
HubState == [at : {"idle", "poll", "deliver"}, todo : Seq(Apps),
             routes : Seq(Route), bridges : SUBSET SUBSET Nets, trunks : SUBSET Trunks,
             out : Seq(Spots \X Frame \X BOOLEAN)]

ServerTypes ==
  /\ links \subseteq Members \X Nets
  /\ net \in [Apps \cup Trunks -> Spots]
  /\ ip \in [Apps -> Octets]
  /\ stacks \in [Hubs -> Seq(Apps)]
  /\ ports \in [Routers -> SUBSET Nets]

FrameTypes ==
  /\ tx \in [Apps -> Seq(Frame)]
  /\ hub \in [Hubs -> HubState]
  /\ tout \in [Trunks -> Seq(Frame)]
  /\ tin \in [Trunks -> Seq(Frame)]
  /\ conns \in [live : SUBSET (Trunks \X Trunks), made : SUBSET (Trunks \X Trunks)]
  /\ conns.live \subseteq conns.made
  /\ \A p \in air : p[2] \in Trunks /\ p[3] \in Frame

-----------------------------------------------------------------------------
(* The server's side: what is wired, and what follows the wires. *)

OneNetEach == \A k, l \in links : k[1] = l[1] /\ k[1] \notin Routers => k = l
AllowedOnce == \A l \in links : l \in allowed => l \in ever
NetWasWired == \A m \in Apps \cup Trunks : net[m] # Off => net[m] \in NetsEver(m)
TrunksAreUp == \A x \in Trunks : net[x] # Off
PortWasWired == \A r \in Routers : ports[r] \subseteq NetsEver(r)
StacksAreUp == \A h \in Hubs : \A a \in Range(stacks[h]) : HubOf[a] = h /\ net[a] # Off

ServerInv == ServerTypes /\ OneNetEach /\ AllowedOnce /\ NetWasWired /\ TrunksAreUp
             /\ PortWasWired /\ StacksAreUp

-----------------------------------------------------------------------------
(* The driver's side: what is on its way. *)

SentByItsOwn == \A a \in Apps : \A f \in Range(tx[a]) : f.src = a
TodoIsUp == \A h \in Hubs : \A a \in Range(hub[h].todo) : HubOf[a] = h /\ net[a] # Off
RouteWasWired ==
  \A h \in Hubs : \A r \in Range(hub[h].routes) : HubOf[r.app] = h /\ r.net \in NetsEver(r.app)
BridgeWasWired ==
  \A h \in Hubs : \A b \in hub[h].bridges : \E r \in Routers : b \subseteq NetsEver(r)

(* The net a collected frame is tagged with: one of the trunk it came in   *)
(* by, to which it crossed, or one of its sender.                          *)
Tagged(h, o) ==
  IF o[3] THEN \E x \in TrunksOf(h) : o[1] \in NetsEver(x) /\ Crossed(o[2].src, x)
  ELSE HubOf[o[2].src] = h /\ o[1] \in NetsEver(o[2].src)

TagWasWired == \A h \in Hubs : \A o \in Range(hub[h].out) : Tagged(h, o)
OwnTrunks == \A h \in Hubs : hub[h].trunks \subseteq TrunksOf(h)
LeftByTrunk == \A x \in Trunks : \A f \in Range(tout[x]) : Shared(f.src, x)
CameIn == \A x \in Trunks : \A f \in Range(tin[x]) : Crossed(f.src, x)
InTheAir == \A p \in air : Crossed(p[3].src, p[2])

FrameInv == FrameTypes /\ SentByItsOwn /\ TodoIsUp /\ RouteWasWired /\ BridgeWasWired
            /\ TagWasWired /\ OwnTrunks /\ LeftByTrunk /\ CameIn /\ InTheAir /\ DeliveredWhereWired

FabricInv == ServerInv /\ FrameInv
-----------------------------------------------------------------------------
(* Sequences, by the set of their members *)

LEMMA RangeIn ==
  ASSUME NEW S, NEW s \in Seq(S)
  PROVE  /\ Range(s) \subseteq S
         /\ \A i \in 1..Len(s) : s[i] \in Range(s)
         /\ \A x \in Range(s) : \E i \in 1..Len(s) : s[i] = x
BY LenProperties, ElementOfSeq DEF Range

LEMMA RangeEmpty == Range(<<>>) = {}
BY DEF Range

LEMMA RangeOfFunction ==
  ASSUME NEW S, NEW n \in Nat, NEW f \in [1..n -> S]
  PROVE  /\ f \in Seq(S) /\ Len(f) = n
         /\ \A x \in Range(f) : \E i \in 1..n : x = f[i]
BY DEF Range

LEMMA RangeAppend ==
  ASSUME NEW S, NEW s \in Seq(S), NEW x \in S
  PROVE  Append(s, x) \in Seq(S) /\ Range(Append(s, x)) \subseteq Range(s) \cup {x}
<1>1. /\ Append(s, x) \in Seq(S) /\ Len(Append(s, x)) = Len(s) + 1
      /\ \A i \in 1..Len(s) : Append(s, x)[i] = s[i]
      /\ Append(s, x)[Len(s) + 1] = x
      /\ Len(s) \in Nat
  BY AppendProperties, LenProperties
<1>2. ASSUME NEW y \in Range(Append(s, x)) PROVE y \in Range(s) \cup {x}
  <2>1. PICK i \in 1..(Len(s) + 1) : Append(s, x)[i] = y
    BY <1>1, <1>2, RangeIn
  <2>2. CASE i = Len(s) + 1
    BY <1>1, <2>1, <2>2
  <2>3. CASE i # Len(s) + 1
    <3>1. i \in 1..Len(s)
      BY <1>1, <2>3
    <3> QED
      BY <1>1, <2>1, <3>1, RangeIn
  <2> QED
    BY <2>2, <2>3
<1> QED
  BY <1>1, <1>2

LEMMA RangeTail ==
  ASSUME NEW S, NEW s \in Seq(S), s # <<>>
  PROVE  /\ Head(s) \in Range(s)
         /\ Tail(s) \in Seq(S) /\ Range(Tail(s)) \subseteq Range(s)
<1>1. /\ Tail(s) \in Seq(S) /\ Len(Tail(s)) = Len(s) - 1 /\ Len(s) \in Nat
      /\ \A i \in 1..Len(Tail(s)) : Tail(s)[i] = s[i + 1]
  BY HeadTailProperties, LenProperties
<1>2. Head(s) \in Range(s)
  <2>1. Len(s) \in Nat \ {0}
    BY EmptySeq
  <2>2. Head(s) = s[1] /\ 1 \in 1..Len(s)
    BY <2>1
  <2> QED
    BY <2>2, RangeIn
<1>3. ASSUME NEW y \in Range(Tail(s)) PROVE y \in Range(s)
  <2>1. PICK i \in 1..Len(Tail(s)) : Tail(s)[i] = y
    BY <1>1, <1>3, RangeIn
  <2>2. s[i + 1] = y /\ i + 1 \in 1..Len(s)
    BY <1>1, <2>1
  <2> QED
    BY <2>2, RangeIn
<1> QED
  BY <1>1, <1>2, <1>3

LEMMA RangeConcat ==
  ASSUME NEW S, NEW s \in Seq(S), NEW t \in Seq(S)
  PROVE  s \o t \in Seq(S) /\ Range(s \o t) \subseteq Range(s) \cup Range(t)
<1>1. /\ s \o t \in Seq(S) /\ Len(s \o t) = Len(s) + Len(t)
      /\ Len(s) \in Nat /\ Len(t) \in Nat
      /\ \A i \in 1..(Len(s) + Len(t)) :
           (s \o t)[i] = IF i <= Len(s) THEN s[i] ELSE t[i - Len(s)]
  BY ConcatProperties, LenProperties
<1>2. ASSUME NEW y \in Range(s \o t) PROVE y \in Range(s) \cup Range(t)
  <2>1. PICK i \in 1..(Len(s) + Len(t)) : (s \o t)[i] = y
    BY <1>1, <1>2, RangeIn
  <2>2. CASE i <= Len(s)
    <3>1. i \in 1..Len(s) /\ y = s[i]
      BY <1>1, <2>1, <2>2
    <3> QED
      BY <3>1, RangeIn
  <2>3. CASE ~(i <= Len(s))
    <3>1. i - Len(s) \in 1..Len(t) /\ y = t[i - Len(s)]
      BY <1>1, <2>1, <2>3
    <3> QED
      BY <3>1, RangeIn
  <2> QED
    BY <2>2, <2>3
<1> QED
  BY <1>1, <1>2

LEMMA RangeSubSeq ==
  ASSUME NEW S, NEW s \in Seq(S), NEW m \in Nat \ {0}, NEW n \in Nat, n <= Len(s)
  PROVE  SubSeq(s, m, n) \in Seq(S) /\ Range(SubSeq(s, m, n)) \subseteq Range(s)
<1>1. \A i \in m..n : s[i] \in Range(s)
  BY LenProperties, RangeIn
<1>2. SubSeq(s, m, n) \in Seq(Range(s))
  BY <1>1, SubSeqProperties, LenProperties
<1> QED
  BY <1>2, RangeIn, SeqMonotonic

\* detach drops an entry and adds none.
LEMMA Detached ==
  ASSUME NEW S, NEW s \in Seq(S), NEW a
  PROVE  detach(s, a) \in Seq(S) /\ Range(detach(s, a)) \subseteq Range(s)
<1>1. CASE ~ \E i \in DOMAIN s : s[i] = a
  BY <1>1 DEF detach
<1>2. CASE \E i \in DOMAIN s : s[i] = a
  <2> DEFINE i == CHOOSE j \in DOMAIN s : s[j] = a
  <2>1. i \in 1..Len(s) /\ Len(s) \in Nat
    BY <1>2, LenProperties
  <2>2. detach(s, a) = SubSeq(s, 1, i - 1) \o SubSeq(s, i + 1, Len(s))
    BY <1>2 DEF detach, RemoveAt
  <2> HIDE DEF i
  <2>3. i - 1 \in Nat /\ i - 1 <= Len(s) /\ i + 1 \in Nat \ {0} /\ Len(s) <= Len(s) /\ 1 \in Nat \ {0}
    BY <2>1
  <2>4. SubSeq(s, 1, i - 1) \in Seq(S) /\ Range(SubSeq(s, 1, i - 1)) \subseteq Range(s)
    BY <2>3, RangeSubSeq
  <2>5. SubSeq(s, i + 1, Len(s)) \in Seq(S) /\ Range(SubSeq(s, i + 1, Len(s))) \subseteq Range(s)
    BY <2>1, <2>3, RangeSubSeq
  <2> DEFINE p == SubSeq(s, 1, i - 1)
             q == SubSeq(s, i + 1, Len(s))
  <2>6. /\ p \in Seq(S) /\ Range(p) \subseteq Range(s)
        /\ q \in Seq(S) /\ Range(q) \subseteq Range(s) /\ detach(s, a) = p \o q
    BY <2>2, <2>4, <2>5
  <2> HIDE DEF p, q
  <2>7. p \o q \in Seq(S) /\ Range(p \o q) \subseteq Range(p) \cup Range(q)
    BY <2>6, RangeConcat
  <2> QED
    BY <2>6, <2>7
<1> QED
  BY <1>1, <1>2

\* A set listed in some order.
LEMMA Listed ==
  ASSUME NEW S, IsFiniteSet(S)
  PROVE  SetToSeq(S) \in Seq(S)
<1>1. /\ Cardinality(S) \in Nat /\ ExistsBijection(1..Cardinality(S), S)
  BY FS_CardinalityType
<1>2. \E f \in [1..Cardinality(S) -> S] : IsInjective(f)
  BY <1>1 DEF ExistsBijection, Bijection, Injection
<1>3. SetToSeq(S) \in [1..Cardinality(S) -> S]
  BY <1>2 DEF SetToSeq
<1> QED
  BY <1>1, <1>3
-----------------------------------------------------------------------------
(* What was once wired stays so *)

\* A bridge joins no more nets than the router once was on: what is reachable
\* over the bridges is reachable over those.
LEMMA ClosureGrows ==
  ASSUME NEW B, NEW C, NEW n, \A b \in B : \E c \in C : b \subseteq c
  PROVE  Closure(B, n) \subseteq Closure(C, n)
<1> DEFINE allB == {n} \cup UNION B
           allC == {n} \cup UNION C
<1>1. allB \subseteq allC
  OBVIOUS
<1>2. ASSUME NEW m \in Closure(B, n), NEW S \in SUBSET allC, n \in S, Bridged(C, S)
      PROVE  m \in S
  <2>1. n \in S \cap allB /\ S \cap allB \in SUBSET allB
    BY <1>2
  <2>2. Bridged(B, S \cap allB)
    <3> SUFFICES ASSUME NEW b \in B, b \cap (S \cap allB) # {}
                 PROVE  b \subseteq S \cap allB
      BY DEF Bridged
    <3>1. PICK c \in C : b \subseteq c
      OBVIOUS
    <3>2. c \subseteq S
      BY <1>2, <3>1 DEF Bridged
    <3> QED
      BY <3>1, <3>2
  <2> QED
    BY <1>2, <2>1, <2>2 DEF Closure
<1>3. \A m \in Closure(B, n) : m \in allB
  BY DEF Closure
<1> QED
  BY <1>1, <1>2, <1>3 DEF Closure

LEMMA ClosureHolds ==
  ASSUME NEW B, NEW n
  PROVE  n \in Closure(B, n)
BY DEF Closure

LEMMA EverGrows ==
  ASSUME ever \subseteq ever', conns.made \subseteq conns'.made
  PROVE  /\ \A m : NetsEver(m) \subseteq NetsEver(m)'
         /\ \A a, x : Shared(a, x) => Shared(a, x)'
         /\ \A a, x : Crossed(a, x) => Crossed(a, x)'
         /\ \A h, o : Tagged(h, o) => Tagged(h, o)'
         /\ \A a, b : Reached(a, b) => Reached(a, b)'
<1>1. \A m : NetsEver(m) \subseteq NetsEver(m)'
  BY DEF NetsEver
<1>2. \A b \in BridgesEver : \E c \in BridgesEver' : b \subseteq c
  BY <1>1 DEF BridgesEver
<1>3. \A n : Closure(BridgesEver, n) \subseteq Closure(BridgesEver', n)
  BY <1>2, ClosureGrows
<1>4. \A m : ReachEver(m) \subseteq ReachEver(m)'
  BY <1>1, <1>3 DEF ReachEver
<1>5. \A h : TrunksOf(h)' = TrunksOf(h)
  BY DEF TrunksOf
<1>6. \A a, x : Shared(a, x) => Shared(a, x)'
  BY <1>1 DEF Shared
<1>7. \A a, x : Crossed(a, x) => Crossed(a, x)'
  <2> SUFFICES ASSUME NEW a, NEW x, Crossed(a, x) PROVE Crossed(a, x)'
    OBVIOUS
  <2>1. PICK y \in Trunks : Shared(a, y) /\ conns.made \cap Between(y, x) # {}
    BY DEF Crossed
  <2>2. conns'.made \cap Between(y, x) # {} /\ Between(y, x)' = Between(y, x)
    BY <2>1 DEF Between
  <2> QED
    BY <1>6, <2>1, <2>2 DEF Crossed
<1>8. \A h, o : Tagged(h, o) => Tagged(h, o)'
  BY <1>1, <1>5, <1>7 DEF Tagged
<1>9. \A a, b : Reached(a, b) => Reached(a, b)'
  BY <1>1, <1>4, <1>5, <1>7 DEF Reached
<1> QED
  BY <1>1, <1>6, <1>7, <1>8, <1>9
-----------------------------------------------------------------------------
(* The server's steps *)

\* The net a member is put on is its own, or one it is wired to and allowed on.
LEMMA WantNetIsWired ==
  ASSUME FabricAssumption, NEW ls \in SUBSET (Members \X Nets), NEW E,
         \A k, l \in ls : k[1] = l[1] /\ k[1] \notin Routers => k = l,
         \A l \in ls : l \in allowed => l \in E,
         NEW m \in Apps \cup Trunks
  PROVE  \/ WantNet(ls, m) = m
         \/ WantNet(ls, m) \in Nets /\ <<m, WantNet(ls, m)>> \in E
<1>1. m \notin Routers
  BY DEF FabricAssumption
<1>2. CASE \E n \in Nets : <<m, n>> \in ls /\ node_may_use(m, n)
  <2>1. PICK n \in Nets : <<m, n>> \in ls /\ <<m, n>> \in allowed
    BY <1>2 DEF node_may_use
  <2>2. WantNet(ls, m) \in Nets /\ <<m, WantNet(ls, m)>> \in ls
    BY <1>2 DEF WantNet
  <2>3. <<m, WantNet(ls, m)>> = <<m, n>>
    BY <1>1, <2>1, <2>2
  <2> QED
    BY <2>1, <2>2, <2>3
<1>3. CASE ~ \E n \in Nets : <<m, n>> \in ls /\ node_may_use(m, n)
  BY <1>3 DEF WantNet
<1> QED
  BY <1>2, <1>3

LEMMA RouterNetsAreWired ==
  ASSUME NEW ls, NEW E, \A l \in ls : l \in allowed => l \in E, NEW r \in Routers
  PROVE  /\ RouterNets(ls, r) \in SUBSET Nets
         /\ \A n \in RouterNets(ls, r) : <<r, n>> \in E
BY DEF RouterNets, node_may_use

\* What is on its way is not disturbed by a rewiring.
LEMMA RewiredFrames ==
  ASSUME FabricInv, ever \subseteq ever',
         \A m \in Apps \cup Trunks : net[m] # Off => net'[m] # Off,
         tx' = tx, hub' = hub, tout' = tout, tin' = tin, air' = air, got' = got,
         conns' = conns
  PROVE  FrameInv'
<1> USE DEF FabricInv, FrameInv
<1>1. FrameTypes' /\ SentByItsOwn'
  BY DEF FrameTypes, SentByItsOwn
<1>2. /\ \A m : NetsEver(m) \subseteq NetsEver(m)'
      /\ \A a, x : Shared(a, x) => Shared(a, x)'
      /\ \A a, x : Crossed(a, x) => Crossed(a, x)'
      /\ \A h, o : Tagged(h, o) => Tagged(h, o)'
      /\ \A a, b : Reached(a, b) => Reached(a, b)'
  BY EverGrows
<1>3. TodoIsUp'
  <2>1. \A h \in Hubs : Range(hub[h].todo) \subseteq Apps
    BY RangeIn DEF FrameTypes, HubState
  <2> QED
    BY <2>1 DEF TodoIsUp
<1>4. RouteWasWired' /\ BridgeWasWired'
  BY <1>2 DEF RouteWasWired, BridgeWasWired
<1>5. TagWasWired' /\ LeftByTrunk' /\ CameIn' /\ InTheAir'
  BY <1>2 DEF TagWasWired, LeftByTrunk, CameIn, InTheAir
<1>6. OwnTrunks'
  BY DEF OwnTrunks, TrunksOf
<1>7. DeliveredWhereWired'
  BY <1>2 DEF DeliveredWhereWired
<1> QED
  BY <1>1, <1>3, <1>4, <1>5, <1>6, <1>7

LEMMA PickAddressStep ==
  ASSUME FabricAssumption, FabricInv, NEW a \in Apps, PickAddress(a)
  PROVE  FabricInv'
<1> USE DEF FabricInv
<1>1. alloc_ip(HubOf[a], Seed[a]) \subseteq Octets
  <2>1. Seed[a] \in Octets /\ Seed[a] \in Nat
    BY DEF FabricAssumption, Octets
  <2>2. \A k \in 0..(OctetCount - 1) : AfterSteps(Seed[a], k) \in Octets
    <3> SUFFICES ASSUME NEW k \in 0..(OctetCount - 1)
                 PROVE  AfterSteps(Seed[a], k) \in Octets
      OBVIOUS
    <3>1. (Seed[a] - FirstOctet + k) % OctetCount \in 0..(OctetCount - 1)
      BY <2>1 DEF FabricAssumption
    <3> QED
      BY <3>1 DEF AfterSteps, Octets, FabricAssumption
  <2> QED
    BY <2>1, <2>2 DEF alloc_ip
<1>2. /\ ip' \in [Apps -> Octets]
      /\ links' = links /\ allowed' = allowed /\ net' = net /\ ports' = ports /\ ever' = ever
      /\ stacks' = stacks
      /\ tx' = tx /\ hub' = hub /\ tout' = tout /\ tin' = tin /\ got' = got /\ air' = air
      /\ conns' = conns
  BY <1>1 DEF PickAddress, hubVars, ServerInv, ServerTypes
<1>3. ServerInv'
  <2> USE DEF ServerInv
  <2>1. ServerTypes'
    BY <1>2 DEF ServerTypes
  <2>2. \A m : NetsEver(m)' = NetsEver(m)
    BY <1>2 DEF NetsEver
  <2> QED
    BY <1>2, <2>1, <2>2 DEF OneNetEach, AllowedOnce, NetWasWired, TrunksAreUp, PortWasWired, StacksAreUp
<1> QED
  BY <1>2, <1>3, RewiredFrames

LEMMA AttachStep ==
  ASSUME FabricAssumption, FabricInv, NEW a \in Apps, Attach(a)
  PROVE  FabricInv'
<1> USE DEF FabricInv, ServerInv
<1>1. /\ net' = [net EXCEPT ![a] = a]
      /\ stacks' = [stacks EXCEPT ![HubOf[a]] = Append(@, a)]
      /\ links' = links /\ allowed' = allowed /\ ports' = ports /\ ever' = ever /\ ip' = ip
      /\ tx' = tx /\ hub' = hub /\ tout' = tout /\ tin' = tin /\ got' = got /\ air' = air
      /\ conns' = conns
  BY DEF Attach
<1>2. a # Off /\ HubOf[a] \in Hubs
  BY DEF FabricAssumption, Members
<1>3. \A m : NetsEver(m)' = NetsEver(m)
  BY <1>1 DEF NetsEver
<1>4. \A m \in Apps \cup Trunks : net'[m] = IF m = a THEN a ELSE net[m]
  BY <1>1 DEF ServerTypes
<1>5. /\ stacks' \in [Hubs -> Seq(Apps)]
      /\ \A h \in Hubs : \A b \in Range(stacks'[h]) :
           b \in Range(stacks[h]) \/ (h = HubOf[a] /\ b = a)
  <2>1. /\ stacks[HubOf[a]] \in Seq(Apps)
        /\ \A h \in Hubs : stacks'[h] = IF h = HubOf[a] THEN Append(stacks[h], a) ELSE stacks[h]
    BY <1>1, <1>2 DEF ServerTypes
  <2>2. /\ Append(stacks[HubOf[a]], a) \in Seq(Apps)
        /\ Range(Append(stacks[HubOf[a]], a)) \subseteq Range(stacks[HubOf[a]]) \cup {a}
    BY <2>1, RangeAppend
  <2>3. stacks' \in [Hubs -> Seq(Apps)]
    BY <1>1, <2>2 DEF ServerTypes
  <2> QED
    BY <2>1, <2>2, <2>3
<1>6. ServerTypes'
  BY <1>1, <1>5 DEF ServerTypes, Spots
<1>7. OneNetEach' /\ AllowedOnce' /\ PortWasWired'
  BY <1>1, <1>3 DEF OneNetEach, AllowedOnce, PortWasWired
<1>8. NetWasWired' /\ TrunksAreUp'
  BY <1>2, <1>3, <1>4 DEF NetWasWired, TrunksAreUp, NetsEver
<1>9. StacksAreUp'
  <2>1. \A h \in Hubs : Range(stacks[h]) \subseteq Apps
    BY RangeIn DEF ServerTypes
  <2> SUFFICES ASSUME NEW h \in Hubs, NEW b \in Range(stacks'[h])
               PROVE  HubOf[b] = h /\ net'[b] # Off
    BY DEF StacksAreUp
  <2>2. CASE b \in Range(stacks[h])
    BY <1>2, <1>4, <2>1, <2>2 DEF StacksAreUp
  <2>3. CASE h = HubOf[a] /\ b = a
    BY <1>2, <1>4, <2>3
  <2> QED
    BY <1>5, <2>2, <2>3
<1>10. \A m \in Apps \cup Trunks : net[m] # Off => net'[m] # Off
  BY <1>2, <1>4
<1> QED
  BY <1>1, <1>6, <1>7, <1>8, <1>9, <1>10, RewiredFrames

LEMMA CloseStep ==
  ASSUME FabricAssumption, FabricInv, NEW a \in Apps, Close(a)
  PROVE  FabricInv'
<1> USE DEF FabricInv, ServerInv
<1>1. /\ links' \subseteq links
      /\ stacks' = [stacks EXCEPT ![HubOf[a]] = detach(@, a)]
      /\ net' = net /\ allowed' = allowed /\ ports' = ports /\ ever' = ever /\ ip' = ip
      /\ tx' = tx /\ hub' = hub /\ tout' = tout /\ tin' = tin /\ got' = got /\ air' = air
      /\ conns' = conns
  BY DEF Close
<1>2. /\ stacks' \in [Hubs -> Seq(Apps)]
      /\ \A h \in Hubs : Range(stacks'[h]) \subseteq Range(stacks[h])
  <2>1. /\ \A h \in Hubs : stacks[h] \in Seq(Apps)
        /\ \A h \in Hubs : stacks'[h] = IF h = HubOf[a] THEN detach(stacks[h], a) ELSE stacks[h]
    BY <1>1 DEF ServerTypes
  <2>2. \A h \in Hubs : /\ detach(stacks[h], a) \in Seq(Apps)
                        /\ Range(detach(stacks[h], a)) \subseteq Range(stacks[h])
    BY <2>1, Detached
  <2> QED
    BY <1>1, <2>1, <2>2 DEF ServerTypes
<1>3. \A m : NetsEver(m)' = NetsEver(m)
  BY <1>1 DEF NetsEver
<1>4. ServerTypes' /\ StacksAreUp'
  BY <1>1, <1>2 DEF ServerTypes, StacksAreUp
<1>5. OneNetEach' /\ AllowedOnce' /\ PortWasWired' /\ NetWasWired' /\ TrunksAreUp'
  BY <1>1, <1>3 DEF OneNetEach, AllowedOnce, PortWasWired, NetWasWired, TrunksAreUp
<1> QED
  BY <1>1, <1>4, <1>5, RewiredFrames

\* A wire drawn or cut: its member follows, if its token allows it.
LEMMA ToggleStep ==
  ASSUME FabricAssumption, FabricInv, NEW m \in Members, NEW n \in Nets, Toggle(m, n)
  PROVE  FabricInv'
<1> USE DEF FabricInv, ServerInv
<1>1. /\ ever' = ever \cup {l \in links' : l \in allowed}
      /\ allowed' = allowed /\ ip' = ip /\ stacks' = stacks
      /\ tx' = tx /\ hub' = hub /\ tout' = tout /\ tin' = tin /\ got' = got /\ air' = air
      /\ conns' = conns
  BY DEF Toggle, hubVars, AuthPairs
<1>2. \A x : NetsEver(x) \subseteq NetsEver(x)'
  BY <1>1, EverGrows
<1>3. AllowedOnce'
  BY <1>1 DEF AllowedOnce
<1>4. links' \subseteq Members \X Nets /\ OneNetEach'
  <2>1. CASE m \in Routers
    <3>1. links' = toggle_pair(links, m, n)
      BY <2>1 DEF Toggle
    <3> QED
      BY <2>1, <3>1 DEF toggle_pair, ServerTypes, OneNetEach
  <2>2. CASE m \notin Routers
    <3>1. links' = toggle_unique(links, m, n)
      BY <2>2 DEF Toggle
    <3>2. links' \subseteq Members \X Nets
      BY <3>1 DEF toggle_unique, ServerTypes
    <3>3. \A l \in links' : \/ l \in links
                            \/ l = <<m, n>> /\ \A k \in links' : k[1] = m => k = l
      BY <3>1 DEF toggle_unique
    <3>4. OneNetEach'
      BY <3>3 DEF OneNetEach
    <3> QED
      BY <3>2, <3>4
  <2> QED
    BY <2>1, <2>2
<1>5. /\ ports' \in [Routers -> SUBSET Nets] /\ PortWasWired'
  <2>1. CASE m \in Routers
    <3>1. ports' = sync_routers(links', HubOf[m])
      BY <2>1 DEF Toggle
    <3>2. \A r \in Routers : /\ RouterNets(links', r) \in SUBSET Nets
                             /\ \A k \in RouterNets(links', r) : <<r, k>> \in ever'
      BY <1>1, RouterNetsAreWired
    <3>3. \A r \in Routers : ports'[r] = ports[r] \/ ports'[r] = RouterNets(links', r)
      BY <3>1 DEF sync_routers
    <3>4. ASSUME NEW r \in Routers PROVE ports'[r] \in SUBSET Nets
      <4>1. CASE ports'[r] = ports[r]
        BY <4>1 DEF ServerTypes
      <4>2. CASE ports'[r] = RouterNets(links', r)
        BY <3>2, <4>2
      <4> QED
        BY <3>3, <4>1, <4>2
    <3>5. ports' \in [Routers -> SUBSET Nets]
      BY <3>1, <3>4 DEF sync_routers
    <3>6. ASSUME NEW r \in Routers PROVE ports'[r] \subseteq NetsEver(r)'
      <4>1. CASE ports'[r] = ports[r]
        BY <1>2, <4>1 DEF PortWasWired
      <4>2. CASE ports'[r] = RouterNets(links', r)
        BY <3>2, <4>2 DEF NetsEver
      <4> QED
        BY <3>3, <4>1, <4>2
    <3> QED
      BY <3>5, <3>6 DEF PortWasWired
  <2>2. CASE m \notin Routers
    <3>1. ports' = ports
      BY <2>2 DEF Toggle
    <3> QED
      BY <1>2, <3>1 DEF PortWasWired, ServerTypes
  <2> QED
    BY <2>1, <2>2
<1>6. /\ net' \in [Apps \cup Trunks -> Spots]
      /\ \A x \in Apps \cup Trunks :
           \/ net'[x] = net[x]
           \/ net[x] # Off /\ net'[x] # Off /\ net'[x] \in NetsEver(x)'
  <2>1. CASE m \in Routers
    BY <2>1 DEF Toggle, ServerTypes
  <2>2. CASE m \notin Routers
    <3>1. m \in Apps \cup Trunks
      BY <2>2 DEF Members
    <3>2. net' = SetNet(m, WantNet(links', m))
      BY <2>2 DEF Toggle
    <3>3. \/ WantNet(links', m) = m
          \/ WantNet(links', m) \in Nets /\ <<m, WantNet(links', m)>> \in ever'
      BY <1>1, <1>4, <3>1, WantNetIsWired DEF OneNetEach
    <3>4. /\ WantNet(links', m) \in Spots /\ WantNet(links', m) # Off
          /\ WantNet(links', m) \in NetsEver(m)'
      BY <3>1, <3>3 DEF FabricAssumption, Members, NetsEver, Spots
    <3> QED
      BY <3>1, <3>2, <3>4 DEF SetNet, ServerTypes
  <2> QED
    BY <2>1, <2>2
<1>7. ServerTypes'
  BY <1>1, <1>4, <1>5, <1>6 DEF ServerTypes
<1>8. NetWasWired' /\ TrunksAreUp'
  BY <1>2, <1>6 DEF NetWasWired, TrunksAreUp
<1>9. StacksAreUp'
  <2>1. \A h \in Hubs : Range(stacks[h]) \subseteq Apps
    BY RangeIn DEF ServerTypes
  <2> QED
    BY <1>1, <1>6, <2>1 DEF StacksAreUp
<1>10. \A x \in Apps \cup Trunks : net[x] # Off => net'[x] # Off
  BY <1>6
<1>11. ever \subseteq ever'
  BY <1>1
<1> QED
  BY <1>1, <1>3, <1>4, <1>5, <1>7, <1>8, <1>9, <1>10, <1>11, RewiredFrames

LEMMA RemoveNetStep ==
  ASSUME FabricAssumption, FabricInv, NEW n \in Nets, RemoveNet(n)
  PROVE  FabricInv'
<1> USE DEF FabricInv, ServerInv
<1>1. /\ links' \subseteq links
      /\ net' = [m \in Apps \cup Trunks |->
                   IF <<m, n>> \in links /\ net[m] # Off THEN m ELSE net[m]]
      /\ stacks' = stacks
      /\ allowed' = allowed /\ ports' = ports /\ ever' = ever /\ ip' = ip
      /\ tx' = tx /\ hub' = hub /\ tout' = tout /\ tin' = tin /\ got' = got /\ air' = air
      /\ conns' = conns
  BY DEF RemoveNet, hubVars
<1>2. \A m : NetsEver(m)' = NetsEver(m)
  BY <1>1 DEF NetsEver
<1>3. Off \notin Apps \cup Trunks
  BY DEF FabricAssumption, Members
<1>4. \A m \in Apps \cup Trunks :
        /\ net'[m] = net[m] \/ (net'[m] = m /\ net[m] # Off)
        /\ net[m] # Off => net'[m] # Off
  BY <1>1, <1>3
<1>5. ServerTypes'
  BY <1>1 DEF ServerTypes, Spots
<1>6. OneNetEach' /\ AllowedOnce' /\ PortWasWired'
  BY <1>1, <1>2 DEF OneNetEach, AllowedOnce, PortWasWired
<1>7. NetWasWired' /\ TrunksAreUp'
  BY <1>2, <1>4 DEF NetWasWired, TrunksAreUp, NetsEver
<1>8. StacksAreUp'
  <2>1. \A h \in Hubs : Range(stacks[h]) \subseteq Apps
    BY RangeIn DEF ServerTypes
  <2> QED
    BY <1>1, <1>4, <2>1 DEF StacksAreUp
<1> QED
  BY <1>1, <1>4, <1>5, <1>6, <1>7, <1>8, RewiredFrames

LEMMA ReauthorizeStep ==
  ASSUME FabricAssumption, FabricInv, NEW m \in Members, NEW n \in Nets, Reauthorize(m, n)
  PROVE  FabricInv'
<1> USE DEF FabricInv, ServerInv
<1>1. /\ ever' = ever \cup {l \in links : l \in allowed'}
      /\ links' = links /\ net' = net /\ ports' = ports /\ ip' = ip /\ stacks' = stacks
      /\ tx' = tx /\ hub' = hub /\ tout' = tout /\ tin' = tin /\ got' = got /\ air' = air
      /\ conns' = conns
  BY DEF Reauthorize, hubVars
<1>2. \A x : NetsEver(x) \subseteq NetsEver(x)'
  BY <1>1, EverGrows
<1>3. ServerTypes' /\ OneNetEach' /\ AllowedOnce' /\ TrunksAreUp' /\ StacksAreUp'
  BY <1>1 DEF ServerTypes, OneNetEach, AllowedOnce, TrunksAreUp, StacksAreUp
<1>4. NetWasWired' /\ PortWasWired'
  BY <1>1, <1>2 DEF NetWasWired, PortWasWired
<1> QED
  BY <1>1, <1>3, <1>4, RewiredFrames

\* The tick: every wired member and every router follows its wires.
LEMMA TickStep ==
  ASSUME FabricAssumption, FabricInv, NEW h \in Hubs, Tick(h)
  PROVE  FabricInv'
<1> USE DEF FabricInv, ServerInv
<1>1. /\ net' = SyncNets(h) /\ ports' = sync_routers(links, h)
      /\ links' = links /\ allowed' = allowed /\ ever' = ever /\ ip' = ip /\ stacks' = stacks
      /\ tx' = tx /\ hub' = hub /\ tout' = tout /\ tin' = tin /\ got' = got /\ air' = air
      /\ conns' = conns
  BY DEF Tick, hubVars
<1>2. \A m : NetsEver(m)' = NetsEver(m)
  BY <1>1 DEF NetsEver
<1>3. \A m \in Apps \cup Trunks : /\ WantNet(links, m) \in Spots /\ WantNet(links, m) # Off
                                  /\ WantNet(links, m) \in NetsEver(m)
  <2> SUFFICES ASSUME NEW m \in Apps \cup Trunks
               PROVE  /\ WantNet(links, m) \in Spots /\ WantNet(links, m) # Off
                      /\ WantNet(links, m) \in NetsEver(m)
    OBVIOUS
  <2>1. \/ WantNet(links, m) = m
        \/ WantNet(links, m) \in Nets /\ <<m, WantNet(links, m)>> \in ever
    BY WantNetIsWired DEF OneNetEach, AllowedOnce, ServerTypes
  <2> QED
    BY <2>1 DEF FabricAssumption, Members, NetsEver, Spots
<1>4. \A m \in Apps \cup Trunks :
        net'[m] = net[m] \/ (net'[m] = WantNet(links, m) /\ net[m] # Off)
  BY <1>1 DEF SyncNets
<1>5. net' \in [Apps \cup Trunks -> Spots]
  <2>1. \A m \in Apps \cup Trunks : net'[m] \in Spots
    BY <1>3, <1>4 DEF ServerTypes
  <2> QED
    BY <1>1, <2>1 DEF SyncNets
<1>6. \A r \in Routers : ports'[r] = ports[r] \/ ports'[r] = RouterNets(links, r)
  BY <1>1 DEF sync_routers
<1>7. \A r \in Routers : /\ RouterNets(links, r) \in SUBSET Nets
                         /\ \A k \in RouterNets(links, r) : <<r, k>> \in ever
  BY RouterNetsAreWired DEF AllowedOnce
<1>8. ports' \in [Routers -> SUBSET Nets]
  <2>1. ASSUME NEW r \in Routers PROVE ports'[r] \in SUBSET Nets
    <3>1. CASE ports'[r] = ports[r]
      BY <3>1 DEF ServerTypes
    <3>2. CASE ports'[r] = RouterNets(links, r)
      BY <1>7, <3>2
    <3> QED
      BY <1>6, <3>1, <3>2
  <2> QED
    BY <1>1, <2>1 DEF sync_routers
<1>9. ServerTypes'
  BY <1>1, <1>5, <1>8 DEF ServerTypes
<1>10. OneNetEach' /\ AllowedOnce'
  BY <1>1 DEF OneNetEach, AllowedOnce
<1>11. PortWasWired'
  BY <1>2, <1>6, <1>7 DEF PortWasWired, NetsEver
<1>12. NetWasWired' /\ TrunksAreUp'
  BY <1>2, <1>3, <1>4 DEF NetWasWired, TrunksAreUp
<1>13. StacksAreUp'
  <2>1. \A k \in Hubs : Range(stacks[k]) \subseteq Apps
    BY RangeIn DEF ServerTypes
  <2>2. \A m \in Apps \cup Trunks : net[m] # Off => net'[m] # Off
    BY <1>3, <1>4
  <2> QED
    BY <1>1, <2>1, <2>2 DEF StacksAreUp
<1>14. \A m \in Apps \cup Trunks : net[m] # Off => net'[m] # Off
  BY <1>3, <1>4
<1> QED
  BY <1>1, <1>9, <1>10, <1>11, <1>12, <1>13, <1>14, RewiredFrames
-----------------------------------------------------------------------------
(* The driver's steps, and the tunnel's *)

\* The server's side stands still, and no tunnel is forgotten.
LEMMA ServerStays ==
  ASSUME ServerInv, UNCHANGED serverVars, UNCHANGED <<ip, stacks>>, conns.made \subseteq conns'.made
  PROVE  /\ ServerInv' /\ net' = net
         /\ \A m : NetsEver(m)' = NetsEver(m)
         /\ \A a, x : Shared(a, x) => Shared(a, x)'
         /\ \A a, x : Crossed(a, x) => Crossed(a, x)'
         /\ \A h, o : Tagged(h, o) => Tagged(h, o)'
         /\ \A a, b : Reached(a, b) => Reached(a, b)'
<1>1. links' = links /\ allowed' = allowed /\ net' = net /\ ports' = ports /\ ever' = ever
  BY DEF serverVars
<1>2. \A m : NetsEver(m)' = NetsEver(m)
  BY <1>1 DEF NetsEver
<1>3. ServerInv'
  BY <1>1, <1>2 DEF ServerInv, ServerTypes, OneNetEach, AllowedOnce, NetWasWired, TrunksAreUp,
                    PortWasWired, StacksAreUp
<1> QED
  BY <1>1, <1>2, <1>3, EverGrows

\* What one hub's driver has noted and collected.
HubFine(h, st) ==
  /\ st \in HubState
  /\ \A a \in Range(st.todo) : HubOf[a] = h /\ net[a] # Off
  /\ \A r \in Range(st.routes) : HubOf[r.app] = h /\ r.net \in NetsEver(r.app)
  /\ \A b \in st.bridges : \E r \in Routers : b \subseteq NetsEver(r)
  /\ \A o \in Range(st.out) : Tagged(h, o)
  /\ st.trunks \subseteq TrunksOf(h)

LEMMA IdleIsFine ==
  ASSUME NEW h
  PROVE  HubFine(h, Idle)
<1>1. <<>> \in Seq(Apps) /\ <<>> \in Seq(Route) /\ <<>> \in Seq(Spots \X Frame \X BOOLEAN)
  BY EmptySeq
<1>2. Idle \in HubState
  BY <1>1 DEF Idle, HubState
<1>3. /\ Idle.todo = <<>> /\ Idle.routes = <<>> /\ Idle.bridges = {} /\ Idle.out = <<>>
      /\ Idle.trunks = {}
  BY DEF Idle
<1> QED
  BY <1>2, <1>3, RangeEmpty DEF HubFine

LEMMA HubsAreFine ==
  ASSUME FrameInv, NEW h \in Hubs
  PROVE  HubFine(h, hub[h])
BY DEF FrameInv, FrameTypes, TodoIsUp, RouteWasWired, BridgeWasWired, TagWasWired, OwnTrunks, HubFine

LEMMA HubMoves ==
  ASSUME FrameInv, ServerInv, UNCHANGED serverVars, UNCHANGED <<ip, stacks>>,
         conns.made \subseteq conns'.made, NEW h \in Hubs, NEW st, HubFine(h, st), hub' = [hub EXCEPT ![h] = st]
  PROVE  /\ hub' \in [Hubs -> HubState]
         /\ TodoIsUp' /\ RouteWasWired' /\ BridgeWasWired' /\ TagWasWired' /\ OwnTrunks'
<1>1. /\ \A k \in Hubs : hub'[k] = IF k = h THEN st ELSE hub[k]
      /\ hub' \in [Hubs -> HubState]
  BY DEF FrameInv, FrameTypes, HubFine
<1>2. \A k \in Hubs : HubFine(k, hub'[k])
  BY <1>1, HubsAreFine
<1>3. /\ net' = net /\ \A m : NetsEver(m)' = NetsEver(m)
      /\ \A k, o : Tagged(k, o) => Tagged(k, o)'
      /\ \A k : TrunksOf(k)' = TrunksOf(k)
  BY ServerStays DEF TrunksOf
<1> QED
  BY <1>1, <1>2, <1>3 DEF HubFine, TodoIsUp, RouteWasWired, BridgeWasWired, TagWasWired, OwnTrunks

\* Steps after which the frames outside the driver are where they were.
LEMMA FramesStay ==
  ASSUME FrameInv, ServerInv, UNCHANGED serverVars, UNCHANGED <<ip, stacks>>,
         conns.made \subseteq conns'.made
  PROVE  /\ tout' = tout => LeftByTrunk'
         /\ tin' = tin => CameIn'
         /\ air' \subseteq air => InTheAir'
         /\ got' = got => DeliveredWhereWired'
         /\ tx' = tx => SentByItsOwn'
         /\ hub' = hub => TodoIsUp' /\ RouteWasWired' /\ BridgeWasWired' /\ TagWasWired' /\ OwnTrunks'
<1>1. /\ net' = net
      /\ \A m : NetsEver(m)' = NetsEver(m)
      /\ \A a, x : Shared(a, x) => Shared(a, x)'
      /\ \A a, x : Crossed(a, x) => Crossed(a, x)'
      /\ \A h, o : Tagged(h, o) => Tagged(h, o)'
      /\ \A a, b : Reached(a, b) => Reached(a, b)'
  BY ServerStays
<1> USE DEF FrameInv
<1>2. tout' = tout => LeftByTrunk'
  BY <1>1 DEF LeftByTrunk
<1>3. tin' = tin => CameIn'
  BY <1>1 DEF CameIn
<1>4. air' \subseteq air => InTheAir'
  BY <1>1 DEF InTheAir
<1>5. got' = got => DeliveredWhereWired'
  BY <1>1 DEF DeliveredWhereWired
<1>6. tx' = tx => SentByItsOwn'
  BY DEF SentByItsOwn
<1>7. hub' = hub => TodoIsUp' /\ RouteWasWired' /\ BridgeWasWired' /\ TagWasWired' /\ OwnTrunks'
  BY <1>1 DEF TodoIsUp, RouteWasWired, BridgeWasWired, TagWasWired, OwnTrunks, TrunksOf
<1> QED
  BY <1>2, <1>3, <1>4, <1>5, <1>6, <1>7

LEMMA SendStep ==
  ASSUME FabricInv, NEW a \in Apps, NEW f \in Frame, Send(a, f)
  PROVE  FabricInv'
<1> USE DEF FabricInv, FrameInv
<1>1. /\ f.src = a /\ tx' = [tx EXCEPT ![a] = Append(@, f)]
      /\ UNCHANGED serverVars /\ UNCHANGED <<ip, stacks>>
      /\ hub' = hub /\ tout' = tout /\ tin' = tin /\ got' = got /\ air' = air /\ conns' = conns
  BY DEF Send
<1>2. /\ tx[a] \in Seq(Frame)
      /\ \A b \in Apps : tx'[b] = IF b = a THEN Append(tx[a], f) ELSE tx[b]
  BY <1>1 DEF FrameTypes
<1>3. Append(tx[a], f) \in Seq(Frame) /\ Range(Append(tx[a], f)) \subseteq Range(tx[a]) \cup {f}
  BY <1>2, RangeAppend
<1>4. FrameTypes'
  BY <1>1, <1>3 DEF FrameTypes
<1>5. SentByItsOwn'
  BY <1>1, <1>2, <1>3 DEF SentByItsOwn
<1> QED
  BY <1>1, <1>4, <1>5, ServerStays, FramesStay

LEMMA StepBeginStep ==
  ASSUME FabricInv, NEW h \in Hubs, StepBegin(h)
  PROVE  FabricInv'
<1> USE DEF FabricInv
<1> DEFINE st == [Idle EXCEPT !.at = "poll", !.todo = stacks[h]]
<1>1. /\ hub' = [hub EXCEPT ![h] = st]
      /\ UNCHANGED serverVars /\ UNCHANGED <<ip, stacks>>
      /\ tx' = tx /\ tout' = tout /\ tin' = tin /\ got' = got /\ air' = air /\ conns' = conns
  BY DEF StepBegin
<1>2. /\ st.at = "poll" /\ st.todo = stacks[h] /\ st.routes = <<>> /\ st.bridges = {}
      /\ st.out = <<>> /\ st.trunks = {}
  BY DEF Idle
<1>3. st \in HubState
  <2>1. stacks[h] \in Seq(Apps)
    BY DEF ServerInv, ServerTypes
  <2>2. Idle \in HubState
    BY IdleIsFine DEF HubFine
  <2> QED
    BY <2>1, <2>2 DEF HubState
<1> HIDE DEF st
<1>4. HubFine(h, st)
  BY <1>2, <1>3, RangeEmpty DEF HubFine, ServerInv, StacksAreUp
<1>5. /\ hub' \in [Hubs -> HubState]
      /\ TodoIsUp' /\ RouteWasWired' /\ BridgeWasWired' /\ TagWasWired' /\ OwnTrunks'
  BY <1>1, <1>4, HubMoves
<1>6. FrameTypes'
  BY <1>1, <1>5 DEF FrameInv, FrameTypes
<1> QED
  BY <1>1, <1>5, <1>6, ServerStays, FramesStay DEF FrameInv

\* A stack is polled: its frames are tagged with the net it is on now.
LEMMA PollStackStep ==
  ASSUME FabricInv, NEW h \in Hubs, PollStack(h)
  PROVE  FabricInv'
<1> USE DEF FabricInv
<1> DEFINE old == hub[h]
           a == Head(old.todo)
           route == [app |-> a, net |-> net[a], ip |-> ip[a]]
           tagged == [i \in 1 .. Len(tx[a]) |-> <<net[a], tx[a][i], FALSE>>]
           st == Polled(old, a)
           Entries == Spots \X Frame \X BOOLEAN
<1>1. /\ old.todo # <<>> /\ hub' = [hub EXCEPT ![h] = st]
      /\ tx' = [tx EXCEPT ![a] = <<>>]
      /\ UNCHANGED serverVars /\ UNCHANGED <<ip, stacks>>
      /\ tout' = tout /\ tin' = tin /\ got' = got /\ air' = air /\ conns' = conns
  <2>1. hub' = [hub EXCEPT ![h] = st]
    BY DEF PollStack
  <2>2. tx' = [tx EXCEPT ![a] = <<>>] /\ old.todo # <<>>
    BY DEF PollStack
  <2>3. /\ UNCHANGED serverVars /\ UNCHANGED <<ip, stacks>>
        /\ tout' = tout /\ tin' = tin /\ got' = got /\ air' = air /\ conns' = conns
    BY DEF PollStack
  <2> QED
    BY <2>1, <2>2, <2>3
<1>2. HubFine(h, old)
  BY HubsAreFine
<1>3. /\ old \in HubState /\ old.todo \in Seq(Apps) /\ old.routes \in Seq(Route)
      /\ old.out \in Seq(Entries)
  <2>1. old \in HubState
    BY <1>2 DEF HubFine
  <2> HIDE DEF old
  <2> QED
    BY <2>1 DEF HubState
<1> HIDE DEF Entries
<1>4. /\ a \in Range(old.todo) /\ a \in Apps
      /\ Tail(old.todo) \in Seq(Apps) /\ Range(Tail(old.todo)) \subseteq Range(old.todo)
  BY <1>1, <1>3, RangeTail, RangeIn
<1>5. HubOf[a] = h /\ net[a] # Off /\ net[a] \in NetsEver(a) /\ net[a] \in Spots
  BY <1>2, <1>4 DEF HubFine, ServerInv, NetWasWired, ServerTypes
<1>6. /\ route \in Route /\ route.app = a /\ route.net = net[a]
  BY <1>4, <1>5 DEF Route, ServerInv, ServerTypes
<1> HIDE DEF route
<1>7. /\ Append(old.routes, route) \in Seq(Route)
      /\ Range(Append(old.routes, route)) \subseteq Range(old.routes) \cup {route}
  BY <1>3, <1>6, RangeAppend
<1>8. /\ tx[a] \in Seq(Frame) /\ Len(tx[a]) \in Nat
      /\ \A i \in 1..Len(tx[a]) : tx[a][i] \in Frame /\ tx[a][i].src = a
  <2>1. tx[a] \in Seq(Frame)
    BY <1>4 DEF FrameInv, FrameTypes
  <2>2. \A i \in 1..Len(tx[a]) : tx[a][i] \in Range(tx[a]) /\ tx[a][i] \in Frame
    BY <2>1, RangeIn
  <2> QED
    BY <1>4, <2>1, <2>2, LenProperties DEF FrameInv, SentByItsOwn
<1>9. /\ tagged \in [1..Len(tx[a]) -> Entries] /\ tagged \in Seq(Entries)
      /\ \A o \in Range(tagged) : Tagged(h, o)
  <2>1. \A i \in 1..Len(tx[a]) : <<net[a], tx[a][i], FALSE>> \in Entries
    BY <1>5, <1>8 DEF Entries
  <2>2. tagged \in [1..Len(tx[a]) -> Entries]
    BY <2>1
  <2>3. /\ tagged \in Seq(Entries)
        /\ \A o \in Range(tagged) : \E i \in 1..Len(tx[a]) : o = tagged[i]
    <3> DEFINE n == Len(tx[a])
    <3>1. n \in Nat /\ tagged \in [1..n -> Entries]
      BY <1>8, <2>2
    <3> HIDE DEF tagged, n
    <3>2. /\ tagged \in Seq(Entries)
          /\ \A o \in Range(tagged) : \E i \in 1..n : o = tagged[i]
      BY <3>1, RangeOfFunction
    <3> QED
      BY <3>2 DEF n
  <2>4. ASSUME NEW o \in Range(tagged) PROVE Tagged(h, o)
    <3>1. PICK i \in 1..Len(tx[a]) : o = <<net[a], tx[a][i], FALSE>>
      BY <2>3, <2>4
    <3>2. /\ o[1] = net[a] /\ o[2] = tx[a][i] /\ o[3] = FALSE
      BY <3>1
    <3> QED
      BY <1>5, <1>8, <3>2 DEF Tagged
  <2> QED
    BY <2>2, <2>3, <2>4
<1> HIDE DEF tagged
<1>10. old.out \o tagged \in Seq(Entries) /\ Range(old.out \o tagged) \subseteq Range(old.out) \cup Range(tagged)
  BY <1>3, <1>9, RangeConcat
<1>11. /\ st \in HubState /\ st.todo = Tail(old.todo) /\ st.routes = Append(old.routes, route)
       /\ st.bridges = old.bridges /\ st.out = old.out \o tagged /\ st.trunks = old.trunks
  <2>1. st = [old EXCEPT !.todo = Tail(old.todo), !.routes = Append(old.routes, route),
                         !.out = old.out \o tagged]
    BY DEF Polled, route, tagged
  <2> HIDE DEF st, old
  <2> QED
    BY <1>3, <1>4, <1>7, <1>10, <2>1 DEF HubState, Entries
<1> HIDE DEF st
<1>12. HubFine(h, st)
  BY <1>2, <1>4, <1>5, <1>6, <1>7, <1>9, <1>10, <1>11 DEF HubFine
<1>13. /\ hub' \in [Hubs -> HubState]
       /\ TodoIsUp' /\ RouteWasWired' /\ BridgeWasWired' /\ TagWasWired' /\ OwnTrunks'
  BY <1>1, <1>12, HubMoves
<1>14. tx' \in [Apps -> Seq(Frame)] /\ SentByItsOwn'
  <2>1. <<>> \in Seq(Frame)
    BY EmptySeq
  <2>2. \A b \in Apps : tx'[b] = tx[b] \/ tx'[b] = <<>>
    BY <1>1, <1>4 DEF FrameInv, FrameTypes
  <2>3. SentByItsOwn'
    BY <2>2, RangeEmpty DEF FrameInv, SentByItsOwn
  <2> QED
    BY <1>1, <2>1, <2>3 DEF FrameInv, FrameTypes
<1>15. FrameTypes'
  BY <1>1, <1>13, <1>14 DEF FrameInv, FrameTypes
<1> QED
  BY <1>1, <1>13, <1>14, <1>15, ServerStays, FramesStay DEF FrameInv

LEMMA PollDoneStep ==
  ASSUME FabricInv, NEW h \in Hubs, PollDone(h)
  PROVE  FabricInv'
<1> USE DEF FabricInv
<1> DEFINE old == hub[h]
           bs == {ports[r] : r \in {x \in Routers : HubOf[x] = h}} \ {{}}
           st == [old EXCEPT !.at = "deliver", !.trunks = TrunksOf(h), !.bridges = bs]
<1>1. /\ hub' = [hub EXCEPT ![h] = st]
      /\ UNCHANGED serverVars /\ UNCHANGED <<ip, stacks>>
      /\ tx' = tx /\ tout' = tout /\ tin' = tin /\ got' = got /\ air' = air /\ conns' = conns
  BY DEF PollDone
<1>2. HubFine(h, old) /\ old \in HubState
  BY HubsAreFine DEF HubFine
<1>3. /\ bs \in SUBSET SUBSET Nets
      /\ \A b \in bs : \E r \in Routers : b \subseteq NetsEver(r)
  BY DEF ServerInv, ServerTypes, PortWasWired
<1> HIDE DEF bs
<1>4. /\ st \in HubState /\ st.todo = old.todo /\ st.routes = old.routes
      /\ st.bridges = bs /\ st.out = old.out /\ st.trunks = TrunksOf(h)
  BY <1>2, <1>3 DEF HubState, TrunksOf
<1> HIDE DEF st
<1>5. HubFine(h, st)
  BY <1>2, <1>3, <1>4 DEF HubFine
<1>6. /\ hub' \in [Hubs -> HubState]
      /\ TodoIsUp' /\ RouteWasWired' /\ BridgeWasWired' /\ TagWasWired' /\ OwnTrunks'
  BY <1>1, <1>5, HubMoves
<1>7. FrameTypes'
  BY <1>1, <1>6 DEF FrameInv, FrameTypes
<1> QED
  BY <1>1, <1>6, <1>7, ServerStays, FramesStay DEF FrameInv

\* Whoever deliver() hands a frame to was on a net reachable from the frame's.
LEMMA ReceiversWereWired ==
  ASSUME FabricInv, NEW h \in Hubs, NEW n, NEW f,
         NEW to \in Receivers(hub[h], n, f), NEW b \in to
  PROVE  /\ b \in Apps /\ HubOf[b] = h
         /\ \E on \in NetsEver(b) : on \in Closure(BridgesEver, n)
<1> DEFINE st == hub[h]
           nets == Closure(st.bridges, n)
<1>1. HubFine(h, st) /\ st.routes \in Seq(Route)
  BY HubsAreFine DEF HubFine, HubState, FabricInv
<1>2. \E r \in Range(st.routes) : r.app = b /\ r.net \in nets
  <2>1. CASE f.dst = Group
    BY <2>1 DEF Receivers
  <2>2. CASE f.dst # Group
    <3>1. PICK on \in nets : b \in FirstOf(st.routes, Owners(st.routes, on, f.dst))
      BY <2>2 DEF Receivers
    <3>2. PICK i \in DOMAIN st.routes : b = st.routes[i].app /\ st.routes[i].net = on
      BY <3>1 DEF FirstOf, Owners
    <3>3. st.routes[i] \in Range(st.routes)
      BY DEF Range
    <3> QED
      BY <3>2, <3>3
  <2> QED
    BY <2>1, <2>2
<1>3. PICK r \in Range(st.routes) : r.app = b /\ r.net \in nets
  BY <1>2
<1>4. r \in Route /\ HubOf[r.app] = h /\ r.net \in NetsEver(r.app)
  BY <1>1, <1>3, RangeIn DEF HubFine
<1>5. \A c \in st.bridges : \E d \in BridgesEver : c \subseteq d
  BY <1>1 DEF HubFine, BridgesEver
<1>6. nets \subseteq Closure(BridgesEver, n)
  BY <1>5, ClosureGrows
<1> QED
  BY <1>3, <1>4, <1>6 DEF Route

\* A frame is handed out: to stacks, and perhaps to a trunk of its own net.
LEMMA DeliverStep ==
  ASSUME FabricAssumption, FabricInv, NEW h \in Hubs, Deliver(h)
  PROVE  FabricInv'
<1> USE DEF FabricInv
<1> DEFINE old == hub[h]
           o == Head(old.out)
           n == o[1]
           f == o[2]
           st == [old EXCEPT !.out = Tail(@)]
<1>1. /\ old.out # <<>> /\ hub' = [hub EXCEPT ![h] = st]
      /\ UNCHANGED serverVars /\ UNCHANGED <<ip, stacks>>
      /\ tx' = tx /\ tin' = tin /\ air' = air /\ conns' = conns
  BY DEF Deliver
<1>2. PICK to \in Receivers(old, n, f) :
        /\ got' = got \cup ({f} \X to)
        /\ tout' = [x \in Trunks |-> IF HubOf[x] = h /\ Trunked(n, f, o[3], to, x)
                                     THEN Append(tout[x], f) ELSE tout[x]]
  BY DEF Deliver
<1>3. HubFine(h, old) /\ old \in HubState
  BY HubsAreFine DEF HubFine
<1>4. old.out \in Seq(Spots \X Frame \X BOOLEAN)
  <2> HIDE DEF old
  <2> QED
    BY <1>3 DEF HubState
<1>5. /\ o \in Range(old.out) /\ o \in Spots \X Frame \X BOOLEAN
      /\ Tail(old.out) \in Seq(Spots \X Frame \X BOOLEAN)
      /\ Range(Tail(old.out)) \subseteq Range(old.out)
  BY <1>1, <1>4, RangeTail, RangeIn
<1>6. f \in Frame /\ o[3] \in BOOLEAN /\ Tagged(h, o)
  BY <1>3, <1>5 DEF HubFine
<1>7. /\ st \in HubState /\ st.todo = old.todo /\ st.routes = old.routes
      /\ st.bridges = old.bridges /\ st.out = Tail(old.out) /\ st.trunks = old.trunks
  <2> HIDE DEF old
  <2> QED
    BY <1>3, <1>5 DEF HubState
<1>8. HubFine(h, st)
  <2> HIDE DEF st, old
  <2> QED
    BY <1>3, <1>5, <1>7 DEF HubFine
<1>9. /\ hub' \in [Hubs -> HubState]
      /\ TodoIsUp' /\ RouteWasWired' /\ BridgeWasWired' /\ TagWasWired' /\ OwnTrunks'
  <2> HIDE DEF st
  <2> QED
    BY <1>1, <1>8, HubMoves
<1> HIDE DEF st, o, n, f, old
<1>10. \A x \in Trunks : tout[x] \in Seq(Frame)
  BY DEF FrameInv, FrameTypes
<1>11. \A x \in Trunks : Append(tout[x], f) \in Seq(Frame) /\ Range(Append(tout[x], f)) \subseteq Range(tout[x]) \cup {f}
  BY <1>6, <1>10, RangeAppend
<1>12. tout' \in [Trunks -> Seq(Frame)]
  BY <1>2, <1>10, <1>11
<1>13. FrameTypes'
  BY <1>1, <1>9, <1>12 DEF FrameInv, FrameTypes
<1>14. /\ \A a, x : Shared(a, x) => Shared(a, x)'
       /\ \A a, b : Reached(a, b) => Reached(a, b)'
  BY <1>1, ServerStays
<1>15. LeftByTrunk'
  <2> SUFFICES ASSUME NEW x \in Trunks, NEW g \in Range(tout'[x])
               PROVE  Shared(g.src, x)
    BY <1>14 DEF LeftByTrunk
  <2>1. CASE g \in Range(tout[x])
    BY <2>1 DEF FrameInv, LeftByTrunk
  <2>2. CASE g \notin Range(tout[x])
    <3>1. HubOf[x] = h /\ Trunked(n, f, o[3], to, x) /\ tout'[x] = Append(tout[x], f)
      BY <1>2, <2>2
    <3>2. g = f
      BY <1>11, <2>2, <3>1
    <3>3. ~o[3] /\ net[x] = n
      BY <3>1 DEF Trunked
    <3>4. HubOf[f.src] = h /\ n \in NetsEver(f.src)
      BY <1>6, <3>3 DEF Tagged, n, f
    <3>5. n \in NetsEver(x)
      BY <3>1, <3>3 DEF ServerInv, NetWasWired, TrunksAreUp
    <3> QED
      BY <3>1, <3>2, <3>4, <3>5 DEF Shared
  <2> QED
    BY <2>1, <2>2
<1>16. DeliveredWhereWired'
  <2>1. ASSUME NEW b \in to
        PROVE  Reached(f.src, b)
    <3>1. to \in Receivers(hub[h], n, f)
      BY <1>2 DEF old
    <3>2. /\ b \in Apps /\ HubOf[b] = h
          /\ \E on \in NetsEver(b) : on \in Closure(BridgesEver, n)
      BY <3>1, ReceiversWereWired
    <3>3. CASE o[3]
      <4>1. PICK x \in TrunksOf(h) : n \in NetsEver(x) /\ Crossed(f.src, x)
        BY <1>6, <3>3 DEF Tagged, n, f
      <4>2. ReachEver(x) \cap NetsEver(b) # {}
        BY <3>2, <4>1 DEF ReachEver
      <4> QED
        BY <3>2, <4>1, <4>2 DEF Reached
    <3>4. CASE ~o[3]
      <4>1. HubOf[f.src] = h /\ n \in NetsEver(f.src)
        BY <1>6, <3>4 DEF Tagged, n, f
      <4>2. ReachEver(f.src) \cap NetsEver(b) # {}
        BY <3>2, <4>1 DEF ReachEver
      <4> QED
        BY <3>2, <4>1, <4>2 DEF Reached
    <3> QED
      BY <3>3, <3>4
  <2>2. \A d \in got' : d \in got \/ \E b \in to : d = <<f, b>>
    BY <1>2
  <2>3. \A d \in got' : Reached(d[1].src, d[2])
    BY <2>1, <2>2 DEF FrameInv, DeliveredWhereWired
  <2> QED
    BY <1>14, <2>3 DEF DeliveredWhereWired
<1> QED
  BY <1>1, <1>9, <1>13, <1>15, <1>16, ServerStays, FramesStay DEF FrameInv

\* What came in by a trunk, tagged with the net that trunk is on now.
LEMMA DrainTrunkStep ==
  ASSUME FabricInv, NEW h \in Hubs, NEW x \in Trunks, DrainTrunk(h, x)
  PROVE  FabricInv'
<1> USE DEF FabricInv
<1> DEFINE old == hub[h]
           out == Inbound(x)
           k == Len(tin[x])
           Entries == Spots \X Frame \X BOOLEAN
           st == [old EXCEPT !.trunks = @ \ {x}, !.out = out]
<1>1. /\ x \in old.trunks /\ hub' = [hub EXCEPT ![h] = st]
      /\ tin' = [tin EXCEPT ![x] = <<>>]
      /\ UNCHANGED serverVars /\ UNCHANGED <<ip, stacks>>
      /\ tx' = tx /\ tout' = tout /\ got' = got /\ air' = air /\ conns' = conns
  BY DEF DrainTrunk
<1>2. HubFine(h, old) /\ old \in HubState
  BY HubsAreFine DEF HubFine
<1>3. /\ out \in Seq(Entries)
      /\ \A o \in Range(out) : Tagged(h, o)
  <2> HIDE DEF Entries
  <2>1. x \in TrunksOf(h) /\ tin[x] \in Seq(Frame) /\ k \in Nat
    BY <1>1, <1>2, LenProperties DEF HubFine, FrameInv, FrameTypes
  <2>2. net[x] \in Spots /\ net[x] \in NetsEver(x)
    BY DEF ServerInv, ServerTypes, NetWasWired, TrunksAreUp
  <2>3. \A i \in 1..k : tin[x][i] \in Frame /\ Crossed(tin[x][i].src, x)
    BY <2>1, RangeIn DEF FrameInv, CameIn
  <2>4. \A i \in 1..k : <<net[x], tin[x][i], TRUE>> \in Entries
    BY <2>2, <2>3 DEF Entries
  <2>5. /\ out \in [1..k -> Entries]
        /\ \A i \in 1..k : out[i] = <<net[x], tin[x][i], TRUE>>
    BY <2>4 DEF Inbound
  <2> HIDE DEF k, out
  <2>6. out \in Seq(Entries) /\ \A o \in Range(out) : \E i \in 1..k : o = out[i]
    BY <2>1, <2>5, RangeOfFunction
  <2>7. ASSUME NEW o \in Range(out) PROVE Tagged(h, o)
    <3>1. PICK i \in 1..k : o = out[i]
      BY <2>6, <2>7
    <3>2. o = <<net[x], tin[x][i], TRUE>>
      BY <2>5, <3>1
    <3>3. o[1] = net[x] /\ o[2] = tin[x][i] /\ o[3] = TRUE
      BY <3>2
    <3> QED
      BY <2>1, <2>2, <2>3, <3>3 DEF Tagged
  <2> QED
    BY <2>6, <2>7
<1> HIDE DEF out
<1>4. /\ st \in HubState /\ st.todo = old.todo /\ st.routes = old.routes
      /\ st.bridges = old.bridges /\ st.out = out /\ st.trunks \subseteq old.trunks
  <2> HIDE DEF old
  <2> QED
    BY <1>2, <1>3 DEF HubState
<1>5. HubFine(h, st)
  <2> HIDE DEF st, old
  <2> QED
    BY <1>2, <1>3, <1>4 DEF HubFine
<1>6. /\ hub' \in [Hubs -> HubState]
      /\ TodoIsUp' /\ RouteWasWired' /\ BridgeWasWired' /\ TagWasWired' /\ OwnTrunks'
  <2> HIDE DEF st
  <2> QED
    BY <1>1, <1>5, HubMoves
<1>7. tin' \in [Trunks -> Seq(Frame)] /\ CameIn'
  <2>1. <<>> \in Seq(Frame)
    BY EmptySeq
  <2>2. \A y \in Trunks : tin'[y] = <<>> \/ tin'[y] = tin[y]
    BY <1>1 DEF FrameInv, FrameTypes
  <2>3. \A a, y : Crossed(a, y) => Crossed(a, y)'
    BY <1>1, ServerStays
  <2>4. CameIn'
    BY <2>2, <2>3, RangeEmpty DEF FrameInv, CameIn
  <2> QED
    BY <1>1, <2>1, <2>4 DEF FrameInv, FrameTypes
<1>8. FrameTypes'
  BY <1>1, <1>6, <1>7 DEF FrameInv, FrameTypes
<1> QED
  BY <1>1, <1>6, <1>7, <1>8, ServerStays, FramesStay DEF FrameInv

LEMMA StepEndStep ==
  ASSUME FabricInv, NEW h \in Hubs, StepEnd(h)
  PROVE  FabricInv'
<1> USE DEF FabricInv
<1>1. /\ hub' = [hub EXCEPT ![h] = Idle]
      /\ UNCHANGED serverVars /\ UNCHANGED <<ip, stacks>>
      /\ tx' = tx /\ tout' = tout /\ tin' = tin /\ got' = got /\ air' = air /\ conns' = conns
  BY DEF StepEnd
<1>2. HubFine(h, Idle)
  BY IdleIsFine
<1>3. /\ hub' \in [Hubs -> HubState]
      /\ TodoIsUp' /\ RouteWasWired' /\ BridgeWasWired' /\ TagWasWired' /\ OwnTrunks'
  BY <1>1, <1>2, HubMoves
<1>4. FrameTypes'
  BY <1>1, <1>3 DEF FrameInv, FrameTypes
<1> QED
  BY <1>1, <1>3, <1>4, ServerStays, FramesStay DEF FrameInv

LEMMA TunnelUpStep ==
  ASSUME FabricInv, NEW x \in Trunks, NEW y \in Trunks, TunnelUp(x, y)
  PROVE  FabricInv'
<1> USE DEF FabricInv
<1>1. /\ conns.made \subseteq conns'.made
      /\ conns' = [live |-> conns.live \cup {<<x, y>>}, made |-> conns.made \cup {<<x, y>>}]
      /\ UNCHANGED serverVars /\ UNCHANGED <<ip, stacks>>
      /\ hub' = hub /\ tx' = tx /\ tout' = tout /\ tin' = tin /\ got' = got /\ air' = air
  BY DEF TunnelUp, hubVars
<1>2. FrameTypes'
  BY <1>1 DEF FrameInv, FrameTypes
<1> QED
  BY <1>1, <1>2, ServerStays, FramesStay DEF FrameInv

LEMMA TunnelDownStep ==
  ASSUME FabricInv, NEW c \in conns.live, TunnelDown(c)
  PROVE  FabricInv'
<1> USE DEF FabricInv
<1>1. /\ conns' = [conns EXCEPT !.live = @ \ {c}] /\ air' \subseteq air
      /\ UNCHANGED serverVars /\ UNCHANGED <<ip, stacks>>
      /\ hub' = hub /\ tx' = tx /\ tout' = tout /\ tin' = tin /\ got' = got
  BY DEF TunnelDown, hubVars
<1>2. conns \in [live : SUBSET (Trunks \X Trunks), made : SUBSET (Trunks \X Trunks)]
  BY DEF FrameInv, FrameTypes
<1>3. /\ conns' \in [live : SUBSET (Trunks \X Trunks), made : SUBSET (Trunks \X Trunks)]
      /\ conns'.made = conns.made /\ conns'.live \subseteq conns.live
  BY <1>1, <1>2
<1>4. FrameTypes'
  BY <1>1, <1>3 DEF FrameInv, FrameTypes
<1> QED
  BY <1>1, <1>3, <1>4, ServerStays, FramesStay DEF FrameInv

\* What a trunk sends goes to the trunks it is tunnelled to.
LEMMA PumpStep ==
  ASSUME FabricInv, NEW x \in Trunks, Pump(x)
  PROVE  FabricInv'
<1> USE DEF FabricInv
<1>1. /\ tout' = [tout EXCEPT ![x] = <<>>]
      /\ UNCHANGED serverVars /\ UNCHANGED <<ip, stacks>>
      /\ hub' = hub /\ tx' = tx /\ tin' = tin /\ got' = got /\ conns' = conns
  BY DEF Pump
<1>2. \A p \in air' :
        \/ p \in air
        \/ \E u \in Trunks : \E c \in conns.live \cap Between(x, u), f \in Range(tout[x]) : p = <<c, u, f>>
  BY DEF Pump
<1>3. /\ \A a, y : Shared(a, y) => Shared(a, y)'
      /\ \A a, y : Crossed(a, y) => Crossed(a, y)'
  BY <1>1, ServerStays
<1>4. Range(tout[x]) \subseteq Frame
  BY RangeIn DEF FrameInv, FrameTypes
<1>5. ASSUME NEW p \in air'
      PROVE  p[2] \in Trunks /\ p[3] \in Frame /\ Crossed(p[3].src, p[2])
  <2>1. CASE p \in air
    BY <2>1 DEF FrameInv, FrameTypes, InTheAir
  <2>2. ASSUME NEW u \in Trunks, NEW c \in conns.live \cap Between(x, u), NEW f \in Range(tout[x]),
               p = <<c, u, f>>
        PROVE  p[2] \in Trunks /\ p[3] \in Frame /\ Crossed(p[3].src, p[2])
    <3>1. p[2] = u /\ p[3] = f /\ f \in Frame
      BY <1>4, <2>2
    <3>2. Shared(f.src, x)
      BY DEF FrameInv, LeftByTrunk
    <3>3. conns.made \cap Between(x, u) # {}
      BY DEF FrameInv, FrameTypes
    <3> QED
      BY <3>1, <3>2, <3>3 DEF Crossed
  <2> QED
    BY <1>2, <2>1, <2>2
<1>6. InTheAir'
  BY <1>3, <1>5 DEF InTheAir
<1>7. tout' \in [Trunks -> Seq(Frame)] /\ LeftByTrunk'
  <2>1. <<>> \in Seq(Frame)
    BY EmptySeq
  <2>2. \A y \in Trunks : tout'[y] = <<>> \/ tout'[y] = tout[y]
    BY <1>1 DEF FrameInv, FrameTypes
  <2>3. LeftByTrunk'
    BY <1>3, <2>2, RangeEmpty DEF FrameInv, LeftByTrunk
  <2> QED
    BY <1>1, <2>1, <2>3 DEF FrameInv, FrameTypes
<1>8. FrameTypes'
  BY <1>1, <1>5, <1>7 DEF FrameInv, FrameTypes
<1> QED
  BY <1>1, <1>6, <1>7, <1>8, ServerStays, FramesStay DEF FrameInv

LEMMA ArriveStep ==
  ASSUME FabricInv, NEW p \in air, Arrive(p)
  PROVE  FabricInv'
<1> USE DEF FabricInv
<1>1. /\ tin' = [tin EXCEPT ![p[2]] = Append(@, p[3])] /\ air' \subseteq air
      /\ UNCHANGED serverVars /\ UNCHANGED <<ip, stacks>>
      /\ hub' = hub /\ tx' = tx /\ tout' = tout /\ got' = got /\ conns' = conns
  BY DEF Arrive
<1>2. p[2] \in Trunks /\ p[3] \in Frame /\ tin[p[2]] \in Seq(Frame)
  BY DEF FrameInv, FrameTypes
<1>3. /\ Append(tin[p[2]], p[3]) \in Seq(Frame)
      /\ Range(Append(tin[p[2]], p[3])) \subseteq Range(tin[p[2]]) \cup {p[3]}
  BY <1>2, RangeAppend
<1>4. \A x \in Trunks : tin'[x] = IF x = p[2] THEN Append(tin[x], p[3]) ELSE tin[x]
  BY <1>1 DEF FrameInv, FrameTypes
<1>5. \A a, x : Crossed(a, x) => Crossed(a, x)'
  BY <1>1, ServerStays
<1>6. CameIn'
  <2>1. Crossed(p[3].src, p[2])
    BY DEF FrameInv, InTheAir
  <2> QED
    BY <1>3, <1>4, <1>5, <2>1 DEF FrameInv, CameIn
<1>7. FrameTypes'
  BY <1>1, <1>3 DEF FrameInv, FrameTypes
<1> QED
  BY <1>1, <1>6, <1>7, ServerStays, FramesStay DEF FrameInv

LEMMA LoseStep ==
  ASSUME FabricInv, NEW p \in air, Lose(p)
  PROVE  FabricInv'
<1> USE DEF FabricInv
<1>1. /\ air' \subseteq air
      /\ UNCHANGED serverVars /\ UNCHANGED <<ip, stacks>>
      /\ hub' = hub /\ tx' = tx /\ tout' = tout /\ tin' = tin /\ got' = got /\ conns' = conns
  BY DEF Lose, hubVars
<1>2. FrameTypes'
  BY <1>1 DEF FrameInv, FrameTypes
<1> QED
  BY <1>1, <1>2, ServerStays, FramesStay DEF FrameInv

LEMMA Stutters ==
  ASSUME FabricInv, UNCHANGED vars
  PROVE  FabricInv'
<1> USE DEF FabricInv
<1>1. /\ UNCHANGED serverVars /\ UNCHANGED <<ip, stacks>>
      /\ hub' = hub /\ tx' = tx /\ tout' = tout /\ tin' = tin /\ got' = got /\ air' = air
      /\ conns' = conns
  BY DEF vars, serverVars
<1>2. FrameTypes'
  BY <1>1 DEF FrameInv, FrameTypes
<1> QED
  BY <1>1, <1>2, ServerStays, FramesStay DEF FrameInv
-----------------------------------------------------------------------------
(* The invariant *)

LEMMA FabricStarts ==
  ASSUME FabricAssumption, Init
  PROVE  FabricInv
<1>1. /\ links \in Loads /\ links \subseteq Members \X Nets /\ ever = links
      /\ \A k, l \in links : k[1] = l[1] /\ k[1] \notin Routers => k = l
      /\ Late \subseteq Apps /\ Apps \cap Trunks = {} /\ Off \notin Members \cup Nets
      /\ Seed \in [Apps -> Octets] /\ IsFiniteSet(Apps)
  BY DEF Init, FabricAssumption
<1>2. OneNetEach /\ AllowedOnce
  BY <1>1 DEF OneNetEach, AllowedOnce
<1>3. \A m \in Apps \cup Trunks : /\ WantNet(links, m) \in Spots /\ WantNet(links, m) # Off
                                  /\ WantNet(links, m) \in NetsEver(m)
  <2> SUFFICES ASSUME NEW m \in Apps \cup Trunks
               PROVE  /\ WantNet(links, m) \in Spots /\ WantNet(links, m) # Off
                      /\ WantNet(links, m) \in NetsEver(m)
    OBVIOUS
  <2>1. \/ WantNet(links, m) = m
        \/ WantNet(links, m) \in Nets /\ <<m, WantNet(links, m)>> \in ever
    BY <1>1, WantNetIsWired
  <2> QED
    BY <1>1, <2>1 DEF Members, NetsEver, Spots
<1>4. net = [m \in Apps \cup Trunks |-> IF m \in Late THEN Off ELSE WantNet(links, m)]
  BY DEF Init
<1>5. net \in [Apps \cup Trunks -> Spots] /\ NetWasWired /\ TrunksAreUp
  <2>1. net \in [Apps \cup Trunks -> Spots]
    BY <1>3, <1>4 DEF Spots
  <2>2. NetWasWired /\ TrunksAreUp
    BY <1>1, <1>3, <1>4 DEF NetWasWired, TrunksAreUp
  <2> QED
    BY <2>1, <2>2
<1>6. \A r \in Routers : /\ RouterNets(links, r) \in SUBSET Nets
                         /\ \A n \in RouterNets(links, r) : <<r, n>> \in ever
  BY <1>1, RouterNetsAreWired
<1>7. ports \in [Routers -> SUBSET Nets] /\ PortWasWired
  <2>1. ports = [r \in Routers |-> RouterNets(links, r)]
    BY DEF Init
  <2> QED
    BY <1>6, <2>1 DEF PortWasWired, NetsEver
<1>8. stacks \in [Hubs -> Seq(Apps)] /\ StacksAreUp
  <2> DEFINE Up(h) == {a \in Apps \ Late : HubOf[a] = h}
  <2>1. stacks = [h \in Hubs |-> SetToSeq(Up(h))]
    BY DEF Init
  <2>2. \A h \in Hubs : SetToSeq(Up(h)) \in Seq(Up(h))
    BY <1>1, Listed, FS_Subset
  <2>3. \A h \in Hubs : SetToSeq(Up(h)) \in Seq(Apps)
    BY <2>2, SeqMonotonic
  <2>4. \A h \in Hubs : Range(stacks[h]) \subseteq Up(h)
    BY <2>1, <2>2, RangeIn
  <2>5. stacks \in [Hubs -> Seq(Apps)]
    <3> HIDE DEF Up
    <3> QED
      BY <2>1, <2>3
  <2>6. \A a \in Apps \ Late : net[a] # Off
    BY <1>3, <1>4
  <2> QED
    BY <2>4, <2>5, <2>6 DEF StacksAreUp
<1>9. ServerInv
  BY <1>1, <1>2, <1>5, <1>7, <1>8 DEF ServerInv, ServerTypes, Init
<1>10. /\ tx = [a \in Apps |-> <<>>] /\ hub = [h \in Hubs |-> Idle]
       /\ tout = [x \in Trunks |-> <<>>] /\ tin = [x \in Trunks |-> <<>>]
       /\ conns = [live |-> {}, made |-> {}] /\ air = {} /\ got = {}
  BY DEF Init
<1>11. FrameTypes
  <2>1. <<>> \in Seq(Frame)
    BY EmptySeq
  <2>2. \A h \in Hubs : Idle \in HubState
    BY IdleIsFine DEF HubFine
  <2> QED
    BY <1>10, <2>1, <2>2 DEF FrameTypes
<1>12. SentByItsOwn /\ LeftByTrunk /\ CameIn
  BY <1>10, RangeEmpty DEF SentByItsOwn, LeftByTrunk, CameIn
<1>13. InTheAir /\ DeliveredWhereWired
  BY <1>10 DEF InTheAir, DeliveredWhereWired
<1>14. \A h \in Hubs : HubFine(h, hub[h])
  BY <1>10, IdleIsFine
<1>15. TodoIsUp /\ RouteWasWired /\ BridgeWasWired /\ TagWasWired /\ OwnTrunks
  BY <1>14 DEF HubFine, TodoIsUp, RouteWasWired, BridgeWasWired, TagWasWired, OwnTrunks
<1> QED
  BY <1>9, <1>11, <1>12, <1>13, <1>15 DEF FabricInv, FrameInv

LEMMA FabricStep ==
  ASSUME FabricAssumption, FabricInv, [Next]_vars
  PROVE  FabricInv'
<1>1. CASE UNCHANGED vars
  BY <1>1, Stutters
<1>2. CASE \E a \in Apps : PickAddress(a) \/ Attach(a) \/ Close(a)
  BY <1>2, PickAddressStep, AttachStep, CloseStep
<1>3. CASE \E m \in Members, n \in Nets : Toggle(m, n) \/ Reauthorize(m, n)
  BY <1>3, ToggleStep, ReauthorizeStep
<1>4. CASE \E n \in Nets : RemoveNet(n)
  BY <1>4, RemoveNetStep
<1>5. CASE \E h \in Hubs : \/ Tick(h) \/ StepBegin(h) \/ PollStack(h) \/ PollDone(h)
                           \/ Deliver(h) \/ StepEnd(h)
  BY <1>5, TickStep, StepBeginStep, PollStackStep, PollDoneStep, DeliverStep, StepEndStep
<1>6. CASE \E a \in Apps, f \in Frame : Send(a, f)
  BY <1>6, SendStep
<1>7. CASE \/ \E x, y \in Trunks : TunnelUp(x, y)
           \/ \E c \in conns.live : TunnelDown(c)
  BY <1>7, TunnelUpStep, TunnelDownStep
<1>8. CASE \E x \in Trunks : Pump(x)
  BY <1>8, PumpStep
<1>9. CASE \E p \in air : Arrive(p) \/ Lose(p)
  BY <1>9, ArriveStep, LoseStep
<1>10. CASE \E h \in Hubs, x \in Trunks : DrainTrunk(h, x)
  BY <1>10, DrainTrunkStep
<1> QED
  BY <1>1, <1>2, <1>3, <1>4, <1>5, <1>6, <1>7, <1>8, <1>9, <1>10 DEF Next

\* The isolation boundary of NetHub::step: a frame only ever reaches a node
\* that a wire, allowed by the members' tokens, has put on the sender's net or
\* on one a router joined to it, or, across one tunnel from a trunk of the
\* sender's net to another, on that one's net or one a router joined to it;
\* whatever is rewired, revoked or removed between the driver's locks, and
\* however many trunks a server and a net have.
THEOREM FramesKeepToTheirNets == Spec => []DeliveredWhereWired
<1>1. Init => FabricInv
  BY FabricAssumption, FabricStarts
<1>2. FabricInv /\ [Next]_vars => FabricInv'
  BY FabricAssumption, FabricStep
<1>3. FabricInv => DeliveredWhereWired
  BY DEF FabricInv, FrameInv
<1> QED
  BY <1>1, <1>2, <1>3, PTL DEF Spec

-----------------------------------------------------------------------------
(***************************************************************************)
(* That a stream keeps to the socket it was opened on, for any number of   *)
(* slots, sockets, streams and peers, and any backlog.                     *)
(*                                                                         *)
(* A slot's generation is handed out once, so that a slot which is live    *)
(* under the generation a stream remembers still holds the socket the      *)
(* stream was opened on: nothing replaces the socket of a live slot, since *)
(* only a vacant slot is filled and only a closing one is emptied, and a   *)
(* slot is never live and closing, nor vacant while it is one of the two.  *)
(***************************************************************************)

\* What an entry of a pool, or a socket of the guest, refers to.
HandleGen(n) == Slots \X (1 .. (n - 1))

StackFields == {"sock", "live", "next_gen", "closing", "added"}

StackOk(g) ==
    /\ StackFields \subseteq DOMAIN g
    /\ g.next_gen \in Nat \ {0}
    /\ DOMAIN g.sock = Slots /\ DOMAIN g.live = Slots /\ DOMAIN g.closing = Slots
    /\ \A h \in Slots :
         /\ g.live[h] \in 0 .. (g.next_gen - 1)
         /\ g.closing[h] \in Nat
         /\ {"kind", "id"} \subseteq DOMAIN g.sock[h]
         /\ g.closing[h] # 0 => g.live[h] = 0
         /\ g.closing[h] # 0 \/ g.live[h] # 0 => g.sock[h].kind # "none"

StreamOk(g, s) ==
    /\ s.handle \in Slots /\ s.gen \in 1 .. (g.next_gen - 1)
    /\ g.live[s.handle] = s.gen => g.sock[s.handle].id = s.id

Served(g, S) == StackOk(g) /\ \A s \in S : StreamOk(g, s)

SockFields == {"kind", "handle", "gen", "listening", "pool"}
ResOk(x, n) ==
    /\ SockFields \subseteq DOMAIN x
    /\ x.handle \in Slots /\ x.gen \in 1 .. (n - 1)
    /\ x.pool \in Seq(HandleGen(n))
    /\ x.listening => x.pool # << >>

TableOk(n) == DOMAIN res = Res /\ \A r \in Res : res[r] # NoRes => ResOk(res[r], n)

SockInv == Served(Stack, streams) /\ TableOk(next_gen) /\ strays = {}

-----------------------------------------------------------------------------
(* The stack. *)

\* Only what a socket is and who it is matters.
Alike(s, t) == {"kind", "id"} \subseteq DOMAIN t /\ t.kind = s.kind /\ t.id = s.id

Occupied(g) == {h \in Slots : g.sock[h].kind # "none"}

LEMMA AlikeOnes ==
    ASSUME NEW s, {"kind", "id"} \subseteq DOMAIN s
    PROVE  /\ Alike(s, s) /\ Alike(s, Abort(s)) /\ Alike(s, Fresh(s)) /\ Alike(s, TcpClose(s))
<1>1. Alike(s, s) /\ Alike(s, Abort(s)) /\ Alike(s, Fresh(s))
  BY DEF Alike, Abort, Fresh, Vacant
<1> DEFINE x == CASE s.st \in {"Listen", "SynSent"}           -> "Closed"
                  [] s.st \in {"SynReceived", "Established"}  -> "FinWait"
                  [] s.st = "CloseWait"                       -> "LastAck"
                  [] OTHER                                    -> s.st
<1>2. TcpClose(s) = [s EXCEPT !.st = x]
  BY DEF TcpClose
<1> HIDE DEF x
<1>3. Alike(s, [s EXCEPT !.st = x])
  BY DEF Alike
<1> QED
  BY <1>1, <1>2, <1>3

\* A new value for the socket of a slot.
LEMMA SockChange ==
    ASSUME NEW g, NEW S, Served(g, S), NEW h \in Slots, NEW t, Alike(g.sock[h], t)
    PROVE  LET e == [g EXCEPT !.sock[h] = t]
           IN  /\ Served(e, S) /\ e.live = g.live /\ e.next_gen = g.next_gen
               /\ e.sock = [g.sock EXCEPT ![h] = t]
               /\ t.kind # "none" => VacantSlots(g) \subseteq VacantSlots(e)
               /\ Occupied(e) = Occupied(g)
<1> DEFINE q == [g.sock EXCEPT ![h] = t]
           e == [g EXCEPT !.sock = q]
<1>1. e = [g EXCEPT !.sock[h] = t]
  OBVIOUS
<1>2. DOMAIN q = Slots /\ q[h] = t /\ \A k \in Slots : k # h => q[k] = g.sock[k]
  BY DEF Served, StackOk
<1> HIDE DEF q
<1>3. /\ StackFields \subseteq DOMAIN e /\ e.sock = q /\ e.live = g.live
      /\ e.next_gen = g.next_gen /\ e.closing = g.closing
  BY DEF Served, StackOk, StackFields
<1> HIDE DEF e
<1>4. \A k \in Slots : Alike(g.sock[k], e.sock[k])
  BY <1>2, <1>3 DEF Served, StackOk, Alike
<1>5. StackOk(e)
  BY <1>2, <1>3, <1>4 DEF Served, StackOk, Alike
<1>6. ASSUME NEW s \in S PROVE StreamOk(e, s)
  BY <1>3, <1>4 DEF Served, StreamOk, Alike
<1>7. t.kind # "none" => VacantSlots(g) \subseteq VacantSlots(e)
  <2> SUFFICES ASSUME t.kind # "none", NEW k \in VacantSlots(g) PROVE k \in VacantSlots(e)
    OBVIOUS
  <2>1. k \in Slots /\ g.sock[k] = Vacant
    BY DEF VacantSlots
  <2>2. k # h
    BY <2>1 DEF Alike, Vacant
  <2> QED
    BY <2>1, <2>2, <1>2, <1>3 DEF VacantSlots
<1>8. Served(e, S)
  BY <1>5, <1>6 DEF Served
<1>9. Occupied(e) = Occupied(g)
  BY <1>4 DEF Occupied, Alike
<1> QED
  BY <1>1, <1>3, <1>7, <1>8, <1>9 DEF q

LEMMA LeastExists ==
    ASSUME NEW S, S # {}, S \subseteq Nat
    PROVE  \E h \in S : \A k \in S : h <= k
<1> DEFINE R == OpToRel(<, Nat)
<1>1. IsWellFoundedOn(R, Nat)
  BY NatLessThanWellFounded, Zenon
<1> HIDE DEF R
<1>2. PICK h \in S : \A k \in S : ~(<<k, h>> \in R)
  BY <1>1, WFMin
<1>3. \A k \in S : ~(k < h)
  BY <1>2 DEF R, OpToRel
<1>4. \A k \in S : h <= k
  BY <1>3
<1> QED
  BY <1>4

LEMMA FirstVacantIs ==
    ASSUME NEW g, VacantSlots(g) # {}
    PROVE  FirstVacant(g) \in VacantSlots(g)
<1>1. VacantSlots(g) \subseteq Nat
  BY SocketAssumption DEF VacantSlots
<1> QED
  BY <1>1, LeastExists DEF FirstVacant

\* A socket added to a slot that is free.
LEMMA TrackOk ==
    ASSUME NEW g, NEW S, Served(g, S), VacantSlots(g) # {}, NEW s,
           {"kind", "id"} \subseteq DOMAIN s, s.kind # "none"
    PROVE  LET h == FirstVacant(g)
               e == track(g, s)
           IN  /\ Served(e, S) /\ h \in Slots /\ e.live[h] = g.next_gen
               /\ e.next_gen = g.next_gen + 1
               /\ VacantSlots(g) \ {h} \subseteq VacantSlots(e)
               /\ Occupied(g) \subseteq Occupied(e)
<1> DEFINE h == FirstVacant(g)
           t == [s EXCEPT !.id = g.added + 1]
           q == [g.sock EXCEPT ![h] = t]
           l == [g.live EXCEPT ![h] = g.next_gen]
           n == g.next_gen + 1
           a == g.added + 1
           e == [g EXCEPT !.sock = q, !.live = l, !.next_gen = n, !.added = a]
<1>1. h \in Slots /\ g.sock[h] = Vacant
  BY FirstVacantIs DEF VacantSlots
<1>2. track(g, s) = e
  BY DEF track
<1> HIDE DEF h
<1>3. {"kind", "id"} \subseteq DOMAIN t /\ t.kind # "none"
  OBVIOUS
<1> HIDE DEF t
<1>4. DOMAIN q = Slots /\ q[h] = t /\ \A k \in Slots : k # h => q[k] = g.sock[k]
  BY <1>1 DEF Served, StackOk
<1>5. DOMAIN l = Slots /\ l[h] = g.next_gen /\ \A k \in Slots : k # h => l[k] = g.live[k]
  BY <1>1 DEF Served, StackOk
<1> HIDE DEF q, l, a
<1>6. n \in Nat \ {0} /\ n = g.next_gen + 1
  BY DEF Served, StackOk
<1> HIDE DEF n
<1>7. /\ StackFields \subseteq DOMAIN e /\ e.sock = q /\ e.live = l
      /\ e.next_gen = n /\ e.closing = g.closing
  BY DEF Served, StackOk, StackFields
<1> HIDE DEF e
<1>8. g.closing[h] = 0
  BY <1>1 DEF Served, StackOk, Vacant
<1>9. ASSUME NEW k \in Slots
      PROVE  /\ e.live[k] \in 0 .. (e.next_gen - 1)
             /\ e.closing[k] \in Nat
             /\ {"kind", "id"} \subseteq DOMAIN e.sock[k]
             /\ e.closing[k] # 0 => e.live[k] = 0
             /\ e.closing[k] # 0 \/ e.live[k] # 0 => e.sock[k].kind # "none"
  <2>1. CASE k = h
    BY <2>1, <1>1, <1>3, <1>4, <1>5, <1>6, <1>7, <1>8 DEF Served, StackOk
  <2>2. CASE k # h
    BY <2>2, <1>1, <1>4, <1>5, <1>6, <1>7 DEF Served, StackOk
  <2> QED
    BY <2>1, <2>2
<1>10. StackOk(e)
  BY <1>4, <1>5, <1>6, <1>7, <1>9 DEF StackOk, Served
<1>11. ASSUME NEW x \in S PROVE StreamOk(e, x)
  <2>1. StreamOk(g, x) /\ g.next_gen \in Nat
    BY DEF Served, StackOk
  <2>2. CASE x.handle = h
    BY <2>1, <2>2, <1>5, <1>6, <1>7 DEF StreamOk
  <2>3. CASE x.handle # h
    BY <2>1, <2>3, <1>4, <1>5, <1>6, <1>7 DEF StreamOk
  <2> QED
    BY <2>2, <2>3
<1>12. VacantSlots(g) \ {h} \subseteq VacantSlots(e)
  BY <1>4, <1>7 DEF VacantSlots
<1>13. Served(e, S)
  BY <1>10, <1>11 DEF Served
<1>14. e.live[h] = g.next_gen /\ e.next_gen = g.next_gen + 1
  BY <1>5, <1>6, <1>7
<1>15. Occupied(g) \subseteq Occupied(e)
  BY <1>3, <1>4, <1>7 DEF Occupied
<1> QED
  BY <1>1, <1>2, <1>12, <1>13, <1>14, <1>15 DEF h

LEMMA BeginCloseOk ==
    ASSUME NEW g, NEW S, Served(g, S), NEW h \in Slots
    PROVE  LET e == begin_close(g, h)
           IN  /\ Served(e, S) /\ e.next_gen = g.next_gen /\ e.sock = g.sock
               /\ VacantSlots(e) = VacantSlots(g)
<1> DEFINE l == [g.live EXCEPT ![h] = 0]
           c == [g.closing EXCEPT ![h] = CLOSE_TICKS]
           e == [g EXCEPT !.live = l, !.closing = c]
<1>1. begin_close(g, h) = IF g.live[h] = 0 THEN g ELSE e
  BY DEF begin_close
<1>2. DOMAIN l = Slots /\ l[h] = 0 /\ \A k \in Slots : k # h => l[k] = g.live[k]
  BY DEF Served, StackOk
<1>3. DOMAIN c = Slots /\ c[h] = CLOSE_TICKS /\ \A k \in Slots : k # h => c[k] = g.closing[k]
  BY DEF Served, StackOk
<1> HIDE DEF l, c
<1>4. /\ StackFields \subseteq DOMAIN e /\ e.sock = g.sock /\ e.live = l
      /\ e.next_gen = g.next_gen /\ e.closing = c
  BY DEF Served, StackOk, StackFields
<1> HIDE DEF e
<1>5. g.live[h] # 0 => StackOk(e)
  <2> SUFFICES ASSUME g.live[h] # 0 PROVE StackOk(e)
    OBVIOUS
  <2>1. ASSUME NEW k \in Slots
        PROVE  /\ e.live[k] \in 0 .. (e.next_gen - 1)
               /\ e.closing[k] \in Nat
               /\ {"kind", "id"} \subseteq DOMAIN e.sock[k]
               /\ e.closing[k] # 0 => e.live[k] = 0
               /\ e.closing[k] # 0 \/ e.live[k] # 0 => e.sock[k].kind # "none"
    BY <1>2, <1>3, <1>4, SocketAssumption DEF Served, StackOk
  <2> QED
    BY <2>1, <1>2, <1>3, <1>4 DEF Served, StackOk
<1>6. ASSUME NEW x \in S PROVE StreamOk(e, x)
  BY <1>2, <1>4 DEF Served, StackOk, StreamOk
<1>7. VacantSlots(e) = VacantSlots(g)
  BY <1>4 DEF VacantSlots
<1> QED
  BY <1>1, <1>4, <1>5, <1>6, <1>7 DEF Served

LEMMA ReapOk ==
    ASSUME NEW g, NEW S, Served(g, S)
    PROVE  Served(reap_closing(g), S) /\ reap_closing(g).next_gen = g.next_gen
<1> DEFINE gone == {h \in Slots : /\ g.closing[h] # 0
                                  /\ Drained(g.sock[h]) \/ TicksLeft(g.closing[h]) = 0}
           q == [h \in Slots |-> IF h \in gone THEN Vacant ELSE g.sock[h]]
           c == [h \in Slots |-> IF h \in gone THEN 0 ELSE TicksLeft(g.closing[h])]
           e == [g EXCEPT !.sock = q, !.closing = c]
<1>1. reap_closing(g) = e
  BY DEF reap_closing
<1>2. \A h \in gone : g.closing[h] # 0
  OBVIOUS
<1> HIDE DEF gone
<1>3. /\ StackFields \subseteq DOMAIN e /\ e.sock = q /\ e.live = g.live
      /\ e.next_gen = g.next_gen /\ e.closing = c
  BY DEF Served, StackOk, StackFields
<1>4. ASSUME NEW k \in Slots
      PROVE  /\ c[k] \in Nat
             /\ {"kind", "id"} \subseteq DOMAIN q[k]
             /\ c[k] # 0 => g.live[k] = 0
             /\ c[k] # 0 \/ g.live[k] # 0 => q[k].kind # "none"
             /\ g.live[k] # 0 => q[k] = g.sock[k]
  <2>1. CASE k \in gone
    BY <2>1, <1>2 DEF Served, StackOk, Vacant
  <2>2. CASE k \notin gone
    <3>1. q[k] = g.sock[k] /\ c[k] = TicksLeft(g.closing[k])
      BY <2>2
    <3>2. c[k] \in Nat /\ (c[k] # 0 => g.closing[k] # 0)
      BY <3>1 DEF TicksLeft, Served, StackOk
    <3> QED
      BY <3>1, <3>2 DEF Served, StackOk
  <2> QED
    BY <2>1, <2>2
<1>5. DOMAIN q = Slots /\ DOMAIN c = Slots
  OBVIOUS
<1> HIDE DEF e, q, c
<1>6. StackOk(e)
  BY <1>3, <1>4, <1>5 DEF Served, StackOk
<1>7. ASSUME NEW x \in S PROVE StreamOk(e, x)
  BY <1>3, <1>4 DEF Served, StackOk, StreamOk
<1> QED
  BY <1>1, <1>3, <1>6, <1>7 DEF Served

-----------------------------------------------------------------------------
(* Loops that add sockets or give them up. *)

LEMMA SomeVacant ==
    ASSUME NEW g
    PROVE  /\ IsFiniteSet(VacantSlots(g)) /\ Cardinality(VacantSlots(g)) \in Nat
           /\ Cardinality(VacantSlots(g)) >= 1 => VacantSlots(g) # {}
<1>1. IsFiniteSet(VacantSlots(g))
  BY SocketAssumption, FS_Subset DEF VacantSlots
<1> QED
  BY <1>1, FS_CardinalityType, FS_EmptySet

LEMMA OneFewer ==
    ASSUME NEW g, NEW e, NEW h, VacantSlots(g) \ {h} \subseteq VacantSlots(e), NEW m \in Nat,
           Cardinality(VacantSlots(g)) >= m + 1
    PROVE  Cardinality(VacantSlots(e)) >= m
<1> DEFINE V == VacantSlots(g)
           W == VacantSlots(e)
<1>1. IsFiniteSet(V) /\ IsFiniteSet(W) /\ Cardinality(V) \in Nat /\ Cardinality(W) \in Nat
  BY SomeVacant
<1> HIDE DEF V, W
<1>2. IsFiniteSet(V \ {h}) /\ Cardinality(V \ {h}) \in {Cardinality(V), Cardinality(V) - 1}
  BY <1>1, FS_RemoveElement
<1>3. Cardinality(V \ {h}) <= Cardinality(W)
  BY <1>1, FS_Subset DEF V, W
<1> QED
  BY <1>1, <1>2, <1>3 DEF V, W

LEMMA Wider ==
    ASSUME NEW n \in Nat, NEW m \in Nat, n <= m
    PROVE  /\ HandleGen(n) \subseteq HandleGen(m)
           /\ \A q \in Seq(HandleGen(n)) : q \in Seq(HandleGen(m))
           /\ \A x : ResOk(x, n) => ResOk(x, m)
<1>1. HandleGen(n) \subseteq HandleGen(m)
  BY DEF HandleGen
<1>2. ASSUME NEW q \in Seq(HandleGen(n)) PROVE q \in Seq(HandleGen(m))
  <2> DEFINE E == HandleGen(n)
             F == HandleGen(m)
  <2>1. E \subseteq F /\ q \in Seq(E)
    BY <1>1
  <2> HIDE DEF E, F
  <2>2. q \in Seq(F)
    BY <2>1
  <2> QED
    BY <2>2 DEF F
<1> QED
  BY <1>1, <1>2 DEF ResOk

\* A stack with a pool under construction, m slots still vacant, n the first
\* generation handed out since.
Working(a, S, m, n) ==
    /\ Served(a.g, S) /\ a.pool \in Seq(HandleGen(a.g.next_gen))
    /\ Cardinality(VacantSlots(a.g)) >= m /\ n <= a.g.next_gen

LEMMA ListenerIs == \A ep : LET s == Listener(ep)
                            IN  {"kind", "id"} \subseteq DOMAIN s /\ s.kind # "none"
BY DEF Listener, fabric_tcp_socket, Vacant

\* What one more listener brings.
LEMMA OneListener ==
    ASSUME NEW g, NEW S, Served(g, S), NEW m \in Nat, Cardinality(VacantSlots(g)) >= m + 1,
           NEW ep
    PROVE  LET h == FirstVacant(g)
               e == track(g, Listener(ep))
           IN  /\ Served(e, S) /\ Cardinality(VacantSlots(e)) >= m
               /\ e.next_gen = g.next_gen + 1 /\ g.next_gen \in Nat
               /\ <<h, e.live[h]>> \in HandleGen(e.next_gen)
               /\ Occupied(g) \subseteq Occupied(e)
<1> DEFINE h == FirstVacant(g)
           s == Listener(ep)
           e == track(g, s)
<1>1. VacantSlots(g) # {}
  BY SomeVacant
<1>2. {"kind", "id"} \subseteq DOMAIN s /\ s.kind # "none"
  BY ListenerIs
<1> HIDE DEF s
<1>3. /\ Served(e, S) /\ h \in Slots /\ e.live[h] = g.next_gen
      /\ e.next_gen = g.next_gen + 1 /\ VacantSlots(g) \ {h} \subseteq VacantSlots(e)
      /\ Occupied(g) \subseteq Occupied(e)
  BY <1>1, <1>2, TrackOk
<1> HIDE DEF e, h
<1>4. Cardinality(VacantSlots(e)) >= m
  BY <1>3, OneFewer
<1>5. g.next_gen \in Nat \ {0}
  BY DEF Served, StackOk
<1>6. <<h, e.live[h]>> \in HandleGen(e.next_gen)
  BY <1>3, <1>5 DEF HandleGen
<1> QED
  BY <1>3, <1>4, <1>5, <1>6 DEF h, e, s

LEMMA ArmOk ==
    ASSUME NEW a, NEW S, NEW m \in Nat, NEW n \in Nat, Working(a, S, m + 1, n), NEW ep
    PROVE  Working(Arm(a, ep), S, m, n) /\ Len(Arm(a, ep).pool) = Len(a.pool) + 1
<1> DEFINE h == FirstVacant(a.g)
           e == track(a.g, Listener(ep))
           x == <<h, e.live[h]>>
           q == Append(a.pool, x)
<1>1. /\ Served(e, S) /\ Cardinality(VacantSlots(e)) >= m /\ e.next_gen = a.g.next_gen + 1
      /\ a.g.next_gen \in Nat /\ x \in HandleGen(e.next_gen)
  BY OneListener DEF Working
<1>2. Arm(a, ep) = [g |-> e, pool |-> q]
  BY DEF Arm
<1> HIDE DEF e, h, x
<1>3. a.pool \in Seq(HandleGen(e.next_gen)) /\ n <= e.next_gen
  BY <1>1, Wider DEF Working
<1> DEFINE E == HandleGen(e.next_gen)
<1>4. x \in E /\ a.pool \in Seq(E)
  BY <1>1, <1>3
<1> HIDE DEF E
<1>5. q \in Seq(E) /\ Len(q) = Len(a.pool) + 1
  BY <1>4
<1> HIDE DEF q
<1>6. Working([g |-> e, pool |-> q], S, m, n)
  BY <1>1, <1>3, <1>5 DEF Working, E
<1> QED
  BY <1>2, <1>5, <1>6

LEMMA RearmOk ==
    ASSUME NEW a, NEW S, NEW m \in Nat, NEW n \in Nat, Working(a, S, m + 1, n),
           NEW i \in DOMAIN a.pool
    PROVE  LET b == Rearm(a, i)
           IN  /\ Working(b, S, m, n) /\ Len(b.pool) = Len(a.pool)
               /\ \A j \in 1..Len(a.pool) : j # i => b.pool[j] = a.pool[j]
               /\ Occupied(a.g) \subseteq Occupied(b.g)
<1> DEFINE ep == a.g.sock[a.pool[i][1]].ep
           h == FirstVacant(a.g)
           e == track(a.g, Listener(ep))
           x == <<h, e.live[h]>>
           q == [a.pool EXCEPT ![i] = x]
<1>1. /\ Served(e, S) /\ Cardinality(VacantSlots(e)) >= m /\ e.next_gen = a.g.next_gen + 1
      /\ a.g.next_gen \in Nat /\ x \in HandleGen(e.next_gen)
      /\ Occupied(a.g) \subseteq Occupied(e)
  <2> HIDE DEF ep
  <2> QED
    BY OneListener DEF Working
<1>2. Rearm(a, i) = [g |-> e, pool |-> q]
  BY DEF Rearm
<1> HIDE DEF e, h, x
<1>3. a.pool \in Seq(HandleGen(e.next_gen)) /\ n <= e.next_gen
  BY <1>1, Wider DEF Working
<1> DEFINE E == HandleGen(e.next_gen)
<1>4. x \in E /\ a.pool \in Seq(E)
  BY <1>1, <1>3
<1> HIDE DEF E
<1>5. /\ q \in Seq(E) /\ Len(q) = Len(a.pool)
      /\ \A j \in 1..Len(a.pool) : j # i => q[j] = a.pool[j]
  BY <1>4, ExceptSeq
<1> HIDE DEF q
<1>6. Working([g |-> e, pool |-> q], S, m, n)
  BY <1>1, <1>3, <1>5 DEF Working, E
<1> QED
  BY <1>1, <1>2, <1>5, <1>6

\* A connection of the other family, given up and its entry armed again.
LEMMA RefuseOk ==
    ASSUME NEW a, NEW S, NEW m \in Nat, NEW n \in Nat, Working(a, S, m + 1, n),
           {"g", "pool"} \subseteq DOMAIN a, NEW i \in DOMAIN a.pool,
           a.pool[i][1] \in Occupied(a.g)
    PROVE  LET b == Refuse(a, i)
           IN  /\ Working(b, S, m, n) /\ Len(b.pool) = Len(a.pool)
               /\ \A j \in 1..Len(a.pool) : j # i => b.pool[j] = a.pool[j]
               /\ Occupied(a.g) \subseteq Occupied(b.g)
<1> DEFINE h == a.pool[i][1]
           t == Abort(a.g.sock[h])
           g1 == [a.g EXCEPT !.sock[h] = t]
           g2 == begin_close(g1, h)
           b == [a EXCEPT !.g = g2]
<1>1. Refuse(a, i) = Rearm(b, i)
  BY DEF Refuse
<1>2. h \in Slots /\ a.g.sock[h].kind # "none"
  BY DEF Occupied
<1> HIDE DEF h
<1>3. Alike(a.g.sock[h], t)
  BY <1>2, AlikeOnes DEF Working, Served, StackOk
<1> HIDE DEF t
<1>11. t.kind # "none" /\ Served(a.g, S)
  BY <1>2, <1>3 DEF Alike, Working
<1>4. /\ Served(g1, S) /\ g1.next_gen = a.g.next_gen
      /\ VacantSlots(a.g) \subseteq VacantSlots(g1) /\ Occupied(g1) = Occupied(a.g)
  BY <1>2, <1>3, <1>11, SockChange
<1> HIDE DEF g1
<1>5. /\ Served(g2, S) /\ g2.next_gen = g1.next_gen /\ VacantSlots(g2) = VacantSlots(g1)
      /\ Occupied(g2) = Occupied(g1)
  BY <1>2, <1>4, BeginCloseOk DEF Occupied
<1> HIDE DEF g2
<1>6. b.g = g2 /\ b.pool = a.pool
  OBVIOUS
<1>7. Cardinality(VacantSlots(g2)) >= m + 1
  <2>1. VacantSlots(a.g) \subseteq VacantSlots(g2)
    BY <1>4, <1>5
  <2>2. Cardinality(VacantSlots(a.g)) <= Cardinality(VacantSlots(g2))
    BY <2>1, SomeVacant, FS_Subset
  <2> QED
    BY <2>2, SomeVacant DEF Working
<1> HIDE DEF b
<1>8. Working(b, S, m + 1, n)
  BY <1>4, <1>5, <1>6, <1>7 DEF Working
<1>9. i \in DOMAIN b.pool
  BY <1>6
<1>10. /\ Working(Rearm(b, i), S, m, n) /\ Len(Rearm(b, i).pool) = Len(b.pool)
       /\ \A j \in 1..Len(b.pool) : j # i => Rearm(b, i).pool[j] = b.pool[j]
       /\ Occupied(b.g) \subseteq Occupied(Rearm(b, i).g)
  BY <1>8, <1>9, RearmOk
<1> QED
  BY <1>1, <1>4, <1>5, <1>6, <1>10

\* start_listen's loop.
ArmNext(eps, none, x, n) == Arm(x, eps[(n % Len(eps)) + 1])
Arming == INSTANCE Recursion WITH step <- ArmNext

LEMMA AddListenersOk ==
    ASSUME NEW g, NEW S, Served(g, S), NEW eps,
           Cardinality(VacantSlots(g)) >= LISTEN_BACKLOG - 1
    PROVE  Working(AddListeners(g, eps), S, 0, g.next_gen)
<1> DEFINE first == [g |-> g, pool |-> << >>]
           acc[n \in Nat] == IF n = 0 THEN first
                             ELSE Arm(acc[n - 1], eps[(n % Len(eps)) + 1])
           IsAcc(f) == f = [n \in Nat |-> IF n = 0 THEN first
                                          ELSE Arm(f[n - 1], eps[(n % Len(eps)) + 1])]
           N == LISTEN_BACKLOG - 1
<1>1. AddListeners(g, eps) = acc[N]
  BY DEF AddListeners
<1>2. IsAcc(acc)
  <2> HIDE DEF first
  <2>1. PICK q : Arming!IsRun(eps, {}, first, q)
    BY Arming!RunExists
  <2> QED
    BY <2>1 DEF Arming!IsRun, ArmNext
<1>3. N \in Nat /\ g.next_gen \in Nat
  BY SocketAssumption DEF Served, StackOk
<1>4. Working(first, S, N, g.next_gen)
  <2>1. << >> \in Seq(HandleGen(g.next_gen))
    OBVIOUS
  <2> QED
    BY <2>1, <1>3 DEF Working
<1> HIDE DEF acc, first, N
<1>5. acc[0] = first /\ \A n \in Nat : acc[n + 1] = Arm(acc[n], eps[((n + 1) % Len(eps)) + 1])
  BY <1>2
<1> HIDE DEF IsAcc
<1> DEFINE T == {n \in Nat : n <= N => Working(acc[n], S, N - n, g.next_gen)}
<1>6. 0 \in T
  <2>1. N - 0 = N
    BY <1>3
  <2>2. Working(acc[0], S, N - 0, g.next_gen)
    BY <2>1, <1>4, <1>5
  <2> QED
    BY <2>2
<1>7. ASSUME NEW n \in Nat, n \in T PROVE n + 1 \in T
  <2> SUFFICES ASSUME n + 1 <= N PROVE Working(acc[n + 1], S, N - (n + 1), g.next_gen)
    OBVIOUS
  <2> DEFINE m == N - (n + 1)
  <2>1. m \in Nat /\ m + 1 = N - n /\ n <= N
    BY <1>3
  <2> HIDE DEF m
  <2>2. Working(acc[n], S, m + 1, g.next_gen)
    BY <2>1, <1>7
  <2> DEFINE ep == eps[((n + 1) % Len(eps)) + 1]
  <2>4. acc[n + 1] = Arm(acc[n], ep)
    BY <1>5
  <2> HIDE DEF ep
  <2>5. Working(Arm(acc[n], ep), S, m, g.next_gen)
    BY <2>1, <2>2, <1>3, ArmOk
  <2>3. Working(acc[n + 1], S, m, g.next_gen)
    BY <2>4, <2>5
  <2> QED
    BY <2>3 DEF m
<1> HIDE DEF T
<1>8. \A n \in Nat : n \in T
  BY <1>6, <1>7, Arming!SetInduction
<1>9. Working(acc[N], S, N - N, g.next_gen)
  BY <1>3, <1>8 DEF T
<1>10. N - N = 0
  BY <1>3
<1> QED
  BY <1>1, <1>9, <1>10

\* accept's defensive pass.
RefuseNext(foreign, none, x, n) == IF n \in foreign THEN Refuse(x, n) ELSE x
Refusing == INSTANCE Recursion WITH step <- RefuseNext

LEMMA RefuseForeignOk ==
    ASSUME NEW a, NEW S, NEW F, IsFiniteSet(F), NEW b \in Nat,
           Working(a, S, 1 + Cardinality(F), b), {"g", "pool"} \subseteq DOMAIN a,
           F \subseteq DOMAIN a.pool, \A i \in F : a.pool[i][1] \in Occupied(a.g)
    PROVE  /\ Working(RefuseForeign(a, F), S, 1, b)
           /\ Len(RefuseForeign(a, F).pool) = Len(a.pool)
<1> DEFINE acc[n \in Nat] == IF n = 0 THEN a
                             ELSE IF n \in F THEN Refuse(acc[n - 1], n)
                             ELSE acc[n - 1]
           IsAcc(f) == f = [n \in Nat |-> IF n = 0 THEN a
                                          ELSE IF n \in F THEN Refuse(f[n - 1], n)
                                          ELSE f[n - 1]]
           N == Len(a.pool)
           Ahead(n) == {i \in F : i > n}
<1>1. RefuseForeign(a, F) = acc[N]
  BY DEF RefuseForeign
<1>2. IsAcc(acc)
  <2>1. PICK q : Refusing!IsRun(F, {}, a, q)
    BY Refusing!RunExists
  <2> QED
    BY <2>1 DEF Refusing!IsRun, RefuseNext
<1> HIDE DEF acc
<1>3. acc[0] = a /\ \A n \in Nat : acc[n + 1] = IF n + 1 \in F THEN Refuse(acc[n], n + 1) ELSE acc[n]
  BY <1>2
<1> HIDE DEF IsAcc
<1>4. N \in Nat /\ DOMAIN a.pool = 1..N
  BY DEF Working
<1>5. \A n \in Nat : IsFiniteSet(Ahead(n)) /\ Cardinality(Ahead(n)) \in Nat
  BY FS_Subset, FS_CardinalityType
<1> DEFINE Ok(n) ==
             /\ Working(acc[n], S, 1 + Cardinality(Ahead(n)), b)
             /\ {"g", "pool"} \subseteq DOMAIN acc[n] /\ Len(acc[n].pool) = N
             /\ \A j \in 1..N : j > n => acc[n].pool[j] = a.pool[j]
             /\ Occupied(a.g) \subseteq Occupied(acc[n].g)
           T == {n \in Nat : n <= N => Ok(n)}
<1>6. 0 \in T
  <2>1. Ahead(0) = F
    BY <1>4
  <2> QED
    BY <2>1, <1>3, <1>4
<1>7. ASSUME NEW n \in Nat, n \in T PROVE n + 1 \in T
  <2> SUFFICES ASSUME n + 1 <= N PROVE Ok(n + 1)
    OBVIOUS
  <2>1. Ok(n)
    BY <1>4, <1>7
  <2>2. CASE n + 1 \notin F
    <3>1. Ahead(n + 1) = Ahead(n)
      BY <2>2, <1>4
    <3>2. acc[n + 1] = acc[n]
      BY <2>2, <1>3
    <3> HIDE DEF Ahead
    <3>3. Working(acc[n + 1], S, 1 + Cardinality(Ahead(n + 1)), b)
      BY <2>1, <3>1, <3>2
    <3> QED
      BY <2>1, <3>2, <3>3, <1>4
  <2>3. CASE n + 1 \in F
    <3> DEFINE x == acc[n]
               m == 1 + Cardinality(Ahead(n + 1))
               y == Refuse(x, n + 1)
    <3>1. Cardinality(Ahead(n)) = Cardinality(Ahead(n + 1)) + 1
      <4>1. Ahead(n) = Ahead(n + 1) \union {n + 1} /\ n + 1 \notin Ahead(n + 1)
        BY <2>3, <1>4
      <4> DEFINE L == Ahead(n + 1)
      <4>2. IsFiniteSet(L) /\ n + 1 \notin L /\ Ahead(n) = L \union {n + 1}
        BY <4>1, <1>5
      <4> HIDE DEF Ahead, L
      <4>3. Cardinality(L \union {n + 1}) = Cardinality(L) + 1
        BY <4>2, FS_AddElement
      <4> QED
        BY <4>2, <4>3 DEF L
    <3> DEFINE k == Cardinality(Ahead(n + 1))
    <3>11. n + 1 \in Nat
      OBVIOUS
    <3> HIDE DEF Ahead
    <3>10. k \in Nat
      BY <1>5, <3>11, Zenon
    <3>2. m \in Nat /\ 1 + Cardinality(Ahead(n)) = m + 1
      <4>1. m = 1 + k /\ Cardinality(Ahead(n)) = k + 1
        BY <3>1
      <4> HIDE DEF k, m
      <4> QED
        BY <4>1, <3>10
    <3>3. Working(x, S, m + 1, b)
      BY <2>1, <3>2
    <3>4. /\ {"g", "pool"} \subseteq DOMAIN x /\ Len(x.pool) = N
          /\ \A j \in 1..N : j > n => x.pool[j] = a.pool[j]
          /\ Occupied(a.g) \subseteq Occupied(x.g)
      BY <2>1
    <3> HIDE DEF x, m
    <3>5. n + 1 \in DOMAIN x.pool /\ x.pool[n + 1][1] \in Occupied(x.g)
      BY <2>3, <3>3, <3>4, <1>4 DEF Working
    <3>6. /\ Working(y, S, m, b) /\ Len(y.pool) = N
          /\ \A j \in 1..N : j # n + 1 => y.pool[j] = x.pool[j]
          /\ Occupied(x.g) \subseteq Occupied(y.g)
      <4>1. /\ Working(y, S, m, b) /\ Len(y.pool) = Len(x.pool)
            /\ \A j \in 1..Len(x.pool) : j # n + 1 => y.pool[j] = x.pool[j]
            /\ Occupied(x.g) \subseteq Occupied(y.g)
        BY <3>2, <3>3, <3>4, <3>5, RefuseOk
      <4> HIDE DEF y
      <4> QED
        BY <4>1, <3>4
    <3>7. {"g", "pool"} \subseteq DOMAIN y
      BY DEF Refuse, Rearm
    <3>8. acc[n + 1] = y
      BY <2>3, <1>3 DEF x
    <3> HIDE DEF y
    <3>9. \A j \in 1..N : j > n + 1 => y.pool[j] = a.pool[j]
      BY <3>4, <3>6, <1>4
    <3> QED
      BY <3>4, <3>6, <3>7, <3>8, <3>9 DEF m
  <2> QED
    BY <2>2, <2>3
<1> HIDE DEF T
<1>8. \A n \in Nat : n \in T
  BY <1>6, <1>7, Refusing!SetInduction
<1>9. Ok(N)
  BY <1>4, <1>8 DEF T
<1>10. Ahead(N) = {}
  BY <1>4
<1>11. Cardinality(Ahead(N)) = 0
  BY <1>10, FS_EmptySet
<1> QED
  BY <1>1, <1>9, <1>11

\* A socket's pool, given up.
DropNext(pool, close, x, n) == DropEntry(x, pool[n], close)
Dropping == INSTANCE Recursion WITH step <- DropNext

LEMMA DropEntryOk ==
    ASSUME NEW g, NEW S, Served(g, S), NEW e, e[1] \in Slots, NEW close
    PROVE  Served(DropEntry(g, e, close), S) /\ DropEntry(g, e, close).next_gen = g.next_gen
<1> DEFINE h == e[1]
           t == TcpClose(g.sock[h])
           c == [g EXCEPT !.sock[h] = t]
           d == CloseIfCurrent(g, e)
           f == IF close THEN d ELSE g
<1>1. Alike(g.sock[h], t)
  BY AlikeOnes DEF Served, StackOk
<1>2. d \in {c, g}
  BY DEF CloseIfCurrent
<1> HIDE DEF t, h, d
<1>3. Served(c, S) /\ c.next_gen = g.next_gen
  BY <1>1, SockChange DEF h
<1> HIDE DEF c
<1>4. Served(f, S) /\ f.next_gen = g.next_gen
  BY <1>2, <1>3
<1> HIDE DEF f
<1>5. Served(begin_close(f, h), S) /\ begin_close(f, h).next_gen = g.next_gen
  BY <1>4, BeginCloseOk DEF h
<1>6. DropEntry(g, e, close) \in {begin_close(f, h), g}
  BY DEF DropEntry, f, h, d
<1> QED
  BY <1>5, <1>6

LEMMA DropPoolOk ==
    ASSUME NEW g, NEW S, Served(g, S), NEW m, NEW pool \in Seq(HandleGen(m)), NEW close
    PROVE  Served(DropPool(g, pool, close), S) /\ DropPool(g, pool, close).next_gen = g.next_gen
<1> DEFINE acc[n \in Nat] == IF n = 0 THEN g ELSE DropEntry(acc[n - 1], pool[n], close)
           IsAcc(f) == f = [n \in Nat |-> IF n = 0 THEN g ELSE DropEntry(f[n - 1], pool[n], close)]
           N == Len(pool)
<1>1. DropPool(g, pool, close) = acc[N]
  BY DEF DropPool
<1>2. IsAcc(acc)
  <2>1. PICK q : Dropping!IsRun(pool, close, g, q)
    BY Dropping!RunExists
  <2> QED
    BY <2>1 DEF Dropping!IsRun, DropNext
<1> HIDE DEF acc
<1>3. acc[0] = g /\ \A n \in Nat : acc[n + 1] = DropEntry(acc[n], pool[n + 1], close)
  BY <1>2
<1> HIDE DEF IsAcc
<1>4. N \in Nat /\ \A n \in 1..N : pool[n][1] \in Slots
  <2>1. \A n \in 1..N : pool[n] \in HandleGen(m)
    OBVIOUS
  <2> QED
    BY <2>1 DEF HandleGen
<1> DEFINE T == {n \in Nat : n <= N => Served(acc[n], S) /\ acc[n].next_gen = g.next_gen}
<1>5. 0 \in T
  BY <1>3
<1>6. ASSUME NEW n \in Nat, n \in T PROVE n + 1 \in T
  <2> SUFFICES ASSUME n + 1 <= N PROVE Served(acc[n + 1], S) /\ acc[n + 1].next_gen = g.next_gen
    OBVIOUS
  <2>1. n <= N /\ n + 1 \in 1..N
    BY <1>4
  <2>2. Served(acc[n], S) /\ acc[n].next_gen = g.next_gen /\ pool[n + 1][1] \in Slots
    BY <2>1, <1>4, <1>6
  <2> DEFINE e == pool[n + 1]
             x == acc[n]
  <2>3. acc[n + 1] = DropEntry(x, e, close) /\ Served(x, S) /\ e[1] \in Slots
    BY <2>2, <1>3
  <2> HIDE DEF e, x
  <2>4. Served(DropEntry(x, e, close), S) /\ DropEntry(x, e, close).next_gen = x.next_gen
    BY <2>3, DropEntryOk
  <2> QED
    BY <2>2, <2>3, <2>4 DEF x
<1> HIDE DEF T
<1>7. \A n \in Nat : n \in T
  BY <1>5, <1>6, Dropping!SetInduction
<1> QED
  BY <1>1, <1>4, <1>7 DEF T

-----------------------------------------------------------------------------
(* The steps. *)

\* A stack written back.
LEMMA WrittenBack ==
    ASSUME NEW g, NEW S, Served(g, S), SetStack(g)
    PROVE  Served(Stack', S)
<1> DEFINE t == [sock |-> sock', live |-> live', next_gen |-> next_gen', closing |-> closing',
                 added |-> added']
<1>1. /\ t.sock = g.sock /\ t.live = g.live /\ t.next_gen = g.next_gen
      /\ t.closing = g.closing /\ StackFields \subseteq DOMAIN t
  BY DEF SetStack, StackFields
<1>2. Stack' = t
  BY DEF Stack
<1> HIDE DEF t
<1>3. StackOk(t)
  BY <1>1 DEF Served, StackOk
<1>4. ASSUME NEW s \in S PROVE StreamOk(t, s)
  BY <1>1 DEF Served, StreamOk
<1> QED
  BY <1>2, <1>3, <1>4 DEF Served

LEMMA StackIs ==
    /\ Stack.sock = sock /\ Stack.live = live /\ Stack.next_gen = next_gen
    /\ Stack.closing = closing /\ Stack.added = added
BY DEF Stack

\* A step that changes one socket, and neither what nor who it is.
OneSock == \E h \in Slots : \E t : /\ Alike(sock[h], t) /\ sock' = [sock EXCEPT ![h] = t]
                                   /\ UNCHANGED <<live, next_gen, closing, added>>

LEMMA OneSockServed ==
    ASSUME NEW S, Served(Stack, S), OneSock
    PROVE  Served(Stack', S)
<1>1. PICK h \in Slots : \E t : /\ Alike(sock[h], t) /\ sock' = [sock EXCEPT ![h] = t]
                                /\ UNCHANGED <<live, next_gen, closing, added>>
  BY DEF OneSock
<1>2. PICK t : /\ Alike(sock[h], t) /\ sock' = [sock EXCEPT ![h] = t]
               /\ UNCHANGED <<live, next_gen, closing, added>>
  BY <1>1
<1> DEFINE e == [Stack EXCEPT !.sock[h] = t]
<1>3. Served(e, S)
  BY <1>2, SockChange, StackIs
<1>4. SetStack(e)
  BY <1>2 DEF SetStack, Stack
<1> HIDE DEF e
<1> QED
  BY <1>3, <1>4, WrittenBack

LEMMA SockKnown == ASSUME SockInv, NEW h \in Slots
                   PROVE  {"kind", "id"} \subseteq DOMAIN sock[h] /\ DOMAIN sock = Slots
BY StackIs DEF SockInv, Served, StackOk

\* One resource of the table changes.
LEMMA OneRes ==
    ASSUME SockInv, NEW r \in Res, NEW x, res' = [res EXCEPT ![r] = x],
           next_gen' \in Nat, next_gen <= next_gen',
           x # NoRes => ResOk(x, next_gen')
    PROVE  TableOk(next_gen)'
<1>1. next_gen \in Nat
  BY StackIs DEF SockInv, Served, StackOk
<1>2. DOMAIN res = Res /\ \A k \in Res : res[k] # NoRes => ResOk(res[k], next_gen')
  BY <1>1, Wider DEF SockInv, TableOk
<1>3. DOMAIN res' = Res /\ \A k \in Res : res'[k] # NoRes => ResOk(res'[k], next_gen')
  BY <1>2
<1> QED
  BY <1>3 DEF TableOk

LEMMA ResKept ==
    ASSUME SockInv, UNCHANGED res, next_gen' = next_gen
    PROVE  TableOk(next_gen)'
BY DEF SockInv, TableOk

LEMMA Opened ==
    ASSUME SockInv, NEW kind, NEW r \in Open(kind)
    PROVE  r \in Res /\ ResOk(res[r], next_gen) /\ next_gen \in Nat /\ DOMAIN res = Res
BY StackIs DEF SockInv, TableOk, Open, Served, StackOk

\* A stream opened on a handle and generation the guest holds.
LEMMA NewStream ==
    ASSUME SockInv, NEW h \in Slots, NEW gen \in 1 .. (next_gen - 1), NEW p
    PROVE  Served(Stack, streams \union {StreamOf(h, gen, p)})
<1>1. StreamOk(Stack, StreamOf(h, gen, p))
  BY StackIs DEF StreamOk, StreamOf
<1> QED
  BY <1>1 DEF Served, SockInv

LEMMA KeptInv ==
    ASSUME SockInv, Served(Stack', streams'), TableOk(next_gen)', UNCHANGED strays
    PROVE  SockInv'
BY DEF SockInv

\* Nothing of the stack changes.
LEMMA SameStack ==
    ASSUME NEW S, Served(Stack, S), UNCHANGED <<sock, live, next_gen, closing, added>>
    PROVE  Served(Stack', S)
BY DEF Stack

\* A stream that uses its socket leaves no stray.
LEMMA NoStray ==
    ASSUME SockInv, NEW s \in streams, is_current(Stack, s.handle, s.gen), Uses(s)
    PROVE  UNCHANGED strays
<1>1. sock[s.handle].id = s.id
  BY StackIs DEF SockInv, Served, StreamOk, is_current
<1> QED
  BY <1>1 DEF Uses, SockInv

LEMMA UseKeeps ==
    ASSUME SockInv, NEW s \in streams, is_current(Stack, s.handle, s.gen), Uses(s), NEW t,
           Alike(sock[s.handle], t), sock' = [sock EXCEPT ![s.handle] = t],
           UNCHANGED <<live, next_gen, closing, added, res, streams>>
    PROVE  SockInv'
<1>1. s.handle \in Slots
  BY DEF SockInv, Served, StreamOk
<1>2. OneSock
  BY <1>1 DEF OneSock
<1>3. Served(Stack', streams')
  BY <1>2, OneSockServed DEF SockInv
<1> QED
  BY <1>3, NoStray, ResKept, KeptInv

LEMMA CreateKeeps ==
    ASSUME SockInv, NEW kind \in {"tcp", "udp"}, NEW f, Create(kind, f)
    PROVE  SockInv'
<1> DEFINE h == FirstVacant(Stack)
           s == IF kind = "tcp" THEN fabric_tcp_socket ELSE fabric_udp_socket
           g == track(Stack, s)
           r == CHOOSE r \in FreeRes : TRUE
           x == NewSock(kind, f, h, g.live[h])
<1>1. /\ FreeRes # {} /\ Room(Stack, 1) /\ SetStack(g) /\ res' = [res EXCEPT ![r] = x]
      /\ UNCHANGED <<streams, strays>>
  BY DEF Create
<1>2. r \in Res
  BY <1>1 DEF FreeRes
<1>3. VacantSlots(Stack) # {}
  BY <1>1, SomeVacant DEF Room
<1>4. {"kind", "id"} \subseteq DOMAIN s /\ s.kind # "none"
  BY DEF fabric_tcp_socket, fabric_udp_socket, Vacant
<1> HIDE DEF s, r
<1>10. Served(Stack, streams)
  BY DEF SockInv
<1>5. /\ Served(g, streams) /\ h \in Slots /\ g.live[h] = next_gen /\ g.next_gen = next_gen + 1
  <2>1. /\ Served(g, streams) /\ h \in Slots /\ g.live[h] = Stack.next_gen
        /\ g.next_gen = Stack.next_gen + 1
    BY <1>3, <1>4, <1>10, TrackOk
  <2> HIDE DEF g, h
  <2> QED
    BY <2>1, StackIs
<1> HIDE DEF g, h
<1>6. next_gen \in Nat \ {0} /\ next_gen' = next_gen + 1
  BY <1>1, <1>5, StackIs DEF SockInv, Served, StackOk, SetStack
<1>7. ResOk(x, next_gen')
  <2>1. << >> \in Seq(HandleGen(next_gen'))
    OBVIOUS
  <2> QED
    BY <2>1, <1>5, <1>6 DEF ResOk, NewSock, SockFields
<1> HIDE DEF x
<1>11. next_gen' \in Nat /\ next_gen <= next_gen'
  BY <1>6
<1>8. TableOk(next_gen)'
  BY <1>1, <1>2, <1>11, <1>7, OneRes
<1>9. Served(Stack', streams')
  BY <1>1, <1>5, WrittenBack
<1> QED
  BY <1>1, <1>8, <1>9, KeptInv

LEMMA BindKeeps ==
    ASSUME SockInv, NEW r \in Open("tcp"), NEW at, TcpBind(r, at)
    PROVE  SockInv'
<1> DEFINE x == [res[r] EXCEPT !.bound = TRUE, !.local = at]
<1>1. r \in Res /\ ResOk(res[r], next_gen) /\ next_gen \in Nat /\ DOMAIN res = Res
  BY Opened
<1>2. res' = [res EXCEPT ![r] = x]
  BY <1>1 DEF TcpBind
<1>3. ResOk(x, next_gen)
  BY <1>1 DEF ResOk, SockFields
<1> HIDE DEF x
<1>4. UNCHANGED <<sock, live, next_gen, closing, added, streams, strays>>
  BY DEF TcpBind
<1>6. next_gen' \in Nat /\ next_gen <= next_gen' /\ ResOk(x, next_gen')
  BY <1>1, <1>3, <1>4
<1>5. TableOk(next_gen)'
  BY <1>1, <1>2, <1>6, OneRes
<1> QED
  BY <1>4, <1>5, SameStack, KeptInv DEF SockInv

LEMMA ConnectKeeps ==
    ASSUME SockInv, NEW r \in Open("tcp"), NEW p, start_connect(r, p)
    PROVE  SockInv'
<1> DEFINE h == res[r].handle
           t == [Fresh(sock[h]) EXCEPT !.st = "SynSent", !.peer = p]
           x == [res[r] EXCEPT !.connecting = TRUE, !.remote = p]
<1>1. r \in Res /\ ResOk(res[r], next_gen) /\ next_gen \in Nat /\ DOMAIN res = Res
  BY Opened
<1>2. res' = [res EXCEPT ![r] = x] /\ sock' = [sock EXCEPT ![h] = t]
  BY <1>1 DEF start_connect
<1>3. ResOk(x, next_gen)
  BY <1>1 DEF ResOk, SockFields
<1>4. h \in Slots
  BY <1>1 DEF ResOk
<1>5. Alike(sock[h], t)
  BY DEF Alike, Fresh, Vacant
<1> HIDE DEF x, t, h
<1>6. UNCHANGED <<live, next_gen, closing, added, streams, strays>>
  BY DEF start_connect
<1>7. OneSock
  BY <1>2, <1>4, <1>5, <1>6 DEF OneSock
<1>8. Served(Stack', streams')
  BY <1>6, <1>7, OneSockServed DEF SockInv
<1>10. next_gen' \in Nat /\ next_gen <= next_gen' /\ ResOk(x, next_gen')
  BY <1>1, <1>3, <1>6
<1>9. TableOk(next_gen)'
  BY <1>1, <1>2, <1>10, OneRes
<1> QED
  BY <1>6, <1>8, <1>9, KeptInv

LEMMA FinishKeeps ==
    ASSUME SockInv, NEW r \in Open("tcp"), finish_connect(r)
    PROVE  SockInv'
<1> DEFINE s == res[r]
           done == api = "p3"
           rem == IF api = "p3" THEN NoPeer ELSE s.remote
           x == [s EXCEPT !.connecting = FALSE, !.connected = TRUE]
           y == [s EXCEPT !.connecting = FALSE, !.closed = done, !.remote = rem]
           new == StreamOf(s.handle, s.gen, NoPeer)
<1>1. r \in Res /\ ResOk(res[r], next_gen) /\ next_gen \in Nat /\ DOMAIN res = Res
  BY Opened
<1>2. \/ res' = [res EXCEPT ![r] = x] /\ streams' = streams \union {new}
      \/ res' = [res EXCEPT ![r] = y] /\ streams' = streams
  <2>1. CASE /\ res' = [res EXCEPT ![r].connecting = FALSE, ![r].connected = TRUE]
             /\ streams' = streams \union {new}
    BY <2>1, <1>1
  <2>2. CASE /\ res' = [res EXCEPT ![r].connecting = FALSE, ![r].closed = done,
                                   ![r].remote = IF api = "p3" THEN NoPeer ELSE @]
             /\ UNCHANGED streams
    <3> HIDE DEF done
    <3> QED
      BY <2>2, <1>1
  <2> QED
    BY <2>1, <2>2 DEF finish_connect
<1> HIDE DEF done, rem
<1>3. ResOk(x, next_gen) /\ ResOk(y, next_gen)
  BY <1>1 DEF ResOk, SockFields
<1> HIDE DEF x, y
<1>4. UNCHANGED <<sock, live, next_gen, closing, added, strays>>
  BY DEF finish_connect
<1>5. TableOk(next_gen)'
  BY <1>1, <1>2, <1>3, <1>4, OneRes
<1>6. Served(Stack, streams \union {new}) /\ Served(Stack, streams)
  BY <1>1, NewStream DEF ResOk, SockInv
<1> HIDE DEF new
<1>7. Served(Stack', streams')
  BY <1>2, <1>4, <1>6, SameStack
<1> QED
  BY <1>4, <1>5, <1>7, KeptInv

LEMMA ListenKeeps ==
    ASSUME SockInv, NEW r \in Open("tcp"), start_listen(r)
    PROVE  SockInv'
<1> DEFINE s == res[r]
           h == s.handle
           eps == listen_endpoints(s.family, s.local)
           t == [Fresh(sock[h]) EXCEPT !.st = "Listen", !.ep = eps[1]]
           g0 == [Stack EXCEPT !.sock[h] = t]
           more == AddListeners(g0, eps)
           e == <<h, s.gen>>
           q == <<e>> \o more.pool
           x == [s EXCEPT !.listening = TRUE, !.bound = TRUE, !.pool = q]
<1>1. r \in Res /\ ResOk(res[r], next_gen) /\ next_gen \in Nat /\ DOMAIN res = Res
  BY Opened
<1>2. /\ sock[h].st = "Closed" /\ Room(Stack, LISTEN_BACKLOG - 1) /\ SetStack(more.g)
      /\ UNCHANGED <<streams, strays>>
  BY StackIs DEF start_listen
<1>3. res' = [res EXCEPT ![r] = x]
  BY <1>1, StackIs DEF start_listen
<1>4. h \in Slots /\ Served(Stack, streams)
  BY <1>1 DEF ResOk, SockInv
<1> HIDE DEF eps
<1>5. Alike(sock[h], t) /\ Alike(Stack.sock[h], t) /\ t # Vacant /\ sock[h] # Vacant
  <2>1. t.st = "Listen" /\ Alike(sock[h], t)
    BY DEF Alike, Fresh, Vacant
  <2>2. Vacant.st = "none"
    BY DEF Vacant
  <2> HIDE DEF t
  <2> QED
    BY <2>1, <2>2, <1>2, StackIs
<1> HIDE DEF t, h
<1>6. Served(g0, streams) /\ g0.next_gen = next_gen /\ g0.sock = [sock EXCEPT ![h] = t]
  BY <1>4, <1>5, SockChange, StackIs
<1> HIDE DEF g0
<1>7. VacantSlots(g0) = VacantSlots(Stack)
  <2>1. DOMAIN sock = Slots
    BY <1>4, SockKnown
  <2> QED
    BY <2>1, <1>4, <1>5, <1>6, StackIs DEF VacantSlots
<1>8. Working(more, streams, 0, next_gen)
  BY <1>2, <1>6, <1>7, AddListenersOk DEF Room
<1> HIDE DEF more
<1>9. next_gen' = more.g.next_gen /\ next_gen' \in Nat /\ next_gen <= next_gen'
  BY <1>2, <1>8 DEF SetStack, Working, Served, StackOk
<1>10. e \in HandleGen(next_gen')
  <2>1. s.gen \in 1 .. (next_gen - 1)
    BY <1>1 DEF ResOk
  <2> QED
    BY <2>1, <1>1, <1>4, <1>9 DEF HandleGen
<1> HIDE DEF e
<1>11. q \in Seq(HandleGen(next_gen')) /\ q # << >>
  <2> DEFINE E == HandleGen(next_gen')
  <2>1. e \in E /\ more.pool \in Seq(E)
    BY <1>8, <1>9, <1>10 DEF Working
  <2> HIDE DEF E
  <2>2. q \in Seq(E) /\ Len(q) = 1 + Len(more.pool) /\ Len(more.pool) \in Nat
    BY <2>1
  <2>3. q # << >>
    BY <2>2
  <2> QED
    BY <2>2, <2>3 DEF E
<1> HIDE DEF q
<1>12. ResOk(x, next_gen')
  <2>1. ResOk(s, next_gen')
    BY <1>1, <1>9, Wider
  <2> HIDE DEF s
  <2> QED
    BY <2>1, <1>11 DEF ResOk, SockFields
<1> HIDE DEF x
<1>13. TableOk(next_gen)'
  BY <1>1, <1>3, <1>9, <1>12, OneRes
<1>14. Served(Stack', streams')
  BY <1>2, <1>8, WrittenBack DEF Working
<1> QED
  BY <1>2, <1>13, <1>14, KeptInv

\* The listener after accept: its pool renewed, its handle the pool's first.
LEMMA Renewed ==
    ASSUME NEW s, NEW n, NEW m, ResOk(s, n), NEW a, NEW S, NEW k, NEW b, Working(a, S, k, b),
           m = a.g.next_gen, Len(a.pool) = Len(s.pool), s.pool # << >>
    PROVE  ResOk([s EXCEPT !.pool = a.pool, !.handle = a.pool[1][1], !.gen = a.pool[1][2]], m)
<1> DEFINE h == a.pool[1][1]
           gen == a.pool[1][2]
           x == [s EXCEPT !.pool = a.pool, !.handle = h, !.gen = gen]
<1>1. a.pool \in Seq(HandleGen(m)) /\ Len(a.pool) \in Nat \ {0}
  BY DEF Working, ResOk
<1>2. a.pool[1] \in HandleGen(m) /\ a.pool # << >>
  BY <1>1
<1>3. h \in Slots /\ gen \in 1 .. (m - 1)
  BY <1>2 DEF HandleGen
<1> HIDE DEF h, gen
<1>4. ResOk(x, m)
  BY <1>1, <1>2, <1>3 DEF ResOk, SockFields
<1> QED
  BY <1>4 DEF x, h, gen

LEMMA AcceptKeeps ==
    ASSUME SockInv, NEW r \in Open("tcp"), accept(r)
    PROVE  SockInv'
<1> DEFINE s == res[r]
           F == Foreign(r)
           mine == Ripe(r) \ F
           i == CHOOSE i \in mine : \A k \in mine : i <= k
           e == s.pool[i]
           new == StreamOf(e[1], e[2], NoPeer)
           a0 == [g |-> Stack, pool |-> s.pool]
           a1 == RefuseForeign(a0, F)
           a2 == Replenish(a1, i)
           c == CHOOSE c \in FreeRes : TRUE
           p == sock[e[1]].peer
           Own(a) == [s EXCEPT !.pool = a.pool, !.handle = a.pool[1][1], !.gen = a.pool[1][2]]
           conn == [NewSock("tcp", s.family, e[1], e[2])
                      EXCEPT !.bound = TRUE, !.connected = TRUE, !.remote = p]
<1>1. r \in Res /\ ResOk(s, next_gen) /\ next_gen \in Nat /\ DOMAIN res = Res /\ s # NoRes
  BY Opened DEF Open
<1>2. /\ Ripe(r) # {} /\ FreeRes # {} /\ Room(Stack, 1 + Cardinality(F)) /\ UNCHANGED strays
  BY DEF accept
<1>3. \/ /\ mine = {} /\ SetStack(a1.g) /\ streams' = streams
         /\ res' = [res EXCEPT ![r].pool = a1.pool, ![r].handle = a1.pool[1][1],
                               ![r].gen = a1.pool[1][2]]
      \/ /\ mine # {} /\ SetStack(a2.g) /\ streams' = streams \union {new}
         /\ res' = [res EXCEPT ![r].pool = a2.pool, ![r].handle = a2.pool[1][1],
                               ![r].gen = a2.pool[1][2], ![c] = conn]
  BY DEF accept
<1>4. Ripe(r) \subseteq 1..Len(s.pool) /\ s.pool \in Seq(HandleGen(next_gen)) /\ Len(s.pool) \in Nat
  BY <1>1 DEF Ripe, ResOk
<1>5. s.pool # << >>
  BY <1>2, <1>4
<1>6. F \subseteq 1..Len(s.pool) /\ IsFiniteSet(F) /\ Cardinality(F) \in Nat
  <2>1. F \subseteq 1..Len(s.pool)
    BY <1>4 DEF Foreign
  <2> QED
    <3> DEFINE L == Len(s.pool)
    <3>1. L \in Int /\ 1 \in Int /\ F \subseteq 1..L
      BY <2>1, <1>4
    <3> HIDE DEF L, F
    <3>2. IsFiniteSet(1..L)
      BY <3>1, FS_Interval
    <3>3. IsFiniteSet(F)
      BY <3>1, <3>2, FS_Subset
    <3> QED
      BY <2>1, <3>3, FS_CardinalityType
<1>7. \A j \in F : s.pool[j][1] \in Occupied(Stack)
  <2> SUFFICES ASSUME NEW j \in F PROVE s.pool[j][1] \in Occupied(Stack)
    OBVIOUS
  <2>1. j \in 1..Len(s.pool) /\ Current(Stack, s.pool[j])
    BY <1>6 DEF Foreign, Ripe
  <2>2. s.pool[j] \in HandleGen(next_gen)
    BY <2>1, <1>4
  <2>3. /\ s.pool[j][1] \in Slots /\ s.pool[j][2] # 0
    BY <2>2 DEF HandleGen
  <2>4. Stack.live[s.pool[j][1]] # 0
    BY <2>1, <2>3 DEF Current, is_current
  <2> QED
    BY <2>3, <2>4 DEF Occupied, SockInv, Served, StackOk
<1> HIDE DEF F
\* What the stack is after the defensive pass, for the streams S.
<1> DEFINE First(S) == Working(a1, S, 1, next_gen) /\ Len(a1.pool) = Len(s.pool)
<1>8. ASSUME NEW S, Served(Stack, S) PROVE First(S)
  <2>1. a0.g = Stack /\ a0.pool = s.pool /\ {"g", "pool"} \subseteq DOMAIN a0
    OBVIOUS
  <2> HIDE DEF a0
  <2>2. Working(a0, S, 1 + Cardinality(F), next_gen)
    <3>1. Cardinality(VacantSlots(Stack)) >= 1 + Cardinality(F)
      BY <1>2 DEF Room
    <3>2. Stack.next_gen = next_gen /\ next_gen <= Stack.next_gen
      BY <1>1, StackIs
    <3> HIDE DEF s
    <3> QED
      BY <3>1, <3>2, <1>4, <1>8, <2>1 DEF Working
  <2>3. F \subseteq DOMAIN a0.pool /\ \A j \in F : a0.pool[j][1] \in Occupied(a0.g)
    <3> HIDE DEF s
    <3>1. DOMAIN s.pool = 1..Len(s.pool)
      BY <1>4
    <3> QED
      BY <3>1, <1>6, <1>7, <2>1
  <2> QED
    BY <1>1, <1>6, <2>1, <2>2, <2>3, RefuseForeignOk
<1> HIDE DEF a0, a1
<1>9. CASE mine = {}
  <2>1. Working(a1, streams, 1, next_gen) /\ Len(a1.pool) = Len(s.pool)
    BY <1>8 DEF SockInv
  <2> DEFINE x == Own(a1)
  <2>2. res' = [res EXCEPT ![r] = x]
    BY <1>1, <1>3, <1>9
  <2>3. SetStack(a1.g) /\ streams' = streams
    BY <1>3, <1>9
  <2>4. next_gen' = a1.g.next_gen /\ next_gen' \in Nat /\ next_gen <= next_gen'
    BY <2>1, <2>3 DEF Working, Served, StackOk, SetStack
  <2>5. ResOk(x, next_gen')
    BY <1>1, <1>5, <2>1, <2>4, Renewed
  <2> HIDE DEF x
  <2>6. TableOk(next_gen)'
    BY <1>1, <2>2, <2>4, <2>5, OneRes
  <2>7. Served(Stack', streams')
    BY <2>1, <2>3, WrittenBack DEF Working
  <2> QED
    BY <1>2, <2>6, <2>7, KeptInv
<1>10. CASE mine # {}
  <2>1. i \in mine
    <3>1. mine \subseteq Nat
      BY <1>4
    <3> HIDE DEF mine
    <3> QED
      BY <1>10, <3>1, LeastExists
  <2>2. i \in 1..Len(s.pool)
    BY <2>1, <1>4
  <2> HIDE DEF i, mine
  <2>3. e \in HandleGen(next_gen)
    BY <2>2, <1>4
  <2>4. e[1] \in Slots /\ e[2] \in 1 .. (next_gen - 1)
    BY <2>3 DEF HandleGen
  <2> HIDE DEF e
  <2>5. Served(Stack, streams \union {new})
    BY <2>4, NewStream
  <2> DEFINE S == streams \union {new}
  <2>6. Working(a1, S, 1, next_gen) /\ Len(a1.pool) = Len(s.pool)
    BY <2>5, <1>8
  <2> HIDE DEF S, new
  <2>7. i \in DOMAIN a1.pool
    BY <2>2, <2>6 DEF Working
  <2>8. Working(a2, S, 0, next_gen) /\ Len(a2.pool) = Len(s.pool)
    <3>1. Working(a1, S, 0 + 1, next_gen)
      BY <2>6
    <3>2. Working(Rearm(a1, i), S, 0, next_gen) /\ Len(Rearm(a1, i).pool) = Len(a1.pool)
      BY <3>1, <2>7, <1>1, RearmOk
    <3> QED
      BY <3>2, <2>6 DEF Replenish
  <2> HIDE DEF a2
  <2>9. SetStack(a2.g) /\ streams' = S
    BY <1>3, <1>10 DEF S
  <2>10. next_gen' = a2.g.next_gen /\ next_gen' \in Nat /\ next_gen <= next_gen'
    BY <2>8, <2>9 DEF Working, Served, StackOk, SetStack
  <2> DEFINE x == Own(a2)
             ren == [res EXCEPT ![r] = x]
  <2>11. c \in Res /\ res[c] = NoRes /\ c # r
    BY <1>1, <1>2 DEF FreeRes
  <2> HIDE DEF c, conn
  <2>12. res' = [ren EXCEPT ![c] = conn]
    BY <1>1, <1>3, <1>10
  <2>13. ResOk(x, next_gen')
    BY <1>1, <1>5, <2>8, <2>10, Renewed
  <2>14. ResOk(conn, next_gen')
    <3> HIDE DEF p
    <3>1. << >> \in Seq(HandleGen(next_gen'))
      OBVIOUS
    <3>2. e[2] \in 1 .. (next_gen' - 1)
      BY <2>4, <2>10, <1>1
    <3> QED
      BY <3>1, <3>2, <2>4 DEF ResOk, SockFields, NewSock, conn
  <2> HIDE DEF x
  <2>15. \A k \in Res : res[k] # NoRes => ResOk(res[k], next_gen')
    BY <1>1, <2>10, Wider DEF SockInv, TableOk
  <2>16. TableOk(next_gen)'
    BY <1>1, <2>11, <2>12, <2>13, <2>14, <2>15 DEF TableOk
  <2>17. Served(Stack', streams')
    BY <2>8, <2>9, WrittenBack DEF Working
  <2> QED
    BY <1>2, <2>16, <2>17, KeptInv
<1> QED
  BY <1>9, <1>10

LEMMA ReadKeeps ==
    ASSUME SockInv, NEW s \in streams, is_current(Stack, s.handle, s.gen), Uses(s),
           \/ sock' = [sock EXCEPT ![s.handle].rx = {}]
           \/ sock' = [sock EXCEPT ![s.handle].out = TRUE],
           UNCHANGED <<live, next_gen, closing, added, res, streams>>
    PROVE  SockInv'
<1> DEFINE h == s.handle
           x == [sock[h] EXCEPT !.rx = {}]
           y == [sock[h] EXCEPT !.out = TRUE]
<1>1. h \in Slots
  BY DEF SockInv, Served, StreamOk
<1>2. {"kind", "id"} \subseteq DOMAIN sock[h] /\ DOMAIN sock = Slots
  BY <1>1, SockKnown
<1>3. Alike(sock[h], x) /\ Alike(sock[h], y)
  BY <1>2 DEF Alike
<1>4. sock' = [sock EXCEPT ![h] = x] \/ sock' = [sock EXCEPT ![h] = y]
  BY <1>1, <1>2
<1> HIDE DEF x, y
<1> QED
  BY <1>3, <1>4, UseKeeps DEF h

\* A step of the guest or the peers that changes one socket, or none.
LEMMA SockStepKeeps ==
    ASSUME SockInv, OneSock, UNCHANGED <<res, strays>>, streams' \subseteq streams
    PROVE  SockInv'
<1>1. Served(Stack', streams)
  BY OneSockServed DEF SockInv
<1>2. Served(Stack', streams')
  BY <1>1 DEF Served
<1>3. UNCHANGED next_gen
  BY DEF OneSock
<1> QED
  BY <1>2, <1>3, ResKept, KeptInv

LEMMA DropStreamKeeps == ASSUME SockInv, NEW s \in streams, DropStream(s) PROVE SockInv'
<1> DEFINE h == s.handle
           t == TcpClose(sock[h])
<1>1. h \in Slots
  BY DEF SockInv, Served, StreamOk
<1>2. {"kind", "id"} \subseteq DOMAIN sock[h] /\ DOMAIN sock = Slots
  BY <1>1, SockKnown
<1>3. Alike(sock[h], t)
  BY <1>2, AlikeOnes
<1>4. sock' = [sock EXCEPT ![h] = t] \/ sock' = sock
  BY DEF DropStream, TcpSendConsumerClose
<1> HIDE DEF t, h
<1>5. UNCHANGED <<live, next_gen, closing, added, res, strays>> /\ streams' \subseteq streams
  BY DEF DropStream
<1>6. CASE sock' = [sock EXCEPT ![h] = t]
  <2>1. OneSock
    BY <1>1, <1>3, <1>5, <1>6 DEF OneSock
  <2> QED
    BY <1>5, <2>1, SockStepKeeps
<1>7. CASE sock' = sock
  <2>1. Served(Stack', streams)
    BY <1>5, <1>7, SameStack DEF SockInv
  <2>2. Served(Stack', streams')
    BY <1>5, <2>1 DEF Served
  <2> QED
    BY <1>5, <2>2, ResKept, KeptInv
<1> QED
  BY <1>4, <1>6, <1>7

LEMMA ShutdownKeeps == ASSUME SockInv, NEW r \in Open("tcp"), shutdown(r) PROVE SockInv'
<1> DEFINE h == res[r].handle
           t == TcpClose(sock[h])
<1>1. h \in Slots
  BY Opened DEF ResOk
<1>2. Alike(sock[h], t)
  BY <1>1, SockKnown, AlikeOnes
<1>3. sock' = [sock EXCEPT ![h] = t]
  BY DEF shutdown
<1>4. UNCHANGED <<live, next_gen, closing, added, res, streams, strays>>
  BY DEF shutdown
<1> HIDE DEF h, t
<1>5. OneSock
  BY <1>1, <1>2, <1>3, <1>4 DEF OneSock
<1> QED
  BY <1>4, <1>5, SockStepKeeps

LEMMA DroppedKeeps ==
    ASSUME SockInv, NEW r \in Res, NEW g, Served(g, streams), g.next_gen = next_gen, SetStack(g),
           res' = [res EXCEPT ![r] = NoRes], UNCHANGED <<streams, strays>>
    PROVE  SockInv'
<1>1. next_gen' \in Nat /\ next_gen <= next_gen'
  BY DEF SetStack, Served, StackOk
<1>2. TableOk(next_gen)'
  BY <1>1, OneRes
<1>3. Served(Stack', streams')
  BY WrittenBack
<1> QED
  BY <1>2, <1>3, KeptInv

LEMMA TcpDropKeeps == ASSUME SockInv, NEW r \in Open("tcp"), TcpDrop(r) PROVE SockInv'
<1> DEFINE s == res[r]
           e == <<s.handle, s.gen>>
           t == TcpClose(Stack.sock[s.handle])
           c == CloseIfCurrent(Stack, e)
           g == begin_close(c, s.handle)
<1>1. r \in Res /\ ResOk(s, next_gen) /\ next_gen \in Nat
  BY Opened
<1>2. s.handle \in Slots /\ s.pool \in Seq(HandleGen(next_gen)) /\ (s.listening => s.pool # << >>)
  BY <1>1 DEF ResOk
<1>3. Served(Stack, streams) /\ Stack.next_gen = next_gen
  BY StackIs DEF SockInv
<1>4. Served(c, streams) /\ c.next_gen = next_gen
  <2> DEFINE d == [Stack EXCEPT !.sock[s.handle] = t]
  <2>1. c \in {d, Stack}
    BY StackIs DEF CloseIfCurrent
  <2>2. Alike(Stack.sock[s.handle], t)
    BY <1>2, SockKnown, AlikeOnes, StackIs
  <2> DEFINE h == s.handle
  <2>4. h \in Slots /\ Alike(Stack.sock[h], t) /\ d = [Stack EXCEPT !.sock[h] = t]
    BY <1>2, <2>2
  <2> HIDE DEF t, c, d, h
  <2>3. Served(d, streams) /\ d.next_gen = Stack.next_gen
    BY <1>3, <2>4, SockChange
  <2> HIDE DEF d
  <2> QED
    BY <1>3, <2>1, <2>3
<1> HIDE DEF c
<1>5. Served(g, streams) /\ g.next_gen = next_gen
  BY <1>2, <1>4, BeginCloseOk
<1>6. TcpDropped(s) = IF api = "p3" /\ s.listening THEN DropPool(Stack, s.pool, TRUE)
                      ELSE IF s.listening THEN DropPool(g, Tail(s.pool), FALSE) ELSE g
  BY DEF TcpDropped, TcpDropped_p3, c
<1> HIDE DEF g, s
<1>7. Served(TcpDropped(s), streams) /\ TcpDropped(s).next_gen = next_gen
  <2>1. /\ Served(DropPool(Stack, s.pool, TRUE), streams)
        /\ DropPool(Stack, s.pool, TRUE).next_gen = next_gen
    BY <1>2, <1>3, DropPoolOk
  <2>2. ASSUME s.listening
        PROVE  /\ Served(DropPool(g, Tail(s.pool), FALSE), streams)
               /\ DropPool(g, Tail(s.pool), FALSE).next_gen = next_gen
    <3> DEFINE E == HandleGen(next_gen)
               q == Tail(s.pool)
    <3>1. s.pool \in Seq(E) /\ s.pool # << >>
      BY <1>2, <2>2
    <3> HIDE DEF E
    <3>2. q \in Seq(E)
      BY <3>1
    <3> HIDE DEF q
    <3>3. /\ Served(DropPool(g, q, FALSE), streams)
          /\ DropPool(g, q, FALSE).next_gen = g.next_gen
      BY <3>2, <1>5, DropPoolOk DEF E
    <3> QED
      BY <3>3, <1>5 DEF q
  <2> QED
    BY <1>5, <1>6, <2>1, <2>2
<1>8. /\ SetStack(TcpDropped(s)) /\ res' = [res EXCEPT ![r] = NoRes]
      /\ UNCHANGED <<streams, strays>>
  BY DEF TcpDrop, s
<1> QED
  BY <1>1, <1>7, <1>8, DroppedKeeps

LEMMA UdpKeeps ==
    ASSUME SockInv, NEW r \in Open("udp"),
           \/ udp_bind(r)
           \/ \E p : Stream(r, p)
           \/ disconnect(r)
           \/ UdpDrop(r)
    PROVE  SockInv'
<1> DEFINE s == res[r]
           h == s.handle
<1>1. r \in Res /\ ResOk(s, next_gen) /\ next_gen \in Nat /\ DOMAIN res = Res
  BY Opened
<1>2. h \in Slots
  BY <1>1 DEF ResOk
<1>3. {"kind", "id"} \subseteq DOMAIN sock[h] /\ DOMAIN sock = Slots
  BY <1>2, SockKnown
<1>4. CASE udp_bind(r)
  <2> DEFINE t == [sock[h] EXCEPT !.st = "Bound"]
             x == [s EXCEPT !.bound = TRUE]
  <2>1. sock' = [sock EXCEPT ![h] = t] /\ res' = [res EXCEPT ![r] = x]
    BY <1>4, <1>1, <1>2, <1>3 DEF udp_bind
  <2>2. UNCHANGED <<live, next_gen, closing, added, streams, strays>>
    BY <1>4 DEF udp_bind
  <2>3. Alike(sock[h], t) /\ ResOk(x, next_gen)
    BY <1>1, <1>3 DEF Alike, ResOk, SockFields
  <2> HIDE DEF t, x
  <2>4. OneSock
    BY <1>2, <2>1, <2>2, <2>3 DEF OneSock
  <2>5. Served(Stack', streams')
    BY <2>2, <2>4, OneSockServed DEF SockInv
  <2>6. next_gen' \in Nat /\ next_gen <= next_gen' /\ ResOk(x, next_gen')
    BY <1>1, <2>2, <2>3
  <2>7. TableOk(next_gen)'
    BY <1>1, <2>1, <2>6, OneRes
  <2> QED
    BY <2>2, <2>5, <2>7, KeptInv
<1>5. ASSUME NEW p, Stream(r, p) PROVE SockInv'
  <2> DEFINE x == [s EXCEPT !.remote = p]
             new == StreamOf(h, s.gen, p)
  <2>1. streams' = streams \union {new} /\ res' = [res EXCEPT ![r] = x]
    BY <1>5, <1>1 DEF Stream
  <2>2. UNCHANGED <<sock, live, next_gen, closing, added, strays>>
    BY <1>5 DEF Stream
  <2>3. Served(Stack, streams \union {new})
    BY <1>1, NewStream DEF ResOk
  <2> HIDE DEF new
  <2>4. Served(Stack', streams')
    BY <2>1, <2>2, <2>3, SameStack
  <2>5. ResOk(x, next_gen)
    BY <1>1 DEF ResOk, SockFields
  <2> HIDE DEF x
  <2>6. next_gen' \in Nat /\ next_gen <= next_gen' /\ ResOk(x, next_gen')
    BY <1>1, <2>2, <2>5
  <2>7. TableOk(next_gen)'
    BY <1>1, <2>1, <2>6, OneRes
  <2> QED
    BY <2>2, <2>4, <2>7, KeptInv
<1>6. CASE disconnect(r)
  <2> DEFINE x == [s EXCEPT !.remote = NoPeer]
  <2>1. res' = [res EXCEPT ![r] = x]
    BY <1>6, <1>1 DEF disconnect
  <2>2. UNCHANGED <<sock, live, next_gen, closing, added, streams, strays>>
    BY <1>6 DEF disconnect
  <2>3. ResOk(x, next_gen)
    BY <1>1 DEF ResOk, SockFields
  <2> HIDE DEF x
  <2>4. next_gen' \in Nat /\ next_gen <= next_gen' /\ ResOk(x, next_gen')
    BY <1>1, <2>2, <2>3
  <2>5. TableOk(next_gen)'
    BY <1>1, <2>1, <2>4, OneRes
  <2> QED
    BY <2>2, <2>5, SameStack, KeptInv DEF SockInv
<1>7. CASE UdpDrop(r)
  <2> DEFINE g == begin_close(Stack, h)
  <2>1. Served(g, streams) /\ g.next_gen = next_gen
    <3>1. Served(Stack, streams)
      BY DEF SockInv
    <3> HIDE DEF h
    <3>2. Served(g, streams) /\ g.next_gen = Stack.next_gen
      BY <3>1, <1>2, BeginCloseOk
    <3> HIDE DEF g
    <3> QED
      BY <3>2, StackIs
  <2>2. SetStack(g) /\ res' = [res EXCEPT ![r] = NoRes] /\ UNCHANGED <<streams, strays>>
    BY <1>7 DEF UdpDrop
  <2> HIDE DEF g
  <2> QED
    BY <1>1, <2>1, <2>2, DroppedKeeps
<1> QED
  BY <1>4, <1>5, <1>6, <1>7

\* One poll of the hub changes one socket.
LEMMA PacketKeeps ==
    ASSUME SockInv, NEW h \in Slots, NEW t, Packet(h, t), Alike(sock[h], t)
    PROVE  SockInv'
<1>1. OneSock /\ UNCHANGED <<res, strays, streams>>
  BY DEF Packet, OneSock
<1> QED
  BY <1>1, SockStepKeeps

LEMMA NetworkKeeps == ASSUME SockInv, Network PROVE SockInv'
<1>1. ASSUME NEW p \in Peers, NEW h \in Slots, PeerSyn(p, h) PROVE SockInv'
  <2> DEFINE t == [sock[h] EXCEPT !.st = "SynReceived", !.peer = p]
  <2>1. Alike(sock[h], t)
    BY SockKnown DEF Alike
  <2> QED
    BY <1>1, <2>1, PacketKeeps DEF PeerSyn
<1>2. ASSUME NEW p \in Peers, NEW h \in Slots, PeerDatagram(p, h) PROVE SockInv'
  <2> DEFINE t == [sock[h] EXCEPT !.rx = @ \cup {p}]
  <2>1. Alike(sock[h], t)
    BY SockKnown DEF Alike
  <2> QED
    BY <1>2, <2>1, PacketKeeps DEF PeerDatagram
<1>3. ASSUME NEW h \in Slots, PeerAck(h) PROVE SockInv'
  <2> DEFINE t == [sock[h] EXCEPT !.st = "Established"]
  <2>1. Alike(sock[h], t)
    BY SockKnown DEF Alike
  <2> QED
    BY <1>3, <2>1, PacketKeeps DEF PeerAck
<1>4. ASSUME NEW h \in Slots, PeerReset(h) PROVE SockInv'
  <2>1. Alike(sock[h], Abort(sock[h]))
    BY SockKnown, AlikeOnes
  <2> QED
    BY <1>4, <2>1, PacketKeeps DEF PeerReset
<1>5. ASSUME NEW h \in Slots, PeerData(h) PROVE SockInv'
  <2> DEFINE t == [sock[h] EXCEPT !.rx = {sock[h].peer}, !.fed = TRUE]
  <2>1. Alike(sock[h], t)
    BY SockKnown DEF Alike
  <2> QED
    BY <1>5, <2>1, PacketKeeps DEF PeerData
<1>6. ASSUME NEW h \in Slots, PeerFin(h) PROVE SockInv'
  <2> DEFINE st == IF sock[h].st = "Established" THEN "CloseWait" ELSE "Closed"
             t == [sock[h] EXCEPT !.st = st]
  <2>1. Packet(h, t)
    BY <1>6 DEF PeerFin
  <2> HIDE DEF st
  <2>2. Alike(sock[h], t)
    BY SockKnown DEF Alike
  <2> HIDE DEF t
  <2> QED
    BY <2>1, <2>2, PacketKeeps
<1>7. ASSUME NEW h \in Slots, Flush(h) PROVE SockInv'
  <2> DEFINE t == [sock[h] EXCEPT !.out = FALSE]
  <2>1. Alike(sock[h], t)
    BY SockKnown DEF Alike
  <2> QED
    BY <1>7, <2>1, PacketKeeps DEF Flush
<1> QED
  BY <1>1, <1>2, <1>3, <1>4, <1>5, <1>6, <1>7 DEF Network

LEMMA TickKeeps == ASSUME SockInv, HubTick PROVE SockInv'
<1> DEFINE g == reap_closing(Stack)
<1>1. Served(g, streams) /\ g.next_gen = next_gen
  <2>1. Served(g, streams) /\ g.next_gen = Stack.next_gen
    BY ReapOk DEF SockInv
  <2> HIDE DEF g
  <2> QED
    BY <2>1, StackIs
<1>2. SetStack(g) /\ UNCHANGED <<res, streams, strays>>
  BY DEF HubTick
<1> HIDE DEF g
<1>3. next_gen' = next_gen
  BY <1>1, <1>2 DEF SetStack
<1>4. Served(Stack', streams')
  BY <1>1, <1>2, WrittenBack
<1> QED
  BY <1>2, <1>3, <1>4, ResKept, KeptInv

LEMMA GuestKeeps == ASSUME SockInv, Guest PROVE SockInv'
<1>1. CASE \E kind \in {"tcp", "udp"}, f \in Families : Create(kind, f)
  BY <1>1, CreateKeeps
<1>2. ASSUME NEW r \in Open("tcp"),
             \/ \E at \in {"loopback"} : TcpBind(r, at)
             \/ \E p \in Peers : start_connect(r, p)
             \/ finish_connect(r)
             \/ start_listen(r)
             \/ accept(r)
             \/ shutdown(r)
             \/ TcpDrop(r)
      PROVE  SockInv'
  BY <1>2, BindKeeps, ConnectKeeps, FinishKeeps, ListenKeeps, AcceptKeeps, ShutdownKeeps,
     TcpDropKeeps
<1>3. ASSUME NEW r \in Open("udp"),
             \/ udp_bind(r)
             \/ \E p \in Peers \cup {NoPeer} : Stream(r, p)
             \/ disconnect(r)
             \/ UdpDrop(r)
      PROVE  SockInv'
  BY <1>3, UdpKeeps
<1>4. ASSUME NEW s \in streams, Read(s) \/ Write(s) \/ send(s) \/ receive(s) PROVE SockInv'
  BY <1>4, ReadKeeps DEF Read, Write, send, receive
<1>5. ASSUME NEW s \in streams, DropStream(s) PROVE SockInv'
  BY <1>5, DropStreamKeeps
<1> QED
  BY <1>1, <1>2, <1>3, <1>4, <1>5 DEF Guest

LEMMA SockInitInv == SockInit => SockInv
<1> SUFFICES ASSUME SockInit PROVE SockInv
  OBVIOUS
<1>1. StackOk(Stack)
  <2>1. StackFields \subseteq DOMAIN Stack
    BY DEF Stack, StackFields
  <2> QED
    BY <2>1, StackIs DEF StackOk, SockInit, Vacant
<1>2. TableOk(next_gen)
  BY DEF TableOk, SockInit
<1> QED
  BY <1>1, <1>2 DEF SockInv, Served, SockInit

LEMMA SockStep == ASSUME SockInv, [SockNext]_sockVars PROVE SockInv'
<1>1. CASE Guest
  BY <1>1, GuestKeeps
<1>2. CASE Network
  BY <1>2, NetworkKeeps
<1>3. CASE HubTick
  BY <1>3, TickKeeps
<1>4. CASE UNCHANGED sockVars
  BY <1>4, SameStack, ResKept, KeptInv DEF sockVars, SockInv
<1> QED
  BY <1>1, <1>2, <1>3, <1>4 DEF SockNext

\* NodeStack::is_current, asked before every read, write, send and receive of
\* sockets.rs and sockets_p3.rs, is enough: whatever is closed, reaped and
\* reused in between, a stream never touches a later occupant of its slot.
THEOREM NoStrayStream == SockSpec => []StreamsKeepToTheirSocket
<1>1. SockInv => StreamsKeepToTheirSocket
  BY DEF SockInv, StreamsKeepToTheirSocket
<1> QED
  BY <1>1, SockInitInv, SockStep, PTL DEF SockSpec
=============================================================================
