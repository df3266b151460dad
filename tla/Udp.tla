-------------------------------- MODULE Udp ---------------------------------
(* A guest's UDP socket and its way to the host network (wk-server            *)
(* sockets.rs, WASI 0.2, "p2"; sockets_p3.rs, WASI 0.3, "p3").  Datagrams     *)
(* come from the fabric through the node's stack, and, once the guest has     *)
(* sent something off the fabric under a Gateway, through a real host socket  *)
(* that a thread of its own reads into a bounded queue.  Nothing wakes a      *)
(* guest for the second kind: it is polled again by the hub's next tick.      *)
(*                                                                            *)
(* A datagram is the peer it came from.  What waits for datagrams, an         *)
(* incoming stream in p2 and a pending receive call in p3, is a receiver here *)
(* and has the filter it took from the socket when it was made.  Handles and  *)
(* generations are in module Sockets: this socket's handle is current until   *)
(* the socket is dropped.                                                     *)
EXTENDS Naturals, Sequences, FiniteSets

CONSTANTS
    FabricPeers, HostPeers,  \* who sends datagrams
    Foreign,                 \* the fabric peers of the other address family
    Receivers,
    HOST_UDP_QUEUE, UDP_SLOTS,
    Anyone,                     \* no peer in particular
    MaxArrivals,             \* bound: datagrams that arrive
    MaxSwitches,             \* bound: Gateways wired and unwired
    MaxFailures              \* bound: host sockets that fail

VARIABLES
    api,
    sock,        \* the socket: "none", "new", "bound" or "dropped"
    remote,      \* its peer, or Anyone
    receivers,   \* [Receivers -> [st, filter]]
    sender,      \* the p3 send under way
    rx, tx,      \* the smoltcp socket: datagrams received, how many to send
    bridge,      \* SharedHostUdp: is there a HostUdp in the cell?
    abort, reader, \* its flag and its thread
    hq,          \* what the thread has read
    host_access, \* NodeStack::host_access
    used         \* [arrivals, switches, failures] so far
vars == <<api, sock, remote, receivers, sender, rx, tx, bridge, abort, reader, hq, host_access, used>>
sockVars == <<api, sock, remote>>
hostVars == <<bridge, abort, reader, hq>>

Peers == FabricPeers \cup HostPeers
NoReceiver == [st |-> "none", filter |-> Anyone]
NoSend == [st |-> "none", dest |-> Anyone]

\* The cell, and with it the bridge, is the socket's and its streams'.
Held(s, rs) == s \in {"new", "bound"} \/ \E r \in Receivers : rs[r].st # "none"
\* Drop for HostUdp tells its thread to go.
Released_running(s, rs) == UNCHANGED hostVars
Released(s, rs) ==
    /\ IF bridge /\ ~Held(s, rs) THEN bridge' = FALSE /\ abort' = TRUE ELSE UNCHANGED <<bridge, abort>>
    /\ UNCHANGED <<reader, hq>>

Passes(p, f) == p \notin Foreign /\ (f = Anyone \/ p = f)
-----------------------------------------------------------------------------
(* The socket.                                                                *)

create_udp_socket ==
    /\ sock = "none" /\ sock' = "new"
    /\ UNCHANGED <<api, remote, receivers, sender, rx, tx, hostVars, host_access, used>>
udp_bind ==
    /\ sock = "new" /\ sock' = "bound"
    /\ UNCHANGED <<api, remote, receivers, sender, rx, tx, hostVars, host_access, used>>

\* p2: a pair of streams with its own idea of the peer; the outgoing one is not
\* kept apart from the incoming.
stream(r, p) ==
    /\ api = "p2" /\ sock = "bound" /\ receivers[r].st = "none"
    /\ remote' = p
    /\ receivers' = [receivers EXCEPT ![r] = [st |-> "idle", filter |-> p]]
    /\ UNCHANGED <<api, sock, sender, rx, tx, hostVars, host_access, used>>

\* p3: the peer is the socket's; connect binds first when that is missing.
connect(p) ==
    /\ api = "p3" /\ sock \in {"new", "bound"} /\ p \notin Foreign
    /\ sock' = "bound" /\ remote' = p
    /\ UNCHANGED <<api, receivers, sender, rx, tx, hostVars, host_access, used>>
disconnect ==
    /\ api = "p3" /\ sock \in {"new", "bound"} /\ remote # Anyone
    /\ remote' = Anyone
    /\ UNCHANGED <<api, sock, receivers, sender, rx, tx, hostVars, host_access, used>>

\* A p3 call borrows the socket, which cannot go meanwhile; p2's streams stay.
drop ==
    /\ sock \in {"new", "bound"} /\ sock' = "dropped"
    /\ api = "p3" => sender = NoSend /\ \A r \in Receivers : receivers[r].st = "none"
    /\ rx' = << >> /\ tx' = 0
    /\ Released("dropped", receivers)
    /\ UNCHANGED <<api, remote, receivers, sender, host_access, used>>
drop_stream(r) ==
    /\ api = "p2" /\ receivers[r].st = "idle"
    /\ receivers' = [receivers EXCEPT ![r] = NoReceiver]
    /\ Released(sock, receivers')
    /\ UNCHANGED <<sockVars, sender, rx, tx, host_access, used>>
-----------------------------------------------------------------------------
(* Receiving.                                                                 *)

\* p3: the filter is read here, before the first await.
receive(r) ==
    /\ api = "p3" /\ sock = "bound" /\ receivers[r].st = "none"
    /\ receivers' = [receivers EXCEPT ![r] = [st |-> "polling", filter |-> remote]]
    /\ UNCHANGED <<sockVars, sender, rx, tx, hostVars, host_access, used>>
\* p2: the guest polls what it subscribed to.
subscribe(r) ==
    /\ api = "p2" /\ receivers[r].st = "idle"
    /\ receivers' = [receivers EXCEPT ![r].st = "polling"]
    /\ UNCHANGED <<sockVars, sender, rx, tx, hostVars, host_access, used>>

\* UdpReady::poll: the bridge, then the handle, then the smoltcp socket.
RecvReady == (bridge /\ hq # << >>) \/ sock # "bound" \/ rx # << >>
Poll(r) ==
    /\ receivers[r].st \in {"polling", "woken"}
    /\ receivers' = [receivers EXCEPT ![r].st = IF RecvReady THEN "ready" ELSE "parked"]
    /\ UNCHANGED <<sockVars, sender, rx, tx, hostVars, host_access, used>>

\* How much of a queue goes for n datagrams that pass the filter: what does not
\* pass is dropped on the way.
Consumed(q, f, n) ==
    LET passed(i) == Cardinality({j \in 1..i : Passes(q[j], f)})
        enough == {i \in 0..Len(q) : passed(i) = n}
    IN  IF enough = {} THEN Len(q) ELSE CHOOSE i \in enough : \A j \in enough : i <= j
Yield(q, f, n) == SelectSeq(SubSeq(q, 1, Consumed(q, f, n)), LAMBDA p : Passes(p, f))
Rest(q, f, n) == SubSeq(q, Consumed(q, f, n) + 1, Len(q))

\* p2: up to n datagrams, the host's first, filtered ones dropped; an empty
\* answer is possible.  The bridge answers whether the socket is still there or
\* not.  (It has the socket's address family, and so has what comes over it.)
Take(r, n) ==
    /\ api = "p2" /\ receivers[r].st = "ready"
    /\ LET f == receivers[r].filter
           host == IF bridge THEN Yield(hq, f, n) ELSE << >>
           more == n - Len(host)
       IN  /\ hq' = IF bridge THEN Rest(hq, f, n) ELSE hq
           /\ rx' = IF more > 0 /\ sock = "bound" THEN Rest(rx, f, more) ELSE rx
    /\ receivers' = [receivers EXCEPT ![r].st = "idle"]
    /\ UNCHANGED <<sockVars, sender, tx, bridge, abort, reader, host_access, used>>

\* p3: one datagram, and round again when it is filtered out.
Round(r) ==
    /\ api = "p3" /\ receivers[r].st = "ready"
    /\ LET f == receivers[r].filter
           from_host == bridge /\ hq # << >>
           from_fabric == ~from_host /\ rx # << >>
           heard == \/ from_host /\ Passes(Head(hq), f)
                    \/ from_fabric /\ Passes(Head(rx), f)
       IN  /\ hq' = IF from_host THEN Tail(hq) ELSE hq
           /\ rx' = IF from_fabric THEN Tail(rx) ELSE rx
           /\ receivers' = [receivers EXCEPT ![r] = IF heard THEN NoReceiver ELSE [@ EXCEPT !.st = "polling"]]
    /\ UNCHANGED <<sockVars, sender, tx, bridge, abort, reader, host_access, used>>
-----------------------------------------------------------------------------
(* Sending.                                                                   *)

\* HostUdp::open on the first send off the fabric; the bind may fail.
Open ==
    \/ bridge /\ UNCHANGED <<hostVars, used>>
    \/ /\ ~bridge /\ bridge' = TRUE /\ abort' = FALSE /\ reader' = "runs" /\ hq' = << >>
       /\ UNCHANGED used
    \/ /\ ~bridge /\ used.failures < MaxFailures
       /\ used' = [used EXCEPT !.failures = @ + 1] /\ UNCHANGED hostVars

\* p2: under the stack's lock from the look at the Gateway to the end.  A list
\* of datagrams is that many of these, the lock held.
send(r, p) ==
    /\ api = "p2" /\ receivers[r].st = "idle" /\ sock = "bound"
    /\ \/ p \in FabricPeers /\ tx < UDP_SLOTS /\ tx' = tx + 1 /\ UNCHANGED <<hostVars, used>>
       \/ p \in HostPeers /\ host_access /\ Open /\ UNCHANGED tx
    /\ UNCHANGED <<sockVars, receivers, sender, rx, host_access>>

\* p3: the plan is made and the Gateway looked at, the lock let go; then the
\* bridge is used, or the fabric once there is room.
send_plan(p) ==
    /\ api = "p3" /\ sock \in {"new", "bound"} /\ sender = NoSend
    /\ remote \in {Anyone, p}
    /\ sock' = "bound"
    /\ \/ p \in HostPeers /\ host_access /\ sender' = [st |-> "checked", dest |-> p]
       \/ p \in FabricPeers /\ sender' = [st |-> "polling", dest |-> p]
    /\ UNCHANGED <<api, remote, receivers, rx, tx, hostVars, host_access, used>>
send_host ==
    /\ sender.st = "checked" /\ sender' = NoSend
    /\ Open
    /\ UNCHANGED <<sockVars, receivers, rx, tx, host_access>>
send_poll ==
    /\ sender.st \in {"polling", "woken"}
    /\ IF tx < UDP_SLOTS
       THEN tx' = tx + 1 /\ sender' = NoSend
       ELSE tx' = tx /\ sender' = [sender EXCEPT !.st = "parked"]
    /\ UNCHANGED <<sockVars, receivers, rx, hostVars, host_access, used>>
-----------------------------------------------------------------------------
(* The bridge's thread, the hub, the network and the server.                  *)

Arrival == used.arrivals < MaxArrivals /\ used' = [used EXCEPT !.arrivals = @ + 1]
HostDatagram(p) ==
    /\ reader = "runs" /\ ~abort /\ Arrival
    /\ hq' = IF Len(hq) < HOST_UDP_QUEUE THEN Append(hq, p) ELSE hq
    /\ UNCHANGED <<sockVars, receivers, sender, rx, tx, bridge, abort, reader, host_access>>
\* The flag is looked at every ten milliseconds, or the socket fails.
ReaderEnds ==
    /\ reader = "runs" /\ abort /\ reader' = "ended" /\ hq' = << >>
    /\ UNCHANGED <<sockVars, receivers, sender, rx, tx, bridge, abort, host_access, used>>
ReaderFails ==
    /\ reader = "runs" /\ used.failures < MaxFailures /\ reader' = "ended"
    /\ used' = [used EXCEPT !.failures = @ + 1]
    /\ UNCHANGED <<sockVars, receivers, sender, rx, tx, bridge, abort, hq, host_access>>

FabricDatagram(p) ==
    /\ sock = "bound" /\ Arrival
    /\ rx' = IF Len(rx) < UDP_SLOTS THEN Append(rx, p) ELSE rx
    /\ UNCHANGED <<sockVars, receivers, sender, tx, hostVars, host_access>>

\* One round of the hub: what is to be sent goes out, and whoever parked on the
\* stack is woken, whether anything came for it or not.
Woken(x) == IF x.st = "parked" THEN [x EXCEPT !.st = "woken"] ELSE x
Tick_fabric_only ==
    /\ tx' = 0 /\ sender' = Woken(sender)
    /\ receivers' = IF rx # << >> THEN [r \in Receivers |-> Woken(receivers[r])] ELSE receivers
    /\ UNCHANGED <<sockVars, rx, hostVars, host_access, used>>
Tick ==
    /\ tx' = 0 /\ sender' = Woken(sender)
    /\ receivers' = [r \in Receivers |-> Woken(receivers[r])]
    /\ UNCHANGED <<sockVars, rx, hostVars, host_access, used>>

set_host_access ==
    /\ used.switches < MaxSwitches /\ used' = [used EXCEPT !.switches = @ + 1]
    /\ host_access' = ~host_access
    /\ UNCHANGED <<sockVars, receivers, sender, rx, tx, hostVars>>
-----------------------------------------------------------------------------
Init ==
    /\ api \in {"p2", "p3"} /\ sock = "none" /\ remote = Anyone
    /\ receivers = [r \in Receivers |-> NoReceiver] /\ sender = NoSend
    /\ rx = << >> /\ tx = 0
    /\ bridge = FALSE /\ abort = FALSE /\ reader = "none" /\ hq = << >>
    /\ host_access = FALSE /\ used = [arrivals |-> 0, switches |-> 0, failures |-> 0]

Guest(r) == Poll(r) \/ Round(r) \/ \E n \in 1..2 : Take(r, n)
Next ==
    \/ create_udp_socket \/ udp_bind \/ disconnect \/ drop \/ send_host \/ send_poll
    \/ \E p \in Peers \cup {Anyone} : \E r \in Receivers : stream(r, p)
    \/ \E p \in Peers : connect(p) \/ send_plan(p) \/ \E r \in Receivers : send(r, p)
    \/ \E r \in Receivers : receive(r) \/ subscribe(r) \/ drop_stream(r) \/ Guest(r)
    \/ \E p \in HostPeers : HostDatagram(p)
    \/ \E p \in FabricPeers : FabricDatagram(p)
    \/ ReaderEnds \/ ReaderFails \/ Tick \/ set_host_access

\* The hub ticks for ever; a guest that has been woken is run; the thread looks
\* at its flag.  No guest has to ask for anything, and nothing has to arrive.
Fairness ==
    /\ WF_vars(Tick) /\ WF_vars(ReaderEnds) /\ WF_vars(send_poll) /\ WF_vars(send_host)
    /\ \A r \in Receivers : WF_vars(Poll(r)) /\ WF_vars(Round(r))
Spec == Init /\ [][Next]_vars /\ Fairness
-----------------------------------------------------------------------------
Receiver == [st : {"none", "idle", "polling", "parked", "woken", "ready"}, filter : Peers \cup {Anyone}]
TypeOK ==
    /\ api \in {"p2", "p3"} /\ sock \in {"none", "new", "bound", "dropped"}
    /\ remote \in Peers \cup {Anyone}
    /\ receivers \in [Receivers -> Receiver]
    /\ sender \in [st : {"none", "checked", "polling", "parked", "woken"}, dest : Peers \cup {Anyone}]
    /\ rx \in Seq(FabricPeers) /\ Len(rx) <= UDP_SLOTS /\ tx \in 0..UDP_SLOTS
    /\ bridge \in BOOLEAN /\ abort \in BOOLEAN /\ reader \in {"none", "runs", "ended"}
    /\ hq \in Seq(HostPeers) /\ Len(hq) <= HOST_UDP_QUEUE
    /\ host_access \in BOOLEAN

\* A receiver does not sleep over a datagram: one that is parked while the
\* bridge or the socket has something is polled again, though the thread that
\* reads the host socket calls no waker.
DatagramIsHeard ==
    \A r \in Receivers : (receivers[r].st = "parked" /\ RecvReady) ~> receivers[r].st # "parked"

\* The thread and the host socket go when the guest has let go of the socket
\* and of every stream of it, in whatever order it did.
BridgeEnds == (~Held(sock, receivers)) ~> (reader # "runs" \/ Held(sock, receivers))

\* NOT so: "the datagram streams only reference this handle and do no I/O once
\* the socket is dropped".  What the bridge has, and goes on reading, still
\* comes in.
DroppedIsSilent ==
    [][\A r \in Receivers : (\E n \in 1..2 : Take(r, n)) /\ sock = "dropped" => hq' = hq]_vars

\* NOT so: a node with no Gateway hears nothing of the host network.  Unwiring
\* it leaves the bridge open, reading and answering.
RevokedHearsNothing ==
    [][~host_access => Len(hq') <= Len(hq)]_vars

\* NOT so: nothing goes to the host network without a Gateway.  A p3 send has
\* let go of the lock between the look and the bridge.
SentThroughGateway == [][send_host => host_access]_vars

\* NOT so: a datagram is dropped only when nobody wants it.  Two streams of one
\* socket share its queue, and the first to read drops the other's.
NobodyElses ==
    [][\A r, q \in Receivers : r # q /\ Take(r, 1) /\ rx # << >> /\ rx' # rx
          => Head(rx) # receivers[q].filter \/ receivers[r].filter \in {Anyone, Head(rx)}]_vars

\* NOT so: a connected socket yields only its peer's datagrams.  A receive that
\* was waiting before the connect has the filter of before.
ConnectedHearsItsPeer ==
    [][\A r \in Receivers : Round(r) /\ receivers'[r].st = "none" /\ remote # Anyone
          => rx = << >> \/ rx' = rx \/ Head(rx) = remote]_vars
=============================================================================
