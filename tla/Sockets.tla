------------------------------- MODULE Sockets -------------------------------
(* The wasi:sockets implementation of one node: the smoltcp socket set of its *)
(* fabric stack (slots recycled by the hub), the generations that tell a slot *)
(* from its earlier occupants, and the two guest interfaces over it, WASI 0.2 *)
(* (wk-server sockets.rs, "p2") and WASI 0.3 (sockets_p3.rs, "p3").           *)
(* smoltcp itself is external: a socket moves between the states of           *)
(* tcp::State by the Peer and Flush actions below, each a part of one poll of *)
(* the hub.  Addresses are reduced to their family and to fabric or loopback, *)
(* payloads to the peer they come from, ports to "bound or not".              *)
EXTENDS Naturals, Sequences, FiniteSets, SequencesExt

CONSTANTS
    Slots,          \* SocketHandle indices of the socket set, 1..n
    Res,            \* resource handles of the guest's table
    Peers,          \* remote nodes, each makes at most one connection
    FamilyOf,       \* [Peers -> {"v4", "v6"}]
    Families,       \* address families the guest opens sockets of
    Apis,           \* WASI generations considered, out of {"p2", "p3"}
    LISTEN_BACKLOG, \* listeners kept on a listened port
    CLOSE_TICKS,    \* hub ticks a closing socket may take to drain
    MaxGen,         \* bound: sockets ever tracked
    MaxCalls        \* bound: calls the guest makes

ASSUME SocketAssumption ==
    /\ IsFiniteSet(Slots) /\ Slots \subseteq Nat
    /\ LISTEN_BACKLOG \in Nat \ {0}
    /\ CLOSE_TICKS \in Nat \ {0}
    /\ MaxGen \in Nat \ {0}
    /\ MaxCalls \in Nat

VARIABLES
    sock,     \* SocketSet: [Slots -> smoltcp socket, or Vacant]
    live,     \* NodeStack.live: [Slots -> generation, 0 when absent]
    next_gen, \* NodeStack.next_gen
    closing,  \* NodeStack.closing: [Slots -> ticks left, 0 when absent]
    res,      \* the guest's resource table: sockets
    streams,  \* byte and datagram streams derived from sockets, and who they serve
    added,    \* history: sockets ever added to the set, their identities
    strays,   \* history: identities <<of a stream's socket, of another it used>>
    called,   \* peers that have made their connection or sent their datagram
    calls,    \* how many calls the guest made
    api       \* the WASI generation the guest was compiled against

sockVars == <<sock, live, next_gen, closing, res, streams, added, strays, called, calls, api>>

NoPeer == "nopeer"
Vacant == [kind |-> "none", st |-> "none", ep |-> {}, peer |-> NoPeer, rx |-> {},
            out |-> FALSE, fed |-> FALSE, id |-> 0]
NoRes  == [kind |-> "none"]

Handshaking == {"Listen", "SynSent", "SynReceived"}
MaySend(s) == s.st \in {"Established", "CloseWait"}
CanRecv(s) == s.rx # {}

fabric_tcp_socket == [Vacant EXCEPT !.kind = "tcp", !.st = "Closed"]
fabric_udp_socket == [Vacant EXCEPT !.kind = "udp", !.st = "Closed"]

\* tcp::Socket::close, the reset that connect and listen begin with, abort.
TcpClose(s) == [s EXCEPT !.st = CASE s.st \in {"Listen", "SynSent"}           -> "Closed"
                               [] s.st \in {"SynReceived", "Established"}  -> "FinWait"
                               [] s.st = "CloseWait"                       -> "LastAck"
                               [] OTHER                                    -> s.st]
Fresh(s) == [Vacant EXCEPT !.kind = s.kind, !.st = "Closed", !.id = s.id, !.fed = s.fed]
Abort(s) == [s EXCEPT !.st = "Closed", !.rx = {}]

-----------------------------------------------------------------------------
(* The stack: adding, tracking, closing and reaping slots.  A stack value is  *)
(* the record of those variables, so that an operation that adds several   *)
(* sockets under one lock is a composition of functions.                      *)

Stack == [sock |-> sock, live |-> live, next_gen |-> next_gen, closing |-> closing,
          added |-> added]

SetStack(g) == /\ sock' = g.sock
               /\ live' = g.live
               /\ next_gen' = g.next_gen
               /\ closing' = g.closing
               /\ added' = g.added

VacantSlots(g) == {h \in Slots : g.sock[h] = Vacant}
Room(g, n) == Cardinality(VacantSlots(g)) >= n /\ g.next_gen + n <= MaxGen + 1
FirstVacant(g) == CHOOSE h \in VacantSlots(g) : \A k \in VacantSlots(g) : h <= k

\* SocketSet::add reuses the first free slot; the caller tracks it at once.
track(g, s) ==
    LET h == FirstVacant(g)
    IN  [g EXCEPT !.sock[h] = [s EXCEPT !.id = g.added + 1], !.live[h] = g.next_gen,
                  !.next_gen = @ + 1, !.added = @ + 1]

is_current_by_slot(g, h, gen) == g.live[h] # 0
is_current(g, h, gen) == g.live[h] = gen

begin_close(g, h) ==
    IF g.live[h] = 0 THEN g
    ELSE [g EXCEPT !.live[h] = 0, !.closing[h] = CLOSE_TICKS]

TicksLeft(t) == IF t = 0 THEN 0 ELSE t - 1

Drained(s) == IF s.kind = "tcp" THEN s.st = "Closed" ELSE ~s.out

reap_closing(g) ==
    LET gone == {h \in Slots : /\ g.closing[h] # 0
                               /\ Drained(g.sock[h]) \/ TicksLeft(g.closing[h]) = 0}
    IN  [g EXCEPT !.sock    = [h \in Slots |-> IF h \in gone THEN Vacant ELSE @[h]],
                  !.closing = [h \in Slots |-> IF h \in gone THEN 0 ELSE TicksLeft(@[h])]]

\* A listener is armed with concrete addresses of its own family: the bound
\* one, or the node's address and loopback.
listen_endpoints(family, bound) ==
    IF bound = "loopback" THEN << {} >> ELSE << {family}, {} >>

-----------------------------------------------------------------------------
(* Sockets of the guest.                                                      *)

NewSock(kind, family, h, gen) ==
    [kind |-> kind, family |-> family, handle |-> h, gen |-> gen,
     bound |-> FALSE, local |-> "none", listening |-> FALSE, connecting |-> FALSE,
     connected |-> FALSE, closed |-> FALSE, pool |-> << >>, remote |-> NoPeer]

\* A stream keeps the handle and generation of its socket, and (datagrams) the
\* peer it is filtered to; id is the socket it was opened on.
StreamOf(h, gen, p) == [handle |-> h, gen |-> gen, peer |-> p, id |-> sock[h].id]

FreeRes == {r \in Res : res[r] = NoRes}
Open(kind) == {r \in Res : res[r] # NoRes /\ res[r].kind = kind}

\* create_tcp_socket and create (0.2 and 0.3), TCP and UDP: a fresh slot,
\* tracked, in a new resource.
Create(kind, family) ==
    /\ FreeRes # {} /\ Room(Stack, 1)
    /\ LET h == FirstVacant(Stack)
           g == track(Stack, IF kind = "tcp" THEN fabric_tcp_socket ELSE fabric_udp_socket)
           r == CHOOSE r \in FreeRes : TRUE
       IN  /\ SetStack(g)
           /\ res' = [res EXCEPT ![r] = NewSock(kind, family, h, g.live[h])]
    /\ UNCHANGED <<api, streams, strays, called>>

\* The state checks that only the 0.3 calls make.
bind_p3(s) == ~(s.bound \/ s.listening \/ s.connecting \/ s.connected \/ s.closed)
connect_p3(s) == ~(s.connected \/ s.connecting \/ s.listening \/ s.closed)
listen_p3(s) == ~(s.listening \/ s.connecting \/ s.connected \/ s.closed)

\* start_bind + finish_bind (0.2, no state check) and bind (0.3).
TcpBind(r, at) ==
    LET s == res[r]
    IN  /\ api = "p3" => bind_p3(s)
        /\ ~s.listening /\ s.local # at
        /\ res' = [res EXCEPT ![r].bound = TRUE, ![r].local = at]
        /\ UNCHANGED <<api, sock, live, next_gen, closing, added, streams, strays, called>>

\* start_connect / connect up to its await: the smoltcp socket must be closed
\* and unused, or the call fails and changes nothing.  0.2 keeps no state of
\* its own: a socket whose connection was reset may connect again.
start_connect(r, p) ==
    LET s == res[r]
    IN  /\ FamilyOf[p] = s.family
        /\ api = "p3" => connect_p3(s)
        /\ sock[s.handle].st = "Closed"
        /\ p \notin called
        /\ sock' = [sock EXCEPT ![s.handle] = [Fresh(@) EXCEPT !.st = "SynSent", !.peer = p]]
        /\ res' = [res EXCEPT ![r].connecting = TRUE, ![r].remote = p]
        /\ called' = called \cup {p}
        /\ UNCHANGED <<api, live, next_gen, closing, added, streams, strays>>

\* finish_connect (0.2) and the end of connect (0.3): Established gives the
\* streams; anything settled otherwise is ConnectionRefused (which closes a
\* 0.3 socket); a handshake still running is WouldBlock and changes nothing.
finish_connect(r) ==
    LET s  == res[r]
        st == sock[s.handle].st
    IN  /\ s.connecting /\ st \notin Handshaking
        /\ \/ /\ st = "Established"
              /\ api = "p3" => is_current(Stack, s.handle, s.gen)
              /\ res' = [res EXCEPT ![r].connecting = FALSE, ![r].connected = TRUE]
              /\ streams' = streams \cup {StreamOf(s.handle, s.gen, NoPeer)}
           \/ /\ st # "Established"
              /\ res' = [res EXCEPT ![r].connecting = FALSE,
                                    ![r].closed = (api = "p3"),
                                    ![r].remote = IF api = "p3" THEN NoPeer ELSE @]
              /\ UNCHANGED streams
        /\ UNCHANGED <<api, sock, live, next_gen, closing, added, strays, called>>

Listener(ep) == [fabric_tcp_socket EXCEPT !.st = "Listen", !.ep = ep]

\* start_listen (0.2) and listen (0.3): the socket itself becomes the first
\* listener and LISTEN_BACKLOG - 1 more join it, round robin over endpoints.
Arm(acc, ep) ==
    LET h  == FirstVacant(acc.g)
        g2 == track(acc.g, Listener(ep))
    IN  [g |-> g2, pool |-> Append(acc.pool, <<h, g2.live[h]>>)]

AddListeners(g, eps) ==
    LET acc[n \in Nat] == IF n = 0 THEN [g |-> g, pool |-> << >>]
                          ELSE Arm(acc[n - 1], eps[(n % Len(eps)) + 1])
    IN  acc[LISTEN_BACKLOG - 1]

start_listen(r) ==
    LET s    == res[r]
        eps  == listen_endpoints(s.family, s.local)
        g0   == [Stack EXCEPT !.sock[s.handle] = [Fresh(@) EXCEPT !.st = "Listen", !.ep = eps[1]]]
        more == AddListeners(g0, eps)
    IN  /\ ~s.listening
        /\ api = "p3" => listen_p3(s)
        /\ sock[s.handle].st = "Closed"
        /\ Room(Stack, LISTEN_BACKLOG - 1)
        /\ SetStack(more.g)
        /\ res' = [res EXCEPT ![r].listening = TRUE, ![r].bound = TRUE,
                              ![r].pool = << <<s.handle, s.gen>> >> \o more.pool]
        /\ UNCHANGED <<api, streams, strays, called>>

-----------------------------------------------------------------------------
(* Accepting.  0.2 takes a pool socket that is Established; 0.3 one that has  *)
(* left the handshake in any way.  The consumed entry is replaced by a fresh  *)
(* listener on the endpoint it was armed with.                                *)

Current(g, e) == is_current(g, e[1], e[2])

Acceptable_p3(st) == st \notin Handshaking
Acceptable(st) == IF api = "p2" THEN st = "Established" ELSE Acceptable_p3(st)

\* AcceptReady: what the guest's poll on the listener answers.
AcceptReady(r) ==
    \E i \in DOMAIN res[r].pool :
        LET e == res[r].pool[i]
        IN  ~Current(Stack, e) \/ sock[e[1]].st \notin Handshaking

Ripe(r) == {i \in DOMAIN res[r].pool :
              LET e == res[r].pool[i]
              IN  Current(Stack, e) /\ Acceptable(sock[e[1]].st)}

\* The defensive pass: a connection of the other family is reset and its
\* entry re-armed.
Foreign(r) == {i \in Ripe(r) : LET p == sock[res[r].pool[i][1]].peer
                               IN  p # NoPeer /\ FamilyOf[p] # res[r].family}

\* One pool entry replaced by a fresh listener on the same endpoint.
Rearm(acc, i) ==
    LET ep == acc.g.sock[acc.pool[i][1]].ep
        h  == FirstVacant(acc.g)
        g2 == track(acc.g, Listener(ep))
    IN  [g |-> g2, pool |-> [acc.pool EXCEPT ![i] = <<h, g2.live[h]>>]]

Refuse(acc, i) ==
    LET h == acc.pool[i][1]
    IN  Rearm([acc EXCEPT !.g = begin_close([acc.g EXCEPT !.sock[h] = Abort(@)], h)], i)

RefuseForeign(acc0, foreign) ==
    LET acc[n \in Nat] == IF n = 0 THEN acc0
                          ELSE IF n \in foreign THEN Refuse(acc[n - 1], n)
                          ELSE acc[n - 1]
    IN  acc[Len(acc0.pool)]

Replenish(acc, i) == Rearm(acc, i)

accept(r) ==
    /\ res[r].listening
    /\ Ripe(r) # {} /\ FreeRes # {} /\ Room(Stack, 1 + Cardinality(Foreign(r)))
    /\ LET acc0 == [g |-> Stack, pool |-> res[r].pool]
           acc1 == RefuseForeign(acc0, Foreign(r))
           mine == Ripe(r) \ Foreign(r)
           i    == CHOOSE i \in mine : \A k \in mine : i <= k
           e    == res[r].pool[i]
           acc2 == Replenish(acc1, i)
           c    == CHOOSE c \in FreeRes : TRUE
           p    == sock[e[1]].peer
       IN  IF mine = {}
           THEN /\ SetStack(acc1.g)
                /\ res' = [res EXCEPT ![r].pool = acc1.pool, ![r].handle = acc1.pool[1][1],
                                      ![r].gen = acc1.pool[1][2]]
                /\ UNCHANGED streams
           ELSE /\ SetStack(acc2.g)
                /\ res' = [res EXCEPT ![r].pool = acc2.pool, ![r].handle = acc2.pool[1][1],
                                      ![r].gen = acc2.pool[1][2],
                                      ![c] = [NewSock("tcp", res[r].family, e[1], e[2])
                                                EXCEPT !.bound = TRUE, !.connected = TRUE,
                                                       !.remote = p]]
                /\ streams' = streams \cup {StreamOf(e[1], e[2], NoPeer)}
    /\ UNCHANGED <<api, strays, called>>

-----------------------------------------------------------------------------
(* Byte and datagram streams.                                                 *)

Uses(s) == strays' = strays \cup ({<<s.id, sock[s.handle].id>>} \ {<<s.id, s.id>>})

\* TcpInput::read and TcpReceiveProducer: nothing is read through a handle
\* whose slot has moved on.
Read(s) ==
    /\ is_current(Stack, s.handle, s.gen)
    /\ CanRecv(sock[s.handle])
    /\ sock' = [sock EXCEPT ![s.handle].rx = {}]
    /\ Uses(s)
    /\ UNCHANGED <<api, live, next_gen, closing, added, res, streams, called>>

\* TcpOutput::write, TcpSendConsumer.
Write(s) ==
    /\ is_current(Stack, s.handle, s.gen)
    /\ sock[s.handle].kind = "tcp" /\ MaySend(sock[s.handle]) /\ ~sock[s.handle].out
    /\ sock' = [sock EXCEPT ![s.handle].out = TRUE]
    /\ Uses(s)
    /\ UNCHANGED <<api, live, next_gen, closing, added, res, streams, called>>

\* The guest drops a stream; a 0.3 send stream queues a FIN as it goes.
TcpSendConsumerClose(s) ==
    IF api = "p3" /\ is_current(Stack, s.handle, s.gen) /\ sock[s.handle].kind = "tcp"
    THEN [sock EXCEPT ![s.handle] = TcpClose(@)] ELSE sock

DropStream(s) ==
    /\ streams' = streams \ {s}
    /\ sock' = TcpSendConsumerClose(s)
    /\ UNCHANGED <<api, live, next_gen, closing, added, res, strays, called>>

\* shutdown (0.2): always the fabric handle.
shutdown(r) ==
    /\ api = "p2"
    /\ TcpClose(sock[res[r].handle]) # sock[res[r].handle]
    /\ sock' = [sock EXCEPT ![res[r].handle] = TcpClose(@)]
    /\ UNCHANGED <<api, live, next_gen, closing, added, res, streams, strays, called>>

\* Dropping a TCP socket.  0.2 closes the primary handle and reaps the backlog
\* as it is; 0.3 closes every listener of the pool.
CloseIfCurrent(g, e) == IF Current(g, e) THEN [g EXCEPT !.sock[e[1]] = TcpClose(@)] ELSE g

DropEntry(g, e, close) ==
    IF Current(g, e) THEN begin_close(IF close THEN CloseIfCurrent(g, e) ELSE g, e[1]) ELSE g

DropPool(g, pool, close) ==
    LET acc[n \in Nat] == IF n = 0 THEN g ELSE DropEntry(acc[n - 1], pool[n], close)
    IN  acc[Len(pool)]

TcpDropped_p3(s) == DropPool(Stack, s.pool, TRUE)

TcpDropped(s) ==
    IF api = "p3" /\ s.listening THEN TcpDropped_p3(s)
    ELSE LET g == begin_close(CloseIfCurrent(Stack, <<s.handle, s.gen>>), s.handle)
         IN  IF s.listening THEN DropPool(g, Tail(s.pool), FALSE) ELSE g

TcpDrop(r) ==
    /\ SetStack(TcpDropped(res[r]))
    /\ res' = [res EXCEPT ![r] = NoRes]
    /\ UNCHANGED <<api, streams, strays, called>>

-----------------------------------------------------------------------------
(* UDP.                                                                       *)

\* start_bind + finish_bind, bind, and the implicit bind of connect and send.
udp_bind(r) ==
    /\ ~res[r].bound
    /\ sock' = [sock EXCEPT ![res[r].handle].st = "Bound"]
    /\ res' = [res EXCEPT ![r].bound = TRUE]
    /\ UNCHANGED <<api, live, next_gen, closing, added, streams, strays, called>>

\* stream (0.2): a pair of datagram streams, filtered to `remote` when given;
\* connect (0.3) sets the same filter on the socket.
Stream(r, p) ==
    /\ res[r].bound
    /\ p # NoPeer => FamilyOf[p] = res[r].family
    /\ res' = [res EXCEPT ![r].remote = p]
    /\ streams' = streams \cup {StreamOf(res[r].handle, res[r].gen, p)}
    /\ UNCHANGED <<api, sock, live, next_gen, closing, added, strays, called>>

\* disconnect (0.3).
disconnect(r) ==
    /\ api = "p3" /\ res[r].remote # NoPeer
    /\ res' = [res EXCEPT ![r].remote = NoPeer]
    /\ UNCHANGED <<api, sock, live, next_gen, closing, added, streams, strays, called>>

\* Incoming datagrams: another family's are dropped, and those of other peers
\* than the stream's are consumed without being handed on.
receive(s) ==
    /\ is_current(Stack, s.handle, s.gen)
    /\ sock[s.handle].kind = "udp" /\ sock[s.handle].rx # {}
    /\ sock' = [sock EXCEPT ![s.handle].rx = {}]
    /\ Uses(s)
    /\ UNCHANGED <<api, live, next_gen, closing, added, res, streams, called>>

send(s) ==
    /\ is_current(Stack, s.handle, s.gen)
    /\ sock[s.handle].kind = "udp" /\ ~sock[s.handle].out
    /\ sock' = [sock EXCEPT ![s.handle].out = TRUE]
    /\ Uses(s)
    /\ UNCHANGED <<api, live, next_gen, closing, added, res, streams, called>>

UdpDrop(r) ==
    /\ SetStack(begin_close(Stack, res[r].handle))
    /\ res' = [res EXCEPT ![r] = NoRes]
    /\ UNCHANGED <<api, streams, strays, called>>

-----------------------------------------------------------------------------
(* The hub and the remote ends.                                               *)

\* NetHub::step, its part for this stack after the packets: reap, wake.
HubTick ==
    /\ \E h \in Slots : closing[h] # 0
    /\ SetStack(reap_closing(Stack))
    /\ UNCHANGED <<api, res, streams, strays, called>>

Packet(h, s) == /\ sock' = [sock EXCEPT ![h] = s]
                /\ UNCHANGED <<api, live, next_gen, closing, added, res, streams, strays>>

\* A peer's SYN to one of the node's addresses goes to a listener on it.
PeerSyn(p, h) ==
    /\ p \notin called /\ sock[h].st = "Listen" /\ FamilyOf[p] \in sock[h].ep
    /\ called' = called \cup {p}
    /\ Packet(h, [sock[h] EXCEPT !.st = "SynReceived", !.peer = p])

\* The handshake completes, or the peer refuses the connection.
PeerAck(h) ==
    /\ sock[h].st \in {"SynReceived", "SynSent"}
    /\ UNCHANGED called
    /\ Packet(h, [sock[h] EXCEPT !.st = "Established"])

PeerReset(h) ==
    /\ sock[h].st \in {"SynSent", "Established"}
    /\ UNCHANGED called
    /\ Packet(h, Abort(sock[h]))

PeerData(h) ==
    /\ sock[h].st \in {"Established", "FinWait"} /\ ~sock[h].fed
    /\ UNCHANGED called
    /\ Packet(h, [sock[h] EXCEPT !.rx = {sock[h].peer}, !.fed = TRUE])

PeerFin(h) ==
    /\ \/ sock[h].st = "Established"
       \/ sock[h].st \in {"FinWait", "LastAck"} /\ ~sock[h].out
    /\ UNCHANGED called
    /\ Packet(h, [sock[h] EXCEPT !.st = IF @ = "Established" THEN "CloseWait" ELSE "Closed"])

PeerDatagram(p, h) ==
    /\ sock[h].st = "Bound" /\ p \notin called
    /\ called' = called \cup {p}
    /\ Packet(h, [sock[h] EXCEPT !.rx = @ \cup {p}])

Flush(h) ==
    /\ sock[h].out
    /\ UNCHANGED called
    /\ Packet(h, [sock[h] EXCEPT !.out = FALSE])

-----------------------------------------------------------------------------

SockInit ==
    /\ sock = [h \in Slots |-> Vacant]
    /\ live = [h \in Slots |-> 0]
    /\ next_gen = 1
    /\ closing = [h \in Slots |-> 0]
    /\ res = [r \in Res |-> NoRes]
    /\ streams = {}
    /\ added = 0
    /\ strays = {}
    /\ called = {}
    /\ calls = 0
    /\ api \in Apis

Guest ==
    \/ \E kind \in {"tcp", "udp"}, f \in Families : Create(kind, f)
    \/ \E r \in Open("tcp") :
          \/ \E at \in {"loopback"} : TcpBind(r, at)
          \/ \E p \in Peers : start_connect(r, p)
          \/ finish_connect(r)
          \/ start_listen(r)
          \/ accept(r)
          \/ shutdown(r)
          \/ TcpDrop(r)
    \/ \E r \in Open("udp") :
          \/ udp_bind(r)
          \/ \E p \in Peers \cup {NoPeer} : Stream(r, p)
          \/ disconnect(r)
          \/ UdpDrop(r)
    \/ \E s \in streams : \/ sock[s.handle].kind = "tcp" /\ Read(s)
                          \/ Write(s)
                          \/ send(s) \/ receive(s)
                          \/ DropStream(s)

Network ==
    \/ \E p \in Peers, h \in Slots : PeerSyn(p, h) \/ PeerDatagram(p, h)
    \/ \E h \in Slots : \/ PeerAck(h)
                        \/ PeerReset(h)
                        \/ PeerData(h)
                        \/ PeerFin(h)
                        \/ Flush(h)

SockNext ==
    \/ Guest /\ calls < MaxCalls /\ calls' = calls + 1
    \/ (Network \/ HubTick) /\ UNCHANGED calls

SockSpec == SockInit /\ [][SockNext]_sockVars

-----------------------------------------------------------------------------

Holds(r) == IF res[r] = NoRes THEN {}
              ELSE IF res[r].listening THEN Range(res[r].pool)
              ELSE {<<res[r].handle, res[r].gen>>}

(* The variables keep their shapes; in particular a slot is occupied exactly  *)
(* while it is live or closing, so the hub never polls a freed handle.        *)
SockTypeOK ==
    /\ \A h \in Slots : /\ sock[h].kind \in {"none", "tcp", "udp"}
                        /\ sock[h].rx \subseteq Peers
                        /\ live[h] \in 0..MaxGen /\ closing[h] \in 0..CLOSE_TICKS
                        /\ (sock[h] # Vacant) <=> (live[h] # 0 \/ closing[h] # 0)
    /\ next_gen \in 1..(MaxGen + 1)
    /\ \A s \in streams : s.handle \in Slots /\ s.gen \in 1..MaxGen

(* A stream that outlives its socket never reads from or writes to the socket *)
(* that took over the slot (NodeStack::is_current).                           *)
StreamsKeepToTheirSocket == strays = {}

(* No socket leaks and none is shared: every live slot belongs to exactly one *)
(* resource of the guest, through its handle or its accept pool, and a        *)
(* listening socket keeps its whole pool, all of it its own and current,      *)
(* whatever was accepted meanwhile.                                           *)
EveryLiveSlotOwned ==
    /\ \A h \in Slots : live[h] # 0 =>
          Cardinality({r \in Res : <<h, live[h]>> \in Holds(r)}) = 1
    /\ \A r \in Open("tcp") : res[r].listening =>
          /\ Len(res[r].pool) = LISTEN_BACKLOG
          /\ \A e \in Range(res[r].pool) : live[e[1]] = e[2]

(* What poll announces, accept delivers: a listener the guest was told is     *)
(* ready has a connection accept can hand out.                                *)
ReadyMeansAcceptable ==
    \A r \in Open("tcp") : res[r].listening /\ AcceptReady(r) => Ripe(r) # {}
=============================================================================
