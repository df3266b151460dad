----------------------------- MODULE HostMcast -----------------------------
(* The host multicast bridge (wk-fabric hostmcast.rs): a trunk of one network *)
(* whose far side is the host's real network.  Its pump thread sends the      *)
(* network's multicast datagrams from one socket, joins a group when the      *)
(* network first sends to it, and injects what arrives on the joined sockets. *)
(* The server restarts the bridge to reconfigure it, and the old pump thread  *)
(* may outlive its bridge.                                                    *)
EXTENDS Naturals, Sequences, FiniteSets

CONSTANTS
    Groups,       \* <<address, port>> pairs the network and its peers use
    Configs,      \* the sets of groups a configuration joins up front
    MaxBridges,   \* bridges started, the first included
    MaxFailures   \* group sockets that cannot be bound

VARIABLES
    wired,        \* the node is wired to the network (else to its own empty one)
    bridge,       \* the running bridge, 0 for none
    trunk,        \* its trunk is attached to the network
    started,      \* bridges started so far; the pump of each is a thread
    pumping,      \* those whose thread still runs
    rx,           \* the groups a pump has joined
    batch,        \* frames a pump has drained from its trunk
    hostq,        \* datagrams on a pump's sockets: [socket, dgram]
    failures

vars == <<wired, bridge, trunk, started, pumping, rx, batch, hostq, failures>>

Bridges == 1..MaxBridges
\* A datagram: its group and the pump whose egress socket sent it, 0 for a peer.
Dgram(g, from) == [group |-> g, from |-> from]

Init == /\ wired = FALSE /\ trunk = FALSE
        /\ bridge = 1 /\ started = 1 /\ pumping = {1}
        /\ rx = [b \in Bridges |-> {}]
        /\ batch = [b \in Bridges |-> <<>>]
        /\ hostq = [b \in Bridges |-> {}]
        /\ failures = 0

-----------------------------------------------------------------------------
(* The kernel.  Sockets bind the wildcard address, so a datagram reaches all  *)
(* sockets on its port once any socket of the host has joined its group.      *)

OnSockets(r, d) ==
    [b \in Bridges |->
        IF \E c \in pumping : d.group \in r[c]
        THEN {[socket |-> s, dgram |-> d] : s \in {x \in r[b] : x[2] = d.group[2]}}
        ELSE {}]
\* A socket holds one datagram; what arrives meanwhile is dropped.
Delivered(q, r, d) ==
    [b \in Bridges |-> q[b] \union {a \in OnSockets(r, d)[b] : \A x \in q[b] : x.socket # a.socket}]

\* A group socket may fail to bind.
Binds(g, ok) == \/ ok /\ UNCHANGED failures
                \/ ~ok /\ failures < MaxFailures /\ failures' = failures + 1

-----------------------------------------------------------------------------
(* The pump thread.                                                           *)

\* A member of the network sends to g and the hub copies the frame to the
\* trunk; the pump drains it with its next turn.
FabricSend(g) ==
    /\ trunk /\ bridge # 0 /\ batch[bridge] = <<>>
    /\ batch' = [batch EXCEPT ![bridge] = <<g>>]
    /\ UNCHANGED <<wired, bridge, trunk, started, pumping, rx, hostq, failures>>

\* join: a group that cannot be bound is tried again with its next frame.
join(b, g, ok) == rx' = [rx EXCEPT ![b] = IF ok THEN @ \union {g} ELSE @]

PumpOut(b) ==
    /\ batch[b] # <<>>
    /\ LET g == Head(batch[b])
       IN  /\ \E ok \in BOOLEAN :
                 IF g \in rx[b] THEN ok /\ UNCHANGED <<rx, failures>>
                 ELSE Binds(g, ok) /\ join(b, g, ok)
           /\ hostq' = Delivered(hostq, rx', Dgram(g, b))
    /\ batch' = [batch EXCEPT ![b] = Tail(@)]
    /\ UNCHANGED <<wired, bridge, trunk, started, pumping>>

\* Host to fabric: what its own egress socket sent is dropped, anything else
\* is injected under the group the socket was joined for.  The frames of a
\* detached trunk go nowhere.
Injected(b, q) == q.dgram.from # b /\ b = bridge /\ trunk
PumpIn(b) ==
    /\ \E q \in hostq[b] : hostq' = [hostq EXCEPT ![b] = @ \ {q}]
    /\ UNCHANGED <<wired, bridge, trunk, started, pumping, rx, batch, failures>>

\* The kill flag is read once per turn: a batch in hand is still sent.
PumpEnds(b) ==
    /\ b \in pumping /\ b # bridge /\ batch[b] = <<>>
    /\ pumping' = pumping \ {b}
    /\ rx' = [rx EXCEPT ![b] = {}]
    /\ hostq' = [hostq EXCEPT ![b] = {}]
    /\ UNCHANGED <<wired, bridge, trunk, started, batch, failures>>

-----------------------------------------------------------------------------
(* The server and the host's other programs.                                  *)

\* Mutant: the new bridge is left on the node's own network.
set_multicast_config_unwired(groups) ==
    /\ started < MaxBridges
    /\ started' = started + 1
    /\ bridge' = started' /\ trunk' = FALSE
    /\ pumping' = pumping \union {started'}
    /\ rx' = [rx EXCEPT ![started'] = groups]
    /\ UNCHANGED <<wired, batch, hostq, failures>>
\* set_multicast_config: the old bridge is dropped, a new one binds the groups
\* of the configuration; one that cannot be bound leaves the node without.
set_multicast_config(groups) ==
    /\ started < MaxBridges
    /\ started' = started + 1
    /\ \/ /\ bridge' = started' /\ trunk' = wired
          /\ pumping' = pumping \union {started'}
          /\ rx' = [rx EXCEPT ![started'] = groups]
          /\ UNCHANGED failures
       \/ /\ groups # {} /\ failures < MaxFailures /\ failures' = failures + 1
          /\ bridge' = 0 /\ trunk' = FALSE
          /\ UNCHANGED <<pumping, rx>>
    /\ UNCHANGED <<wired, batch, hostq>>

\* A wire to the network is drawn, or undone: the trunk follows.
Rewire == /\ wired' = ~wired
          /\ trunk' = (bridge # 0 /\ wired')
          /\ UNCHANGED <<bridge, started, pumping, rx, batch, hostq, failures>>

PeerSend(g) ==
    /\ hostq' = Delivered(hostq, rx, Dgram(g, 0))
    /\ hostq' # hostq
    /\ UNCHANGED <<wired, bridge, trunk, started, pumping, rx, batch, failures>>

Next == \/ \E g \in Groups : FabricSend(g) \/ PeerSend(g)
        \/ \E b \in Bridges : PumpOut(b) \/ PumpIn(b) \/ PumpEnds(b)
        \/ \E groups \in Configs : set_multicast_config(groups)
        \/ Rewire

\* The pumps run, and the network keeps using its groups.
Fairness == /\ \A b \in Bridges : WF_vars(PumpOut(b)) /\ WF_vars(PumpIn(b)) /\ WF_vars(PumpEnds(b))
            /\ \A g \in Groups : SF_vars(FabricSend(g))
Spec == Init /\ [][Next]_vars /\ Fairness

-----------------------------------------------------------------------------
(* Properties.                                                                *)

TypeOK == /\ bridge \in 0..started /\ started \in Bridges
          /\ pumping \subseteq 1..started
          /\ rx \in [Bridges -> SUBSET Groups]

\* A network that uses a group comes to hear it: while the node stays wired and
\* has a bridge, every group the network sends to is joined in the end, also
\* when a first bind failed or a reconfiguration forgot what was learned
\* (set_multicast_config: "which the next datagram to each re-learns").
GroupIsJoined ==
    <>[](wired /\ bridge # 0) => <>[](bridge # 0 /\ Groups \subseteq rx[bridge])

(* What does not hold.                                                        *)

\* hostmcast.rs: "Injecting it would hand every node on the Network a second
\* copy".  A killed pump sends the batch it has drained; its successor has
\* joined the group up front and does not know that egress port.
NoEcho ==
    [][\A b \in Bridges : \A q \in hostq[b] \ hostq'[b] : Injected(b, q) => q.dgram.from = 0]_vars

\* Group: "keeps the bridge from delivering one protocol's datagrams to the
\* other's port"; bind_group: "Port matching plus the membership below is what
\* filters".  Two groups on one port: each socket gets both groups' datagrams.
UnderItsGroup ==
    [][\A b \in Bridges : \A q \in hostq[b] \ hostq'[b] : Injected(b, q) => q.socket = q.dgram.group]_vars

\* The node keeps a bridge: a configuration that cannot be bound leaves the
\* node placed and without one.
KeepsABridge == bridge # 0
=============================================================================
