---------------------------- MODULE VeilidUplink ----------------------------
(* Veilid uplinks (wk-fabric veilid.rs): each publishes a private route in    *)
(* the DHT record its ticket names.  A dialer imports the route it finds      *)
(* there and greets it with its own.  Routes die as the network churns,       *)
(* publishing may fail, messages may be lost or overtake each other.          *)
EXTENDS Naturals, Sequences, FiniteSets

CONSTANTS
    Ends,         \* the uplinks; an end is also its own ticket
    MaxRoutes,    \* [Ends -> Nat]: routes an end allocates
    MaxDials,     \* how often tickets are set and cleared, uplinks deleted
    MaxFailures,  \* publications that fail
    MaxLosses     \* messages lost

VARIABLES
    dial_rx,      \* dial targets on their way to the driver
    target,       \* the driver's current one
    up,           \* uplinks started
    attached,     \* ends attached to the network
    local,        \* the route an end believes it has
    routes,       \* how many routes an end has allocated; the last one lives
    live,         \* ends whose last route has not died
    dht,          \* the route in each end's record
    peers,        \* [route, dialed] entries of each end
    msgs,         \* messages under way: [to, tag, blob]
    dials, failures, losses

vars == <<dial_rx, target, up, attached, local, routes, live, dht, peers, msgs, dials, failures, losses>>

Nowhere == "none"
NoRoute == <<Nowhere, 0>>
Alive(r) == r[2] = routes[r[1]] /\ r[1] \in live

Init == /\ dial_rx = [e \in Ends |-> <<>>]
        /\ target = [e \in Ends |-> Nowhere]
        /\ up = {} /\ attached = {} /\ live = {}
        /\ local = [e \in Ends |-> NoRoute]
        /\ routes = [e \in Ends |-> 0]
        /\ dht = [e \in Ends |-> NoRoute]
        /\ peers = [e \in Ends |-> {}]
        /\ msgs = {}
        /\ dials = 0 /\ failures = 0 /\ losses = 0

-----------------------------------------------------------------------------
(* Helpers of the driver.                                                     *)

add_peer(ps, r, dialed) ==
    LET known == {p \in ps : p.route = r}
    IN  (ps \ known) \union {[route |-> r, dialed |-> dialed \/ \E p \in known : p.dialed]}

RouteOf(p) == p.route

\* A message to a live route is on its way; one to a dead route vanishes, or
\* fails, and then send_to forgets the route (PeerRouteDies).
Sent(to, tag, blob) == {[to |-> r, tag |-> tag, blob |-> blob] : r \in {x \in to : Alive(x)}}

\* publish_route: a new route, written to the record; or a failure, which
\* leaves the end without one.
Publishes(e) ==
    /\ routes[e] < MaxRoutes[e]
    /\ routes' = [routes EXCEPT ![e] = @ + 1]
    /\ live' = live \union {e}
    /\ local' = [local EXCEPT ![e] = <<e, routes[e] + 1>>]
    /\ dht' = [dht EXCEPT ![e] = <<e, routes[e] + 1>>]
    /\ UNCHANGED failures
PublishFails(e) ==
    /\ failures < MaxFailures /\ failures' = failures + 1
    /\ local' = [local EXCEPT ![e] = NoRoute]
    /\ UNCHANGED <<routes, live, dht>>
publish_route(e) == Publishes(e) \/ PublishFails(e)

-----------------------------------------------------------------------------
(* The driver's select loop, one action per branch.                           *)

\* The uplink node is created or restored: its Veilid node starts.
start(e) ==
    /\ e \notin up /\ up' = up \union {e}
    /\ UNCHANGED <<dial_rx, target, attached, local, routes, live, dht, peers, msgs, dials, failures, losses>>

\* Server: a ticket set on the node, or cleared.
dial(e, t) ==
    /\ dials < MaxDials /\ dials' = dials + 1
    /\ e \in up /\ t # e
    /\ dial_rx' = [dial_rx EXCEPT ![e] = Append(@, t)]
    /\ UNCHANGED <<target, up, attached, local, routes, live, dht, peers, msgs, failures, losses>>

Attachment(e) ==
    /\ e \in up /\ e \notin attached /\ attached' = attached \union {e}
    /\ publish_route(e)
    /\ UNCHANGED <<dial_rx, target, up, peers, msgs, dials, losses>>

Hello(e, m) ==
    /\ m.tag \in {"hello", "ack"}
    /\ peers' = [peers EXCEPT ![e] = add_peer(@, m.blob, FALSE)]
    /\ msgs' = (msgs \ {m}) \union (IF m.tag = "hello" /\ local[e] # NoRoute
                                    THEN Sent({m.blob}, "ack", local[e]) ELSE {})

Bye(e, m) ==
    /\ m.tag = "bye"
    /\ peers' = [peers EXCEPT ![e] = {p \in @ : p.route # m.blob}]
    /\ msgs' = msgs \ {m}

AppMessage(e, m) ==
    /\ m \in msgs /\ Alive(m.to) /\ m.to[1] = e
    /\ Hello(e, m) \/ Bye(e, m)
    /\ UNCHANGED <<dial_rx, target, up, attached, local, routes, live, dht, dials, failures, losses>>

\* RouteChange for an end's own route: a new one is published and every peer
\* told of it.
OwnRouteDies(e) ==
    /\ local[e] # NoRoute /\ ~Alive(local[e])
    /\ publish_route(e)
    /\ msgs' = msgs \union (IF local'[e] = NoRoute THEN {}
                            ELSE Sent({RouteOf(p) : p \in peers[e]}, "ack", local'[e]))
    /\ UNCHANGED <<dial_rx, target, up, attached, peers, dials, losses>>

\* RouteChange for a peer's route, or send_to (the pump's, most often) failing.
PeerRouteDies(e) ==
    /\ \E p \in peers[e] : /\ ~Alive(p.route)
                           /\ peers' = [peers EXCEPT ![e] = @ \ {p}]
    /\ UNCHANGED <<dial_rx, target, up, attached, local, routes, live, dht, msgs, dials, failures, losses>>

\* Undialing lets go of the routes dialed and says goodbye to them.
Dial(e) ==
    /\ dial_rx[e] # <<>>
    /\ dial_rx' = [dial_rx EXCEPT ![e] = Tail(@)]
    /\ target' = [target EXCEPT ![e] = Head(dial_rx[e])]
    /\ LET dialed == {p \in peers[e] : p.dialed}
       IN  IF target'[e] # Nowhere THEN UNCHANGED <<peers, msgs>>
           ELSE /\ peers' = [peers EXCEPT ![e] = @ \ dialed]
                /\ msgs' = msgs \union (IF local[e] = NoRoute THEN {}
                                        ELSE Sent({RouteOf(p) : p \in dialed}, "bye", local[e]))
    /\ UNCHANGED <<up, attached, local, routes, live, dht, dials, failures, losses>>

\* The retry tick publishes a route if the last attempt failed, ...
Republish(e) == IF local[e] = NoRoute THEN publish_route(e)
                ELSE UNCHANGED <<local, routes, live, dht, failures>>
\* ... and, with no peer left, reads the target's record and greets its route.
FetchPeer(e) ==
    IF peers[e] = {} /\ target[e] # Nowhere /\ dht[target[e]] # NoRoute
    THEN LET r == dht[target[e]] IN
         /\ peers' = [peers EXCEPT ![e] = add_peer(@, r, TRUE)]
         /\ msgs' = msgs \union (IF local'[e] = NoRoute THEN {} ELSE Sent({r}, "hello", local'[e]))
    ELSE UNCHANGED <<peers, msgs>>
\* Mutant: a failed publication is not repeated.
Retry_once(e) ==
    /\ e \in attached
    /\ UNCHANGED <<local, routes, live, dht, failures>>
    /\ FetchPeer(e)
    /\ <<peers, msgs>>' # <<peers, msgs>>
    /\ UNCHANGED <<dial_rx, target, up, attached, dials, losses>>
Retry(e) ==
    /\ e \in attached
    /\ Republish(e)
    /\ FetchPeer(e)
    /\ <<local, failures, peers, msgs>>' # <<local, failures, peers, msgs>>
    /\ UNCHANGED <<dial_rx, target, up, attached, dials, losses>>

-----------------------------------------------------------------------------
(* The network.                                                               *)

RouteDies(e) ==
    /\ e \in live /\ routes[e] < MaxRoutes[e]
    /\ live' = live \ {e}
    /\ UNCHANGED <<dial_rx, target, up, attached, local, routes, dht, peers, msgs, dials, failures, losses>>
Lose(m) ==
    /\ m \in msgs
    /\ Alive(m.to) => losses < MaxLosses
    /\ losses' = IF Alive(m.to) THEN losses + 1 ELSE losses
    /\ msgs' = msgs \ {m}
    /\ UNCHANGED <<dial_rx, target, up, attached, local, routes, live, dht, peers, dials, failures>>

Next ==
    \/ \E e \in Ends : \/ \E t \in Ends \union {Nowhere} : dial(e, t)
                       \/ start(e) \/ Attachment(e) \/ OwnRouteDies(e) \/ PeerRouteDies(e)
                       \/ Dial(e) \/ Retry(e) \/ RouteDies(e)
                       \/ \E m \in msgs : AppMessage(e, m)
    \/ \E m \in msgs : Lose(m)

\* The driver's loop runs and its timer fires; Veilid attaches, reports dead
\* routes and delivers what it does not lose.
Fairness == \A e \in Ends : /\ WF_vars(Attachment(e)) /\ WF_vars(OwnRouteDies(e))
                            /\ WF_vars(PeerRouteDies(e)) /\ WF_vars(Dial(e)) /\ WF_vars(Retry(e))
                            /\ WF_vars(\E m \in msgs : AppMessage(e, m))
Spec == Init /\ [][Next]_vars /\ Fairness

-----------------------------------------------------------------------------
(* Properties.                                                                *)

TypeOK == /\ target \in [Ends -> Ends \union {Nowhere}]
          /\ attached \subseteq up /\ up \subseteq Ends /\ live \subseteq Ends
          /\ \A e \in Ends : \A p \in peers[e] : p.route[1] \in Ends \ {e}

\* An uplink whose ticket stays set, and to which no third uplink has dialed in,
\* comes to hold a live route of the uplink it names, for good once routes stop
\* dying: through publications that failed, records that still hold a dead route,
\* and lost messages (veilid.rs: "both sides re-allocate, re-publish, and
\* re-hello").
Reaches(e, t) == \E p \in peers[e] : p.route[1] = t /\ Alive(p.route)
DialerReaches ==
    \A e, t \in Ends :
        <>[](target[e] = t /\ t \in up /\ \A p \in peers[e] : p.route[1] = t)
            => <>[]Reaches(e, t)

(* What does not hold.                                                        *)

\* A third uplink that has dialed in keeps peers from being empty, and the retry
\* never fetches the record of the uplink the ticket names.
DialerReachesAmongOthers ==
    \A e, t \in Ends : <>[](target[e] = t /\ t \in up) => <>[]Reaches(e, t)

\* veilid.rs, hellos are "ack'd so both sides hold a route": the dialed uplink
\* holds one back.  A lost hello, or a route fetched while the dialer itself had
\* none, leaves a tunnel with one direction: peers is not empty, so the retry
\* never greets again.
BothSidesHoldARoute ==
    \A e, t \in Ends : <>[](target[e] = t /\ t \in up) => <>[](\E p \in peers[t] : p.route[1] = e /\ Alive(p.route))

\* VeilidUplink::dial, an empty ticket "releases the routes it dialed".  The
\* route a dialed peer announces after churn replaces the dialed one and is not
\* marked dialed: clearing the ticket then leaves the tunnel up.
UndialParts ==
    \A e \in Ends : target[e] = Nowhere /\ dial_rx[e] = <<>> /\ (\A f \in Ends : target[f] # e /\ dial_rx[f] = <<>>)
                      /\ msgs = {}
        => \A p \in peers[e] : ~Alive(p.route)
=============================================================================
