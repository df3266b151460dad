------------------------------- MODULE Fabric -------------------------------
(***************************************************************************)
(* The network fabric: one NetHub per server process, driving the stacks   *)
(* of its nodes on a thread of its own, the routers and trunks attached to *)
(* it, the server thread that rewires them, and the tunnel that joins the  *)
(* trunks of two processes (wk-fabric/src/{netstack,uplink,hostmcast}.rs   *)
(* and the membership code of wk-server/src/server.rs).                    *)
(*                                                                         *)
(* A frame is [id, src, dst]: its sender and either the address of its     *)
(* receiver or Group, a multicast address.  What the payload carries, and  *)
(* what smoltcp does with a frame once it is in a NIC's receive queue, is  *)
(* left to module Sockets.                                                 *)
(***************************************************************************)
EXTENDS Integers, Sequences, FiniteSets, SequencesExt

CONSTANTS
  Hubs,        \* server processes, one hub each
  Apps,        \* nodes whose component imports wasi:sockets
  Routers,     \* Router nodes
  Trunks,      \* uplink nodes
  Dials,       \* <<t, u>>: t may be given a ticket for u
  Nets,        \* Network and Gateway nodes
  HubOf,       \* [Apps \cup Routers \cup Trunks \cup Nets -> Hubs]
  Seed,        \* [Apps -> Octets], the address an id asks for
  FirstOctet,  \* host octets are FirstOctet..FirstOctet + OctetCount - 1
  OctetCount,  \* 250 in the code
  Group,       \* a multicast destination
  Off,         \* "no stack yet": the net of a node that is not attached
  Loads,       \* the net_links a workspace may be loaded with
  Late,        \* Apps that are still compiling when the model starts
  Frames,      \* frame identities, each sent once
  MaxToggles,  \* bound on wires drawn or cut
  MaxAuth,     \* bound on changes of what the tokens allow
  MaxTunnels   \* bound on pairs of trunks a tunnel ever joins

Members == Apps \cup Routers \cup Trunks
Octets == FirstOctet .. FirstOctet + OctetCount - 1
ASSUME FabricAssumption ==
  /\ FirstOctet \in Nat /\ OctetCount \in Nat \ {0}
  /\ HubOf \in [Members \cup Nets -> Hubs]
  /\ Seed \in [Apps -> Octets]
  /\ Group \notin Octets /\ Off \notin Members \cup Nets
  /\ Apps \cap Trunks = {} /\ Routers \cap (Apps \cup Trunks) = {}
  /\ \A L \in Loads :  \* made by toggle_net, which leaves one net per member
       /\ L \subseteq Members \X Nets
       /\ \A k, l \in L : k[1] = l[1] /\ k[1] \notin Routers => k = l
  /\ IsFiniteSet(Apps) /\ Dials \subseteq Trunks \X Trunks
  /\ Late \subseteq Apps
  /\ \A x, y \in Apps \ Late : HubOf[x] = HubOf[y] /\ Seed[x] = Seed[y] => x = y
  /\ MaxToggles \in Nat /\ MaxAuth \in Nat /\ MaxTunnels \in Nat

VARIABLES
  links,    \* Graph::net_links: <<member, net>>
  allowed,  \* what node_may_use answers: the pairs a token allows
  net,      \* NodeStack::net and TrunkPort::net; Off while no stack exists
  phase,    \* of an App: "compiling", "alloc" (address picked), "up", "gone"
  ip,       \* NodeStack::ip, the host octet; meaningful from "alloc" on
  stacks,   \* NetHub::stacks, in attach order
  ports,    \* NetHub::routers: the nets of each attached RouterPort
  tx,       \* frames a guest's sockets have queued for the wire
  hub,      \* the driver's step: where it is and what it has collected
  tout,     \* TrunkPort::outbound
  tin,      \* TrunkPort::inbound
  conns,    \* tunnels, <<dialing trunk, dialed trunk>>: the live, and all ever made
  air,      \* datagrams in a tunnel: <<tunnel, receiving trunk, frame>>
  got,      \* history: <<frame, app>> a NIC was handed
  ever,     \* history: <<member, net>> wired and allowed at some moment
  budget    \* [toggles, auth, sent] used so far
vars == <<links, allowed, net, phase, ip, stacks, ports, tx, hub, tout, tin,
          conns, air, got, ever, budget>>
serverVars == <<links, allowed, net, ports, ever>>
hubVars == <<stacks, tx, hub, tout, tin, got>>

Frame == [id : Frames, src : Apps, dst : Octets \cup {Group}]
Idle == [at |-> "idle", todo |-> <<>>, routes |-> <<>>, bridges |-> {}, trunks |-> {},
         out |-> <<>>]
TrunksOf(h) == {t \in Trunks : HubOf[t] = h}

-----------------------------------------------------------------------------
(* Attaching: the compile thread picks an address, then adds the stack.    *)

UsedOctets(h) == {ip[a] : a \in Range(stacks[h])}
AfterSteps(o, k) == FirstOctet + ((o - FirstOctet + k) % OctetCount)
(* The first octet from seed on, wrapping, that no attached stack has, or  *)
(* the seed again when every one is taken: the one member of the set.      *)
alloc_ip(h, seed) ==
  LET free == {k \in 0 .. OctetCount - 1 : AfterSteps(seed, k) \notin UsedOctets(h)}
  IN  IF free = {} THEN {seed}
      ELSE {AfterSteps(seed, k) : k \in {i \in free : \A j \in free : i <= j}}

PickAddress(a) ==
  /\ phase[a] = "compiling"
  /\ phase' = [phase EXCEPT ![a] = "alloc"]
  /\ \E o \in alloc_ip(HubOf[a], Seed[a]) : ip' = [ip EXCEPT ![a] = o]
  /\ UNCHANGED <<links, allowed, net, ports, ever, hubVars, conns, air, budget>>

Attach(a) ==
  /\ phase[a] = "alloc"
  /\ phase' = [phase EXCEPT ![a] = "up"]
  /\ net' = [net EXCEPT ![a] = a]
  /\ stacks' = [stacks EXCEPT ![HubOf[a]] = Append(@, a)]
  /\ UNCHANGED <<links, allowed, ip, ports, ever, tx, hub, tout, tin, got, conns,
                 air, budget>>

detach(s, a) == IF \E i \in DOMAIN s : s[i] = a
                THEN RemoveAt(s, CHOOSE i \in DOMAIN s : s[i] = a) ELSE s

(* close_node of a compiled node: its wires go, its stack leaves the hub.  *)
Close(a) ==
  /\ phase[a] = "up" /\ budget.toggles < MaxToggles
  /\ phase' = [phase EXCEPT ![a] = "gone"]
  /\ links' = {l \in links : l[1] # a}
  /\ stacks' = [stacks EXCEPT ![HubOf[a]] = detach(@, a)]
  /\ budget' = [budget EXCEPT !.toggles = @ + 1]
  /\ UNCHANGED <<allowed, net, ip, ports, ever, tx, hub, tout, tin, got, conns, air>>

-----------------------------------------------------------------------------
(* The server thread: wires, tokens and the tick that reconciles them.     *)

node_may_use(m, n) == <<m, n>> \in allowed
(* The net a member belongs on: its wired net when its token allows it,    *)
(* otherwise the empty net that is its own id.                             *)
WantNet(ls, m) ==
  IF \E n \in Nets : <<m, n>> \in ls /\ node_may_use(m, n)
  THEN CHOOSE n \in Nets : <<m, n>> \in ls ELSE m
SetNet(m, n) == IF net[m] = Off THEN net ELSE [net EXCEPT ![m] = n]
AuthPairs(ls) == {l \in ls : l \in allowed}

(* A bridge of fewer than two nets is no bridge: its port is dropped.      *)
RouterNets(ls, r) ==
  LET ns == {n \in Nets : <<r, n>> \in ls /\ node_may_use(r, n)}
  IN  IF Cardinality(ns) < 2 THEN {} ELSE ns
sync_routers(ls, h) ==
  [r \in Routers |-> IF HubOf[r] = h THEN RouterNets(ls, r) ELSE ports[r]]

(* sync_net_membership: every wired member follows its wire.  A member     *)
(* with no wire is not visited.                                            *)
SyncNets(h) ==
  [m \in Apps \cup Trunks |->
     IF HubOf[m] = h /\ net[m] # Off /\ \E n \in Nets : <<m, n>> \in links
     THEN WantNet(links, m) ELSE net[m]]

toggle_unique(ls, m, n) ==
  IF <<m, n>> \in ls THEN ls \ {<<m, n>>}
  ELSE {l \in ls : l[1] # m} \cup {<<m, n>>}
toggle_pair(ls, m, n) ==
  IF <<m, n>> \in ls THEN ls \ {<<m, n>>} ELSE ls \cup {<<m, n>>}

Toggle(m, n) ==
  /\ budget.toggles < MaxToggles /\ HubOf[m] = HubOf[n]
  /\ m \in Apps => phase[m] # "gone"
  /\ IF m \in Routers
     THEN /\ links' = toggle_pair(links, m, n)
          /\ ports' = sync_routers(links', HubOf[m])
          /\ UNCHANGED net
     ELSE /\ links' = toggle_unique(links, m, n)
          /\ net' = SetNet(m, WantNet(links', m))
          /\ UNCHANGED ports
  /\ ever' = ever \cup AuthPairs(links')
  /\ budget' = [budget EXCEPT !.toggles = @ + 1]
  /\ UNCHANGED <<allowed, phase, ip, hubVars, conns, air>>

(* remove_net_node: members return to isolation; a router's port is left   *)
(* to the tick.                                                            *)
RemoveNet(n) ==
  /\ budget.toggles < MaxToggles
  /\ \E m \in Members : <<m, n>> \in links
  /\ links' = {l \in links : l[2] # n}
  /\ net' = [m \in Apps \cup Trunks |->
               IF <<m, n>> \in links /\ net[m] # Off THEN m ELSE net[m]]
  /\ budget' = [budget EXCEPT !.toggles = @ + 1]
  /\ UNCHANGED <<allowed, ports, ever, phase, ip, hubVars, conns, air>>

(* A token is attenuated, or an authorization granted again.               *)
Reauthorize(m, n) ==
  /\ budget.auth < MaxAuth /\ <<m, n>> \in links
  /\ allowed' = IF <<m, n>> \in allowed THEN allowed \ {<<m, n>>}
                ELSE allowed \cup {<<m, n>>}
  /\ ever' = ever \cup {l \in links : l \in allowed'}
  /\ budget' = [budget EXCEPT !.auth = @ + 1]
  /\ UNCHANGED <<links, net, ports, phase, ip, hubVars, conns, air>>

Tick(h) ==
  /\ net' = SyncNets(h)
  /\ ports' = sync_routers(links, h)
  /\ UNCHANGED <<links, allowed, ever, phase, ip, hubVars, conns, air, budget>>

-----------------------------------------------------------------------------
(* A loaded workspace whose first nodes have compiled and been ticked.     *)
Init ==
  /\ links \in Loads /\ ever = links
  /\ allowed = Members \X Nets
  /\ phase = [a \in Apps |-> IF a \in Late THEN "compiling" ELSE "up"]
  /\ ip = Seed
  /\ net = [m \in Apps \cup Trunks |-> IF m \in Late THEN Off ELSE WantNet(links, m)]
  /\ stacks = [h \in Hubs |-> SetToSeq({a \in Apps \ Late : HubOf[a] = h})]
  /\ ports = [r \in Routers |-> RouterNets(links, r)]
  /\ tx = [a \in Apps |-> <<>>]
  /\ hub = [h \in Hubs |-> Idle]
  /\ tout = [t \in Trunks |-> <<>>]
  /\ tin = [t \in Trunks |-> <<>>]
  /\ conns = [live |-> {}, made |-> {}] /\ air = {} /\ got = {}
  /\ budget = [toggles |-> 0, auth |-> 0, sent |-> {}]

-----------------------------------------------------------------------------
(* The hub's driver thread.  Each stack, and each trunk, is locked for     *)
(* itself, so the server thread may rewire between any two of these steps. *)
(* A step that would find nothing to move is left out.                     *)

Send(a, f) ==
  /\ phase[a] = "up" /\ f.src = a /\ f.id \notin budget.sent
  /\ tx' = [tx EXCEPT ![a] = Append(@, f)]
  /\ budget' = [budget EXCEPT !.sent = @ \cup {f.id}]
  /\ UNCHANGED <<serverVars, phase, ip, stacks, hub, tout, tin, got, conns, air>>

StepBegin(h) ==
  /\ hub[h].at = "idle"
  /\ \/ \E a \in Range(stacks[h]) : tx[a] # <<>>
     \/ \E t \in TrunksOf(h) : tin[t] # <<>>
  /\ hub' = [hub EXCEPT ![h] = [Idle EXCEPT !.at = "poll", !.todo = stacks[h]]]
  /\ UNCHANGED <<serverVars, phase, ip, stacks, tx, tout, tin, got, conns, air, budget>>

(* Phase 1: drain one stack's frames, tagged with its net, and note its    *)
(* route.                                                                  *)
Polled(st, a) ==
  [st EXCEPT !.todo = Tail(@),
             !.routes = Append(@, [app |-> a, net |-> net[a], ip |-> ip[a]]),
             !.out = @ \o [i \in 1 .. Len(tx[a]) |-> <<net[a], tx[a][i], FALSE>>]]
PollStack(h) ==
  /\ hub[h].at = "poll" /\ hub[h].todo # <<>>
  /\ hub' = [hub EXCEPT ![h] = Polled(@, Head(hub[h].todo))]
  /\ tx' = [tx EXCEPT ![Head(hub[h].todo)] = <<>>]
  /\ UNCHANGED <<serverVars, phase, ip, stacks, tout, tin, got, conns, air, budget>>

(* Phase 2 begins with the trunks, and the routers' nets, as they are now. *)
PollDone(h) ==
  /\ hub[h].at = "poll" /\ hub[h].todo = <<>>
  /\ hub' = [hub EXCEPT ![h] = [hub[h] EXCEPT !.at = "deliver", !.trunks = TrunksOf(h),
               !.bridges = {ports[r] : r \in {x \in Routers : HubOf[x] = h}} \ {{}}]]
  /\ UNCHANGED <<serverVars, phase, ip, stacks, tx, tout, tin, got, conns, air, budget>>

(* routed_nets: n and every net reachable from it over the bridges, the    *)
(* least set that holds n and, with a net, all that a bridge joins to it.  *)
Bridged(bridges, S) == \A b \in bridges : b \cap S # {} => b \subseteq S
Closure(bridges, n) ==
  LET all == {n} \cup UNION bridges
      closed == {S \in SUBSET all : n \in S /\ Bridged(bridges, S)}
  IN  {m \in all : \A S \in closed : m \in S}

(* The routes to stacks on net `on` that own address d, by position.       *)
Owners_anywhere(routes, on, d) == {i \in DOMAIN routes : routes[i].ip = d}
Owners(routes, on, d) == {i \in DOMAIN routes : routes[i].net = on /\ routes[i].ip = d}
(* The stack that attached first.                                          *)
FirstOf(routes, S) == {routes[i].app : i \in {j \in S : \A k \in S : j <= k}}

(* The receivers deliver() may hand a frame to: of a group, every stack on *)
(* the net and on those bridged to it; of an address, the first owner on   *)
(* the frame's own net, else the first owner on some bridged net.          *)
Receivers(st, n, f) ==
  LET nets == Closure(st.bridges, n)
      first(on) == FirstOf(st.routes, Owners(st.routes, on, f.dst))
      owned == {on \in nets : Owners(st.routes, on, f.dst) # {}}
  IN  IF f.dst = Group
      THEN {{r.app : r \in {x \in Range(st.routes) : x.net \in nets}}}
      ELSE IF n \in owned THEN {first(n)}
      ELSE IF owned # {} THEN {first(on) : on \in owned}
      ELSE {{}}

(* A frame leaves by the trunks of its own net when it is a group's, or    *)
(* nobody here owns its address; a trunk's own frame never does.           *)
Trunked(n, f, fromTrunk, to, t) ==
  ~fromTrunk /\ net[t] = n /\ (f.dst = Group \/ to = {})

Deliver(h) ==
  /\ hub[h].at = "deliver" /\ hub[h].out # <<>>
  /\ LET n == Head(hub[h].out)[1]
         f == Head(hub[h].out)[2]
         fromTrunk == Head(hub[h].out)[3]
     IN  \E to \in Receivers(hub[h], n, f) :
           /\ got' = got \cup ({f} \X to)
           /\ tout' = [t \in Trunks |->
                IF HubOf[t] = h /\ Trunked(n, f, fromTrunk, to, t)
                THEN Append(tout[t], f) ELSE tout[t]]
  /\ hub' = [hub EXCEPT ![h] = [hub[h] EXCEPT !.out = Tail(@)]]
  /\ UNCHANGED <<serverVars, phase, ip, stacks, tx, tin, conns, air, budget>>

(* Then what each trunk brought in, for the net that trunk is on now.      *)
Inbound(t) == [i \in 1 .. Len(tin[t]) |-> <<net[t], tin[t][i], TRUE>>]
DrainTrunk(h, t) ==
  /\ hub[h].at = "deliver" /\ hub[h].out = <<>> /\ t \in hub[h].trunks
  /\ hub' = [hub EXCEPT ![h] = [hub[h] EXCEPT !.trunks = @ \ {t}, !.out = Inbound(t)]]
  /\ tin' = [tin EXCEPT ![t] = <<>>]
  /\ UNCHANGED <<serverVars, phase, ip, stacks, tx, tout, got, conns, air, budget>>

StepEnd(h) ==
  /\ hub[h].at = "deliver" /\ hub[h].out = <<>> /\ hub[h].trunks = {}
  /\ hub' = [hub EXCEPT ![h] = Idle]
  /\ UNCHANGED <<serverVars, phase, ip, stacks, tx, tout, tin, got, conns, air, budget>>

-----------------------------------------------------------------------------
(* The tunnels between trunks, of two servers or of one: connections come  *)
(* and go (module IrohUplink says when), and carry datagrams that may be   *)
(* lost, delayed or reordered.                                             *)

TunnelUp(t, u) ==
  /\ <<t, u>> \in Dials \ conns.live
  /\ Cardinality(conns.made \cup {<<t, u>>}) <= MaxTunnels
  /\ conns' = [live |-> conns.live \cup {<<t, u>>}, made |-> conns.made \cup {<<t, u>>}]
  /\ UNCHANGED <<serverVars, phase, ip, hubVars, air, budget>>

TunnelDown(c) ==
  /\ conns' = [conns EXCEPT !.live = @ \ {c}]
  /\ air' = {p \in air : p[1] # c}
  /\ UNCHANGED <<serverVars, phase, ip, hubVars, budget>>

(* pump: every frame of the outbound queue goes down every live connection *)
(* of the uplink, to the trunk at its other end.                           *)
Between(t, u) == {<<t, u>>, <<u, t>>}
Pump(t) ==
  /\ tout[t] # <<>>
  /\ air' = air \cup UNION {{<<c, u, f>> : c \in conns.live \cap Between(t, u), f \in Range(tout[t])} :
                             u \in Trunks}
  /\ tout' = [tout EXCEPT ![t] = <<>>]
  /\ UNCHANGED <<serverVars, phase, ip, stacks, tx, hub, tin, got, conns, budget>>

Arrive(p) ==
  /\ tin' = [tin EXCEPT ![p[2]] = Append(@, p[3])]
  /\ air' = air \ {p}
  /\ UNCHANGED <<serverVars, phase, ip, stacks, tx, hub, tout, got, conns, budget>>

Lose(p) ==
  /\ air' = air \ {p}
  /\ UNCHANGED <<serverVars, phase, ip, hubVars, conns, budget>>

-----------------------------------------------------------------------------
Next ==
  \/ \E a \in Apps : PickAddress(a) \/ Attach(a) \/ Close(a)
  \/ \E m \in Members, n \in Nets : Toggle(m, n) \/ Reauthorize(m, n)
  \/ \E n \in Nets : RemoveNet(n)
  \/ \E h \in Hubs : Tick(h) \/ StepBegin(h) \/ PollStack(h) \/ PollDone(h)
                     \/ Deliver(h) \/ StepEnd(h)
  \/ \E h \in Hubs, t \in Trunks : DrainTrunk(h, t)
  \/ \E a \in Apps, f \in Frame : Send(a, f)
  \/ \E t, u \in Trunks : TunnelUp(t, u)
  \/ \E c \in conns.live : TunnelDown(c)
  \/ \E t \in Trunks : Pump(t)
  \/ \E p \in air : Arrive(p) \/ Lose(p)

Spec == Init /\ [][Next]_vars

-----------------------------------------------------------------------------
Entry == (Apps \cup Trunks \cup Nets) \X Frame \X BOOLEAN

(* Every variable keeps to its type: in particular a stack is listed once, *)
(* and only stacks that have attached and not closed are.                  *)
TypeOK ==
  /\ links \subseteq Members \X Nets /\ allowed \subseteq Members \X Nets
  /\ net \in [Apps \cup Trunks -> Apps \cup Trunks \cup Nets \cup {Off}]
  /\ phase \in [Apps -> {"compiling", "alloc", "up", "gone"}]
  /\ ip \in [Apps -> Octets]
  /\ \A h \in Hubs : /\ IsInjective(stacks[h])
                     /\ Range(stacks[h]) = {a \in Apps : phase[a] = "up" /\ HubOf[a] = h}
  /\ ports \in [Routers -> SUBSET Nets]
  /\ \A a \in Apps : Range(tx[a]) \subseteq Frame
  /\ \A h \in Hubs : /\ hub[h].at \in {"idle", "poll", "deliver"}
                     /\ Range(hub[h].todo) \subseteq Apps /\ hub[h].trunks \subseteq TrunksOf(h)
                     /\ Range(hub[h].out) \subseteq Entry
  /\ \A t \in Trunks : Range(tout[t]) \cup Range(tin[t]) \subseteq Frame
  /\ conns.live \subseteq conns.made /\ conns.made \subseteq Trunks \X Trunks
  /\ air \subseteq conns.live \X Trunks \X Frame
  /\ got \subseteq Frame \X Apps /\ ever \subseteq Members \X Nets

NetsEver(m) == {m} \cup {n \in Nets : <<m, n>> \in ever}
BridgesEver == {NetsEver(r) : r \in Routers}
ReachEver(m) == UNION {Closure(BridgesEver, n) : n \in NetsEver(m)}
(* Node a once shared a net with trunk t; and with a trunk that has been   *)
(* tunnelled to u.                                                         *)
Shared(a, t) == HubOf[a] = HubOf[t] /\ NetsEver(a) \cap NetsEver(t) # {}
Crossed(a, u) == \E t \in Trunks : Shared(a, t) /\ conns.made \cap Between(t, u) # {}

Reached(a, b) ==
  \/ HubOf[a] = HubOf[b] /\ ReachEver(a) \cap NetsEver(b) # {}
  \/ \E u \in TrunksOf(HubOf[b]) : Crossed(a, u) /\ ReachEver(u) \cap NetsEver(b) # {}

(* The isolation boundary (netstack.rs step): a frame only ever reaches a  *)
(* node that a wire, allowed by the members' tokens, has put on the        *)
(* sender's net or on one a router joined to it, or, across one tunnel     *)
(* between a trunk of the sender's net and another, on that other trunk's  *)
(* net or one a router joined to it; whatever is rewired, revoked or       *)
(* removed while it is queued, and however many trunks a net has.          *)
DeliveredWhereWired == \A d \in got : Reached(d[1].src, d[2])

(* Addresses are unique in a process, which is what lets a router bridge   *)
(* nets without translating (netstack.rs RouterPort, alloc_ip).            *)
AddressesUnique ==
  \A h \in Hubs : \A a, b \in Range(stacks[h]) : ip[a] = ip[b] => a = b

=============================================================================
