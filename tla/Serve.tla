------------------------------- MODULE Serve --------------------------------
(***************************************************************************)
(* The endpoints a server publishes: nodes on localhost ports (HostPorts), *)
(* the `api` peer of a node wired to an Api node, and HostServices on a    *)
(* Network.  Each is a table entry in the server (serves, api_serves,      *)
(* host_service_serves of wk-server/src/server.rs) that the server         *)
(* reconciles against its wires, and threads that hold the sockets and     *)
(* look at a kill flag when they get round to it (wk-fabric/src/           *)
(* {portfwd,listen}.rs, wk-server/src/http.rs).                            *)
(***************************************************************************)
EXTENDS Naturals, Sequences, FiniteSets, SequencesExt

CONSTANTS
  Apps,        \* app nodes
  HttpApps,    \* those that export a wasi:http handler; the rest are fabric nodes
  HPs,         \* HostPort nodes
  Ports,       \* localhost port numbers
  Nets,        \* virtual networks
  Eps,         \* identities for endpoints started
  InitPorts,   \* [HPs -> Ports]
  InitNet,     \* [Apps -> Nets]
  Loads,       \* the wires a workspace may be loaded with: [links, wired]
  None,
  MaxChanges,  \* bound on changes of wires, ports, tokens and run states
  MaxTaken     \* bound on times another process takes a port

ASSUME ServeAssumption ==
  /\ HttpApps \subseteq Apps
  /\ InitPorts \in [HPs -> Ports] /\ InitNet \in [Apps -> Nets]
  /\ \A l \in Loads : l.links \subseteq Apps \X HPs /\ l.wired \subseteq Apps
  /\ None \notin Apps \cup HPs \cup Ports \cup Nets \cup Eps
  /\ MaxChanges \in Nat /\ MaxTaken \in Nat

VARIABLES
  links,    \* Graph::serve_links: <<app, host port>>, one per app
  port,     \* Graph::host_ports; None once removed
  ready,    \* apps that can be served: compiled, and running if on the fabric
  may,      \* apps whose token allows the port and the api
  tok,      \* each app's effective token, as a version
  wired,    \* apps wired to an Api node
  net,      \* the net each app's stack is on
  svc,      \* the HostService: [net, cfg], None while it has no wire
  serves,   \* app -> [hp, ep] or None
  apis,     \* app -> [fp, ep] or None
  svcs,     \* [fp, ep] or None
  errors,   \* port_errors: host ports whose bind failed
  ep,       \* the threads of each endpoint started
  nics,     \* bridge NICs on the hub, in attach order
  taken,    \* ports another process holds
  used      \* [changes, taken] so far
vars == <<links, port, ready, may, tok, wired, net, svc, serves, apis, svcs,
          errors, ep, nics, taken, used>>
graph == <<links, port, ready, may, tok, wired, net, svc>>
tables == <<serves, apis, svcs, errors>>
threads == <<ep, nics>>

(* An endpoint not started yet.  tcp and udp: the thread of that protocol  *)
(* is alive and holds its socket; busy: its clients send datagrams faster  *)
(* than the pump's read timeout.                                           *)
Unused == [kind |-> None, owner |-> None, key |-> None, kill |-> FALSE,
           tcp |-> FALSE, udp |-> FALSE, busy |-> FALSE, net |-> None]

Init ==
  /\ \E l \in Loads : links = l.links /\ wired = l.wired
  /\ port = InitPorts /\ ready \in {{}, Apps} /\ may = Apps
  /\ tok = [a \in Apps |-> 0] /\ net = InitNet /\ svc = None
  /\ serves = [a \in Apps |-> None] /\ apis = [a \in Apps |-> None] /\ svcs = None
  /\ errors = {} /\ ep = [e \in Eps |-> Unused] /\ nics = <<>>
  /\ taken = {} /\ used = [changes |-> 0, taken |-> 0]

Change == /\ used.changes < MaxChanges
          /\ used' = [used EXCEPT !.changes = @ + 1]

-----------------------------------------------------------------------------
(* sync_serves.  The server's part of the state is handled as a record, so *)
(* that the binds can be tried one after the other.                        *)

State == [serves |-> serves, apis |-> apis, svcs |-> svcs, errors |-> errors,
          ep |-> ep, nics |-> nics]
Apply(s) == /\ serves' = s.serves /\ apis' = s.apis /\ svcs' = s.svcs
            /\ errors' = s.errors /\ ep' = s.ep /\ nics' = s.nics
FreshOf(st) == {e \in Eps : st.ep[e].kind = None}
Kill(eps, S) == [e \in Eps |-> IF e \in S THEN [eps[e] EXCEPT !.kill = TRUE] ELSE eps[e]]

Desired(ls, a) ==
  LET hs == {l[2] : l \in {x \in ls : x[1] = a}}
  IN  IF a \in ready /\ a \in may /\ hs # {} THEN CHOOSE h \in hs : TRUE ELSE None
Stale(st, ls) ==
  {a \in Apps : st.serves[a] # None /\ st.serves[a].hp # Desired(ls, a)}
StopStale(st, ls) ==
  [st EXCEPT !.serves = [a \in Apps |-> IF a \in Stale(st, ls) THEN None ELSE @[a]],
             !.errors = @ \ {st.serves[a].hp : a \in Stale(st, ls)},
             !.ep = Kill(@, {st.serves[a].ep : a \in Stale(st, ls)})]

port_served_by_other(st, pt, p, a) ==
  \E b \in Apps \ {a} : st.serves[b] # None /\ pt[st.serves[b].hp] = p
(* bind fails while any socket of either protocol it needs is held.        *)
Held(st, p, proto) ==
  \/ p \in taken
  \/ \E e \in Eps : st.ep[e].kind = "port" /\ st.ep[e].key = p /\ st.ep[e][proto]
Bindable(st, a, p) ==
  ~Held(st, p, "tcp") /\ (a \in HttpApps \/ ~Held(st, p, "udp"))

start_serve_once(st, pt, ls, a) ==
  LET h == Desired(ls, a)
      p == pt[h]
      e == CHOOSE x \in FreshOf(st) : TRUE
  IN  IF p = None \/ h \in st.errors \/ port_served_by_other(st, pt, p, a) THEN st
      ELSE IF ~Bindable(st, a, p) THEN [st EXCEPT !.errors = @ \cup {h}]
      ELSE [st EXCEPT
        !.serves[a] = [hp |-> h, ep |-> e],
        !.errors = @ \ {h},
        !.ep[e] = [kind |-> "port", owner |-> a, key |-> p, kill |-> FALSE, tcp |-> TRUE,
                   udp |-> a \notin HttpApps, busy |-> FALSE,
                   net |-> IF a \in HttpApps THEN None ELSE net[a]],
        !.nics = IF a \in HttpApps THEN @ ELSE Append(@, e)]
start_serve(st, pt, ls, a) ==
  LET h == Desired(ls, a)
      p == pt[h]
      e == CHOOSE x \in FreshOf(st) : TRUE
  IN  IF p = None \/ port_served_by_other(st, pt, p, a) THEN st
      ELSE IF ~Bindable(st, a, p) THEN [st EXCEPT !.errors = @ \cup {h}]
      ELSE [st EXCEPT
        !.serves[a] = [hp |-> h, ep |-> e],
        !.errors = @ \ {h},
        !.ep[e] = [kind |-> "port", owner |-> a, key |-> p, kill |-> FALSE, tcp |-> TRUE,
                   udp |-> a \notin HttpApps, busy |-> FALSE,
                   net |-> IF a \in HttpApps THEN None ELSE net[a]],
        !.nics = IF a \in HttpApps THEN @ ELSE Append(@, e)]

(* The states sync_serves may leave, one for each order in which the hash  *)
(* map yields the servers to start.                                        *)
sync_serves(st, pt, ls) ==
  LET stopped == StopStale(st, ls)
      missing == {a \in Apps : Desired(ls, a) # None /\ stopped.serves[a] = None}
      run(order) == FoldLeft(LAMBDA s, a : start_serve(s, pt, ls, a), stopped, order)
  IN  {[s EXCEPT !.errors = @ \cap {l[2] : l \in ls}] :
         s \in {run(o) : o \in SetToSeqs(missing)}}

(* Eps bounds the endpoints that exist at once: a reconcile waits for   *)
(* room for all it may start.                                              *)
Settle(st, pt, ls) ==
  /\ Cardinality(FreshOf(st)) >= Cardinality(Apps)
  /\ \E s \in sync_serves(st, pt, ls) : Apply(s)
(* Servers stopped before the reconcile.                                   *)
Restart_running(st, S) == [st EXCEPT !.serves = [a \in Apps |-> IF a \in S THEN None ELSE @[a]]]
Restart(st, S) ==
  [st EXCEPT !.serves = [a \in Apps |-> IF a \in S THEN None ELSE @[a]],
             !.ep = Kill(@, {st.serves[a].ep : a \in {b \in S : st.serves[b] # None}})]

toggle_serve(a, h) ==
  /\ Change /\ port[h] # None
  /\ links' = IF <<a, h>> \in links THEN links \ {<<a, h>>}
              ELSE {l \in links : l[1] # a} \cup {<<a, h>>}
  /\ Settle(State, port, links')
  /\ UNCHANGED <<port, ready, may, tok, wired, net, svc, taken>>

set_host_port(h, p) ==
  /\ Change /\ port[h] \notin {None, p}
  /\ port' = [port EXCEPT ![h] = p]
  /\ Settle(Restart(State, {a \in Apps : serves[a] # None /\ serves[a].hp = h}),
            port', links)
  /\ UNCHANGED <<links, ready, may, tok, wired, net, svc, taken>>

set_serve_port(a, h) ==
  /\ Change /\ <<a, h>> \in links
  /\ Settle(Restart(State, {a}), port, links)
  /\ UNCHANGED <<links, port, ready, may, tok, wired, net, svc, taken>>

remove_host_port(h) ==
  /\ Change /\ port[h] # None
  /\ port' = [port EXCEPT ![h] = None]
  /\ links' = {l \in links : l[2] # h}
  /\ Settle(State, port', links')
  /\ UNCHANGED <<ready, may, tok, wired, net, svc, taken>>

-----------------------------------------------------------------------------
(* sync_apis and sync_host_services: start and stop fabric listeners.      *)

Listener(kind, a, key, n) ==
  [kind |-> kind, owner |-> a, key |-> key, kill |-> FALSE, tcp |-> TRUE,
   udp |-> kind = "svc", busy |-> FALSE, net |-> n]

(* Api endpoints are stale when their app no longer wants one, or they     *)
(* were started under another token; a fresh one is started at once, while *)
(* the stale one is still on the net.                                      *)
ApiWanted(a) == a \in wired /\ a \in may /\ a \notin HttpApps
ApiStale(st, a) == st.apis[a] # None /\ (~ApiWanted(a) \/ st.apis[a].fp # tok[a])
StartApi(st, a) ==
  LET e == CHOOSE x \in FreshOf(st) : TRUE
  IN  [st EXCEPT !.apis[a] = [fp |-> tok[a], ep |-> e],
                 !.ep[e] = Listener("api", a, tok[a], net[a]),
                 !.nics = Append(@, e)]
sync_apis(st) ==
  LET stale == {a \in Apps : ApiStale(st, a)}
      stopped == [st EXCEPT !.apis = [a \in Apps |-> IF a \in stale THEN None ELSE @[a]],
                            !.ep = Kill(@, {st.apis[a].ep : a \in stale})]
      missing == {a \in Apps : ApiWanted(a) /\ stopped.apis[a] = None}
  IN  {FoldLeft(StartApi, stopped, o) : o \in SetToSeqs(missing)}

sync_host_services(st) ==
  LET stale == st.svcs # None /\ (svc = None \/ st.svcs.fp # svc)
      stopped == IF stale THEN [st EXCEPT !.svcs = None, !.ep = Kill(@, {st.svcs.ep})] ELSE st
      e == CHOOSE x \in FreshOf(stopped) : TRUE
  IN  IF svc = None \/ stopped.svcs # None THEN stopped
      ELSE [stopped EXCEPT !.svcs = [fp |-> svc, ep |-> e],
                           !.ep[e] = Listener("svc", None, svc, svc.net),
                           !.nics = Append(@, e)]

-----------------------------------------------------------------------------
(* The tick, and the changes that wait for it.                             *)

Room == Cardinality({a \in Apps : serves[a] = None /\ Desired(links, a) # None})
        + Cardinality({a \in Apps : ApiWanted(a) /\ (apis[a] = None \/ ApiStale(State, a))})
        + (IF svc # None /\ (svcs = None \/ svcs.fp # svc) THEN 1 ELSE 0)
        + Cardinality(Stale(State, links))
Tick ==
  /\ Cardinality(FreshOf(State)) >= Room
  /\ \E s \in sync_serves(State, port, links) :
       \E t \in sync_apis(s) : Apply(sync_host_services(t))
  /\ UNCHANGED <<graph, taken, used>>

close_node(a) ==
  /\ Change
  /\ \E l \in links : l[1] = a
  /\ links' = {l \in links : l[1] # a}
  /\ ready' = ready \ {a} /\ wired' = wired \ {a}
  /\ Settle(State, port, links')
  /\ UNCHANGED <<port, may, tok, net, svc, taken>>

(* A node compiles, runs, stops or exits.                                  *)
RunState(a) ==
  /\ Change
  /\ ready' = IF a \in ready THEN ready \ {a} ELSE ready \cup {a}
  /\ UNCHANGED <<links, port, may, tok, wired, net, svc, tables, threads, taken>>

(* A token is replaced: the fingerprint changes, and what it allows may.   *)
SetToken(a) ==
  /\ Change
  /\ tok' = [tok EXCEPT ![a] = @ + 1]
  /\ may' \in {may \cup {a}, may \ {a}}
  /\ UNCHANGED <<links, port, ready, wired, net, svc, tables, threads, taken>>

toggle_api(a) ==
  /\ Change
  /\ wired' = IF a \in wired THEN wired \ {a} ELSE wired \cup {a}
  /\ UNCHANGED <<links, port, ready, may, tok, net, svc, tables, threads, taken>>

Rewire(a, n) ==
  /\ Change /\ net[a] # n
  /\ net' = [net EXCEPT ![a] = n]
  /\ UNCHANGED <<links, port, ready, may, tok, wired, svc, tables, threads, taken>>

SetSvc(n, c) ==
  /\ Change
  /\ svc' = IF svc = [net |-> n, cfg |-> c] THEN None ELSE [net |-> n, cfg |-> c]
  /\ UNCHANGED <<links, port, ready, may, tok, wired, net, tables, threads, taken>>

-----------------------------------------------------------------------------
(* The threads of an endpoint, and the world outside.                      *)

(* The accept thread of a forward or an api listener follows the net of    *)
(* its node while it runs.                                                 *)
Follow(e) ==
  /\ ep[e].tcp /\ ~ep[e].kill /\ ep[e].owner # None /\ ep[e].net # None
  /\ ep[e].net # net[ep[e].owner]
  /\ ep' = [ep EXCEPT ![e].net = net[ep[e].owner]]
  /\ UNCHANGED <<graph, tables, nics, taken, used>>

TcpEnds(e) ==
  /\ ep[e].kill /\ ep[e].tcp
  /\ ep' = [ep EXCEPT ![e].tcp = FALSE]
  /\ UNCHANGED <<graph, tables, nics, taken, used>>
(* udp_pump reads kill between two drains of its socket, and a drain ends  *)
(* only when the clients have paused for the read timeout.                 *)
UdpEnds(e) ==
  /\ ep[e].kill /\ ep[e].udp /\ ~ep[e].busy
  /\ ep' = [ep EXCEPT ![e].udp = FALSE]
  /\ UNCHANGED <<graph, tables, nics, taken, used>>

(* Clients of a UDP socket begin or cease to send without a pause.  After  *)
(* a kill they can only cease: the pump ends in the first pause.           *)
UdpClients(e) ==
  /\ ep[e].udp /\ (ep[e].kill => ep[e].busy)
  /\ ep' = [ep EXCEPT ![e].busy = ~@]
  /\ UNCHANGED <<graph, tables, nics, taken, used>>

(* The supervisor joins both threads, then detaches the bridge.            *)
Supervisor(e) ==
  /\ ep[e].kind # None /\ ~ep[e].tcp /\ ~ep[e].udp
  /\ ep' = [ep EXCEPT ![e] = Unused]
  /\ nics' = SelectSeq(nics, LAMBDA x : x # e)
  /\ UNCHANGED <<graph, tables, taken, used>>

OtherProcess(p) ==
  \/ /\ p \in taken
     /\ taken' = taken \ {p}
     /\ UNCHANGED <<graph, tables, threads, used>>
  \/ /\ p \notin taken /\ used.taken < MaxTaken
     /\ ~Held(State, p, "tcp") /\ ~Held(State, p, "udp")
     /\ taken' = taken \cup {p}
     /\ used' = [used EXCEPT !.taken = @ + 1]
     /\ UNCHANGED <<graph, tables, threads>>

Next ==
  \/ \E a \in Apps, h \in HPs : toggle_serve(a, h) \/ set_serve_port(a, h)
  \/ \E h \in HPs : remove_host_port(h) \/ \E p \in Ports : set_host_port(h, p)
  \/ Tick
  \/ \E a \in Apps : RunState(a) \/ SetToken(a) \/ toggle_api(a) \/ close_node(a)
  \/ \E a \in Apps, n \in Nets : Rewire(a, n)
  \/ \E n \in Nets, c \in 1 .. 2 : SetSvc(n, c)
  \/ \E e \in Eps : Follow(e) \/ TcpEnds(e) \/ UdpEnds(e) \/ UdpClients(e) \/ Supervisor(e)
  \/ \E p \in Ports : OtherProcess(p)

(* The server ticks for ever; a thread polls its kill flag on a timeout,   *)
(* the one that reads datagrams in the first pause of its clients; a join  *)
(* returns once its threads have.                                          *)
Fairness ==
  /\ WF_vars(Tick)
  /\ \A e \in Eps : WF_vars(Follow(e)) /\ WF_vars(TcpEnds(e)) /\ WF_vars(UdpEnds(e))
                    /\ WF_vars(Supervisor(e))
Spec == Init /\ [][Next]_vars /\ Fairness

-----------------------------------------------------------------------------
Svc == [net : Nets, cfg : 1 .. 2]
Live(e) == ep[e].kind # None /\ ~ep[e].kill

(* Every variable keeps to its type, and a NIC is on the hub once, for an  *)
(* endpoint whose threads have not been joined.                            *)
TypeOK ==
  /\ links \subseteq Apps \X HPs /\ port \in [HPs -> Ports \cup {None}]
  /\ ready \subseteq Apps /\ may \subseteq Apps /\ wired \subseteq Apps
  /\ tok \in [Apps -> 0 .. MaxChanges] /\ net \in [Apps -> Nets]
  /\ svc \in Svc \cup {None} /\ errors \subseteq HPs /\ taken \subseteq Ports
  /\ \A a \in Apps : /\ serves[a] # None => serves[a] \in [hp : HPs, ep : Eps]
                     /\ apis[a] # None => apis[a] \in [fp : 0 .. MaxChanges, ep : Eps]
  /\ svcs # None => svcs \in [fp : Svc, ep : Eps]
  /\ IsInjective(nics) /\ \A e \in Range(nics) : ep[e].kind # None

(* The tables and the threads agree: an endpoint nobody told to stop is    *)
(* the one its owner's table entry names, serving what the wires and the   *)
(* HostPort's present number say, so none is ever left running and         *)
(* forgotten, and none is forgotten while it holds a port.                 *)
TablesMatchThreads ==
  /\ \A a \in Apps : serves[a] # None =>
       LET e == ep[serves[a].ep]
       IN  Live(serves[a].ep) /\ e.kind = "port" /\ e.owner = a
           /\ e.key = port[serves[a].hp] /\ <<a, serves[a].hp>> \in links
  /\ \A a \in Apps : apis[a] # None =>
       Live(apis[a].ep) /\ ep[apis[a].ep].kind = "api" /\ ep[apis[a].ep].owner = a
  /\ svcs # None => Live(svcs.ep) /\ ep[svcs.ep].key = svcs.fp
  /\ \A e \in Eps : Live(e) =>
       \/ svcs # None /\ svcs.ep = e
       \/ \E a \in Apps : \/ serves[a] # None /\ serves[a].ep = e
                          \/ apis[a] # None /\ apis[a].ep = e

(* Every server that is wanted on a port no other process holds and no     *)
(* other node is wired to comes to be bound, even when the port was held   *)
(* by a killed predecessor at the first attempt (start_serve retried by    *)
(* the tick); for a server of datagrams provided that the clients of that  *)
(* predecessor pause once.                                                 *)
WantsPort(a) ==
  LET h == Desired(links, a)
  IN  /\ h # None /\ port[h] # None /\ port[h] \notin taken
      /\ \A l \in links : l[1] # a => port[l[2]] # port[h]
Bound(a) == serves[a] # None /\ serves[a].hp = Desired(links, a)
Flooded(a) ==
  /\ a \notin HttpApps /\ Desired(links, a) # None
  /\ \E e \in Eps : /\ ep[e].kind = "port" /\ ep[e].key = port[Desired(links, a)]
                    /\ ep[e].kill /\ ep[e].udp /\ ep[e].busy
PublishedInTheEnd ==
  \A a \in Apps : <>[](WantsPort(a) /\ ~Flooded(a)) => <>[]Bound(a)

(* Without that proviso a killed pump whose clients never pause keeps the  *)
(* port, and every bind of its successor fails.                            *)
PublishedUnderLoad == \A a \in Apps : (<>[]WantsPort(a)) => (<>[]Bound(a))

(* A node that is no longer to be served gives its port back: no thread of *)
(* its keeps a socket (kill flags are polled, bridges detached).           *)
Holds(a) == \E e \in Eps : ep[e].kind = "port" /\ ep[e].owner = a /\ (ep[e].tcp \/ ep[e].udp)
WithdrawnIsReleased ==
  \A a \in Apps : (Desired(links, a) = None) ~> (Desired(links, a) # None \/ ~Holds(a))

(* Fabric DNS: the first NIC on the net that bears the name.               *)
resolve(n) == LET on == SelectSeq(nics, LAMBDA e : ep[e].kind = "api" /\ ep[e].net = n)
              IN  IF on = <<>> THEN None ELSE Head(on)
ReachesApi(a) == apis[a] # None /\ apis[a].fp = tok[a] /\ resolve(net[a]) = apis[a].ep
Alone(a) == \A b \in Apps \ {a} : ~(ApiWanted(b) /\ net[b] = net[a])

(* "A node wired to an Api node gets a named `api` peer on its network",   *)
(* one that accepts it (sync_apis, listen).                                *)
WiredNodeReachesItsApi == \A a \in Apps : (<>[]ApiWanted(a)) => (<>[]ReachesApi(a))
=============================================================================
