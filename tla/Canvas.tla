------------------------------- MODULE Canvas -------------------------------
(***************************************************************************)
(* The server's document and what it keeps in step with it: the placed     *)
(* nodes, the wires between them, the app-to-app wires that wait for a     *)
(* component to compile, the private networks of directly wired apps, and  *)
(* the effects of the wires (mounts, MIDI routes, network membership, host *)
(* access, grants), with commands, undo and the tick that reconciles.      *)
(*                                                                         *)
(* The server is one record, as in the code: a handler is a function from  *)
(* server to server and the calls it makes are compositions.  Commands and *)
(* ticks are atomic (one lock); compile threads publish in between.        *)
(***************************************************************************)
EXTENDS Naturals, FiniteSets, SequencesExt, TLC

CONSTANTS
  Ids,           \* node ids
  KindOf,        \* what each id is when it is placed
  PrivNets,      \* synthetic network ids
  Components,    \* what app components import: subsets of {"fs", "net"}
  Tokens,        \* capability tokens, as the sets of uses they allow
  BaseToken,     \* the token of a node that has none of its own
  StaleClients,  \* may a client name a node that is gone?
  UndoCap,       \* UNDO_CAP
  MaxCommands    \* bound: commands in a behaviour

Kinds == {"app", "file", "port", "net", "gateway", "uplink", "capture",
          "clipboard", "api"}
Uses == {"read", "write", "midi", "net", "gateway", "capture", "clipboard"}
Rels == {"bind", "midi", "serve", "net", "capture", "clipboard", "api"}

Apps == {x \in Ids : KindOf[x] = "app"}
Pairs == {{x, y} : x, y \in Apps} \ {{x} : x \in Apps}

ASSUME CanvasAssumption ==
  /\ KindOf \in [Ids -> Kinds]
  /\ IsFiniteSet(Ids)
  /\ Ids \cap PrivNets = {}
  /\ Cardinality(PrivNets) > Cardinality(Pairs) + Cardinality(Apps)
  /\ Components \subseteq SUBSET {"fs", "net"}
  /\ Tokens \subseteq SUBSET Uses
  /\ BaseToken \in Tokens
  /\ StaleClients \in BOOLEAN
  /\ UndoCap \in Nat \ {0}
  /\ MaxCommands \in Nat

VARIABLES
  server,     \* the document and the effects
  undo,       \* the stack of recorded inverses
  component,  \* what each app's component imports
  born,       \* the ids ever allocated
  commands,   \* commands so far
  ticks       \* parity of the ticks so far: no tick is a stuttering step

vars == <<server, undo, component, born, commands, ticks>>

Init ==
  /\ server = [nodes    |-> {},         \* graph.nodes
               reg      |-> {},         \* node_reg: app nodes
               loaded   |-> {},         \* those that have published their setup
               wires    |-> {},         \* <<relation, source, destination>>
               pending  |-> <<>>,       \* pending_app_wires
               privnets |-> {},         \* app_link_nets: <<pair, net>>
               token    |-> [x \in Ids |-> BaseToken],
               mounted  |-> {},         \* <<volume, app, writable>>
               routed   |-> {},         \* <<source, destination>>
               member   |-> [x \in Ids |-> x],  \* the net of a stack or trunk
               host     |-> {},         \* apps with host access
               granted  |-> {}]         \* grants in force
  /\ undo = <<>>
  /\ component \in [Apps -> Components]
  /\ born = {}
  /\ commands = 0
  /\ ticks = 0

-----------------------------------------------------------------------------
(* Queries *)

Loading(s, x) == x \in s.reg /\ x \notin s.loaded
ServesFs(s, x) == x \in s.loaded /\ "fs" \in component[x]
ImportsNet(s, x) == x \in s.loaded /\ "net" \in component[x]
IsGateway(s, x) == x \in s.nodes /\ KindOf[x] = "gateway"
IsApp(s, x) == x \in s.nodes /\ KindOf[x] = "app"
HasTrunk(s, x) == x \in s.nodes /\ KindOf[x] = "uplink"

\* node_may_use: only app nodes carry a token.
MayUse(s, x, use) == IsApp(s, x) => use \in s.token[x]

Wired(s, x, y) == \E w \in s.wires : {w[2], w[3]} = {x, y}
Net(s, x) == {w \in s.wires : w[1] = "net" /\ w[2] = x}
Links(s, rel) == {<<w[2], w[3]>> : w \in {v \in s.wires : v[1] = rel}}

-----------------------------------------------------------------------------
(* wiring.rs *)

\* A node that is not known counts as an app.
Class(s, x) ==
  IF x \notin s.nodes THEN "app"
  ELSE IF KindOf[x] = "gateway" THEN "net" ELSE KindOf[x]

Forms == {<<"file", "app", "bind">>, <<"app", "port", "serve">>,
          <<"app", "net", "net">>, <<"uplink", "net", "net">>,
          <<"app", "capture", "capture">>, <<"app", "clipboard", "clipboard">>,
          <<"app", "api", "api">>, <<"app", "app", "midi">>}

\* classify: the wire two nodes form, in its canonical orientation.
Classify(s, x, y) ==
  {<<f[3], x, y>> : f \in {g \in Forms : g[1] = Class(s, x) /\ g[2] = Class(s, y)}}
  \cup
  {<<f[3], y, x>> : f \in {g \in Forms : g[1] # g[2] /\ g[1] = Class(s, y)
                                                     /\ g[2] = Class(s, x)}}

\* toggle_pair and toggle_unique ("one destination per source": a new link
\* displaces the old one).
TogglePair(wires, w) == IF w \in wires THEN wires \ {w} ELSE wires \cup {w}

ToggleUnique(wires, w) ==
  IF w \in wires THEN wires \ {w}
  ELSE {v \in wires : v[1] # w[1] \/ v[2] # w[2]} \cup {w}

-----------------------------------------------------------------------------
(* Reconciling the effects with the wires *)

\* A mount exists while its wire does and the app's token allows reading; its
\* source is a file node or a compiled provider.  A mount whose write permission
\* changed is made again in the new mode.
IsFile(s, f) == f \in s.nodes /\ KindOf[f] = "file"
MountSource(s, f) == IsFile(s, f) \/ ServesFs(s, f)
Writable(s, p) == MayUse(s, p[2], "write")

SyncMountsKeepsDenied(s) ==  \* mutant: an existing mount is never re-judged
  LET active == {<<m[1], m[2]>> : m \in s.mounted}
      kept == {m \in s.mounted : <<m[1], m[2]>> \in Links(s, "bind")}
      add == {p \in Links(s, "bind") \ active :
                MayUse(s, p[2], "read") /\ MountSource(s, p[1]) /\ p[2] \in s.reg}
  IN [s EXCEPT !.mounted = kept \cup {<<p[1], p[2], Writable(s, p)>> : p \in add}]

SyncMounts(s) ==
  LET desired == {p \in Links(s, "bind") : MayUse(s, p[2], "read")}
      active == {<<m[1], m[2]>> : m \in s.mounted}
      kept == {m \in s.mounted : LET p == <<m[1], m[2]>>
                                 IN p \in desired /\ m[3] = Writable(s, p)}
      flipped == {p \in active \cap desired : <<p[1], p[2], Writable(s, p)>> \notin kept}
      add == {p \in desired \ active : p[2] \in s.reg} \cup flipped
  IN [s EXCEPT !.mounted = kept \cup {<<p[1], p[2], Writable(s, p)>> :
                                        p \in {q \in add : MountSource(s, q[1])}}]

\* reapply_binds: before app x runs, its volumes are laid over its root
\* filesystem again; a provider's mount is left to the next reconcile.
ReapplyBinds(s, x) ==
  LET binds == {p \in Links(s, "bind") : p[2] = x}
      laid == {p \in binds : MayUse(s, x, "read") /\ IsFile(s, p[1])}
  IN [s EXCEPT !.mounted = {m \in @ : <<m[1], m[2]>> \notin binds}
                             \cup {<<p[1], p[2], Writable(s, p)>> : p \in laid}]

\* A route needs the consent of both tokens.
SyncMidi(s) ==
  LET desired == {p \in Links(s, "midi") : /\ MayUse(s, p[1], "midi")
                                           /\ MayUse(s, p[2], "midi")}
  IN [s EXCEPT !.routed = (s.routed \cap desired)
                            \cup {p \in desired : p[2] \in s.reg}]

\* Frame slots and boards are handed to the registered apps that hold a wire.
SyncGrants(s) ==
  [s EXCEPT !.granted = {w \in s.wires : /\ w[1] \in {"capture", "clipboard"}
                                         /\ w[2] \in s.reg
                                         /\ w[3] \in s.nodes
                                         /\ MayUse(s, w[2], w[1])}]

NetUse(s, net) == IF IsGateway(s, net) THEN "gateway" ELSE "net"

\* Point the trunks and stacks of the members, those that have one, at their
\* nets (its own id: isolated).  Only a stack on a gateway has host access.
SetNets(s, to) ==
  LET moved == {x \in DOMAIN to : HasTrunk(s, x) \/ ImportsNet(s, x)}
      hosts == {x \in moved : ImportsNet(s, x) /\ IsGateway(s, to[x])}
  IN [s EXCEPT !.member = [x \in Ids |-> IF x \in moved THEN to[x] ELSE @[x]],
               !.host = (@ \ moved) \cup hosts]

ToggleNetPlain(s, x, net) ==  \* mutant: the token is left to the next tick
  LET t == [s EXCEPT !.wires = ToggleUnique(@, <<"net", x, net>>)]
  IN SetNets(t, [y \in {x} |-> IF <<"net", x, net>> \in t.wires THEN net ELSE x])

ToggleNet(s, x, net) ==
  LET t == [s EXCEPT !.wires = ToggleUnique(@, <<"net", x, net>>)]
      joined == <<"net", x, net>> \in t.wires /\ MayUse(t, x, NetUse(t, net))
  IN SetNets(t, [y \in {x} |-> IF joined THEN net ELSE x])

\* Every member's stack follows its wire and its token.
SyncNetMembership(s) ==
  LET NetOf(x) == (CHOOSE w \in Net(s, x) : TRUE)[3]
  IN SetNets(s, [x \in {y \in Ids : Net(s, y) # {}} |->
                   IF MayUse(s, x, NetUse(s, NetOf(x))) THEN NetOf(x) ELSE x])

\* Two apps wired to each other that both import wasi:sockets share a private
\* network; the link ends when the wire does.  ord is the order in which the
\* hash maps happen to yield the pairs.
FreshNet(s) ==
  CHOOSE n \in PrivNets : /\ \A l \in s.privnets : l[2] # n
                          /\ \A w \in s.wires : w[3] # n
                          /\ \A x \in Ids : s.member[x] # n

ToggleBoth(s, pair, net) ==
  LET x == CHOOSE y \in pair : TRUE
      y == CHOOSE z \in pair : z # x
  IN ToggleNet(ToggleNet(s, x, net), y, net)

\* The link of a pair that is no longer wanted ends; a wanted one that is not
\* there is made.
PartLink(t, want, pair) ==
  LET mine == {l \in t.privnets : l[1] = pair}
      link == CHOOSE m \in mine : TRUE
  IN IF pair \in want \/ mine = {} THEN t
     ELSE ToggleBoth([t EXCEPT !.privnets = @ \ {link}], pair, link[2])

JoinLink(t, want, pair) ==
  LET net == FreshNet(t)
  IN IF pair \notin want \/ \E l \in t.privnets : l[1] = pair THEN t
     ELSE [ToggleBoth(t, pair, net) EXCEPT !.privnets = @ \cup {<<pair, net>>}]

WantedLinks(s) ==
  {{p[1], p[2]} : p \in {q \in Links(s, "midi") : ImportsNet(s, q[1]) /\ ImportsNet(s, q[2])}}

SyncAppLinkNets(s, ord) ==
  LET want == WantedLinks(s)
      part[n \in Nat] == IF n = 0 THEN s ELSE PartLink(part[n - 1], want, ord[n])
      join[n \in Nat] == IF n = 0 THEN part[Len(ord)] ELSE JoinLink(join[n - 1], want, ord[n])
  IN join[Len(ord)]

\* prune_app_link_net: the departing app's partners leave the private net.
PrunePartner(t, x, l) ==
  ToggleNet([t EXCEPT !.privnets = @ \ {l}], CHOOSE y \in l[1] : y # x, l[2])

PruneAppLinkNet(s, x) ==
  LET links == SetToSeq({l \in s.privnets : x \in l[1]})
      done[n \in Nat] == IF n = 0 THEN s ELSE PrunePartner(done[n - 1], x, links[n])
  IN done[Len(links)]

-----------------------------------------------------------------------------
(* Wiring two nodes *)

ToggleFile(s, f, x) ==
  SyncMounts([s EXCEPT !.wires = TogglePair(@, <<"bind", f, x>>)])

ToggleMidi(s, x, y, ord) ==
  SyncAppLinkNets(SyncMidi([s EXCEPT !.wires = TogglePair(@, <<"midi", x, y>>)]), ord)

\* The relation decides the toggle and the effect that is reconciled at once.
ToggleWire(s, w, ord) ==
  CASE w[1] = "bind" -> ToggleFile(s, w[2], w[3])
    [] w[1] = "midi" -> ToggleMidi(s, w[2], w[3], ord)
    [] w[1] = "net"  -> ToggleNet(s, w[2], w[3])
    [] w[1] \in {"capture", "clipboard"} ->
         SyncGrants([s EXCEPT !.wires = ToggleUnique(@, w)])
    [] OTHER -> [s EXCEPT !.wires = ToggleUnique(@, w)]

\* Between two apps the wire is MIDI unless one of them serves a filesystem;
\* while either still compiles that is unknown, and the wire waits.
ConnectToggle(s, x, y, ord) ==
  IF Classify(s, x, y) = {} THEN s
  ELSE LET w == CHOOSE v \in Classify(s, x, y) : TRUE
       IN IF w[1] # "midi" THEN ToggleWire(s, w, ord)
          ELSE IF Loading(s, w[2]) \/ Loading(s, w[3])
               THEN [s EXCEPT !.pending = Append(@, <<w[2], w[3]>>)]
          ELSE IF ServesFs(s, w[2]) THEN ToggleFile(s, w[2], w[3])
          ELSE IF ServesFs(s, w[3]) THEN ToggleFile(s, w[3], w[2])
          ELSE ToggleMidi(s, w[2], w[3], ord)

\* rewire: wires between live nodes that are not joined already.
RewireOne(t, p, ord) ==
  IF {p[1], p[2]} \subseteq t.nodes /\ ~Wired(t, p[1], p[2])
  THEN ConnectToggle(t, p[1], p[2], ord) ELSE t

Rewire(s, pairs, ord) ==
  LET list == SetToSeq(pairs)
      done[n \in Nat] == IF n = 0 THEN s ELSE RewireOne(done[n - 1], list[n], ord)
  IN done[Len(list)]

\* Waiting wires are made once both ends have compiled, and dropped when one
\* is gone.
SyncPendingOne(t, p, ord) ==
  IF ~({p[1], p[2]} \subseteq t.nodes) THEN t
  ELSE IF Loading(t, p[1]) \/ Loading(t, p[2]) THEN [t EXCEPT !.pending = Append(@, p)]
  ELSE IF Wired(t, p[1], p[2]) THEN t
  ELSE ConnectToggle(t, p[1], p[2], ord)

SyncPendingOnce(s, ord) ==  \* mutant: a wire that still has to wait is lost
  FoldLeft(LAMBDA t, p : IF Loading(t, p[1]) \/ Loading(t, p[2]) THEN t ELSE SyncPendingOne(t, p, ord),
           [s EXCEPT !.pending = <<>>], s.pending)

SyncPendingAppWires(s, ord) ==
  LET done[n \in Nat] == IF n = 0 THEN [s EXCEPT !.pending = <<>>]
                         ELSE SyncPendingOne(done[n - 1], s.pending[n], ord)
  IN done[Len(s.pending)]

-----------------------------------------------------------------------------
(* Placing and removing nodes *)

\* A fresh record; an app starts compiling in a sandbox of its own.
Place(s, x, token) ==
  [s EXCEPT !.nodes = @ \cup {x},
            !.reg = IF KindOf[x] = "app" THEN @ \cup {x} ELSE @,
            !.token[x] = token,
            !.member[x] = x,
            !.host = @ \ {x}]

\* forget: the base record and the side tables.
Forget(s, x) == [s EXCEPT !.nodes = @ \ {x}, !.token[x] = BaseToken]

Cut(s, Touches(_)) == [s EXCEPT !.wires = {w \in @ : ~Touches(w)}]

CloseNode(s, x) ==
  LET gone == [s EXCEPT !.reg = @ \ {x}, !.loaded = @ \ {x},
                        !.member[x] = x, !.host = @ \ {x}]
      cut1 == Cut(gone, LAMBDA w : \/ w[1] = "bind" /\ w[3] = x
                                   \/ w[1] = "net" /\ w[2] = x
                                   \/ w[1] = "midi" /\ x \in {w[2], w[3]})
      cut2 == Cut(PruneAppLinkNet(cut1, x),
                  LAMBDA w : \/ w[1] = "serve" /\ x \in {w[2], w[3]}
                             \/ w[1] = "clipboard" /\ w[2] = x)
  IN Forget(SyncGrants(SyncMidi(SyncMounts(cut2))), x)

RemoveNetNodeOnly(s, x) ==  \* mutant: the members stay on the dead network
  Forget(Cut(s, LAMBDA w : w[1] = "net" /\ w[3] = x), x)

RemoveNetNode(s, x) ==
  LET members == {w[2] : w \in {v \in s.wires : v[1] = "net" /\ v[3] = x}}
      isolated == SetNets(s, [m \in members |-> m])
  IN Forget(Cut(isolated, LAMBDA w : w[1] = "net" /\ w[3] = x), x)

RemoveAny(s, x) ==
  CASE KindOf[x] = "app" -> CloseNode(s, x)
    [] KindOf[x] = "file" ->
         Forget(SyncMounts(Cut(s, LAMBDA w : w[1] = "bind" /\ w[2] = x)), x)
    [] KindOf[x] \in {"net", "gateway"} -> RemoveNetNode(s, x)
    [] KindOf[x] = "uplink" -> Forget(Cut(s, LAMBDA w : w[1] = "net" /\ w[2] = x), x)
    [] KindOf[x] = "port" -> Forget(Cut(s, LAMBDA w : w[1] = "serve" /\ w[3] = x), x)
    [] KindOf[x] = "api" -> Forget(Cut(s, LAMBDA w : w[1] = "api" /\ w[3] = x), x)
    [] OTHER -> Forget(SyncGrants(Cut(s, LAMBDA w : w[1] = KindOf[x] /\ w[3] = x)), x)

-----------------------------------------------------------------------------
(* Commands *)

\* record: the oldest inverse is dropped when the stack is full.
Record(u) ==
  undo' = IF Len(undo) < UndoCap THEN Append(undo, u) ELSE Append(Tail(undo), u)

Orders == SetToSeqs(Pairs)

Command == commands < MaxCommands /\ commands' = commands + 1 /\ UNCHANGED ticks

\* Create a node: its id is new.
CreateNode(x) ==
  /\ Command
  /\ x \notin born
  /\ born' = born \cup {x}
  /\ server' = Place(server, x, BaseToken)
  /\ Record([op |-> "uncreate", node |-> x])
  /\ UNCHANGED component

\* Delete a node.  Its snapshot holds its token and its wires as bare pairs.
DeleteNode(x) ==
  /\ Command
  /\ x \in server.nodes
  /\ Record([op |-> "recreate", node |-> x, token |-> server.token[x],
             pairs |-> {<<w[2], w[3]>> : w \in {v \in server.wires : x \in {v[2], v[3]}}}])
  /\ server' = RemoveAny(server, x)
  /\ UNCHANGED <<component, born>>

\* Create a wire between two different nodes that are not joined yet.
CreateWire(x, y) ==
  /\ Command
  /\ x # y
  /\ {x, y} \subseteq IF StaleClients THEN born ELSE server.nodes
  /\ ~Wired(server, x, y)
  /\ LET unique == {w \in Classify(server, x, y) : w[1] \in {"net", "serve"}}
     IN IF unique = {} THEN Record([op |-> "wire", ends |-> <<x, y>>])
        ELSE \E w \in unique :
               Record([op |-> "rewire", src |-> w[2], new |-> w[3],
                       old |-> {v[3] : v \in {u \in server.wires : /\ u[1] = w[1]
                                                                   /\ u[2] = w[2]}}])
  /\ \E ord \in Orders : server' = ConnectToggle(server, x, y, ord)
  /\ UNCHANGED <<component, born>>

\* Delete a wire that the clients see.
DeleteWire(w) ==
  /\ Command
  /\ w \in server.wires
  /\ \A l \in server.privnets : l[2] # w[3]
  /\ Record([op |-> "wire", ends |-> <<w[2], w[3]>>])
  /\ \E ord \in Orders : server' = ToggleWire(server, w, ord)
  /\ UNCHANGED <<component, born>>

\* Replace an app's capability token; the effects follow on the next tick.
SetToken(x, token) ==
  /\ Command
  /\ IsApp(server, x)
  /\ Record([op |-> "token", node |-> x, token |-> server.token[x]])
  /\ server' = [server EXCEPT !.token[x] = token]
  /\ UNCHANGED <<component, born>>

\* Run a compiled app; what becomes of its guest is NodeLifecycle's concern.
RunNode(x) ==
  /\ Command
  /\ x \in server.loaded
  /\ server' = ReapplyBinds(server, x)
  /\ UNCHANGED <<undo, component, born>>

\* apply_undo, guarded against nodes that have gone.
Unwire(s, u, ord) ==
  IF {u.src, u.new} \subseteq s.nodes /\ Wired(s, u.src, u.new)
  THEN ConnectToggle(s, u.src, u.new, ord) ELSE s

ApplyUndo(s, u, ord) ==
  CASE u.op = "uncreate" -> IF u.node \in s.nodes THEN RemoveAny(s, u.node) ELSE s
    [] u.op = "recreate" -> Rewire(Place(s, u.node, u.token), u.pairs, ord)
    [] u.op = "wire" -> IF {u.ends[1], u.ends[2]} \subseteq s.nodes
                        THEN ConnectToggle(s, u.ends[1], u.ends[2], ord) ELSE s
    [] u.op = "rewire" -> Rewire(Unwire(s, u, ord), {<<u.src, old>> : old \in u.old}, ord)
    [] u.op = "token" -> IF u.node \in s.nodes
                         THEN [s EXCEPT !.token[u.node] = u.token] ELSE s

Undo ==
  /\ Command
  /\ undo # <<>>
  /\ undo' = Front(undo)
  /\ \E ord \in Orders : server' = ApplyUndo(server, Last(undo), ord)
  /\ UNCHANGED <<component, born>>

-----------------------------------------------------------------------------
(* The tick and the compile threads *)

\* A compile thread publishes what its component turned out to be.
Publish(x) ==
  /\ Loading(server, x)
  /\ server' = [server EXCEPT !.loaded = @ \cup {x}]
  /\ UNCHANGED <<undo, component, born, commands, ticks>>

\* The reconcilers in the order in which the tick runs them.
Tick ==
  /\ \E ord \in Orders :
       \E wired \in {SyncPendingAppWires(server, ord)} :
       \E routed \in {SyncMidi(SyncMounts(wired))} :
       \E linked \in {SyncAppLinkNets(routed, ord)} :
         server' = SyncGrants(SyncNetMembership(linked))
  /\ ticks' = 1 - ticks
  /\ UNCHANGED <<undo, component, born, commands>>

Next ==
  \/ \E x \in Ids : CreateNode(x) \/ DeleteNode(x) \/ RunNode(x) \/ Publish(x)
  \/ \E x, y \in Ids : CreateWire(x, y)
  \/ \E w \in server.wires : DeleteWire(w)
  \/ \E x \in Ids, token \in Tokens : SetToken(x, token)
  \/ Undo
  \/ Tick

Spec == Init /\ [][Next]_vars

\* The runtime ticks for as long as the server lives.
FairSpec == Spec /\ []<><<TRUE>>_ticks

-----------------------------------------------------------------------------
(* Properties *)

TypeOK ==
  /\ server.nodes \subseteq born
  /\ server.loaded \subseteq server.reg
  /\ server.reg \subseteq server.nodes \cap Apps
  /\ server.wires \subseteq Rels \X Ids \X (Ids \cup PrivNets)
  /\ server.pending \in Seq(Ids \X Ids)
  /\ server.privnets \subseteq Pairs \X PrivNets
  /\ server.token \in [Ids -> Tokens]
  /\ server.mounted \subseteq Ids \X Ids \X BOOLEAN
  /\ server.routed \subseteq Ids \X Ids
  /\ server.member \in [Ids -> Ids \cup PrivNets]
  /\ server.host \subseteq Apps
  /\ server.granted \subseteq server.wires
  /\ Len(undo) <= UndoCap
  /\ ticks \in {0, 1}

\* An app is on one network, behind one HostPort and holds one grant of each
\* kind, whatever commands, undos, private links and recreated nodes do to the
\* relations (toggle_unique, wiring.rs:184-193).
OnePerSource ==
  \A v, w \in server.wires :
    v[1] = w[1] /\ v[2] = w[2] /\ v[1] \notin {"bind", "midi"} => v = w

\* No effect outlives its wire: a mount, route, grant, network membership or
\* host access in force belongs to a wire that is on the canvas now, because
\* every handler that cuts wires also reconciles what hung on them.
EffectsFollowWires ==
  /\ \A m \in server.mounted : <<"bind", m[1], m[2]>> \in server.wires
  /\ \A p \in server.routed : <<"midi", p[1], p[2]>> \in server.wires
  /\ server.granted \subseteq server.wires
  /\ \A x \in server.nodes :
       server.member[x] # x => <<"net", x, server.member[x]>> \in server.wires
  /\ \A x \in server.host : IsGateway(server, server.member[x])

\* What new has that old had not, the tokens of new allow.
MountsAllowed(old, new) ==
  \A m \in new.mounted \ old.mounted :
    MayUse(new, m[2], "read") /\ (m[3] => MayUse(new, m[2], "write"))
RoutesAllowed(old, new) ==
  \A p \in new.routed \ old.routed : MayUse(new, p[1], "midi") /\ MayUse(new, p[2], "midi")
GrantsAllowed(old, new) ==
  \A w \in new.granted \ old.granted : MayUse(new, w[2], w[1])
NetsAllowed(old, new) ==
  \A x \in Ids : new.member[x] \notin {old.member[x], x} => MayUse(new, x, NetUse(new, new.member[x]))
GainsAllowed(old, new) ==
  /\ MountsAllowed(old, new) /\ RoutesAllowed(old, new)
  /\ GrantsAllowed(old, new) /\ NetsAllowed(old, new)

\* No step gives an app an effect that its token denies at that moment, not
\* even until the next tick (toggle_net, server.rs:2551-2554: "no one-tick
\* window on the network").
DeniedGainsNothing == [][GainsAllowed(server, server')]_vars

Denied(x) ==
  \/ \E m \in server.mounted :
       m[2] = x /\ (~MayUse(server, x, "read") \/ (m[3] /\ ~MayUse(server, x, "write")))
  \/ \E p \in server.routed : x \in {p[1], p[2]} /\ ~MayUse(server, x, "midi")
  \/ \E w \in server.granted : w[2] = x /\ ~MayUse(server, x, w[1])
  \/ server.member[x] # x /\ ~MayUse(server, x, NetUse(server, server.member[x]))

\* An attenuated token takes effect: an app does not keep what its token denies
\* (the reconcilers re-judge every effect each tick).
RevocationTakesEffect == \A x \in Apps : Denied(x) ~> ~Denied(x)

Waits(x, y) == \E i \in DOMAIN server.pending : server.pending[i] = <<x, y>>

\* A wire drawn while a component was compiling is made, or one of its ends is
\* removed, or it waits for as long as an end stays uncompiled (a component that
\* fails to compile never publishes): it is never lost
\* (sync_pending_app_wires, server.rs:3270-3293).
PendingWireIsMade ==
  \A x, y \in Apps :
    []((Waits(x, y) /\ {x, y} \subseteq server.nodes) =>
         <>(\/ Wired(server, x, y)
            \/ ~({x, y} \subseteq server.nodes)
            \/ [](Waits(x, y) /\ (Loading(server, x) \/ Loading(server, y)))))

\* Every wire joins two nodes that are on the canvas: closing a node drops
\* "every wire touching this node" (server.rs:3709).
NoDanglingWires ==
  \A w \in server.wires :
    w[2] \in server.nodes /\ w[3] \in server.nodes \cup PrivNets

\* A synthetic network is known to app_link_nets for as long as anyone is wired
\* to it, so that view and save can filter it out, "never persisted"
\* (server.rs:741-744).
PrivateNetsAreTracked ==
  \A w \in server.wires : w[3] \in PrivNets =>
    \E l \in server.privnets : l[2] = w[3] /\ w[2] \in l[1]
=============================================================================
