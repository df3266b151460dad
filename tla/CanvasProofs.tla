---------------------------- MODULE CanvasProofs ----------------------------
(* That the effects of the wires never get ahead of the wires or of the       *)
(* tokens, for any nodes, components and tokens, and however often commands,  *)
(* undos, compile threads and ticks alternate.                                *)
(*                                                                            *)
(* Every handler is a composition of a few: cutting or toggling wires, and    *)
(* the reconcilers.  What a reconciler leaves in place is a fact of its own   *)
(* (it depends on the wires only, not on what was there before), and each     *)
(* handler that cuts wires ends with the reconcilers of the relations it cut. *)
(* Network membership has no such reconciler at hand; it moves with the wire, *)
(* and needs to know that only a stack or a trunk is ever moved, and that     *)
(* only a compiled app has host access.  The loops over pairs, snapshots and  *)
(* waiting wires are recursive functions (see Recursion).                     *)
EXTENDS Canvas, SequenceTheorems, FiniteSetTheorems, TLAPS

-----------------------------------------------------------------------------
(* The invariant. *)

Fields == {"nodes", "reg", "loaded", "wires", "pending", "privnets", "token",
           "mounted", "routed", "member", "host", "granted"}

Types(s) ==
  /\ DOMAIN s = Fields
  /\ s.nodes \subseteq Ids
  /\ s.reg \subseteq s.nodes \cap Apps
  /\ s.loaded \subseteq s.reg
  /\ DOMAIN s.member = Ids /\ DOMAIN s.token = Ids
  /\ s.pending \in Seq(Ids \X Ids)
  /\ IsFiniteSet(s.wires) /\ IsFiniteSet(s.privnets)
  /\ \A w \in s.wires : w = <<w[1], w[2], w[3]>>

\* OnePerSource of one server.
Unique(s) ==
  \A v, w \in s.wires :
    v[1] = w[1] /\ v[2] = w[2] /\ v[1] \notin {"bind", "midi"} => v = w

\* A node that is not on its own net has a wire to the one it is on, and a stack
\* or a trunk that can be moved off it again.
Nets(s) ==
  \A x \in s.nodes : s.member[x] # x =>
    /\ <<"net", x, s.member[x]>> \in s.wires
    /\ HasTrunk(s, x) \/ ImportsNet(s, x)

\* Host access is of compiled apps that are on a gateway.
Hosts(s) == s.host \subseteq s.loaded /\ \A x \in s.host : IsGateway(s, s.member[x])

\* What holds between the steps of a handler too.
Base(s) == Types(s) /\ Unique(s) /\ Nets(s) /\ Hosts(s)

Mounts(s) == \A m \in s.mounted : <<"bind", m[1], m[2]>> \in s.wires
Routes(s) == \A p \in s.routed : <<"midi", p[1], p[2]>> \in s.wires
Grants(s) == \A w \in s.granted : w \in s.wires /\ w[1] \in {"capture", "clipboard"}

Good(s) == Base(s) /\ Mounts(s) /\ Routes(s) /\ Grants(s)

\* An inverse that can be applied: its node was placed once, its lists end.
UndoOk(u) ==
  /\ u.op \in {"uncreate", "recreate", "wire", "rewire", "token"}
  /\ u.op = "recreate" => u.node \in Ids /\ IsFiniteSet(u.pairs)
  /\ u.op = "rewire" => IsFiniteSet(u.old)
UndoFine == \E S : undo \in Seq(S) /\ \A u \in S : UndoOk(u)

CanvasInv == Good(server) /\ UndoFine

-----------------------------------------------------------------------------
(* The reconcilers: each sets one effect and leaves everything else alone. *)

SameDoc(s, t) ==
  /\ DOMAIN t = Fields
  /\ t.nodes = s.nodes /\ t.reg = s.reg /\ t.loaded = s.loaded
  /\ t.pending = s.pending /\ t.privnets = s.privnets /\ t.token = s.token
SameNets(s, t) == t.member = s.member /\ t.host = s.host

OnlyMounted(s, t) == /\ SameDoc(s, t) /\ SameNets(s, t) /\ t.wires = s.wires
                     /\ t.routed = s.routed /\ t.granted = s.granted
OnlyRouted(s, t) == /\ SameDoc(s, t) /\ SameNets(s, t) /\ t.wires = s.wires
                    /\ t.mounted = s.mounted /\ t.granted = s.granted
OnlyGranted(s, t) == /\ SameDoc(s, t) /\ SameNets(s, t) /\ t.wires = s.wires
                     /\ t.mounted = s.mounted /\ t.routed = s.routed
OnlyWires(s, t) == /\ SameDoc(s, t) /\ SameNets(s, t)
                   /\ t.mounted = s.mounted /\ t.routed = s.routed /\ t.granted = s.granted

LEMMA LinkIsWire ==
  ASSUME NEW s, Types(s), NEW rel, NEW p \in Links(s, rel)
  PROVE  <<rel, p[1], p[2]>> \in s.wires
<1>1. PICK w \in s.wires : w[1] = rel /\ p = <<w[2], w[3]>>
  BY DEF Links
<1> QED
  BY <1>1 DEF Types

LEMMA SameUse ==
  ASSUME NEW s, NEW t, t.nodes = s.nodes, t.token = s.token, NEW x, NEW use
  PROVE  MayUse(t, x, use) <=> MayUse(s, x, use)
BY DEF MayUse, IsApp

LEMMA SyncMountsSets ==
  ASSUME NEW s, Types(s)
  PROVE  /\ OnlyMounted(s, SyncMounts(s))
         /\ Mounts(SyncMounts(s))
         /\ MountsAllowed(s, SyncMounts(s))
<1> DEFINE desired == {p \in Links(s, "bind") : MayUse(s, p[2], "read")}
           active == {<<m[1], m[2]>> : m \in s.mounted}
           kept == {m \in s.mounted : <<m[1], m[2]>> \in desired /\ m[3] = Writable(s, <<m[1], m[2]>>)}
           flipped == {p \in active \cap desired : <<p[1], p[2], Writable(s, p)>> \notin kept}
           add == {p \in desired \ active : p[2] \in s.reg} \cup flipped
           made == {<<p[1], p[2], Writable(s, p)>> : p \in {q \in add : MountSource(s, q[1])}}
           t == SyncMounts(s)
<1>1. t = [s EXCEPT !.mounted = kept \cup made]
  BY DEF SyncMounts
<1>2. ASSUME NEW m \in made
      PROVE  \E p \in desired : m = <<p[1], p[2], Writable(s, p)>>
  OBVIOUS
<1>3. ASSUME NEW m \in kept PROVE m \in s.mounted /\ <<m[1], m[2]>> \in desired
  OBVIOUS
<1> HIDE DEF kept, made
<1>4. OnlyMounted(s, t) /\ t.mounted = kept \cup made
  BY <1>1 DEF OnlyMounted, SameDoc, SameNets, Types, Fields
<1> HIDE DEF t
<1>5. \A p \in desired : <<"bind", p[1], p[2]>> \in s.wires /\ MayUse(t, p[2], "read")
  BY <1>4, LinkIsWire, SameUse DEF OnlyMounted, SameDoc
<1> HIDE DEF desired
<1>6. Mounts(t)
  <2>1. ASSUME NEW m \in made PROVE <<"bind", m[1], m[2]>> \in s.wires
    <3>1. PICK p \in desired : m = <<p[1], p[2], Writable(s, p)>>
      BY <1>2
    <3>2. m[1] = p[1] /\ m[2] = p[2]
      BY <3>1
    <3> QED
      BY <1>5, <3>2
  <2>2. ASSUME NEW m \in kept PROVE <<"bind", m[1], m[2]>> \in s.wires
    <3> DEFINE p == <<m[1], m[2]>>
    <3>1. p \in desired /\ p[1] = m[1] /\ p[2] = m[2]
      BY <1>3
    <3> QED
      BY <1>5, <3>1
  <2> QED
    BY <1>4, <2>1, <2>2 DEF Mounts, OnlyMounted
<1>7. ASSUME NEW m \in made PROVE MayUse(t, m[2], "read") /\ (m[3] => MayUse(t, m[2], "write"))
  <2>1. PICK p \in desired : m = <<p[1], p[2], Writable(s, p)>>
    BY <1>2
  <2>2. m[2] = p[2] /\ m[3] = MayUse(s, p[2], "write")
    BY <2>1 DEF Writable
  <2> QED
    BY <1>4, <1>5, <2>2, SameUse DEF OnlyMounted, SameDoc
<1>8. MountsAllowed(s, t)
  BY <1>3, <1>4, <1>7 DEF MountsAllowed
<1> QED
  BY <1>4, <1>6, <1>8 DEF t

LEMMA SyncMidiSets ==
  ASSUME NEW s, Types(s)
  PROVE  /\ OnlyRouted(s, SyncMidi(s))
         /\ Routes(SyncMidi(s))
         /\ RoutesAllowed(s, SyncMidi(s))
<1> DEFINE desired == {p \in Links(s, "midi") : MayUse(s, p[1], "midi") /\ MayUse(s, p[2], "midi")}
           t == SyncMidi(s)
<1>1. t = [s EXCEPT !.routed = (s.routed \cap desired) \cup {p \in desired : p[2] \in s.reg}]
  BY DEF SyncMidi
<1>2. OnlyRouted(s, t) /\ t.routed \subseteq desired
  BY <1>1 DEF OnlyRouted, SameDoc, SameNets, Types, Fields
<1> HIDE DEF t
<1>3. \A p \in desired : <<"midi", p[1], p[2]>> \in s.wires /\ MayUse(t, p[1], "midi") /\ MayUse(t, p[2], "midi")
  BY <1>2, LinkIsWire, SameUse DEF OnlyRouted, SameDoc
<1> HIDE DEF desired
<1>4. Routes(t) /\ RoutesAllowed(s, t)
  BY <1>2, <1>3 DEF Routes, RoutesAllowed, OnlyRouted
<1> QED
  BY <1>2, <1>4 DEF t

LEMMA SyncGrantsSets ==
  ASSUME NEW s, Types(s)
  PROVE  /\ OnlyGranted(s, SyncGrants(s))
         /\ Grants(SyncGrants(s))
         /\ GrantsAllowed(s, SyncGrants(s))
<1> DEFINE t == SyncGrants(s)
<1>1. OnlyGranted(s, t)
      /\ t.granted = {w \in s.wires : /\ w[1] \in {"capture", "clipboard"} /\ w[2] \in s.reg
                                      /\ w[3] \in s.nodes /\ MayUse(s, w[2], w[1])}
  BY DEF SyncGrants, OnlyGranted, SameDoc, SameNets, Types, Fields
<1> HIDE DEF t
<1>2. Grants(t)
  BY <1>1 DEF Grants, OnlyGranted
<1>3. GrantsAllowed(s, t)
  BY <1>1, SameUse DEF GrantsAllowed, OnlyGranted, SameDoc
<1> QED
  BY <1>1, <1>2, <1>3 DEF t

LEMMA ReapplyBindsSets ==
  ASSUME NEW s, Good(s), NEW x
  PROVE  /\ OnlyMounted(s, ReapplyBinds(s, x))
         /\ Mounts(ReapplyBinds(s, x))
         /\ MountsAllowed(s, ReapplyBinds(s, x))
<1> DEFINE binds == {p \in Links(s, "bind") : p[2] = x}
           laid == {p \in binds : MayUse(s, x, "read") /\ IsFile(s, p[1])}
           kept == {m \in s.mounted : <<m[1], m[2]>> \notin binds}
           made == {<<p[1], p[2], Writable(s, p)>> : p \in laid}
           t == ReapplyBinds(s, x)
<1>1. t = [s EXCEPT !.mounted = kept \cup made]
  BY DEF ReapplyBinds
<1>2. \A m \in made : \E p \in laid : m = <<p[1], p[2], Writable(s, p)>>
  OBVIOUS
<1>3. kept \subseteq s.mounted
  OBVIOUS
<1> HIDE DEF kept, made
<1>4. OnlyMounted(s, t) /\ t.mounted = kept \cup made
  BY <1>1 DEF OnlyMounted, SameDoc, SameNets, Good, Base, Types, Fields
<1> HIDE DEF t
<1>5. \A p \in laid : <<"bind", p[1], p[2]>> \in s.wires /\ MayUse(t, p[2], "read")
  BY <1>4, LinkIsWire, SameUse DEF OnlyMounted, SameDoc, Good, Base
<1> HIDE DEF laid
<1>6. Mounts(t)
  <2>1. ASSUME NEW m \in made PROVE <<"bind", m[1], m[2]>> \in s.wires
    <3>1. PICK p \in laid : m = <<p[1], p[2], Writable(s, p)>>
      BY <1>2
    <3>2. m[1] = p[1] /\ m[2] = p[2]
      BY <3>1
    <3> QED
      BY <1>5, <3>2
  <2> QED
    BY <1>3, <1>4, <2>1 DEF Mounts, OnlyMounted, Good
<1>7. ASSUME NEW m \in made PROVE MayUse(t, m[2], "read") /\ (m[3] => MayUse(t, m[2], "write"))
  <2>1. PICK p \in laid : m = <<p[1], p[2], Writable(s, p)>>
    BY <1>2
  <2>2. m[2] = p[2] /\ m[3] = MayUse(s, p[2], "write")
    BY <2>1 DEF Writable
  <2> QED
    BY <1>4, <1>5, <2>2, SameUse DEF OnlyMounted, SameDoc
<1>8. MountsAllowed(s, t)
  BY <1>3, <1>4, <1>7 DEF MountsAllowed
<1> QED
  BY <1>4, <1>6, <1>8 DEF t

-----------------------------------------------------------------------------
(* What a handler, or a part of one that places and removes no node, keeps. *)

Frame(s, t) == t.nodes = s.nodes /\ t.token = s.token /\ t.reg = s.reg /\ t.loaded = s.loaded
Keeps(s, t) == Good(t) /\ Frame(s, t) /\ GainsAllowed(s, t)

LEMMA NoGains ==
  ASSUME NEW s, NEW t
  PROVE  /\ t.mounted = s.mounted => MountsAllowed(s, t)
         /\ t.routed = s.routed => RoutesAllowed(s, t)
         /\ t.granted = s.granted => GrantsAllowed(s, t)
         /\ t.member = s.member => NetsAllowed(s, t)
BY DEF MountsAllowed, RoutesAllowed, GrantsAllowed, NetsAllowed

LEMMA KeepsSelf == ASSUME NEW s, Good(s) PROVE Keeps(s, s)
BY NoGains DEF Keeps, Frame, GainsAllowed

LEMMA GainsTrans ==
  ASSUME NEW a, NEW b, NEW c, c.nodes = b.nodes, c.token = b.token,
         GainsAllowed(a, b), GainsAllowed(b, c)
  PROVE  GainsAllowed(a, c)
<1>1. \A x, use : MayUse(c, x, use) <=> MayUse(b, x, use)
  BY SameUse
<1>2. \A x : NetUse(c, x) = NetUse(b, x)
  BY DEF NetUse, IsGateway
<1>3. MountsAllowed(a, c)
  BY <1>1 DEF GainsAllowed, MountsAllowed
<1>4. RoutesAllowed(a, c)
  BY <1>1 DEF GainsAllowed, RoutesAllowed
<1>5. GrantsAllowed(a, c)
  BY <1>1 DEF GainsAllowed, GrantsAllowed
<1>6. NetsAllowed(a, c)
  BY <1>1, <1>2 DEF GainsAllowed, NetsAllowed
<1> QED
  BY <1>3, <1>4, <1>5, <1>6 DEF GainsAllowed

LEMMA KeepsTrans ==
  ASSUME NEW a, NEW b, NEW c, Keeps(a, b), Keeps(b, c)
  PROVE  Keeps(a, c)
BY GainsTrans DEF Keeps, Frame

\* The invariant of the document and the networks does not look at the effects.
LEMMA BaseStays ==
  ASSUME NEW s, NEW t, Base(s), SameDoc(s, t), SameNets(s, t), t.wires = s.wires
  PROVE  Base(t)
<1>1. Types(t) /\ Unique(t)
  BY DEF Base, Types, Unique, SameDoc, SameNets
<1>2. Nets(t) /\ Hosts(t)
  BY DEF Base, Nets, Hosts, SameDoc, SameNets, HasTrunk, ImportsNet, IsGateway
<1> QED
  BY <1>1, <1>2 DEF Base

\* A reconciler restores its own effect, and the others stay as they were.
LEMMA SyncMountsKeeps ==
  ASSUME NEW s, Base(s), Routes(s), Grants(s)
  PROVE  Keeps(s, SyncMounts(s))
<1> DEFINE t == SyncMounts(s)
<1>1. OnlyMounted(s, t) /\ Mounts(t) /\ MountsAllowed(s, t)
  BY SyncMountsSets DEF Base
<1> HIDE DEF t
<1>2. Base(t)
  BY <1>1, BaseStays DEF OnlyMounted
<1> QED
  BY <1>1, <1>2, NoGains
     DEF t, Keeps, Good, Frame, GainsAllowed, OnlyMounted, SameDoc, SameNets, Routes, Grants

LEMMA SyncMidiKeeps ==
  ASSUME NEW s, Base(s), Mounts(s), Grants(s)
  PROVE  Keeps(s, SyncMidi(s))
<1> DEFINE t == SyncMidi(s)
<1>1. OnlyRouted(s, t) /\ Routes(t) /\ RoutesAllowed(s, t)
  BY SyncMidiSets DEF Base
<1> HIDE DEF t
<1>2. Base(t)
  BY <1>1, BaseStays DEF OnlyRouted
<1> QED
  BY <1>1, <1>2, NoGains
     DEF t, Keeps, Good, Frame, GainsAllowed, OnlyRouted, SameDoc, SameNets, Mounts, Grants

LEMMA SyncGrantsKeeps ==
  ASSUME NEW s, Base(s), Mounts(s), Routes(s)
  PROVE  Keeps(s, SyncGrants(s))
<1> DEFINE t == SyncGrants(s)
<1>1. OnlyGranted(s, t) /\ Grants(t) /\ GrantsAllowed(s, t)
  BY SyncGrantsSets DEF Base
<1> HIDE DEF t
<1>2. Base(t)
  BY <1>1, BaseStays DEF OnlyGranted
<1> QED
  BY <1>1, <1>2, NoGains
     DEF t, Keeps, Good, Frame, GainsAllowed, OnlyGranted, SameDoc, SameNets, Mounts, Routes

LEMMA ReapplyBindsKeeps ==
  ASSUME NEW s, Good(s), NEW x
  PROVE  Keeps(s, ReapplyBinds(s, x))
<1> DEFINE t == ReapplyBinds(s, x)
<1>1. OnlyMounted(s, t) /\ Mounts(t) /\ MountsAllowed(s, t)
  BY ReapplyBindsSets
<1> HIDE DEF t
<1>2. Base(t)
  BY <1>1, BaseStays DEF OnlyMounted, Good
<1> QED
  BY <1>1, <1>2, NoGains
     DEF t, Keeps, Good, Frame, GainsAllowed, OnlyMounted, SameDoc, SameNets, Routes, Grants

-----------------------------------------------------------------------------
(* Network membership. *)

Moved(s, to, x) == x \in DOMAIN to /\ (HasTrunk(s, x) \/ ImportsNet(s, x))

NetsSet(s, to, t) ==
  /\ SameDoc(s, t) /\ t.wires = s.wires
  /\ t.mounted = s.mounted /\ t.routed = s.routed /\ t.granted = s.granted
  /\ DOMAIN t.member = Ids
  /\ \A x \in Ids : t.member[x] = IF Moved(s, to, x) THEN to[x] ELSE s.member[x]
  /\ \A x \in t.host : \/ x \in s.host /\ ~Moved(s, to, x)
                       \/ Moved(s, to, x) /\ ImportsNet(s, x) /\ IsGateway(s, to[x])

LEMMA SetNetsSets ==
  ASSUME NEW s, Types(s), NEW to
  PROVE  NetsSet(s, to, SetNets(s, to))
<1> DEFINE moved == {x \in DOMAIN to : HasTrunk(s, x) \/ ImportsNet(s, x)}
           hosts == {x \in moved : ImportsNet(s, x) /\ IsGateway(s, to[x])}
           m == [x \in Ids |-> IF x \in moved THEN to[x] ELSE s.member[x]]
           h == (s.host \ moved) \cup hosts
           t == SetNets(s, to)
<1>1. t = [s EXCEPT !.member = m, !.host = h]
  BY DEF SetNets
<1>2. /\ DOMAIN m = Ids
      /\ \A x \in Ids : m[x] = IF Moved(s, to, x) THEN to[x] ELSE s.member[x]
  BY DEF Moved
<1>3. \A x \in h : \/ x \in s.host /\ ~Moved(s, to, x)
                   \/ Moved(s, to, x) /\ ImportsNet(s, x) /\ IsGateway(s, to[x])
  BY DEF Moved
<1> HIDE DEF m, h
<1>4. /\ SameDoc(s, t) /\ t.wires = s.wires
      /\ t.mounted = s.mounted /\ t.routed = s.routed /\ t.granted = s.granted
      /\ t.member = m /\ t.host = h
  BY <1>1 DEF SameDoc, Types, Fields
<1> QED
  BY <1>2, <1>3, <1>4 DEF NetsSet

\* Host access follows the move.
LEMMA HostsMove ==
  ASSUME NEW s, Types(s), Hosts(s), NEW to, NEW t, NetsSet(s, to, t)
  PROVE  Hosts(t)
<1>1. s.loaded \subseteq Ids
  BY DEF Types
<1>2. \A x : ImportsNet(s, x) => x \in s.loaded
  BY DEF ImportsNet
<1>3. t.host \subseteq s.loaded
  BY <1>2 DEF NetsSet, Hosts
<1>4. \A x \in t.host : IsGateway(s, t.member[x])
  BY <1>1, <1>3 DEF NetsSet, Hosts
<1> QED
  BY <1>3, <1>4 DEF Hosts, NetsSet, SameDoc, IsGateway

WiresFine(W) ==
  /\ IsFiniteSet(W)
  /\ \A w \in W : w = <<w[1], w[2], w[3]>>
  /\ \A v, w \in W : v[1] = w[1] /\ v[2] = w[2] /\ v[1] \notin {"bind", "midi"} => v = w

LEMMA FewerWires ==
  ASSUME NEW W, WiresFine(W), NEW V, V \subseteq W
  PROVE  WiresFine(V)
BY FS_Subset DEF WiresFine

\* toggle_unique: a new wire displaces the others of its source.
LEMMA UniqueToggled ==
  ASSUME NEW W, WiresFine(W), NEW w, w = <<w[1], w[2], w[3]>>
  PROVE  /\ WiresFine(ToggleUnique(W, w))
         /\ \A v : v[1] # w[1] => (v \in ToggleUnique(W, w) <=> v \in W)
         /\ \A v \in W : v[2] # w[2] => v \in ToggleUnique(W, w)
<1> DEFINE rest == {v \in W : v[1] # w[1] \/ v[2] # w[2]}
<1>1. CASE w \in W
  <2>1. ToggleUnique(W, w) = W \ {w}
    BY <1>1 DEF ToggleUnique
  <2>2. WiresFine(W \ {w})
    BY FewerWires
  <2> QED
    BY <2>1, <2>2
<1>2. CASE w \notin W
  <2>1. ToggleUnique(W, w) = rest \cup {w}
    BY <1>2 DEF ToggleUnique
  <2>2. WiresFine(rest)
    BY FewerWires
  <2>3. IsFiniteSet(rest \cup {w})
    BY <2>2, FS_AddElement DEF WiresFine
  <2>4. WiresFine(rest \cup {w})
    BY <2>2, <2>3 DEF WiresFine
  <2> QED
    BY <2>1, <2>4
<1> QED
  BY <1>1, <1>2

\* toggle_pair, of a relation that may have several destinations.
LEMMA PairToggled ==
  ASSUME NEW W, WiresFine(W), NEW w, w = <<w[1], w[2], w[3]>>, w[1] \in {"bind", "midi"}
  PROVE  /\ WiresFine(TogglePair(W, w))
         /\ \A v : v[1] # w[1] => (v \in TogglePair(W, w) <=> v \in W)
<1>1. CASE w \in W
  <2>1. TogglePair(W, w) = W \ {w}
    BY <1>1 DEF TogglePair
  <2> QED
    BY <2>1, FewerWires
<1>2. CASE w \notin W
  <2>1. TogglePair(W, w) = W \cup {w}
    BY <1>2 DEF TogglePair
  <2>2. IsFiniteSet(W \cup {w})
    BY FS_AddElement DEF WiresFine
  <2>3. WiresFine(W \cup {w})
    BY <2>2 DEF WiresFine
  <2> QED
    BY <2>1, <2>3
<1> QED
  BY <1>1, <1>2

\* Other wires, and the wire of every node that is on a net: still the invariant.
LEMMA Rewired ==
  ASSUME NEW s, Base(s), NEW W, WiresFine(W),
         \A x \in s.nodes : s.member[x] # x => <<"net", x, s.member[x]>> \in W
  PROVE  LET t == [s EXCEPT !.wires = W]
         IN  Base(t) /\ OnlyWires(s, t) /\ t.wires = W
<1> DEFINE t == [s EXCEPT !.wires = W]
<1>1. OnlyWires(s, t) /\ t.wires = W
  BY DEF OnlyWires, SameDoc, SameNets, Base, Types, Fields
<1> HIDE DEF t
<1>2. Types(t) /\ Unique(t)
  BY <1>1 DEF Base, Types, Unique, OnlyWires, SameDoc, SameNets, WiresFine
<1>3. Nets(t) /\ Hosts(t)
  BY <1>1 DEF Base, Nets, Hosts, OnlyWires, SameDoc, SameNets, HasTrunk, ImportsNet, IsGateway
<1> QED
  BY <1>1, <1>2, <1>3 DEF Base, t

\* A step of the networks alone.
NetStep(s, t) ==
  /\ Base(t) /\ Frame(s, t)
  /\ t.mounted = s.mounted /\ t.routed = s.routed /\ t.granted = s.granted
  /\ NetsAllowed(s, t)
  /\ \A w : w[1] # "net" => (w \in t.wires <=> w \in s.wires)

LEMMA NetStepTrans ==
  ASSUME NEW a, NEW b, NEW c, NetStep(a, b), NetStep(b, c)
  PROVE  NetStep(a, c)
<1>1. GainsAllowed(a, b) /\ GainsAllowed(b, c)
  BY NoGains DEF NetStep, GainsAllowed
<1>2. GainsAllowed(a, c)
  BY <1>1, GainsTrans DEF NetStep, Frame
<1> QED
  BY <1>2 DEF NetStep, Frame, GainsAllowed

LEMMA NetStepKeeps ==
  ASSUME NEW s, NEW t, Good(s), NetStep(s, t)
  PROVE  Keeps(s, t)
<1>1. GainsAllowed(s, t)
  BY NoGains DEF NetStep, GainsAllowed
<1>2. Mounts(t) /\ Routes(t) /\ Grants(t)
  BY DEF NetStep, Good, Mounts, Routes, Grants
<1> QED
  BY <1>1, <1>2 DEF NetStep, Keeps, Good

\* toggle_net: the wire and the stack move in one step, and to the net only if
\* the token allows it.
LEMMA ToggleNetStep ==
  ASSUME NEW s, Base(s), NEW x, NEW net
  PROVE  NetStep(s, ToggleNet(s, x, net))
<1> DEFINE w == <<"net", x, net>>
           W == ToggleUnique(s.wires, w)
           r == [s EXCEPT !.wires = W]
           joined == w \in r.wires /\ MayUse(r, x, NetUse(r, net))
           to == [y \in {x} |-> IF joined THEN net ELSE x]
           t == SetNets(r, to)
<1>1. ToggleNet(s, x, net) = t
  BY DEF ToggleNet
<1>2. /\ WiresFine(W)
      /\ \A v : v[1] # "net" => (v \in W <=> v \in s.wires)
      /\ \A v \in s.wires : v[2] # x => v \in W
  <2>1. WiresFine(s.wires)
    BY DEF Base, Types, Unique, WiresFine
  <2>2. w[1] = "net" /\ w[2] = x /\ w = <<w[1], w[2], w[3]>>
    OBVIOUS
  <2> HIDE DEF w
  <2> QED
    BY <2>1, <2>2, UniqueToggled
<1> HIDE DEF W
<1>3. OnlyWires(s, r) /\ r.wires = W
  BY DEF OnlyWires, SameDoc, SameNets, Base, Types, Fields
<1> HIDE DEF r
<1>4. Types(r) /\ Unique(r) /\ Hosts(r)
  BY <1>2, <1>3 DEF Base, Types, Unique, Hosts, OnlyWires, SameDoc, SameNets, WiresFine, IsGateway
<1>5. DOMAIN to = {x} /\ to[x] = IF joined THEN net ELSE x
  OBVIOUS
<1> HIDE DEF to
<1>6. NetsSet(r, to, t)
  BY <1>4, SetNetsSets
<1> HIDE DEF t
<1>7. Hosts(t)
  BY <1>4, <1>6, HostsMove
<1>8. Types(t) /\ Unique(t) /\ t.wires = W
  BY <1>3, <1>4, <1>6 DEF Types, Unique, NetsSet, SameDoc
<1>9. \A y \in Ids : y # x => t.member[y] = s.member[y]
  BY <1>3, <1>5, <1>6 DEF NetsSet, Moved, OnlyWires, SameNets
<1>10. \A y : /\ HasTrunk(r, y) <=> HasTrunk(s, y)
              /\ ImportsNet(r, y) <=> ImportsNet(s, y)
              /\ HasTrunk(t, y) <=> HasTrunk(s, y)
              /\ ImportsNet(t, y) <=> ImportsNet(s, y)
  BY <1>3, <1>6 DEF HasTrunk, ImportsNet, OnlyWires, NetsSet, SameDoc
<1>11. Moved(r, to, x) => t.member[x] = IF joined THEN net ELSE x
  <2>1. Moved(r, to, x) => x \in Ids
    BY <1>4 DEF Moved, HasTrunk, ImportsNet, Types
  <2> QED
    BY <2>1, <1>5, <1>6 DEF NetsSet
<1>12. x \in Ids /\ ~Moved(r, to, x) => t.member[x] = s.member[x]
  BY <1>3, <1>6 DEF NetsSet, OnlyWires, SameNets
<1>13. s.nodes \subseteq Ids /\ t.nodes = s.nodes
  BY <1>3, <1>6 DEF Base, Types, OnlyWires, NetsSet, SameDoc
<1>14. Nets(t)
  <2> SUFFICES ASSUME NEW y \in s.nodes, t.member[y] # y
               PROVE  /\ <<"net", y, t.member[y]>> \in W
                      /\ HasTrunk(s, y) \/ ImportsNet(s, y)
    BY <1>8, <1>10, <1>13 DEF Nets
  <2>1. CASE y # x
    <3>1. s.member[y] # y /\ t.member[y] = s.member[y]
      BY <2>1, <1>9, <1>13
    <3>2. <<"net", y, s.member[y]>> \in s.wires /\ (HasTrunk(s, y) \/ ImportsNet(s, y))
      BY <3>1 DEF Base, Nets
    <3> QED
      BY <2>1, <3>1, <3>2, <1>2
  <2>2. CASE y = x /\ Moved(r, to, x)
    BY <2>2, <1>3, <1>10, <1>11 DEF Moved
  <2>3. CASE y = x /\ ~Moved(r, to, x)
    <3>1. s.member[x] # x
      BY <2>3, <1>12, <1>13
    <3>2. HasTrunk(s, x) \/ ImportsNet(s, x)
      BY <2>3, <3>1 DEF Base, Nets
    <3> QED
      BY <2>3, <3>2, <1>5, <1>10 DEF Moved
  <2> QED
    BY <2>1, <2>2, <2>3
<1>15. NetsAllowed(s, t)
  <2>1. \A y, use : MayUse(t, y, use) <=> MayUse(r, y, use)
    BY <1>6, SameUse DEF NetsSet, SameDoc
  <2>2. \A y : NetUse(t, y) = NetUse(r, y)
    BY <1>6 DEF NetsSet, SameDoc, NetUse, IsGateway
  <2>3. ASSUME NEW y \in Ids, t.member[y] \notin {s.member[y], y}
        PROVE  y = x /\ joined /\ t.member[y] = net
    BY <2>3, <1>9, <1>11, <1>12
  <2> QED
    BY <2>1, <2>2, <2>3 DEF NetsAllowed
<1>16. Frame(s, t) /\ t.mounted = s.mounted /\ t.routed = s.routed /\ t.granted = s.granted
  BY <1>3, <1>6 DEF Frame, OnlyWires, NetsSet, SameDoc
<1> QED
  BY <1>1, <1>2, <1>7, <1>8, <1>14, <1>15, <1>16 DEF NetStep, Base

\* sync_net_membership: every member that can be moved is where its wire leads.
LEMMA MembershipStep ==
  ASSUME NEW s, Base(s)
  PROVE  NetStep(s, SyncNetMembership(s))
<1> DEFINE NetOf(x) == (CHOOSE w \in Net(s, x) : TRUE)[3]
           to == [x \in {y \in Ids : Net(s, y) # {}} |->
                    IF MayUse(s, x, NetUse(s, NetOf(x))) THEN NetOf(x) ELSE x]
           t == SetNets(s, to)
<1>1. SyncNetMembership(s) = t
  BY DEF SyncNetMembership
<1>2. ASSUME NEW x, Net(s, x) # {} PROVE <<"net", x, NetOf(x)>> \in s.wires
  <2> DEFINE w == CHOOSE v \in Net(s, x) : TRUE
  <2>1. w \in Net(s, x)
    BY <1>2
  <2> HIDE DEF w
  <2>2. w \in s.wires /\ w[1] = "net" /\ w[2] = x /\ w = <<w[1], w[2], w[3]>>
    BY <2>1 DEF Net, Base, Types
  <2>3. w = <<"net", x, w[3]>>
    BY <2>2
  <2> QED
    BY <2>2, <2>3 DEF w
<1> HIDE DEF NetOf
<1>3. \A x \in DOMAIN to : /\ x \in Ids /\ Net(s, x) # {}
                           /\ to[x] = IF MayUse(s, x, NetUse(s, NetOf(x))) THEN NetOf(x) ELSE x
  OBVIOUS
<1> HIDE DEF to
<1>4. NetsSet(s, to, t)
  BY SetNetsSets DEF Base
<1> HIDE DEF t
<1>5. Hosts(t)
  BY <1>4, HostsMove DEF Base
<1>6. Types(t) /\ Unique(t) /\ Frame(s, t)
      /\ t.mounted = s.mounted /\ t.routed = s.routed /\ t.granted = s.granted /\ t.wires = s.wires
  BY <1>4 DEF Base, Types, Unique, NetsSet, SameDoc, Frame
<1>7. \A y : HasTrunk(t, y) = HasTrunk(s, y) /\ ImportsNet(t, y) = ImportsNet(s, y)
  BY <1>6 DEF HasTrunk, ImportsNet, Frame
<1>8. Nets(t)
  <2> SUFFICES ASSUME NEW y \in s.nodes, t.member[y] # y
               PROVE  /\ <<"net", y, t.member[y]>> \in s.wires
                      /\ HasTrunk(s, y) \/ ImportsNet(s, y)
    BY <1>6, <1>7 DEF Nets, Frame
  <2>1. y \in Ids
    BY DEF Base, Types
  <2>2. CASE Moved(s, to, y)
    BY <2>1, <2>2, <1>2, <1>3, <1>4 DEF NetsSet, Moved
  <2>3. CASE ~Moved(s, to, y)
    BY <2>1, <2>3, <1>4 DEF NetsSet, Base, Nets
  <2> QED
    BY <2>2, <2>3
<1>9. NetsAllowed(s, t)
  <2>1. \A y, use : MayUse(t, y, use) <=> MayUse(s, y, use)
    BY <1>6, SameUse DEF Frame
  <2>2. \A y : NetUse(t, y) = NetUse(s, y)
    BY <1>6 DEF Frame, NetUse, IsGateway
  <2>3. ASSUME NEW y \in Ids, t.member[y] \notin {s.member[y], y}
        PROVE  MayUse(s, y, NetUse(s, t.member[y]))
    BY <2>3, <1>3, <1>4 DEF NetsSet, Moved
  <2> QED
    BY <2>1, <2>2, <2>3 DEF NetsAllowed
<1> QED
  BY <1>1, <1>5, <1>6, <1>8, <1>9 DEF NetStep, Base

-----------------------------------------------------------------------------
(* The loops over links. *)

PartStep(want, ord, t, n) == PartLink(t, want, ord[n])
JoinStep(want, ord, t, n) == JoinLink(t, want, ord[n])
PruneStep(x, links, t, n) == PrunePartner(t, x, links[n])

Part == INSTANCE Recursion WITH step <- PartStep
Join == INSTANCE Recursion WITH step <- JoinStep
Prune == INSTANCE Recursion WITH step <- PruneStep

LEMMA SetToSeqIsSeq ==
  ASSUME NEW S, IsFiniteSet(S)
  PROVE  SetToSeq(S) \in Seq(S)
<1>1. Cardinality(S) \in Nat /\ ExistsBijection(1..Cardinality(S), S)
  BY FS_CardinalityType
<1>2. \E f \in [1..Cardinality(S) -> S] : IsInjective(f)
  BY <1>1 DEF ExistsBijection, Bijection, Injection
<1>3. SetToSeq(S) \in [1..Cardinality(S) -> S]
  BY <1>2 DEF SetToSeq
<1> QED
  BY <1>1, <1>3

LEMMA OrdersEnd == ASSUME NEW ord \in Orders PROVE Len(ord) \in Nat
<1>1. IsFiniteSet(SUBSET Ids)
  BY FS_SUBSET, CanvasAssumption
<1>2. Pairs \subseteq SUBSET Ids
  BY DEF Pairs, Apps
<1>3. Cardinality(Pairs) \in Nat
  BY <1>1, <1>2, FS_Subset, FS_CardinalityType
<1>4. ord \in [1..Cardinality(Pairs) -> Pairs]
  BY DEF Orders, SetToSeqs
<1> QED
  BY <1>3, <1>4

LEMMA NetStepSelf == ASSUME NEW s, Base(s) PROVE NetStep(s, s)
BY NoGains DEF NetStep, Frame

\* The table of private links is no effect.
LEMMA LinksStep ==
  ASSUME NEW s, Base(s), NEW P, IsFiniteSet(P)
  PROVE  NetStep(s, [s EXCEPT !.privnets = P])
<1> DEFINE t == [s EXCEPT !.privnets = P]
<1>1. /\ DOMAIN t = Fields /\ Frame(s, t) /\ SameNets(s, t)
      /\ t.wires = s.wires /\ t.pending = s.pending /\ t.privnets = P
      /\ t.mounted = s.mounted /\ t.routed = s.routed /\ t.granted = s.granted
  BY DEF Frame, SameNets, Base, Types, Fields
<1> HIDE DEF t
<1>2. Types(t) /\ Unique(t)
  BY <1>1 DEF Base, Types, Unique, Frame, SameNets
<1>3. Nets(t) /\ Hosts(t)
  BY <1>1 DEF Base, Nets, Hosts, Frame, SameNets, HasTrunk, ImportsNet, IsGateway
<1> QED
  BY <1>1, <1>2, <1>3, NoGains DEF NetStep, Base, SameNets, t

LEMMA ToggleBothStep ==
  ASSUME NEW s, Base(s), NEW pair, NEW net
  PROVE  NetStep(s, ToggleBoth(s, pair, net))
<1> DEFINE x == CHOOSE y \in pair : TRUE
           y == CHOOSE z \in pair : z # x
           r == ToggleNet(s, x, net)
<1>1. ToggleBoth(s, pair, net) = ToggleNet(r, y, net)
  BY DEF ToggleBoth
<1> HIDE DEF x, y
<1>2. NetStep(s, r)
  BY ToggleNetStep
<1> HIDE DEF r
<1>3. NetStep(r, ToggleNet(r, y, net))
  BY <1>2, ToggleNetStep DEF NetStep
<1> QED
  BY <1>1, <1>2, <1>3, NetStepTrans

LEMMA PartLinkStep ==
  ASSUME NEW s, Base(s), NEW want, NEW pair
  PROVE  NetStep(s, PartLink(s, want, pair))
<1> DEFINE mine == {l \in s.privnets : l[1] = pair}
           link == CHOOSE m \in mine : TRUE
           r == [s EXCEPT !.privnets = s.privnets \ {link}]
<1>1. CASE pair \in want \/ mine = {}
  BY <1>1, NetStepSelf DEF PartLink
<1>2. CASE ~(pair \in want \/ mine = {})
  <2>1. PartLink(s, want, pair) = ToggleBoth(r, pair, link[2])
    BY <1>2 DEF PartLink
  <2> HIDE DEF link
  <2>2. IsFiniteSet(s.privnets \ {link})
    BY FS_RemoveElement DEF Base, Types
  <2>3. NetStep(s, r)
    BY <2>2, LinksStep
  <2> HIDE DEF r
  <2>4. NetStep(r, ToggleBoth(r, pair, link[2]))
    BY <2>3, ToggleBothStep DEF NetStep
  <2> QED
    BY <2>1, <2>3, <2>4, NetStepTrans
<1> QED
  BY <1>1, <1>2

LEMMA JoinLinkStep ==
  ASSUME NEW s, Base(s), NEW want, NEW pair
  PROVE  NetStep(s, JoinLink(s, want, pair))
<1> DEFINE net == FreshNet(s)
           r == ToggleBoth(s, pair, net)
<1>1. CASE pair \notin want \/ \E l \in s.privnets : l[1] = pair
  BY <1>1, NetStepSelf DEF JoinLink
<1>2. CASE ~(pair \notin want \/ \E l \in s.privnets : l[1] = pair)
  <2>1. JoinLink(s, want, pair) = [r EXCEPT !.privnets = r.privnets \cup {<<pair, net>>}]
    BY <1>2 DEF JoinLink
  <2> HIDE DEF net
  <2>2. NetStep(s, r)
    BY ToggleBothStep
  <2> HIDE DEF r
  <2>3. IsFiniteSet(r.privnets \cup {<<pair, net>>})
    BY <2>2, FS_AddElement DEF NetStep, Base, Types
  <2>4. NetStep(r, [r EXCEPT !.privnets = r.privnets \cup {<<pair, net>>}])
    BY <2>2, <2>3, LinksStep DEF NetStep
  <2> QED
    BY <2>1, <2>2, <2>4, NetStepTrans
<1> QED
  BY <1>1, <1>2

LEMMA PrunePartnerStep ==
  ASSUME NEW s, Base(s), NEW x, NEW l
  PROVE  NetStep(s, PrunePartner(s, x, l))
<1> DEFINE r == [s EXCEPT !.privnets = s.privnets \ {l}]
           y == CHOOSE z \in l[1] : z # x
<1>1. PrunePartner(s, x, l) = ToggleNet(r, y, l[2])
  BY DEF PrunePartner
<1> HIDE DEF y
<1>2. IsFiniteSet(s.privnets \ {l})
  BY FS_RemoveElement DEF Base, Types
<1>3. NetStep(s, r)
  BY <1>2, LinksStep
<1> HIDE DEF r
<1>4. NetStep(r, ToggleNet(r, y, l[2]))
  BY <1>3, ToggleNetStep DEF NetStep
<1> QED
  BY <1>1, <1>3, <1>4, NetStepTrans

\* sync_app_link_nets, whatever the order of the hash maps.
LEMMA AppLinksStep ==
  ASSUME NEW s, Base(s), NEW ord \in Orders
  PROVE  NetStep(s, SyncAppLinkNets(s, ord))
<1> DEFINE want == WantedLinks(s)
           part[n \in Nat] == IF n = 0 THEN s ELSE PartLink(part[n - 1], want, ord[n])
           join[n \in Nat] == IF n = 0 THEN part[Len(ord)] ELSE JoinLink(join[n - 1], want, ord[n])
<1>1. SyncAppLinkNets(s, ord) = join[Len(ord)]
  BY DEF SyncAppLinkNets
<1> HIDE DEF want
<1>2. part = [n \in Nat |-> IF n = 0 THEN s ELSE PartLink(part[n - 1], want, ord[n])]
  <2>1. PICK q : Part!IsRun(want, ord, s, q)
    BY Part!RunExists
  <2> QED BY <2>1 DEF Part!IsRun, PartStep
<1>3. join = [n \in Nat |-> IF n = 0 THEN part[Len(ord)] ELSE JoinLink(join[n - 1], want, ord[n])]
  <2> HIDE DEF part
  <2>1. PICK q : Join!IsRun(want, ord, part[Len(ord)], q)
    BY Join!RunExists
  <2> QED BY <2>1 DEF Join!IsRun, JoinStep
<1> HIDE DEF part, join
<1>4. Len(ord) \in Nat
  BY OrdersEnd
<1>5. NetStep(s, part[Len(ord)])
  <2> DEFINE T == {n \in Nat : NetStep(s, part[n])}
  <2>1. 0 \in T
    BY <1>2, NetStepSelf
  <2>2. ASSUME NEW n \in Nat, n \in T PROVE n + 1 \in T
    <3>1. n + 1 \in Nat /\ n + 1 # 0 /\ (n + 1) - 1 = n
      OBVIOUS
    <3>2. part[n + 1] = PartLink(part[n], want, ord[n + 1])
      BY <3>1, <1>2
    <3>3. NetStep(s, part[n])
      BY <2>2
    <3>4. NetStep(part[n], part[n + 1])
      BY <3>2, <3>3, PartLinkStep DEF NetStep
    <3> QED
      BY <3>1, <3>3, <3>4, NetStepTrans
  <2> HIDE DEF T
  <2>3. \A n \in Nat : n \in T
    BY <2>1, <2>2, Part!SetInduction
  <2> QED
    BY <1>4, <2>3 DEF T
<1>6. NetStep(s, join[Len(ord)])
  <2> DEFINE T == {n \in Nat : NetStep(s, join[n])}
  <2>1. 0 \in T
    BY <1>3, <1>5
  <2>2. ASSUME NEW n \in Nat, n \in T PROVE n + 1 \in T
    <3>1. n + 1 \in Nat /\ n + 1 # 0 /\ (n + 1) - 1 = n
      OBVIOUS
    <3>2. join[n + 1] = JoinLink(join[n], want, ord[n + 1])
      BY <3>1, <1>3
    <3>3. NetStep(s, join[n])
      BY <2>2
    <3>4. NetStep(join[n], join[n + 1])
      BY <3>2, <3>3, JoinLinkStep DEF NetStep
    <3> QED
      BY <3>1, <3>3, <3>4, NetStepTrans
  <2> HIDE DEF T
  <2>3. \A n \in Nat : n \in T
    BY <2>1, <2>2, Join!SetInduction
  <2> QED
    BY <1>4, <2>3 DEF T
<1> QED
  BY <1>1, <1>6

\* prune_app_link_net
LEMMA PruneStepKeeps ==
  ASSUME NEW s, Base(s), NEW x
  PROVE  NetStep(s, PruneAppLinkNet(s, x))
<1> DEFINE mine == {l \in s.privnets : x \in l[1]}
           links == SetToSeq(mine)
           done[n \in Nat] == IF n = 0 THEN s ELSE PrunePartner(done[n - 1], x, links[n])
<1>1. PruneAppLinkNet(s, x) = done[Len(links)]
  BY DEF PruneAppLinkNet
<1>2. IsFiniteSet(mine)
  BY FS_Subset DEF Base, Types
<1> HIDE DEF mine
<1>3. Len(links) \in Nat
  BY <1>2, SetToSeqIsSeq
<1> HIDE DEF links
<1>4. done = [n \in Nat |-> IF n = 0 THEN s ELSE PrunePartner(done[n - 1], x, links[n])]
  <2>1. PICK q : Prune!IsRun(x, links, s, q)
    BY Prune!RunExists
  <2> QED BY <2>1 DEF Prune!IsRun, PruneStep
<1> HIDE DEF done
<1> DEFINE T == {n \in Nat : NetStep(s, done[n])}
<1>5. 0 \in T
  BY <1>4, NetStepSelf
<1>6. ASSUME NEW n \in Nat, n \in T PROVE n + 1 \in T
  <2>1. n + 1 \in Nat /\ n + 1 # 0 /\ (n + 1) - 1 = n
    OBVIOUS
  <2>2. done[n + 1] = PrunePartner(done[n], x, links[n + 1])
    BY <2>1, <1>4
  <2>3. NetStep(s, done[n])
    BY <1>6
  <2>4. NetStep(done[n], done[n + 1])
    BY <2>2, <2>3, PrunePartnerStep DEF NetStep
  <2> QED
    BY <2>1, <2>3, <2>4, NetStepTrans
<1> HIDE DEF T
<1>7. \A n \in Nat : n \in T
  BY <1>5, <1>6, Prune!SetInduction
<1> QED
  BY <1>1, <1>3, <1>7 DEF T

-----------------------------------------------------------------------------
(* Wiring two nodes. *)

LEMMA AfterWires ==
  ASSUME NEW s, NEW r, NEW t, OnlyWires(s, r), Keeps(r, t)
  PROVE  Keeps(s, t)
<1>1. GainsAllowed(s, r)
  BY NoGains DEF OnlyWires, SameNets, GainsAllowed
<1> QED
  BY <1>1, GainsTrans DEF OnlyWires, SameDoc, Keeps, Frame

LEMMA ToggleFileKeeps ==
  ASSUME NEW s, Good(s), NEW f, NEW x
  PROVE  Keeps(s, ToggleFile(s, f, x))
<1> DEFINE w == <<"bind", f, x>>
           W == TogglePair(s.wires, w)
           r == [s EXCEPT !.wires = W]
<1>1. ToggleFile(s, f, x) = SyncMounts(r)
  BY DEF ToggleFile
<1>2. WiresFine(W) /\ \A v : v[1] # "bind" => (v \in W <=> v \in s.wires)
  <2>1. WiresFine(s.wires)
    BY DEF Good, Base, Types, Unique, WiresFine
  <2>2. w[1] = "bind" /\ w = <<w[1], w[2], w[3]>>
    OBVIOUS
  <2> HIDE DEF w
  <2> QED
    BY <2>1, <2>2, PairToggled
<1> HIDE DEF W
<1>3. Base(r) /\ OnlyWires(s, r) /\ r.wires = W
  BY <1>2, Rewired DEF Good, Base, Nets
<1> HIDE DEF r
<1>4. Routes(r) /\ Grants(r)
  BY <1>2, <1>3 DEF Good, Routes, Grants, OnlyWires
<1>5. Keeps(r, SyncMounts(r))
  BY <1>3, <1>4, SyncMountsKeeps
<1> QED
  BY <1>1, <1>3, <1>5, AfterWires

LEMMA ToggleMidiKeeps ==
  ASSUME NEW s, Good(s), NEW x, NEW y, NEW ord \in Orders
  PROVE  Keeps(s, ToggleMidi(s, x, y, ord))
<1> DEFINE w == <<"midi", x, y>>
           W == TogglePair(s.wires, w)
           r == [s EXCEPT !.wires = W]
           q == SyncMidi(r)
<1>1. ToggleMidi(s, x, y, ord) = SyncAppLinkNets(q, ord)
  BY DEF ToggleMidi
<1>2. WiresFine(W) /\ \A v : v[1] # "midi" => (v \in W <=> v \in s.wires)
  <2>1. WiresFine(s.wires)
    BY DEF Good, Base, Types, Unique, WiresFine
  <2>2. w[1] = "midi" /\ w = <<w[1], w[2], w[3]>>
    OBVIOUS
  <2> HIDE DEF w
  <2> QED
    BY <2>1, <2>2, PairToggled
<1> HIDE DEF W
<1>3. Base(r) /\ OnlyWires(s, r) /\ r.wires = W
  BY <1>2, Rewired DEF Good, Base, Nets
<1> HIDE DEF r
<1>4. Mounts(r) /\ Grants(r)
  BY <1>2, <1>3 DEF Good, Mounts, Grants, OnlyWires
<1>5. Keeps(r, q)
  BY <1>3, <1>4, SyncMidiKeeps
<1> HIDE DEF q
<1>6. Keeps(q, SyncAppLinkNets(q, ord))
  BY <1>5, AppLinksStep, NetStepKeeps DEF Keeps, Good
<1>7. Keeps(r, SyncAppLinkNets(q, ord))
  BY <1>5, <1>6, KeepsTrans
<1> QED
  BY <1>1, <1>3, <1>7, AfterWires

LEMMA ToggleNetKeeps ==
  ASSUME NEW s, Good(s), NEW x, NEW net
  PROVE  Keeps(s, ToggleNet(s, x, net))
BY ToggleNetStep, NetStepKeeps DEF Good

\* The relations with one destination per source and no network.
LEMMA ToggleOtherWires ==
  ASSUME NEW s, Good(s), NEW w, w = <<w[1], w[2], w[3]>>, w[1] \notin {"bind", "midi", "net"}
  PROVE  LET r == [s EXCEPT !.wires = ToggleUnique(s.wires, w)]
         IN  /\ Base(r) /\ OnlyWires(s, r) /\ Mounts(r) /\ Routes(r)
             /\ w[1] \notin {"capture", "clipboard"} => Grants(r)
<1> DEFINE W == ToggleUnique(s.wires, w)
           r == [s EXCEPT !.wires = W]
<1>1. WiresFine(W) /\ \A v : v[1] # w[1] => (v \in W <=> v \in s.wires)
  <2>1. WiresFine(s.wires)
    BY DEF Good, Base, Types, Unique, WiresFine
  <2> QED
    BY <2>1, UniqueToggled
<1> HIDE DEF W
<1>2. Base(r) /\ OnlyWires(s, r) /\ r.wires = W
  BY <1>1, Rewired DEF Good, Base, Nets
<1> HIDE DEF r
<1>3. Mounts(r) /\ Routes(r)
  BY <1>1, <1>2 DEF Good, Mounts, Routes, OnlyWires
<1>4. w[1] \notin {"capture", "clipboard"} => Grants(r)
  BY <1>1, <1>2 DEF Good, Grants, OnlyWires
<1> QED
  BY <1>2, <1>3, <1>4 DEF r, W

LEMMA ToggleWireKeeps ==
  ASSUME NEW s, Good(s), NEW w, w = <<w[1], w[2], w[3]>>, NEW ord \in Orders
  PROVE  Keeps(s, ToggleWire(s, w, ord))
<1> DEFINE r == [s EXCEPT !.wires = ToggleUnique(s.wires, w)]
<1>1. CASE w[1] = "bind"
  BY <1>1, ToggleFileKeeps DEF ToggleWire
<1>2. CASE w[1] = "midi"
  BY <1>2, ToggleMidiKeeps DEF ToggleWire
<1>3. CASE w[1] = "net"
  BY <1>3, ToggleNetKeeps DEF ToggleWire
<1>4. CASE w[1] \in {"capture", "clipboard"}
  <2>1. ToggleWire(s, w, ord) = SyncGrants(r)
    BY <1>4 DEF ToggleWire
  <2>2. Base(r) /\ OnlyWires(s, r) /\ Mounts(r) /\ Routes(r)
    BY <1>4, ToggleOtherWires
  <2> HIDE DEF r
  <2>3. Keeps(r, SyncGrants(r))
    BY <2>2, SyncGrantsKeeps
  <2> QED
    BY <2>1, <2>2, <2>3, AfterWires
<1>5. CASE w[1] \notin {"bind", "midi", "net", "capture", "clipboard"}
  <2>1. ToggleWire(s, w, ord) = r
    BY <1>5 DEF ToggleWire
  <2>2. Base(r) /\ OnlyWires(s, r) /\ Mounts(r) /\ Routes(r) /\ Grants(r)
    BY <1>5, ToggleOtherWires
  <2> HIDE DEF r
  <2>3. Keeps(r, r)
    BY <2>2, KeepsSelf DEF Good
  <2> QED
    BY <2>1, <2>2, <2>3, AfterWires
<1> QED
  BY <1>1, <1>2, <1>3, <1>4, <1>5

\* A wire that waits is no effect either.
LEMMA PendingKeeps ==
  ASSUME NEW s, Good(s), NEW P \in Seq(Ids \X Ids)
  PROVE  Keeps(s, [s EXCEPT !.pending = P])
<1> DEFINE t == [s EXCEPT !.pending = P]
<1>1. /\ DOMAIN t = Fields /\ Frame(s, t) /\ SameNets(s, t)
      /\ t.wires = s.wires /\ t.pending = P /\ t.privnets = s.privnets
      /\ t.mounted = s.mounted /\ t.routed = s.routed /\ t.granted = s.granted
  BY DEF Frame, SameNets, Good, Base, Types, Fields
<1> HIDE DEF t
<1>2. Types(t) /\ Unique(t)
  BY <1>1 DEF Good, Base, Types, Unique, Frame, SameNets
<1>3. Nets(t) /\ Hosts(t)
  BY <1>1 DEF Good, Base, Nets, Hosts, Frame, SameNets, HasTrunk, ImportsNet, IsGateway
<1>4. Mounts(t) /\ Routes(t) /\ Grants(t)
  BY <1>1 DEF Good, Mounts, Routes, Grants
<1>5. GainsAllowed(s, t)
  BY <1>1, NoGains DEF GainsAllowed, SameNets
<1> QED
  BY <1>1, <1>2, <1>3, <1>4, <1>5 DEF Keeps, Good, Base, t

LEMMA ConnectKeeps ==
  ASSUME NEW s, Good(s), NEW x \in Ids, NEW y \in Ids, NEW ord \in Orders
  PROVE  Keeps(s, ConnectToggle(s, x, y, ord))
<1> DEFINE w == CHOOSE v \in Classify(s, x, y) : TRUE
<1>1. CASE Classify(s, x, y) = {}
  BY <1>1, KeepsSelf DEF ConnectToggle
<1>2. CASE Classify(s, x, y) # {}
  <2>1. w \in Classify(s, x, y)
    BY <1>2
  <2>2. ConnectToggle(s, x, y, ord) =
          IF w[1] # "midi" THEN ToggleWire(s, w, ord)
          ELSE IF Loading(s, w[2]) \/ Loading(s, w[3])
               THEN [s EXCEPT !.pending = Append(s.pending, <<w[2], w[3]>>)]
          ELSE IF ServesFs(s, w[2]) THEN ToggleFile(s, w[2], w[3])
          ELSE IF ServesFs(s, w[3]) THEN ToggleFile(s, w[3], w[2])
          ELSE ToggleMidi(s, w[2], w[3], ord)
    BY <1>2 DEF ConnectToggle
  <2> HIDE DEF w
  <2>3. w = <<w[1], w[2], w[3]>> /\ w[2] \in Ids /\ w[3] \in Ids
    BY <2>1 DEF Classify
  <2>4. Append(s.pending, <<w[2], w[3]>>) \in Seq(Ids \X Ids)
    BY <2>3, AppendProperties DEF Good, Base, Types
  <2>5. Keeps(s, [s EXCEPT !.pending = Append(s.pending, <<w[2], w[3]>>)])
    BY <2>4, PendingKeeps
  <2> QED
    BY <2>2, <2>3, <2>5, ToggleWireKeeps, ToggleFileKeeps, ToggleMidiKeeps
<1> QED
  BY <1>1, <1>2

-----------------------------------------------------------------------------
(* The loops over wires. *)

RewireStep(ord, list, t, n) == RewireOne(t, list[n], ord)
PendingStep(ord, list, t, n) == SyncPendingOne(t, list[n], ord)

Again == INSTANCE Recursion WITH step <- RewireStep
Waiting == INSTANCE Recursion WITH step <- PendingStep

LEMMA RewireOneKeeps ==
  ASSUME NEW s, Good(s), NEW p, NEW ord \in Orders
  PROVE  Keeps(s, RewireOne(s, p, ord))
<1>1. s.nodes \subseteq Ids
  BY DEF Good, Base, Types
<1> QED
  BY <1>1, ConnectKeeps, KeepsSelf DEF RewireOne

LEMMA SyncPendingOneKeeps ==
  ASSUME NEW s, Good(s), NEW p \in Ids \X Ids, NEW ord \in Orders
  PROVE  Keeps(s, SyncPendingOne(s, p, ord))
<1>1. Append(s.pending, p) \in Seq(Ids \X Ids)
  BY AppendProperties DEF Good, Base, Types
<1>2. Keeps(s, [s EXCEPT !.pending = Append(s.pending, p)])
  BY <1>1, PendingKeeps
<1>3. p[1] \in Ids /\ p[2] \in Ids
  OBVIOUS
<1> QED
  BY <1>2, <1>3, ConnectKeeps, KeepsSelf DEF SyncPendingOne

\* rewire
LEMMA RewireKeeps ==
  ASSUME NEW s, Good(s), NEW pairs, IsFiniteSet(pairs), NEW ord \in Orders
  PROVE  Keeps(s, Rewire(s, pairs, ord))
<1> DEFINE list == SetToSeq(pairs)
           done[n \in Nat] == IF n = 0 THEN s ELSE RewireOne(done[n - 1], list[n], ord)
<1>1. Rewire(s, pairs, ord) = done[Len(list)]
  BY DEF Rewire
<1>2. Len(list) \in Nat
  BY SetToSeqIsSeq
<1> HIDE DEF list
<1>3. done = [n \in Nat |-> IF n = 0 THEN s ELSE RewireOne(done[n - 1], list[n], ord)]
  <2>1. PICK q : Again!IsRun(ord, list, s, q)
    BY Again!RunExists
  <2> QED BY <2>1 DEF Again!IsRun, RewireStep
<1> HIDE DEF done
<1> DEFINE T == {n \in Nat : Keeps(s, done[n])}
<1>4. 0 \in T
  BY <1>3, KeepsSelf
<1>5. ASSUME NEW n \in Nat, n \in T PROVE n + 1 \in T
  <2>1. n + 1 \in Nat /\ n + 1 # 0 /\ (n + 1) - 1 = n
    OBVIOUS
  <2>2. done[n + 1] = RewireOne(done[n], list[n + 1], ord)
    BY <2>1, <1>3
  <2>3. Keeps(s, done[n])
    BY <1>5
  <2>4. Keeps(done[n], done[n + 1])
    BY <2>2, <2>3, RewireOneKeeps DEF Keeps
  <2> QED
    BY <2>1, <2>3, <2>4, KeepsTrans
<1> HIDE DEF T
<1>6. \A n \in Nat : n \in T
  BY <1>4, <1>5, Again!SetInduction
<1> QED
  BY <1>1, <1>2, <1>6 DEF T

\* sync_pending_app_wires: the list it empties is the one it runs along.
LEMMA SyncPendingKeeps ==
  ASSUME NEW s, Good(s), NEW ord \in Orders
  PROVE  Keeps(s, SyncPendingAppWires(s, ord))
<1> DEFINE r == [s EXCEPT !.pending = << >>]
           list == s.pending
           done[n \in Nat] == IF n = 0 THEN r ELSE SyncPendingOne(done[n - 1], list[n], ord)
<1>1. SyncPendingAppWires(s, ord) = done[Len(list)]
  BY DEF SyncPendingAppWires
<1>2. Keeps(s, r)
  <2>1. << >> \in Seq(Ids \X Ids)
    OBVIOUS
  <2> QED
    BY <2>1, PendingKeeps
<1>3. list \in Seq(Ids \X Ids)
  BY DEF Good, Base, Types
<1>4. Len(list) \in Nat /\ \A n \in 1..Len(list) : list[n] \in Ids \X Ids
  BY <1>3
<1> HIDE DEF r, list
<1>5. done = [n \in Nat |-> IF n = 0 THEN r ELSE SyncPendingOne(done[n - 1], list[n], ord)]
  <2>1. PICK q : Waiting!IsRun(ord, list, r, q)
    BY Waiting!RunExists
  <2> QED BY <2>1 DEF Waiting!IsRun, PendingStep
<1> HIDE DEF done
<1> DEFINE T == {n \in Nat : n <= Len(list) => Keeps(s, done[n])}
<1>6. 0 \in T
  BY <1>2, <1>5
<1>7. ASSUME NEW n \in Nat, n \in T PROVE n + 1 \in T
  <2> SUFFICES ASSUME n + 1 <= Len(list) PROVE Keeps(s, done[n + 1])
    OBVIOUS
  <2>1. n + 1 \in Nat /\ n + 1 # 0 /\ (n + 1) - 1 = n /\ n + 1 \in 1..Len(list) /\ n <= Len(list)
    BY <1>4
  <2>2. done[n + 1] = SyncPendingOne(done[n], list[n + 1], ord)
    BY <2>1, <1>5
  <2>3. Keeps(s, done[n])
    BY <1>7, <2>1
  <2>4. Keeps(done[n], done[n + 1])
    BY <2>1, <2>2, <2>3, <1>4, SyncPendingOneKeeps DEF Keeps
  <2> QED
    BY <2>3, <2>4, KeepsTrans
<1> HIDE DEF T
<1>8. \A n \in Nat : n \in T
  BY <1>6, <1>7, Waiting!SetInduction
<1> QED
  BY <1>1, <1>4, <1>8 DEF T

-----------------------------------------------------------------------------
(* Placing and removing nodes. *)

LEMMA PlaceKeeps ==
  ASSUME NEW s, Good(s), NEW x \in Ids, NEW token
  PROVE  Good(Place(s, x, token)) /\ GainsAllowed(s, Place(s, x, token))
<1> DEFINE t == Place(s, x, token)
           nodes == s.nodes \cup {x}
           reg == IF KindOf[x] = "app" THEN s.reg \cup {x} ELSE s.reg
           tok == [s.token EXCEPT ![x] = token]
           member == [s.member EXCEPT ![x] = x]
           host == s.host \ {x}
<1>1. t = [s EXCEPT !.nodes = nodes, !.reg = reg, !.token = tok, !.member = member, !.host = host]
  BY DEF Place, Good, Base, Types, Fields
<1>2. /\ nodes \subseteq Ids /\ s.nodes \subseteq nodes /\ nodes \subseteq s.nodes \cup {x}
      /\ reg \subseteq nodes \cap Apps /\ s.reg \subseteq reg
      /\ host \subseteq s.host /\ x \notin host
  BY DEF Good, Base, Types, Apps
<1>3. DOMAIN tok = Ids /\ DOMAIN member = Ids /\ member[x] = x /\ \A y \in Ids \ {x} : member[y] = s.member[y]
  BY DEF Good, Base, Types
<1> HIDE DEF nodes, reg, tok, member, host
<1>4. /\ DOMAIN t = Fields /\ t.nodes = nodes /\ t.reg = reg /\ t.loaded = s.loaded
      /\ t.wires = s.wires /\ t.pending = s.pending /\ t.privnets = s.privnets
      /\ t.mounted = s.mounted /\ t.routed = s.routed /\ t.granted = s.granted
      /\ t.token = tok /\ t.member = member /\ t.host = host
  BY <1>1 DEF Good, Base, Types, Fields
<1> HIDE DEF t
<1>5. Types(t) /\ Unique(t)
  BY <1>2, <1>3, <1>4 DEF Good, Base, Types, Unique
<1>6. Nets(t)
  BY <1>2, <1>3, <1>4 DEF Good, Base, Types, Nets, HasTrunk, ImportsNet
<1>7. Hosts(t)
  BY <1>2, <1>3, <1>4 DEF Good, Base, Types, Hosts, IsGateway
<1>8. Mounts(t) /\ Routes(t) /\ Grants(t)
  BY <1>4 DEF Good, Mounts, Routes, Grants
<1>9. NetsAllowed(s, t)
  BY <1>3, <1>4 DEF NetsAllowed
<1>10. GainsAllowed(s, t)
  BY <1>4, <1>9, NoGains DEF GainsAllowed
<1> QED
  BY <1>5, <1>6, <1>7, <1>8, <1>10 DEF Good, Base, t

\* forget, once nothing is registered under the id and nobody has host access
\* through it.
LEMMA ForgetKeeps ==
  ASSUME NEW s, Good(s), NEW x, x \notin s.reg, \A y \in s.host : s.member[y] # x
  PROVE  Good(Forget(s, x))
<1> DEFINE t == Forget(s, x)
           nodes == s.nodes \ {x}
           tok == [s.token EXCEPT ![x] = BaseToken]
<1>1. t = [s EXCEPT !.nodes = nodes, !.token = tok]
  BY DEF Forget, Good, Base, Types, Fields
<1>2. nodes \subseteq s.nodes /\ s.nodes \subseteq nodes \cup {x} /\ x \notin nodes /\ DOMAIN tok = Ids
  BY DEF Good, Base, Types
<1> HIDE DEF nodes, tok
<1>3. /\ DOMAIN t = Fields /\ t.nodes = nodes /\ t.reg = s.reg /\ t.loaded = s.loaded
      /\ t.wires = s.wires /\ t.pending = s.pending /\ t.privnets = s.privnets
      /\ t.mounted = s.mounted /\ t.routed = s.routed /\ t.granted = s.granted
      /\ t.token = tok /\ t.member = s.member /\ t.host = s.host
  BY <1>1 DEF Good, Base, Types, Fields
<1> HIDE DEF t
<1>4. Types(t) /\ Unique(t)
  BY <1>2, <1>3 DEF Good, Base, Types, Unique
<1>5. Nets(t)
  BY <1>2, <1>3 DEF Good, Base, Nets, HasTrunk, ImportsNet
<1>6. Hosts(t)
  BY <1>2, <1>3 DEF Good, Base, Types, Hosts, IsGateway
<1>7. Mounts(t) /\ Routes(t) /\ Grants(t)
  BY <1>3 DEF Good, Mounts, Routes, Grants
<1> QED
  BY <1>4, <1>5, <1>6, <1>7 DEF Good, Base, t

\* A node that is gone is denied nothing, and the others as before: what was
\* gained in a handler that ends with forget was allowed.
LEMMA ForgetAllows ==
  ASSUME NEW a, NEW s, Good(s), GainsAllowed(a, s), NEW x, KindOf[x] # "gateway"
  PROVE  GainsAllowed(a, Forget(s, x))
<1> DEFINE t == Forget(s, x)
           nodes == s.nodes \ {x}
           tok == [s.token EXCEPT ![x] = BaseToken]
<1>1. t = [s EXCEPT !.nodes = nodes, !.token = tok]
  BY DEF Forget, Good, Base, Types, Fields
<1>2. \A y \in s.nodes : y # x => tok[y] = s.token[y]
  BY DEF Good, Base, Types
<1> HIDE DEF tok
<1>3. /\ t.nodes = nodes /\ t.token = tok
      /\ t.mounted = s.mounted /\ t.routed = s.routed /\ t.granted = s.granted
      /\ t.member = s.member
  BY <1>1 DEF Good, Base, Types, Fields
<1> HIDE DEF t
<1>4. \A y, use : MayUse(s, y, use) => MayUse(t, y, use)
  BY <1>2, <1>3 DEF MayUse, IsApp
<1>5. \A y : NetUse(t, y) = NetUse(s, y)
  BY <1>3 DEF NetUse, IsGateway
<1>6. MountsAllowed(a, t)
  BY <1>3, <1>4 DEF GainsAllowed, MountsAllowed
<1>7. RoutesAllowed(a, t)
  BY <1>3, <1>4 DEF GainsAllowed, RoutesAllowed
<1>8. GrantsAllowed(a, t)
  BY <1>3, <1>4 DEF GainsAllowed, GrantsAllowed
<1>9. NetsAllowed(a, t)
  BY <1>3, <1>4, <1>5 DEF GainsAllowed, NetsAllowed
<1> QED
  BY <1>6, <1>7, <1>8, <1>9 DEF GainsAllowed, t

\* Cutting wires that no node on a net needs.
LEMMA CutKeeps ==
  ASSUME NEW s, Base(s), NEW W, W \subseteq s.wires,
         \A x \in s.nodes : s.member[x] # x => <<"net", x, s.member[x]>> \in W
  PROVE  LET t == [s EXCEPT !.wires = W]
         IN  Base(t) /\ OnlyWires(s, t) /\ t.wires = W
<1>1. WiresFine(s.wires)
  BY DEF Base, Types, Unique, WiresFine
<1>2. WiresFine(W)
  BY <1>1, FewerWires
<1> QED
  BY <1>2, Rewired

\* close_node: the registration, the wires, the partners' private networks, and
\* only then the effects of what was cut.
LEMMA CloseNodeKeeps ==
  ASSUME NEW s, Good(s), NEW x \in Apps
  PROVE  Good(CloseNode(s, x)) /\ GainsAllowed(s, CloseNode(s, x))
<1> DEFINE reg == s.reg \ {x}
           loaded == s.loaded \ {x}
           member == [s.member EXCEPT ![x] = x]
           host == s.host \ {x}
           gone == [s EXCEPT !.reg = reg, !.loaded = loaded, !.member = member, !.host = host]
           W1 == {w \in gone.wires : ~(\/ w[1] = "bind" /\ w[3] = x
                                       \/ w[1] = "net" /\ w[2] = x
                                       \/ w[1] = "midi" /\ x \in {w[2], w[3]})}
           cut1 == [gone EXCEPT !.wires = W1]
           pruned == PruneAppLinkNet(cut1, x)
           W2 == {w \in pruned.wires : ~(\/ w[1] = "serve" /\ x \in {w[2], w[3]}
                                         \/ w[1] = "clipboard" /\ w[2] = x)}
           cut2 == [pruned EXCEPT !.wires = W2]
           m == SyncMounts(cut2)
           r == SyncMidi(m)
           g == SyncGrants(r)
<1>1. CloseNode(s, x) = Forget(g, x)
  <2>1. gone = [s EXCEPT !.reg = @ \ {x}, !.loaded = @ \ {x}, !.member[x] = x, !.host = @ \ {x}]
    BY DEF Good, Base, Types, Fields
  <2> HIDE DEF gone
  <2> QED
    BY <2>1 DEF CloseNode, Cut
<1>2. x \in Ids /\ KindOf[x] = "app"
  BY DEF Apps
<1>3. /\ DOMAIN member = Ids /\ member[x] = x /\ \A y \in Ids \ {x} : member[y] = s.member[y]
  BY <1>2 DEF Good, Base, Types
<1> HIDE DEF member
<1>4. /\ DOMAIN gone = Fields /\ gone.nodes = s.nodes /\ gone.reg = reg /\ gone.loaded = loaded
      /\ gone.wires = s.wires /\ gone.pending = s.pending /\ gone.privnets = s.privnets
      /\ gone.mounted = s.mounted /\ gone.routed = s.routed /\ gone.granted = s.granted
      /\ gone.token = s.token /\ gone.member = member /\ gone.host = host
  BY DEF Good, Base, Types, Fields
<1> HIDE DEF gone
<1>5. Base(gone)
  <2>1. Types(gone) /\ Unique(gone)
    BY <1>3, <1>4 DEF Good, Base, Types, Unique
  <2>2. Nets(gone)
    BY <1>3, <1>4 DEF Good, Base, Types, Nets, HasTrunk, ImportsNet
  <2>3. Hosts(gone)
    BY <1>3, <1>4 DEF Good, Base, Types, Hosts, IsGateway
  <2> QED
    BY <2>1, <2>2, <2>3 DEF Base
<1>6. GainsAllowed(s, gone)
  <2>1. NetsAllowed(s, gone)
    BY <1>3, <1>4 DEF NetsAllowed
  <2> QED
    BY <1>4, <2>1, NoGains DEF GainsAllowed
<1>7. Base(cut1) /\ OnlyWires(gone, cut1)
  <2>1. ASSUME NEW y \in gone.nodes, gone.member[y] # y
        PROVE  <<"net", y, gone.member[y]>> \in W1
    <3>1. y # x
      BY <2>1, <1>3, <1>4
    <3>2. <<"net", y, gone.member[y]>> \in gone.wires
      BY <2>1, <1>5 DEF Base, Nets
    <3> QED
      BY <3>1, <3>2
  <2>2. W1 \subseteq gone.wires
    OBVIOUS
  <2> HIDE DEF W1
  <2> QED
    BY <1>5, <2>1, <2>2, CutKeeps
<1> HIDE DEF cut1
<1>8. NetStep(cut1, pruned)
  BY <1>7, PruneStepKeeps
<1> HIDE DEF pruned
<1>9. Base(cut2) /\ OnlyWires(pruned, cut2)
  <2>1. ASSUME NEW y \in pruned.nodes, pruned.member[y] # y
        PROVE  <<"net", y, pruned.member[y]>> \in W2
    <3>1. <<"net", y, pruned.member[y]>> \in pruned.wires
      BY <2>1, <1>8 DEF NetStep, Base, Nets
    <3> QED
      BY <3>1
  <2>2. W2 \subseteq pruned.wires
    OBVIOUS
  <2> HIDE DEF W2
  <2> QED
    BY <1>8, <2>1, <2>2, CutKeeps DEF NetStep
<1> HIDE DEF cut2
<1>10. OnlyMounted(cut2, m) /\ Mounts(m) /\ MountsAllowed(cut2, m) /\ Base(m)
  BY <1>9, SyncMountsSets, BaseStays DEF Base, OnlyMounted
<1> HIDE DEF m
<1>11. OnlyRouted(m, r) /\ Routes(r) /\ RoutesAllowed(m, r) /\ Base(r)
  BY <1>10, SyncMidiSets, BaseStays DEF Base, OnlyRouted
<1> HIDE DEF r
<1>12. OnlyGranted(r, g) /\ Grants(g) /\ GrantsAllowed(r, g) /\ Base(g)
  BY <1>11, SyncGrantsSets, BaseStays DEF Base, OnlyGranted
<1> HIDE DEF g
<1>13. Mounts(g) /\ Routes(g)
  BY <1>10, <1>11, <1>12 DEF Mounts, Routes, OnlyRouted, OnlyGranted
<1>14. Good(g)
  BY <1>12, <1>13 DEF Good
<1>15. GainsAllowed(s, g)
  <2>1. GainsAllowed(gone, cut1) /\ cut1.nodes = gone.nodes /\ cut1.token = gone.token
    BY <1>7, NoGains DEF GainsAllowed, OnlyWires, SameDoc, SameNets
  <2>2. GainsAllowed(cut1, pruned) /\ pruned.nodes = cut1.nodes /\ pruned.token = cut1.token
    BY <1>8, NoGains DEF GainsAllowed, NetStep, Frame
  <2>3. GainsAllowed(pruned, cut2) /\ cut2.nodes = pruned.nodes /\ cut2.token = pruned.token
    BY <1>9, NoGains DEF GainsAllowed, OnlyWires, SameDoc, SameNets
  <2>4. GainsAllowed(cut2, m) /\ m.nodes = cut2.nodes /\ m.token = cut2.token
    BY <1>10, NoGains DEF GainsAllowed, OnlyMounted, SameDoc, SameNets
  <2>5. GainsAllowed(m, r) /\ r.nodes = m.nodes /\ r.token = m.token
    BY <1>11, NoGains DEF GainsAllowed, OnlyRouted, SameDoc, SameNets
  <2>6. GainsAllowed(r, g) /\ g.nodes = r.nodes /\ g.token = r.token
    BY <1>12, NoGains DEF GainsAllowed, OnlyGranted, SameDoc, SameNets
  <2>7. GainsAllowed(s, cut1)
    BY <1>6, <2>1, GainsTrans
  <2>8. GainsAllowed(s, pruned)
    BY <2>7, <2>2, GainsTrans
  <2>9. GainsAllowed(s, cut2)
    BY <2>8, <2>3, GainsTrans
  <2>10. GainsAllowed(s, m)
    BY <2>9, <2>4, GainsTrans
  <2>11. GainsAllowed(s, r)
    BY <2>10, <2>5, GainsTrans
  <2> QED
    BY <2>11, <2>6, GainsTrans
<1>16. x \notin g.reg
  BY <1>4, <1>7, <1>8, <1>9, <1>10, <1>11, <1>12
     DEF OnlyWires, NetStep, Frame, OnlyMounted, OnlyRouted, OnlyGranted, SameDoc
<1>17. \A y \in g.host : g.member[y] # x
  BY <1>2, <1>14 DEF Good, Base, Hosts, IsGateway
<1>18. Good(Forget(g, x))
  BY <1>14, <1>16, <1>17, ForgetKeeps
<1>19. GainsAllowed(s, Forget(g, x))
  BY <1>2, <1>14, <1>15, ForgetAllows
<1> QED
  BY <1>1, <1>18, <1>19

\* remove_net_node: the members are isolated before their wires go.
LEMMA RemoveNetNodeKeeps ==
  ASSUME NEW s, Good(s), NEW x \in Ids, KindOf[x] \in {"net", "gateway"}
  PROVE  Good(RemoveNetNode(s, x)) /\ GainsAllowed(s, RemoveNetNode(s, x))
<1> DEFINE members == {w[2] : w \in {v \in s.wires : v[1] = "net" /\ v[3] = x}}
           to == [m \in members |-> m]
           t == SetNets(s, to)
           W == {w \in t.wires : ~(w[1] = "net" /\ w[3] = x)}
           c == [t EXCEPT !.wires = W]
<1>1. RemoveNetNode(s, x) = Forget(c, x)
  BY DEF RemoveNetNode, Cut
<1>2. ASSUME NEW y \in s.nodes, s.member[y] # y, s.member[y] = x PROVE y \in members
  <2> DEFINE w == <<"net", y, x>>
  <2>1. w \in s.wires /\ w[1] = "net" /\ w[2] = y /\ w[3] = x
    BY <1>2 DEF Good, Base, Nets
  <2> HIDE DEF w
  <2> QED
    BY <2>1
<1> HIDE DEF members
<1>3. DOMAIN to = members /\ \A y \in members : to[y] = y
  OBVIOUS
<1> HIDE DEF to
<1>4. NetsSet(s, to, t)
  BY SetNetsSets DEF Good, Base
<1> HIDE DEF t
<1>5. Hosts(t)
  BY <1>4, HostsMove DEF Good, Base
<1>6. Types(t) /\ Unique(t) /\ Frame(s, t) /\ t.wires = s.wires
      /\ t.mounted = s.mounted /\ t.routed = s.routed /\ t.granted = s.granted
  BY <1>4 DEF Good, Base, Types, Unique, NetsSet, SameDoc, Frame
<1>7. \A y : HasTrunk(t, y) = HasTrunk(s, y) /\ ImportsNet(t, y) = ImportsNet(s, y)
  BY <1>6 DEF HasTrunk, ImportsNet, Frame
<1>8. \A y \in Ids : t.member[y] \in {s.member[y], y}
  BY <1>3, <1>4 DEF NetsSet, Moved
<1>9. s.nodes \subseteq Ids /\ t.nodes = s.nodes
  BY <1>6 DEF Good, Base, Types, Frame
<1>10. ASSUME NEW y \in s.nodes, t.member[y] # y
       PROVE  /\ t.member[y] = s.member[y] /\ t.member[y] # x
              /\ <<"net", y, t.member[y]>> \in t.wires
              /\ HasTrunk(s, y) \/ ImportsNet(s, y)
  <2>1. y \in Ids /\ t.member[y] = s.member[y]
    BY <1>8, <1>9, <1>10
  <2>2. <<"net", y, t.member[y]>> \in t.wires /\ (HasTrunk(s, y) \/ ImportsNet(s, y))
    BY <2>1, <1>6, <1>10 DEF Good, Base, Nets
  <2>3. t.member[y] # x
    <3> SUFFICES ASSUME t.member[y] = x PROVE FALSE
      OBVIOUS
    <3>1. y \in members
      BY <2>1, <1>2, <1>10
    <3>2. t.member[y] = y
      BY <2>1, <2>2, <3>1, <1>3, <1>4 DEF NetsSet, Moved
    <3> QED
      BY <3>2, <1>10
  <2> QED
    BY <2>1, <2>2, <2>3
<1>11. Base(t)
  BY <1>5, <1>6, <1>7, <1>9, <1>10 DEF Base, Nets
<1>12. Base(c) /\ OnlyWires(t, c) /\ c.wires = W
  <2>1. W \subseteq t.wires
    OBVIOUS
  <2>2. ASSUME NEW y \in t.nodes, t.member[y] # y PROVE <<"net", y, t.member[y]>> \in W
    BY <2>2, <1>9, <1>10
  <2> HIDE DEF W
  <2> QED
    BY <1>11, <2>1, <2>2, CutKeeps
<1>13. \A w : w[1] # "net" => (w \in W <=> w \in s.wires)
  BY <1>6
<1> HIDE DEF W, c
<1>14. Mounts(c) /\ Routes(c) /\ Grants(c)
  BY <1>6, <1>12, <1>13 DEF Good, Mounts, Routes, Grants, OnlyWires
<1>15. Good(c)
  BY <1>12, <1>14 DEF Good
<1>16. x \notin c.reg
  BY <1>15 DEF Good, Base, Types, Apps
<1>17. \A y \in c.host : c.member[y] # x
  <2>1. c.member = t.member /\ c.host \subseteq s.nodes
    BY <1>6, <1>9, <1>12 DEF OnlyWires, SameNets, SameDoc, Base, Hosts, Types
  <2>2. \A y \in c.host : KindOf[y] = "app"
    BY <1>15 DEF Good, Base, Hosts, Types, Apps
  <2> QED
    BY <2>1, <2>2, <1>10
<1>18. Good(Forget(c, x))
  BY <1>15, <1>16, <1>17, ForgetKeeps
<1>19. GainsAllowed(s, Forget(c, x))
  <2> DEFINE f == Forget(c, x)
  <2>1. /\ f.mounted = c.mounted /\ f.routed = c.routed /\ f.granted = c.granted
        /\ f.member = c.member
    BY <1>15 DEF Forget, Good, Base, Types, Fields
  <2> HIDE DEF f
  <2>2. /\ f.mounted = s.mounted /\ f.routed = s.routed /\ f.granted = s.granted
        /\ f.member = t.member
    BY <2>1, <1>6, <1>12 DEF OnlyWires, SameNets
  <2>3. NetsAllowed(s, f)
    BY <2>2, <1>8 DEF NetsAllowed
  <2> QED
    BY <2>2, <2>3, NoGains DEF GainsAllowed, f
<1> QED
  BY <1>1, <1>18, <1>19

\* A node without a registration or members: its wires are cut and it is
\* forgotten, and no effect hung on the wires.
LEMMA PlainRemoval ==
  ASSUME NEW s, Good(s), NEW x \in Ids, KindOf[x] \notin {"app", "gateway"},
         NEW W, W \subseteq s.wires,
         \A w \in s.wires : w[1] \in {"bind", "midi", "capture", "clipboard"} => w \in W,
         \A w \in s.wires : w[1] = "net" /\ w[2] # x => w \in W
  PROVE  LET t == Forget([s EXCEPT !.wires = W], x)
         IN  Good(t) /\ GainsAllowed(s, t)
<1> DEFINE t == Forget([s EXCEPT !.wires = W], x)
           f == Forget(s, x)
<1>1. t = [f EXCEPT !.wires = W]
  BY DEF Forget, Good, Base, Types, Fields
<1>2. f.nodes = s.nodes \ {x} /\ f.wires = s.wires
  BY DEF Forget, Good, Base, Types, Fields
<1>3. x \notin s.reg /\ \A y \in s.host : s.member[y] # x
  BY DEF Good, Base, Types, Hosts, IsGateway, Apps
<1>4. Good(f)
  BY <1>3, ForgetKeeps
<1>5. GainsAllowed(s, f)
  BY KeepsSelf, ForgetAllows DEF Keeps
<1> HIDE DEF t, f
<1>6. ASSUME NEW y \in f.nodes, f.member[y] # y PROVE <<"net", y, f.member[y]>> \in W
  <2> DEFINE w == <<"net", y, f.member[y]>>
  <2>1. w \in s.wires /\ w[1] = "net" /\ w[2] = y /\ y # x
    BY <1>2, <1>4, <1>6 DEF Good, Base, Nets
  <2> HIDE DEF w
  <2>2. w \in W
    BY <2>1
  <2> QED
    BY <2>2 DEF w
<1>7. Base(t) /\ OnlyWires(f, t) /\ t.wires = W
  BY <1>1, <1>2, <1>4, <1>6, CutKeeps DEF Good
<1>8. Mounts(t) /\ Routes(t) /\ Grants(t)
  <2>1. \A a, b : <<"bind", a, b>>[1] = "bind" /\ <<"midi", a, b>>[1] = "midi"
    OBVIOUS
  <2> QED
    BY <2>1, <1>2, <1>4, <1>7 DEF Good, Mounts, Routes, Grants, OnlyWires
<1>9. GainsAllowed(s, t)
  <2>1. GainsAllowed(f, t)
    BY <1>7, NoGains DEF OnlyWires, SameNets, GainsAllowed
  <2> QED
    BY <2>1, <1>5, <1>7, GainsTrans DEF OnlyWires, SameDoc
<1> QED
  BY <1>7, <1>8, <1>9 DEF Good, t

\* A node whose wires carry one effect: it is reconciled before the node goes.
LEMMA EffectRemoval ==
  ASSUME NEW s, Good(s), NEW x \in Ids, KindOf[x] \in {"file", "capture", "clipboard"}
  PROVE  Good(RemoveAny(s, x)) /\ GainsAllowed(s, RemoveAny(s, x))
<1> DEFINE rel == IF KindOf[x] = "file" THEN "bind" ELSE KindOf[x]
           W == {w \in s.wires : ~(w[1] = rel /\ w[IF KindOf[x] = "file" THEN 2 ELSE 3] = x)}
           c == [s EXCEPT !.wires = W]
           r == IF KindOf[x] = "file" THEN SyncMounts(c) ELSE SyncGrants(c)
<1>1. RemoveAny(s, x) = Forget(r, x)
  BY DEF RemoveAny, Cut
<1>2. W \subseteq s.wires /\ \A w \in s.wires : w[1] # rel => w \in W
  OBVIOUS
<1>3. /\ rel \in {"bind", "capture", "clipboard"}
      /\ rel = "bind" <=> KindOf[x] = "file"
  OBVIOUS
<1> HIDE DEF W, rel
<1>4. \A y \in s.nodes : s.member[y] # y => <<"net", y, s.member[y]>> \in W
  <2> SUFFICES ASSUME NEW y \in s.nodes, s.member[y] # y PROVE <<"net", y, s.member[y]>> \in W
    OBVIOUS
  <2> DEFINE w == <<"net", y, s.member[y]>>
  <2>1. w \in s.wires /\ w[1] = "net"
    BY DEF Good, Base, Nets
  <2> HIDE DEF w
  <2>2. w \in W
    BY <2>1, <1>2, <1>3
  <2> QED
    BY <2>2 DEF w
<1>5. Base(c) /\ OnlyWires(s, c) /\ c.wires = W
  BY <1>2, <1>4, CutKeeps DEF Good
<1> HIDE DEF c
<1>6. Keeps(c, r)
  <2>1. \A a, b : <<"bind", a, b>>[1] = "bind" /\ <<"midi", a, b>>[1] = "midi"
    OBVIOUS
  <2>2. Routes(c)
    BY <2>1, <1>2, <1>3, <1>5 DEF Good, Routes, OnlyWires
  <2>3. KindOf[x] # "file" => Mounts(c)
    BY <2>1, <1>2, <1>3, <1>5 DEF Good, Mounts, OnlyWires
  <2>4. KindOf[x] = "file" => Grants(c)
    BY <1>2, <1>3, <1>5 DEF Good, Grants, OnlyWires
  <2> QED
    BY <2>2, <2>3, <2>4, <1>5, SyncMountsKeeps, SyncGrantsKeeps
<1> HIDE DEF r
<1>7. Keeps(s, r)
  BY <1>5, <1>6, AfterWires
<1>8. x \notin r.reg /\ \A y \in r.host : r.member[y] # x
  BY <1>7 DEF Keeps, Good, Base, Types, Hosts, IsGateway, Apps
<1>9. Good(Forget(r, x))
  BY <1>7, <1>8, ForgetKeeps DEF Keeps
<1>10. GainsAllowed(s, Forget(r, x))
  BY <1>7, ForgetAllows DEF Keeps
<1> QED
  BY <1>1, <1>9, <1>10

\* remove_any
LEMMA RemoveAnyKeeps ==
  ASSUME NEW s, Good(s), NEW x \in Ids
  PROVE  Good(RemoveAny(s, x)) /\ GainsAllowed(s, RemoveAny(s, x))
<1>1. KindOf[x] \in Kinds
  BY CanvasAssumption
<1>2. CASE KindOf[x] = "app"
  BY <1>2, CloseNodeKeeps DEF RemoveAny, Apps
<1>3. CASE KindOf[x] \in {"net", "gateway"}
  BY <1>3, RemoveNetNodeKeeps DEF RemoveAny
<1>4. CASE KindOf[x] = "uplink"
  <2> DEFINE W == {w \in s.wires : ~(w[1] = "net" /\ w[2] = x)}
  <2>1. RemoveAny(s, x) = Forget([s EXCEPT !.wires = W], x)
    BY <1>4 DEF RemoveAny, Cut
  <2>2. /\ W \subseteq s.wires
        /\ \A w \in s.wires : w[1] \in {"bind", "midi", "capture", "clipboard"} => w \in W
        /\ \A w \in s.wires : w[1] = "net" /\ w[2] # x => w \in W
    OBVIOUS
  <2> HIDE DEF W
  <2> QED
    BY <1>4, <2>1, <2>2, PlainRemoval
<1>5. CASE KindOf[x] = "port"
  <2> DEFINE W == {w \in s.wires : ~(w[1] = "serve" /\ w[3] = x)}
  <2>1. RemoveAny(s, x) = Forget([s EXCEPT !.wires = W], x)
    BY <1>5 DEF RemoveAny, Cut
  <2>2. /\ W \subseteq s.wires
        /\ \A w \in s.wires : w[1] \in {"bind", "midi", "capture", "clipboard"} => w \in W
        /\ \A w \in s.wires : w[1] = "net" /\ w[2] # x => w \in W
    OBVIOUS
  <2> HIDE DEF W
  <2> QED
    BY <1>5, <2>1, <2>2, PlainRemoval
<1>6. CASE KindOf[x] = "api"
  <2> DEFINE W == {w \in s.wires : ~(w[1] = "api" /\ w[3] = x)}
  <2>1. RemoveAny(s, x) = Forget([s EXCEPT !.wires = W], x)
    BY <1>6 DEF RemoveAny, Cut
  <2>2. /\ W \subseteq s.wires
        /\ \A w \in s.wires : w[1] \in {"bind", "midi", "capture", "clipboard"} => w \in W
        /\ \A w \in s.wires : w[1] = "net" /\ w[2] # x => w \in W
    OBVIOUS
  <2> HIDE DEF W
  <2> QED
    BY <1>6, <2>1, <2>2, PlainRemoval
<1>7. CASE KindOf[x] \in {"file", "capture", "clipboard"}
  BY <1>7, EffectRemoval
<1> QED
  BY <1>1, <1>2, <1>3, <1>4, <1>5, <1>6, <1>7 DEF Kinds

-----------------------------------------------------------------------------
(* Undo *)

\* The image of a finite set, as the theorem on surjections gives it.
LEMMA PairsEnd ==
  ASSUME NEW S, IsFiniteSet(S), NEW a
  PROVE  IsFiniteSet({<<a, b>> : b \in S})
<1> DEFINE f == [b \in S |-> <<a, b>>]
           T == {<<a, b>> : b \in S}
<1>1. f \in Surjection(S, T)
  BY DEF Surjection
<1> QED
  BY <1>1, FS_Surjection

LEMMA EndsEnd ==
  ASSUME NEW W, IsFiniteSet(W)
  PROVE  IsFiniteSet({<<w[2], w[3]>> : w \in W}) /\ IsFiniteSet({w[3] : w \in W})
<1> DEFINE f == [w \in W |-> <<w[2], w[3]>>]
           g == [w \in W |-> w[3]]
<1>1. f \in Surjection(W, {<<w[2], w[3]>> : w \in W})
  BY DEF Surjection
<1>2. g \in Surjection(W, {w[3] : w \in W})
  BY DEF Surjection
<1> QED
  BY <1>1, <1>2, FS_Surjection

\* A token moves nothing by itself.
LEMMA TokenKeeps ==
  ASSUME NEW s, Good(s), NEW x, NEW token
  PROVE  LET t == [s EXCEPT !.token[x] = token]
         IN  Good(t) /\ GainsAllowed(s, t)
<1> DEFINE f == [s.token EXCEPT ![x] = token]
           t == [s EXCEPT !.token[x] = token]
<1>1. t = [s EXCEPT !.token = f] /\ DOMAIN f = Ids
  BY DEF Good, Base, Types, Fields
<1> HIDE DEF f, t
<1>2. /\ DOMAIN t = Fields /\ t.token = f
      /\ t.nodes = s.nodes /\ t.reg = s.reg /\ t.loaded = s.loaded
      /\ t.pending = s.pending /\ t.privnets = s.privnets /\ t.wires = s.wires
      /\ t.member = s.member /\ t.host = s.host
      /\ t.mounted = s.mounted /\ t.routed = s.routed /\ t.granted = s.granted
  BY <1>1 DEF Good, Base, Types, Fields
<1>3. Types(t) /\ Unique(t)
  BY <1>1, <1>2 DEF Good, Base, Types, Unique
<1>4. Nets(t) /\ Hosts(t)
  BY <1>2 DEF Good, Base, Nets, Hosts, HasTrunk, ImportsNet, IsGateway
<1>5. Mounts(t) /\ Routes(t) /\ Grants(t)
  BY <1>2 DEF Good, Mounts, Routes, Grants
<1>6. GainsAllowed(s, t)
  BY <1>2, NoGains DEF GainsAllowed
<1> QED
  BY <1>3, <1>4, <1>5, <1>6 DEF Good, Base, t

\* apply_undo
LEMMA ApplyUndoKeeps ==
  ASSUME NEW s, Good(s), NEW u, UndoOk(u), NEW ord \in Orders
  PROVE  Good(ApplyUndo(s, u, ord)) /\ GainsAllowed(s, ApplyUndo(s, u, ord))
<1>1. s.nodes \subseteq Ids
  BY DEF Good, Base, Types
<1>2. Good(s) /\ GainsAllowed(s, s)
  BY KeepsSelf DEF Keeps
<1>3. CASE u.op = "uncreate"
  BY <1>1, <1>2, <1>3, RemoveAnyKeeps DEF ApplyUndo
<1>4. CASE u.op = "recreate"
  <2> DEFINE p == Place(s, u.node, u.token)
             r == Rewire(p, u.pairs, ord)
  <2>1. u.node \in Ids /\ IsFiniteSet(u.pairs)
    BY <1>4 DEF UndoOk
  <2>2. Good(p) /\ GainsAllowed(s, p)
    BY <2>1, PlaceKeeps
  <2> HIDE DEF p
  <2>3. Keeps(p, r)
    BY <2>1, <2>2, RewireKeeps
  <2>4. ApplyUndo(s, u, ord) = r
    BY <1>4 DEF ApplyUndo, p
  <2> HIDE DEF r
  <2> QED
    BY <2>2, <2>3, <2>4, GainsTrans DEF Keeps, Frame
<1>5. CASE u.op = "wire"
  BY <1>1, <1>2, <1>5, ConnectKeeps DEF ApplyUndo, Keeps
<1>6. CASE u.op = "rewire"
  <2> DEFINE q == Unwire(s, u, ord)
             old == {<<u.src, o>> : o \in u.old}
             r == Rewire(q, old, ord)
  <2>1. Keeps(s, q)
    BY <1>1, ConnectKeeps, KeepsSelf DEF Unwire
  <2>2. IsFiniteSet(old)
    BY <1>6, PairsEnd DEF UndoOk
  <2>3. ApplyUndo(s, u, ord) = r
    BY <1>6 DEF ApplyUndo
  <2> HIDE DEF q, old
  <2>4. Keeps(q, r)
    BY <2>1, <2>2, RewireKeeps DEF Keeps
  <2> HIDE DEF r
  <2>5. Keeps(s, r)
    BY <2>1, <2>4, KeepsTrans
  <2> QED
    BY <2>3, <2>5 DEF Keeps
<1>7. CASE u.op = "token"
  <2>1. ApplyUndo(s, u, ord) = IF u.node \in s.nodes
                                THEN [s EXCEPT !.token[u.node] = u.token] ELSE s
    BY <1>7 DEF ApplyUndo
  <2> QED
    BY <1>2, <2>1, TokenKeeps
<1> QED
  BY <1>3, <1>4, <1>5, <1>6, <1>7 DEF UndoOk

\* record
LEMMA RecordKeeps ==
  ASSUME UndoFine, NEW u, UndoOk(u), Record(u)
  PROVE  UndoFine'
<1>1. PICK S : undo \in Seq(S) /\ \A v \in S : UndoOk(v)
  BY DEF UndoFine
<1> DEFINE R == S \cup {u}
<1>2. undo \in Seq(R) /\ u \in R /\ \A v \in R : UndoOk(v)
  BY <1>1
<1> HIDE DEF R
<1>3. undo' \in Seq(R)
  <2>1. CASE Len(undo) < UndoCap
    BY <1>2, <2>1 DEF Record
  <2>2. CASE ~(Len(undo) < UndoCap)
    <3>1. undo # << >>
      BY <2>2, CanvasAssumption
    <3>2. Tail(undo) \in Seq(R)
      BY <1>2, <3>1
    <3> QED
      BY <1>2, <2>2, <3>2 DEF Record
  <2> QED
    BY <2>1, <2>2
<1>4. \E T : undo' \in Seq(T) /\ \A v \in T : UndoOk(v)
  BY <1>2, <1>3
<1> QED
  BY <1>4 DEF UndoFine

-----------------------------------------------------------------------------
(* The steps.  Components never change, so what is shown of the new server    *)
(* under the components of the old state holds of it in the new state.        *)

StepOk == Good(server') /\ GainsAllowed(server, server') /\ UndoFine' /\ UNCHANGED component

LEMMA InitGood == Init => CanvasInv
<1> SUFFICES ASSUME Init PROVE CanvasInv
  OBVIOUS
<1>1. /\ DOMAIN server = Fields /\ server.nodes = {} /\ server.reg = {} /\ server.loaded = {}
      /\ server.wires = {} /\ server.privnets = {} /\ server.host = {}
      /\ server.mounted = {} /\ server.routed = {} /\ server.granted = {}
      /\ DOMAIN server.member = Ids /\ DOMAIN server.token = Ids /\ server.pending = << >>
  BY DEF Init, Fields
<1>2. Types(server)
  BY <1>1, FS_EmptySet DEF Types
<1>3. Good(server)
  BY <1>1, <1>2 DEF Good, Base, Unique, Nets, Hosts, Mounts, Routes, Grants
<1>4. undo \in Seq({}) /\ \A u \in {} : UndoOk(u)
  BY DEF Init
<1> QED
  BY <1>3, <1>4 DEF CanvasInv, UndoFine

LEMMA CreateNodeStep == ASSUME CanvasInv, NEW x \in Ids, CreateNode(x) PROVE StepOk
<1> DEFINE u == [op |-> "uncreate", node |-> x]
<1>1. UndoOk(u) /\ Record(u)
  BY DEF UndoOk, CreateNode
<1>2. UndoFine'
  BY <1>1, RecordKeeps DEF CanvasInv
<1>3. server' = Place(server, x, BaseToken) /\ UNCHANGED component
  BY DEF CreateNode
<1> QED
  BY <1>2, <1>3, PlaceKeeps DEF CanvasInv, StepOk

LEMMA DeleteNodeStep == ASSUME CanvasInv, NEW x \in Ids, DeleteNode(x) PROVE StepOk
<1> DEFINE W == {v \in server.wires : x \in {v[2], v[3]}}
           pairs == {<<w[2], w[3]>> : w \in W}
           u == [op |-> "recreate", node |-> x, token |-> server.token[x], pairs |-> pairs]
<1>1. IsFiniteSet(W)
  BY FS_Subset DEF CanvasInv, Good, Base, Types
<1>2. Record(u)
  BY DEF DeleteNode
<1>3. IsFiniteSet(pairs)
  <2> HIDE DEF W
  <2> QED
    BY <1>1, EndsEnd
<1> HIDE DEF pairs
<1>4. UndoOk(u)
  BY <1>3 DEF UndoOk
<1>5. UndoFine'
  BY <1>2, <1>4, RecordKeeps DEF CanvasInv
<1>6. server' = RemoveAny(server, x) /\ UNCHANGED component
  BY DEF DeleteNode
<1> QED
  BY <1>5, <1>6, RemoveAnyKeeps DEF CanvasInv, StepOk

LEMMA CreateWireStep == ASSUME CanvasInv, NEW x \in Ids, NEW y \in Ids, CreateWire(x, y) PROVE StepOk
<1> DEFINE unique == {w \in Classify(server, x, y) : w[1] \in {"net", "serve"}}
           Of(w) == {v \in server.wires : v[1] = w[1] /\ v[2] = w[2]}
           Old(w) == {v[3] : v \in Of(w)}
<1>1. ASSUME unique = {} PROVE UndoFine'
  <2> DEFINE u == [op |-> "wire", ends |-> <<x, y>>]
  <2>1. UndoOk(u) /\ Record(u)
    BY <1>1 DEF UndoOk, CreateWire
  <2> QED
    BY <2>1, RecordKeeps DEF CanvasInv
<1>2. ASSUME unique # {} PROVE UndoFine'
  <2>1. PICK w \in unique : Record([op |-> "rewire", src |-> w[2], new |-> w[3], old |-> Old(w)])
    BY <1>2 DEF CreateWire
  <2>2. IsFiniteSet(Of(w))
    BY FS_Subset DEF CanvasInv, Good, Base, Types
  <2>3. IsFiniteSet(Old(w))
    <3> HIDE DEF Of
    <3> QED
      BY <2>2, EndsEnd
  <2> DEFINE u == [op |-> "rewire", src |-> w[2], new |-> w[3], old |-> Old(w)]
  <2> HIDE DEF Old
  <2>4. UndoOk(u) /\ Record(u)
    BY <2>1, <2>3 DEF UndoOk
  <2> QED
    BY <2>4, RecordKeeps DEF CanvasInv
<1>3. UndoFine'
  BY <1>1, <1>2
<1>4. PICK ord \in Orders : server' = ConnectToggle(server, x, y, ord)
  BY DEF CreateWire
<1>5. UNCHANGED component
  BY DEF CreateWire
<1> QED
  BY <1>3, <1>4, <1>5, ConnectKeeps DEF CanvasInv, StepOk, Keeps

LEMMA DeleteWireStep == ASSUME CanvasInv, NEW w \in server.wires, DeleteWire(w) PROVE StepOk
<1> DEFINE u == [op |-> "wire", ends |-> <<w[2], w[3]>>]
<1>1. UndoOk(u) /\ Record(u) /\ UNCHANGED component
  BY DEF UndoOk, DeleteWire
<1>2. UndoFine'
  BY <1>1, RecordKeeps DEF CanvasInv
<1>3. PICK ord \in Orders : server' = ToggleWire(server, w, ord)
  BY DEF DeleteWire
<1>4. w = <<w[1], w[2], w[3]>>
  BY DEF CanvasInv, Good, Base, Types
<1> QED
  BY <1>1, <1>2, <1>3, <1>4, ToggleWireKeeps DEF CanvasInv, StepOk, Keeps

LEMMA SetTokenStep ==
  ASSUME CanvasInv, NEW x \in Ids, NEW token \in Tokens, SetToken(x, token) PROVE StepOk
<1> DEFINE u == [op |-> "token", node |-> x, token |-> server.token[x]]
<1>1. UndoOk(u) /\ Record(u) /\ UNCHANGED component
  BY DEF UndoOk, SetToken
<1>2. UndoFine'
  BY <1>1, RecordKeeps DEF CanvasInv
<1>3. server' = [server EXCEPT !.token[x] = token]
  BY DEF SetToken
<1>4. Good(server)
  BY DEF CanvasInv
<1>5. Good(server') /\ GainsAllowed(server, server')
  BY <1>3, <1>4, TokenKeeps
<1> QED
  BY <1>1, <1>2, <1>5 DEF StepOk

LEMMA SameUndo == ASSUME UndoFine, UNCHANGED undo PROVE UndoFine'
BY DEF UndoFine

LEMMA RunNodeStep == ASSUME CanvasInv, NEW x \in Ids, RunNode(x) PROVE StepOk
<1>1. server' = ReapplyBinds(server, x) /\ UNCHANGED <<undo, component>>
  BY DEF RunNode
<1> QED
  BY <1>1, ReapplyBindsKeeps, SameUndo DEF CanvasInv, StepOk, Keeps

LEMMA UndoStep == ASSUME CanvasInv, Undo PROVE StepOk
<1>1. PICK S : undo \in Seq(S) /\ \A v \in S : UndoOk(v)
  BY DEF CanvasInv, UndoFine
<1>2. undo # << >> /\ undo' = Front(undo) /\ UNCHANGED component
  BY DEF Undo
<1>3. Len(undo) \in Nat /\ Len(undo) > 0
  BY <1>1, <1>2
<1>4. Last(undo) \in S
  BY <1>1, <1>3 DEF Last
<1>5. undo' \in Seq(S)
  BY <1>1, <1>2, <1>3 DEF Front
<1>6. UndoFine'
  <2>1. \E T : undo' \in Seq(T) /\ \A v \in T : UndoOk(v)
    BY <1>1, <1>5
  <2> QED
    BY <2>1 DEF UndoFine
<1>7. PICK ord \in Orders : server' = ApplyUndo(server, Last(undo), ord)
  BY DEF Undo
<1> QED
  BY <1>1, <1>2, <1>4, <1>6, <1>7, ApplyUndoKeeps DEF CanvasInv, StepOk

LEMMA PublishStep == ASSUME CanvasInv, NEW x \in Ids, Publish(x) PROVE StepOk
<1> DEFINE s == server
           t == server'
<1>1. Good(s) /\ x \in s.reg /\ t = [s EXCEPT !.loaded = s.loaded \cup {x}] /\ UNCHANGED <<undo, component>>
  BY DEF CanvasInv, Publish, Loading
<1> HIDE DEF s, t
<1>2. /\ DOMAIN t = Fields /\ t.loaded = s.loaded \cup {x}
      /\ t.nodes = s.nodes /\ t.reg = s.reg /\ t.token = s.token
      /\ t.pending = s.pending /\ t.privnets = s.privnets /\ t.wires = s.wires
      /\ t.member = s.member /\ t.host = s.host
      /\ t.mounted = s.mounted /\ t.routed = s.routed /\ t.granted = s.granted
  BY <1>1 DEF Good, Base, Types, Fields
<1>3. Types(t) /\ Unique(t)
  BY <1>1, <1>2 DEF Good, Base, Types, Unique
<1>4. Nets(t) /\ Hosts(t)
  BY <1>1, <1>2 DEF Good, Base, Nets, Hosts, HasTrunk, ImportsNet, IsGateway
<1>5. Mounts(t) /\ Routes(t) /\ Grants(t)
  BY <1>1, <1>2 DEF Good, Mounts, Routes, Grants
<1>6. GainsAllowed(s, t)
  BY <1>2, NoGains DEF GainsAllowed
<1>7. Good(t)
  BY <1>3, <1>4, <1>5 DEF Good, Base
<1>8. Good(server') /\ GainsAllowed(server, server')
  BY <1>6, <1>7 DEF s, t
<1> QED
  BY <1>1, <1>8, SameUndo DEF CanvasInv, StepOk

LEMMA TickStep == ASSUME CanvasInv, Tick PROVE StepOk
<1>1. PICK ord \in Orders :
        server' = SyncGrants(SyncNetMembership(SyncAppLinkNets(
                    SyncMidi(SyncMounts(SyncPendingAppWires(server, ord))), ord)))
  BY DEF Tick
<1> DEFINE a == SyncPendingAppWires(server, ord)
           b == SyncMounts(a)
           c == SyncMidi(b)
           d == SyncAppLinkNets(c, ord)
           e == SyncNetMembership(d)
           f == SyncGrants(e)
<1>2. Keeps(server, a)
  BY SyncPendingKeeps DEF CanvasInv
<1> HIDE DEF a
<1>3. Keeps(a, b)
  BY <1>2, SyncMountsKeeps DEF Keeps, Good
<1> HIDE DEF b
<1>4. Keeps(b, c)
  BY <1>3, SyncMidiKeeps DEF Keeps, Good
<1> HIDE DEF c
<1>5. Keeps(c, d)
  BY <1>4, AppLinksStep, NetStepKeeps DEF Keeps, Good
<1> HIDE DEF d
<1>6. Keeps(d, e)
  BY <1>5, MembershipStep, NetStepKeeps DEF Keeps, Good
<1> HIDE DEF e
<1>7. Keeps(e, f)
  BY <1>6, SyncGrantsKeeps DEF Keeps, Good
<1>8. server' = f
  BY <1>1 DEF a, b, c, d, e
<1> HIDE DEF f
<1>9. Keeps(server, c)
  BY <1>2, <1>3, <1>4, KeepsTrans
<1>10. Keeps(c, f)
  BY <1>5, <1>6, <1>7, KeepsTrans
<1>11. Keeps(server, f)
  BY <1>9, <1>10, KeepsTrans
<1>12. UNCHANGED <<undo, component>>
  BY DEF Tick
<1> QED
  BY <1>8, <1>11, <1>12, SameUndo DEF CanvasInv, StepOk, Keeps

LEMMA StutterStep == ASSUME CanvasInv, UNCHANGED vars PROVE StepOk
<1>1. server' = server /\ UNCHANGED <<undo, component>>
  BY DEF vars
<1> QED
  BY <1>1, KeepsSelf, SameUndo DEF CanvasInv, StepOk, Keeps

LEMMA EveryStep == ASSUME CanvasInv, [Next]_vars PROVE StepOk
BY CreateNodeStep, DeleteNodeStep, CreateWireStep, DeleteWireStep, SetTokenStep, RunNodeStep,
   UndoStep, PublishStep, TickStep, StutterStep DEF Next

LEMMA StepKeeps == ASSUME CanvasInv, [Next]_vars PROVE CanvasInv'
<1>1. StepOk
  BY EveryStep
<1>2. Good(server)'
  BY <1>1 DEF StepOk, Good, Base, Types, Unique, Nets, Hosts, Mounts, Routes, Grants,
              HasTrunk, ImportsNet, IsGateway
<1> QED
  BY <1>1, <1>2 DEF CanvasInv, StepOk

LEMMA Invariant == Spec => []CanvasInv
BY InitGood, StepKeeps, PTL DEF Spec

-----------------------------------------------------------------------------

\* No effect outlives its wire: at every moment a mount, a MIDI route, a frame
\* or clipboard grant, a network membership and a host access belong to a wire
\* that is on the canvas then, through every order of commands, undos, compile
\* threads and ticks (close_node, remove_net_node, toggle_net and the sync_*
\* reconcilers of server.rs).
THEOREM Effects == Spec => []EffectsFollowWires
<1>1. CanvasInv => EffectsFollowWires
  BY DEF CanvasInv, Good, Base, Nets, Hosts, Mounts, Routes, Grants, EffectsFollowWires
<1> QED
  BY <1>1, Invariant, PTL

\* An app is on one network, behind one HostPort and holds one grant of each
\* kind (toggle_unique, and the private links of sync_app_link_nets).
THEOREM OneEach == Spec => []OnePerSource
<1>1. CanvasInv => OnePerSource
  BY DEF CanvasInv, Good, Base, Unique, OnePerSource
<1> QED
  BY <1>1, Invariant, PTL

\* No step gives an app an effect that its token denies at that moment: what a
\* command, an undo or a tick newly mounts, routes, grants or joins, the tokens
\* of the state it ends in allow (node_may_use at every reconciler, toggle_net).
THEOREM NothingDenied == Spec => DeniedGainsNothing
<1>1. ASSUME CanvasInv, [Next]_vars PROVE [GainsAllowed(server, server')]_vars
  BY <1>1, EveryStep DEF StepOk
<1> QED
  BY <1>1, Invariant, PTL DEF Spec, DeniedGainsNothing
=============================================================================
