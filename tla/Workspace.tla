----------------------------- MODULE Workspace ------------------------------
(* The workspace document and its life on disk (crates/wk-server/src/         *)
(* server.rs, workspace.rs): load, the edits that record an inverse, undo,    *)
(* group instances kept in step with their lines, and the save at shutdown,   *)
(* which writes the sidecars of persisted volumes, prunes the others, and     *)
(* rewrites the file in place.  The server may die at any point of it.        *)
(*                                                                            *)
(* Wires here are binds (a volume, or an app that serves files, onto an app); *)
(* module Canvas has the other relations, their displacement and the wires    *)
(* that wait for a component to compile.  A bind may have a mount path of its *)
(* own, a setting kept beside the wire as the container port of a serve and   *)
(* the channel of a MIDI wire are, and pruned by the same code with it.       *)
EXTENDS Instancing

CONSTANTS
    Tabs,        \* ids a tab may have
    Contents,    \* the bytes a volume may hold; Empty is one of them
    Empty,
    DefPersist,  \* volumes written in definitions with persistence on
    FirstDoc,    \* the file as it is before the first start
    UNDO_CAP,    \* inverses kept
    MAX_EDITS    \* bound: edits, settings, guest writes and failed saves, over a behaviour

VARIABLES
    phase,       \* "down", "up", or the step of the save that is next
    graph,       \* the live graph, as far as the file can say it
    undo,        \* recorded inverses, newest last
    file,        \* the .wk file: the document it parses to
    side,        \* sidecars: volume -> bytes
    avail,       \* apps whose dependency resolves on this machine
    torn,        \* history: the last save was cut short, or failed to write something
    edits        \* edits made so far

vars == <<phase, graph, undo, file, side, avail, torn, edits>>

Written(n) == IF n \in DOMAIN KindOf THEN n ELSE n[2]
Kind(n) == KindOf[Written(n)]

EmptyGraph == [tabs |-> << >>, place |-> << >>, wires |-> {}, paths |-> {}, lines |-> {}, inst |-> << >>,
               unplaced |-> << >>, uwires |-> {}, persist |-> {}, bytes |-> << >>]

Live(gr) == DOMAIN gr.place
On(gr, t) == {n \in Live(gr) : gr.place[n] = t}
is_derived(gr, n) == n \in Live(gr) /\ gr.place[n] \in DOMAIN gr.inst
Authored(gr) == {n \in Live(gr) : ~is_derived(gr, n)}
Without(f, S) == [x \in DOMAIN f \ S |-> f[x]]

\* prune_side_map: a mount path does not outlive its bind.
prune_side_map(gr) == [gr EXCEPT !.paths = @ \cap gr.wires]
-----------------------------------------------------------------------------
(* Bringing nodes and wires to life. *)

\* An app whose dependency is unknown is skipped.  A persisted volume that
\* brings no bytes of its own reads its sidecar.
materialize(gr, ws, n, persist, data) ==
    IF Kind(n) = "app" /\ Written(n) \notin avail THEN gr
    ELSE IF Kind(n) # "vol" THEN [gr EXCEPT !.place = (n :> ws) @@ @]
    ELSE [gr EXCEPT !.place = (n :> ws) @@ @,
                    !.persist = IF persist THEN @ \cup {n} ELSE @ \ {n},
                    !.bytes = (n :> (IF persist /\ data = Empty /\ n \in DOMAIN side
                                     THEN side[n] ELSE data)) @@ @]

wired(gr, a, b) == \E w \in gr.wires : {w[2], w[3]} = {a, b}

\* The wires of ws that apply_wires makes: both ends are live and nothing joins
\* them yet.
Made(gr, ws) == {w \in ws : {w[2], w[3]} \subseteq Live(gr) /\ ~wired(gr, w[2], w[3])}

\* resolve_group: the canvas is what is on the tab, other groups left out, with
\* the nodes the file holds but the runtime could not place.
Canvas(gr, ws, id) ==
    {n \in On(gr, ws) : n = id \/ Kind(n) # "group"} \cup {n \in DOMAIN gr.unplaced : gr.unplaced[n] = ws}
resolve_group(gr, ws, id) == tab_group(id, gr.lines, Canvas(gr, ws, id), << >>)

PlaceInstance(gr, i) ==
    LET placed == FoldSet(LAMBDA n, h : materialize(h, i.id, n, Written(n) \in DefPersist, Empty),
                          gr, i.nodes)
        made   == Made(placed, i.wires)
    IN  [placed EXCEPT !.wires = @ \cup made,
                       !.inst = (i.id :> [parent |-> i.parent, nodes |-> i.nodes, wires |-> made]) @@ @]

expand_group(gr, ws, id) ==
    LET r == resolve_group(gr, ws, id)
    IN  IF id \in DOMAIN gr.inst \/ ~r.ok THEN gr
        ELSE FoldLeft(LAMBDA h, i : PlaceInstance(h, i), gr, r.out)

\* rewire_group for one instance: drop what it made and no longer wants, keep
\* the rest, make what is new.
Realign(gr, i) ==
    LET had  == gr.inst[i.id].wires
        less == prune_side_map([gr EXCEPT !.wires = @ \ (had \ i.wires)])
        made == Made(less, i.wires)
    IN  IF i.id \notin DOMAIN gr.inst THEN gr
        ELSE [less EXCEPT !.wires = @ \cup made,
                          !.inst[i.id].wires = (had \cap i.wires) \cup made]

\* set_boundary_wire: one line of a group's block, and the live wiring brought
\* in line with it; a line the expansion refuses is put back.
set_boundary_wire(gr, l, on) ==
    LET edited == [gr EXCEPT !.lines = IF on THEN @ \cup {l} ELSE @ \ {l}]
        r      == resolve_group(edited, gr.place[l[1]], l[1])
    IN  IF l[1] \notin Live(gr) \/ edited = gr \/ ~r.ok THEN gr
        ELSE FoldLeft(LAMBDA h, i : Realign(h, i), edited, r.out)
-----------------------------------------------------------------------------
(* Removing them. *)

\* mutant: a removed node's boundary lines stay behind
forget_unlined(gr, ns) ==
    prune_side_map([gr EXCEPT !.place = Without(@, ns), !.bytes = Without(@, ns), !.persist = @ \ ns,
                              !.wires = {w \in @ : {w[2], w[3]} \cap ns = {}},
                              !.lines = {l \in @ : l[1] \notin ns}])

\* forget: the node, its wires and their settings, and the boundary lines that
\* name it.
forget(gr, ns) ==
    prune_side_map([gr EXCEPT !.place = Without(@, ns), !.bytes = Without(@, ns), !.persist = @ \ ns,
                              !.wires = {w \in @ : {w[2], w[3]} \cap ns = {}},
                              !.lines = {l \in @ : l[3] \notin ns /\ l[1] \notin ns}])

\* The instances in S and, level by level, the ones inside them.
Nested(gr, S) ==
    LET level[n \in Nat] ==
          IF n = 0 THEN S
          ELSE LET above == level[n - 1] IN above \cup {i \in DOMAIN gr.inst : gr.inst[i].parent \in above}
    IN  level[Cardinality(DOMAIN gr.inst)]

tear_down_instance(gr, id) ==
    LET gone == Nested(gr, {id}) \cap DOMAIN gr.inst
        less == [gr EXCEPT !.wires = @ \ UNION {gr.inst[i].wires : i \in gone},
                           !.inst = Without(@, gone)]
    IN  forget(less, UNION {gr.inst[i].nodes : i \in gone})

remove_any(gr, n) ==
    IF n \notin Live(gr) THEN gr
    ELSE IF Kind(n) = "group" THEN forget(tear_down_instance(gr, n), {n})
    ELSE forget(gr, {n})

remove_all(gr, ns) == FoldSet(LAMBDA n, h : remove_any(h, n), gr, ns)
-----------------------------------------------------------------------------
(* The file: save projects the graph, load brings the projection back. *)

\* Wires some expansion made, and wires that end on a derived node, are not the
\* author's.
derived_wires(gr) == UNION {gr.inst[i].wires : i \in DOMAIN gr.inst}
AuthoredWires(gr) ==
    {w \in gr.wires : w[2] \in Authored(gr) /\ ~is_derived(gr, w[3])} \ derived_wires(gr)

Unplaced(gr) == {n \in DOMAIN gr.unplaced : gr.unplaced[n] \in Range(gr.tabs)}

SavedWires(gr) ==
    AuthoredWires(gr) \cup {w[2] : w \in {u \in gr.uwires : u[1] \in Range(gr.tabs)}}

Saved(gr) ==
    [tabs |-> gr.tabs,
     place |-> [n \in Authored(gr) \cup Unplaced(gr) |->
                  IF n \in Authored(gr) THEN gr.place[n] ELSE gr.unplaced[n]],
     wires |-> SavedWires(gr),
     paths |-> gr.paths \cap SavedWires(gr),
     lines |-> gr.lines,
     persist |-> gr.persist \cap Authored(gr)]

\* instantiate: one tab's nodes, what could not be placed, its wires (apply_wires
\* drops the settings of those it could not make), and last its groups.
instantiate(doc, gr, t) ==
    LET ns     == {n \in DOMAIN doc.place : doc.place[n] = t}
        placed == FoldSet(LAMBDA n, h : materialize(h, t, n, n \in doc.persist, Empty), gr, ns)
        orphan == ns \ Live(placed)
        mine   == {w \in doc.wires : {w[2], w[3]} \cap ns # {}}
        kept   == [placed EXCEPT
                     !.unplaced = [n \in orphan |-> t] @@ @,
                     !.uwires = @ \cup {<<t, w>> : w \in {x \in mine : {x[2], x[3]} \cap orphan # {}}},
                     !.wires = @ \cup Made(placed, mine),
                     !.lines = @ \cup {l \in doc.lines : l[1] \in ns}]
        set    == prune_side_map([kept EXCEPT !.paths = @ \cup (doc.paths \cap mine)])
    IN  FoldSet(LAMBDA n, h : expand_group(h, t, n), set, ns \cap Groups)

Loaded(doc) ==
    FoldLeft(LAMBDA h, t : instantiate(doc, h, t), [EmptyGraph EXCEPT !.tabs = doc.tabs], doc.tabs)

\* Server::new refuses a document one of whose groups does not expand.
Expands(doc) == expand(doc.place, doc.lines).ok

\* An empty file parses: one blank tab, under a fresh id.
BlankDoc(t) == [tabs |-> <<t>>, place |-> << >>, wires |-> {}, paths |-> {}, lines |-> {}, persist |-> {}]

\* The volumes the file asks to persist, in tabs and in definitions.
Asked(doc) == doc.persist \cup (DefPersist \cap UNION {Defs[d].nodes : d \in DOMAIN Defs})
-----------------------------------------------------------------------------
(* Inverses. *)

record(u) == IF Len(undo) = UNDO_CAP THEN Append(Tail(undo), u) ELSE Append(undo, u)

\* What an inverse has to bring back: what the author wrote, persistence
\* switches aside (those record none).
Text(gr) == Without(Saved(gr), {"persist"})

UndoOf(kind, what) == [kind |-> kind, what |-> what, was |-> Text(graph)]

\* snapshot and snapshot_workspace
Snapshot(gr, n) ==
    [node |-> n, ws |-> gr.place[n], persist |-> n \in gr.persist,
     data |-> IF Kind(n) = "vol" THEN gr.bytes[n] ELSE Empty,
     wires |-> {w \in gr.wires : n \in {w[2], w[3]}},
     named |-> {l \in gr.lines : l[3] = n},
     own |-> {l \in gr.lines : l[1] = n}]

\* rewire after a snapshot: each wire between live nodes that nothing joins.
Rewired(gr, ws) == [gr EXCEPT !.wires = @ \cup Made(gr, ws)]

MaterializeSnap(gr, s) ==
    [materialize(gr, s.ws, s.node, s.persist, s.data) EXCEPT !.lines = @ \cup s.own]

\* mutant: the lines that named the node are not written again
recreate_unlined(gr, s) ==
    LET back == Rewired(MaterializeSnap(gr, s), s.wires)
    IN  IF s.node \in Groups THEN expand_group(back, s.ws, s.node) ELSE back

recreate(gr, s) ==
    LET back  == Rewired(MaterializeSnap(gr, s), s.wires)
        lined == FoldSet(LAMBDA l, h : set_boundary_wire(h, l, TRUE), back, s.named)
    IN  IF s.node \in Groups THEN expand_group(lined, s.ws, s.node) ELSE lined

recreate_workspace(gr, s) ==
    LET tab  == [gr EXCEPT !.tabs = IF s.id \in Range(@) THEN @
                                    ELSE InsertAt(@, IF s.index <= Len(@) + 1 THEN s.index ELSE Len(@) + 1,
                                                  s.id)]
        back == FoldSet(LAMBDA n, h : MaterializeSnap(h, n), tab, s.nodes)
        full == FoldSet(LAMBDA n, h : Rewired(h, n.wires), back, s.nodes)
    IN  FoldSet(LAMBDA n, h : expand_group(h, n.ws, n.node), full,
                {n \in s.nodes : n.node \in Groups})

remove_workspace(gr, t) ==
    IF Len(gr.tabs) <= 1 \/ t \notin Range(gr.tabs) THEN gr
    ELSE [remove_all(gr, On(gr, t)) EXCEPT !.tabs = SelectSeq(@, LAMBDA x : x # t)]

toggle_file(gr, a, b) ==
    prune_side_map([gr EXCEPT !.wires = IF <<"bind", a, b>> \in @ THEN @ \ {<<"bind", a, b>>}
                                        ELSE @ \cup {<<"bind", a, b>>}])

apply_undo(gr, u) ==
    CASE u.kind = "Uncreate" -> remove_all(gr, u.what)
      [] u.kind = "Wire" -> IF {u.what[1], u.what[2]} \subseteq Live(gr)
                            THEN toggle_file(gr, u.what[1], u.what[2]) ELSE gr
      [] u.kind = "Boundary" -> set_boundary_wire(gr, u.what[1], u.what[2])
      [] u.kind = "Recreate" -> recreate(gr, u.what)
      [] u.kind = "DropWorkspace" -> remove_workspace(gr, u.what)
      [] u.kind = "RecreateWorkspace" -> recreate_workspace(gr, u.what)
-----------------------------------------------------------------------------
Init ==
    /\ phase = "down" /\ graph = EmptyGraph /\ undo = << >>
    /\ file = FirstDoc
    /\ side = [v \in Asked(FirstDoc) |-> Empty]
    /\ avail = {n \in DOMAIN KindOf : KindOf[n] = "app"}
    /\ torn = FALSE /\ edits = 0

\* Server::new; a refusal leaves the process down and the file alone.
Start ==
    /\ phase = "down" /\ Expands(file)
    /\ phase' = "up" /\ graph' = Loaded(file) /\ undo' = << >>
    /\ UNCHANGED <<file, side, avail, torn, edits>>

\* A dependency is installed or goes missing between two runs.
Install(S) ==
    /\ phase = "down" /\ avail' = S /\ S # avail
    /\ UNCHANGED <<phase, graph, undo, file, side, torn, edits>>

\* The server runs, and the bound leaves an edit.
CanEdit == phase = "up" /\ edits < MAX_EDITS

Edit(u, gr) ==
    /\ CanEdit /\ edits' = edits + 1 /\ undo' = record(u) /\ graph' = gr
    /\ UNCHANGED <<phase, file, side, avail, torn>>

AddNode(n, t) ==
    /\ CanEdit /\ t \in Range(graph.tabs) /\ Kind(n) \in {"vol", "app"}
    /\ n \notin Live(graph) \cup DOMAIN graph.unplaced
    /\ Kind(n) = "app" => n \in avail
    /\ Edit(UndoOf("Uncreate", {n}), materialize(graph, t, n, FALSE, Empty))

\* A second instance of the same definition with the same lines.
DuplicateGroup(g, new) ==
    /\ CanEdit /\ g \in Live(graph) /\ new \in Groups \ Live(graph)
    /\ GroupDef[new] = GroupDef[g]
    /\ LET ws     == graph.place[g]
           placed == [graph EXCEPT !.place = (new :> ws) @@ @,
                                   !.lines = @ \cup {<<new, l[2], l[3]>> : l \in {x \in @ : x[1] = g}}]
           after  == expand_group(placed, ws, new)
       IN  Edit(UndoOf("Uncreate", Live(after) \ Live(graph)), after)

\* The client draws between two nodes of one tab; refuse_structural_edit keeps
\* it off the inside of an instance.
ToggleWire(v, a) ==
    /\ CanEdit /\ {v, a} \subseteq Authored(graph) /\ graph.place[v] = graph.place[a]
    /\ Kind(v) = "vol" /\ Kind(a) = "app"
    /\ Edit(UndoOf("Wire", <<v, a>>), toggle_file(graph, v, a))

\* Recorded after the fact: a refused line costs no inverse.
SetBoundary(l, on) ==
    /\ CanEdit /\ {l[1], l[3]} \subseteq Authored(graph)
    /\ LET after == set_boundary_wire(graph, l, on)
       IN  /\ after # graph
           /\ Edit(UndoOf("Boundary", <<l, ~on>>), after)

DeleteNode(n) ==
    /\ CanEdit /\ n \in Authored(graph)
    /\ Edit(UndoOf("Recreate", Snapshot(graph, n)), remove_any(graph, n))

AddTab(t) ==
    /\ CanEdit /\ t \notin Range(graph.tabs)
    /\ Edit(UndoOf("DropWorkspace", t), [graph EXCEPT !.tabs = Append(@, t)])

DeleteTab(t) ==
    /\ CanEdit /\ t \in Range(graph.tabs) /\ Len(graph.tabs) > 1
    /\ LET s == [id |-> t, index |-> CHOOSE i \in DOMAIN graph.tabs : graph.tabs[i] = t,
                 nodes |-> {Snapshot(graph, n) : n \in On(graph, t)}]
       IN  Edit(UndoOf("RecreateWorkspace", s), remove_workspace(graph, t))

Undo ==
    /\ phase = "up" /\ undo # << >>
    /\ undo' = Front(undo) /\ graph' = apply_undo(graph, Last(undo))
    /\ UNCHANGED <<phase, file, side, avail, torn, edits>>

\* Edits that record no inverse.
TogglePersist(v) ==
    /\ CanEdit /\ v \in DOMAIN graph.bytes
    /\ graph' = [graph EXCEPT !.persist = IF v \in @ THEN @ \ {v} ELSE @ \cup {v}]
    /\ edits' = edits + 1
    /\ UNCHANGED <<phase, undo, file, side, avail, torn>>

\* set_mount: the wire's mount path is set, or reset to the default.
SetMount(w) ==
    /\ CanEdit /\ w \in graph.wires
    /\ graph' = [graph EXCEPT !.paths = IF w \in @ THEN @ \ {w} ELSE @ \cup {w}]
    /\ edits' = edits + 1
    /\ UNCHANGED <<phase, undo, file, side, avail, torn>>

GuestWrites(v, x) ==
    /\ CanEdit /\ v \in DOMAIN graph.bytes /\ graph.bytes[v] # x
    /\ graph' = [graph EXCEPT !.bytes[v] = x]
    /\ edits' = edits + 1
    /\ UNCHANGED <<phase, undo, file, side, avail, torn>>
-----------------------------------------------------------------------------
(* The save at shutdown, one step of it at a time. *)

\* mutant: pruning by what is live
KeepSet_live == graph.persist

\* The sidecars after the writing of every persisted volume's bytes.  Those of
\* bad fail, and the save goes on: what was there stays, or (cut) is truncated.
SidesWritten(bad, cut) ==
    [v \in (graph.persist \ bad) \cup cut \cup DOMAIN side |->
        IF v \in cut THEN Empty ELSE IF v \in graph.persist \ bad THEN graph.bytes[v] ELSE side[v]]
KeepSet == Asked(Saved(graph)) \cup graph.persist

WriteSidecars ==
    /\ phase = "up" /\ phase' = "prune" /\ side' = SidesWritten({}, {}) /\ torn' = FALSE
    /\ UNCHANGED <<graph, undo, file, avail, edits>>

\* An I/O error is logged, and no step of the save is taken back for it.
Failure == torn' = TRUE /\ edits < MAX_EDITS /\ edits' = edits + 1

SidecarsFail ==
    /\ phase = "up" /\ phase' = "prune" /\ Failure
    /\ \E bad \in SUBSET graph.persist \ {{}} : \E cut \in SUBSET bad : side' = SidesWritten(bad, cut)
    /\ UNCHANGED <<graph, undo, file, avail>>

\* Without its directory no sidecar is written and none is pruned; the file is.
VolumeDirFails ==
    /\ phase = "up" /\ graph.persist # {} /\ phase' = "truncate" /\ Failure
    /\ UNCHANGED <<graph, undo, file, side, avail>>

\* The sidecars nothing asks for go, those of left aside.
Pruned(left) == [v \in DOMAIN side \cap (KeepSet \cup left) |-> side[v]]

PruneSidecars ==
    /\ phase = "prune" /\ phase' = "truncate" /\ side' = Pruned({})
    /\ UNCHANGED <<graph, undo, file, avail, torn, edits>>

\* What cannot be listed or removed is left, without a word.
PruneFails ==
    /\ phase = "prune" /\ phase' = "truncate" /\ edits < MAX_EDITS /\ edits' = edits + 1
    /\ \E left \in SUBSET (DOMAIN side \ KeepSet) \ {{}} : side' = Pruned(left)
    /\ UNCHANGED <<graph, undo, file, avail, torn>>

TruncateFile ==
    /\ phase = "truncate" /\ phase' = "write"
    /\ \E t \in Tabs : file' = BlankDoc(t)
    /\ UNCHANGED <<graph, undo, side, avail, torn, edits>>

Exit == phase' = "down" /\ graph' = EmptyGraph /\ undo' = << >>

WriteFile ==
    /\ phase = "write" /\ Exit /\ file' = Saved(graph)
    /\ UNCHANGED <<side, avail, torn, edits>>

\* The file cannot be opened, and is as it was, or its bytes cannot be written:
\* Document::save's error is logged, the sidecars are pruned already.
FileFails ==
    /\ phase \in {"truncate", "write"} /\ Exit /\ Failure
    /\ UNCHANGED <<file, side, avail>>

Crash ==
    /\ phase # "down" /\ Exit
    /\ torn' = (torn \/ phase # "up")
    /\ UNCHANGED <<file, side, avail, edits>>

Lines == {<<g, p, n>> : g \in Groups, p \in DOMAIN PortRel, n \in DOMAIN KindOf}
InTabs == {n \in DOMAIN KindOf : \A d \in DOMAIN Defs : n \notin Defs[d].nodes}
Volumes == {v \in DOMAIN graph.bytes : TRUE}

Next ==
    \/ Start \/ \E n \in InTabs : KindOf[n] = "app" /\ (Install(avail \ {n}) \/ Install(avail \cup {n}))
    \/ \E n \in InTabs, t \in Tabs : AddNode(n, t)
    \/ \E g, new \in InTabs \cap Groups : DuplicateGroup(g, new)
    \/ \E v, a \in InTabs : ToggleWire(v, a)
    \/ \E l \in Lines, on \in BOOLEAN : SetBoundary(l, on)
    \/ \E n \in InTabs : DeleteNode(n)
    \/ \E t \in Tabs : AddTab(t) \/ DeleteTab(t)
    \/ Undo
    \/ \E v \in Volumes : TogglePersist(v) \/ \E x \in Contents : GuestWrites(v, x)
    \/ \E w \in graph.wires : SetMount(w)
    \/ WriteSidecars \/ SidecarsFail \/ VolumeDirFails \/ PruneSidecars \/ PruneFails
    \/ TruncateFile \/ WriteFile \/ FileFails \/ Crash

Spec == Init /\ [][Next]_vars
-----------------------------------------------------------------------------
TypeOK ==
    /\ phase \in {"down", "up", "prune", "truncate", "write"}
    /\ Range(graph.tabs) \subseteq Tabs
    /\ \A n \in Live(graph) : graph.place[n] \in Range(graph.tabs) \cup DOMAIN graph.inst
    /\ \A w \in graph.wires : {w[2], w[3]} \subseteq Live(graph)
    /\ DOMAIN graph.bytes = {n \in Live(graph) : Kind(n) = "vol"}
    /\ graph.persist \subseteq DOMAIN graph.bytes /\ graph.paths \subseteq graph.wires

\* What a restart gives back, whatever edits and undos led here.  As long as no
\* more instances are live than one expansion may make, the document a shutdown
\* would write now is one the next start accepts (Server::new refuses a file with
\* one group that does not expand); it gives the same tabs and nodes (derived
\* ones included), and a second save writes the same document, mount paths
\* included, whatever could or could not be placed.
SavedFileLoads ==
    phase = "up" /\ Cardinality(DOMAIN graph.inst) <= MAX_INSTANCES =>
        LET doc  == Saved(graph)
            next == Loaded(doc)
        IN  /\ Expands(doc)
            /\ Saved(next) = doc
            /\ next.place = graph.place
            /\ next.unplaced = [n \in Unplaced(graph) |-> graph.unplaced[n]]

\* Every file a shutdown writes is accepted by the next start.  Fails: a group
\* that is duplicated is held to MAX_INSTANCES by itself (resolve_group), the
\* document as a whole (Server::new).
EverySavedFileLoads == phase = "up" => Expands(Saved(graph))

\* Every volume the file asks to persist has a sidecar, unless the last save was
\* cut short or failed to write something: the keep-set is the document's, not
\* what happens to be running, and the pruning before the file is written takes
\* nothing the file will ask for.
AskedForIsKept == phase \in {"down", "up"} /\ ~torn => Asked(file) \subseteq DOMAIN side

\* The same after any crash and any failed write, as save_persisted_volumes says
\* of its pruning.  Fails: the old file outlives sidecars it asks for.
AskedForIsAlwaysKept == phase \in {"down", "up"} => Asked(file) \subseteq DOMAIN side

\* A step that takes the newest inverse off the stack.
Undoing == phase = "up" /\ phase' = "up" /\ Len(undo') < Len(undo)

\* Undo brings back what the author had written before the newest edit still on
\* the stack, the mount paths of wires aside.
UndoRestores ==
    [][Undoing => Without(Text(graph'), {"paths"}) = Without(Last(undo).was, {"paths"})]_vars

\* Undo brings back the mount paths too.  Fails: a delete or an unwiring prunes
\* them, and neither Undo::Wire nor a Snapshot has them.
UndoRestoresSettings == [][Undoing => Last(undo).was.paths \subseteq graph'.paths]_vars

\* A start followed by a save leaves the file's mount paths as they were.  Fails:
\* those of a wire whose app cannot be placed are pruned, though the wire itself
\* is kept for the file.
UnplacedKeepSettings == [][Start => Saved(graph').paths = file.paths]_vars

\* The live wiring is what the file says: a restart would make the same wires.
WiringIsWhatTheFileSays == phase = "up" => Loaded(Saved(graph)).wires = graph.wires
=============================================================================
