------------------------------- MODULE Client -------------------------------
(***************************************************************************)
(* The window client (crates/client-local-ui) and the server it is         *)
(* attached to.  The client keeps a snapshot of the document that it       *)
(* refreshes once per frame, decides every gesture against that snapshot,  *)
(* and sends commands that the server thread applies later; other clients  *)
(* edit the same document in between.  Input events (buttons, keys) arrive *)
(* between frames and only set flags; the frame acts on them.              *)
(*                                                                         *)
(* Positions, zoom, drawing, the fly camera and the text in the fields are *)
(* left out: what is under the cursor is chosen by the environment.  An    *)
(* instance's boundary line is a wire like any other here: the client      *)
(* toggles both by what its snapshot shows.  The mount-path and MIDI       *)
(* channel labels are one editor: a wire has one or the other.  Commands   *)
(* that change neither tabs, nodes nor wires (Update, Run, Duplicate,      *)
(* SetMount, SetMidiChannel) are not followed into the server.             *)
(***************************************************************************)
EXTENDS Integers, FiniteSets, Sequences, SequencesExt

CONSTANTS Tab,        \* workspace ids, minted ones included
          FirstTabs,  \* the document's tabs when the client attaches
          Node,       \* node ids
          KindOf,     \* [Node -> {"app", "note", "file", "uplink"}]
          HomeTab,    \* [Node -> Tab], where a node was created (node_ws)
          Wireable,   \* pairs of nodes whose ports match
          None,
          PENDING_WS_FRAMES,
          EARLIER,    \* `wk view` requests made before this client attached
          MAX_INBOX,  \* bound on commands the server has not applied yet
          MAX_OTHERS, \* bound on what other clients do
          MAX_INPUTS  \* bound on the user's clicks and keys

ASSUME ClientAssumption ==
  /\ KindOf \in [Node -> {"app", "note", "file", "uplink"}]
  /\ FirstTabs # <<>> /\ PENDING_WS_FRAMES \in Nat

VARIABLES
  doc,      \* the server's document: ws, live, wires, attached, view_mode
  inbox,    \* commands sent and not yet applied, in order
  others,   \* edits other clients have made so far
  inputs,   \* clicks and keys so far
  ui,       \* the client: struct App
  buttons   \* lmb and prev_lmb

clientVars == <<doc, inbox, others, inputs, ui, buttons>>

Op(op, x) == [op |-> op, on |-> x]

(***************************************************************************)
(* The server's side: View::for_workspace narrows everything to one tab,   *)
(* the attached set too; surfaces and tabs come through whole.             *)
(***************************************************************************)
View(d) == [nodes |-> d.live, wires |-> d.wires, attached |-> d.attached]

for_workspace(v, t) ==
  LET mine(n) == HomeTab[n] = t
  IN [nodes    |-> {n \in v.nodes : mine(n)},
      wires    |-> {w \in v.wires : mine(w[1]) /\ mine(w[2])},
      attached |-> {n \in v.attached : mine(n)}]

\* What deleting nodes takes with it.
Without(d, gone) ==
  [d EXCEPT !.live = @ \ gone, !.attached = @ \ gone,
            !.wires = {w \in @ : w[1] \notin gone /\ w[2] \notin gone}]

apply(d, c) ==
  CASE c.op = "new_ws" -> IF c.on \in Range(d.ws) THEN d
                          ELSE [d EXCEPT !.ws = Append(@, c.on)]
    [] c.op = "del_ws" ->
         IF Len(d.ws) <= 1 \/ c.on \notin Range(d.ws) THEN d
         ELSE [Without(d, {n \in d.live : HomeTab[n] = c.on})
                 EXCEPT !.ws = SelectSeq(@, LAMBDA t : t # c.on)]
    [] c.op = "del_node" -> Without(d, {c.on})
    [] c.op = "new_wire" ->
         IF {c.on[1], c.on[2]} \subseteq d.live
         THEN [d EXCEPT !.wires = @ \union {c.on}] ELSE d
    [] c.op = "del_wire" -> [d EXCEPT !.wires = @ \ {c.on}]

(***************************************************************************)
(* The client.                                                             *)
(***************************************************************************)
PaletteCmds == {"NewWorkspace", "CloseWorkspace", "View3d", "Quit"}
NoPending == [id |-> None, left |-> 0]

FirstNodes == {n \in Node : HomeTab[n] \in Range(FirstTabs)}

InitDoc == [ws |-> FirstTabs, live |-> FirstNodes, wires |-> {}, attached |-> {},
            view_mode |-> [seq |-> EARLIER, want_3d |-> EARLIER > 0]]

InitUi ==
  LET t == FirstTabs[1] IN
  [tabs |-> FirstTabs, active |-> t, pending |-> NoPending,
   mode_3d |-> FALSE, view_mode_seq |-> 0,
   view |-> for_workspace(View(InitDoc), t),
   kbd_focus |-> None, editing_args |-> None, editing_note |-> None,
   editing_wire |-> None, wire_sel |-> None, del_wire |-> FALSE,
   drag |-> None, wire3d |-> None,
   panel |-> FALSE,      \* the inspector or the log view is open
   palette_open |-> FALSE, palette_run |-> None,
   minted |-> {},        \* tabs this client has created
   waited |-> 0,         \* history: frames since it last created one
   late |-> None,        \* history: the wire whose label the last frame's click opened
   run |-> TRUE,         \* FALSE once the window is gone
   out |-> <<>>]         \* commands sent in the current step

send(u, c) == [u EXCEPT !.out = Append(@, c)]
First(s) == s[1]


\* Without the hold: the tab must already be in the view.
reconcile_active_ws_eager(u, ws) ==
  [u EXCEPT !.active = IF @ \in Range(ws) THEN @ ELSE First(ws),
            !.pending = NoPending]

\* Hold a switch to a tab this client minted until it lands or patience ends.
reconcile_active_ws(u, ws) ==
  LET p == u.pending
      held == IF p.id = None \/ p.id \in Range(ws) THEN NoPending
              ELSE IF p.id = u.active /\ p.left > 0
                   THEN [p EXCEPT !.left = @ - 1] ELSE NoPending
  IN IF u.active \notin Range(ws) /\ held.id = None
     THEN [u EXCEPT !.active = First(ws), !.pending = NoPending]
     ELSE [u EXCEPT !.pending = held]

new_workspace(u, id) ==
  [send(u, Op("new_ws", id)) EXCEPT
     !.active = id, !.pending = [id |-> id, left |-> PENDING_WS_FRAMES],
     !.minted = @ \union {id}, !.waited = 0]

Position(s, x) == IF x \in Range(s) THEN CHOOSE i \in DOMAIN s : s[i] = x ELSE 1

cycle_tab(u, forward) ==
  LET n == Len(u.tabs)
      i == Position(u.tabs, u.active)
      j == IF forward THEN (i % n) + 1 ELSE ((i + n - 2) % n) + 1
  IN IF n < 2 THEN u ELSE [u EXCEPT !.active = u.tabs[j]]

close_workspace(u, id) ==
  LET i == Position(u.tabs, id) IN
  IF Len(u.tabs) <= 1 THEN u
  ELSE [send(u, Op("del_ws", id)) EXCEPT
          !.active = IF @ # id THEN @
                     ELSE IF i > 1 THEN u.tabs[i - 1] ELSE u.tabs[2],
          !.tabs = SelectSeq(@, LAMBDA t : t # id)]

\* The wires joining two nodes, in either direction.
wire_between(u, a, b) == u.view.wires \cap {<<a, b>>, <<b, a>>}

\* Create or delete, by what the snapshot shows between the two nodes.
finish_wire_drag(u, src, dst) ==
  LET joined == wire_between(u, src, dst) IN
  IF joined # {} THEN send(u, Op("del_wire", CHOOSE w \in joined : TRUE))
  ELSE send(u, Op("new_wire", <<src, dst>>))

commit_note(u) == [u EXCEPT !.editing_note = None]

run_node(u, id) ==
  [u EXCEPT !.editing_args = IF @ = id THEN None ELSE @]

\* A `wk view` request is applied once, when its sequence number is new.
apply_view_request(u, req) ==
  IF req.seq = u.view_mode_seq THEN u
  ELSE [u EXCEPT !.view_mode_seq = req.seq, !.mode_3d = req.want_3d]

run_palette(u, fresh) ==
  LET v == [u EXCEPT !.palette_run = None] IN
  CASE u.palette_run = None -> u
    [] u.palette_run = "NewWorkspace" ->
         IF fresh = None THEN v ELSE new_workspace(v, fresh)
    [] u.palette_run = "CloseWorkspace" -> close_workspace(v, v.active)
    [] u.palette_run = "View3d" -> [v EXCEPT !.mode_3d = ~@]
    [] u.palette_run = "Quit" -> [v EXCEPT !.run = FALSE]

(***************************************************************************)
(* One frame, in the order frame() does it.                                *)
(***************************************************************************)
\* Reads the server, follows the tabs, and picks the slice to show.
Refresh(u, d) ==
  LET v == apply_view_request(
             reconcile_active_ws([u EXCEPT !.tabs = d.ws], d.ws), d.view_mode)
  IN [v EXCEPT !.view = IF v.mode_3d THEN View(d)
                        ELSE for_workspace(View(d), v.active)]

\* Keyboard focus is kept when its node leaves the view.
DropUnseen_focus(u) ==
  LET keep(x) == IF x \in u.view.nodes THEN x ELSE None IN
  [u EXCEPT !.editing_args = keep(@), !.editing_note = keep(@),
            !.editing_wire = IF @ \in u.view.wires THEN @ ELSE None]

\* Drops keyboard and edit state that points at what the view has lost.
DropUnseen(u) ==
  LET keep(x) == IF x \in u.view.nodes THEN x ELSE None IN
  [u EXCEPT !.editing_args = keep(@), !.editing_note = keep(@),
            !.editing_wire = IF @ \in u.view.wires THEN @ ELSE None,
            !.kbd_focus = keep(@)]

\* The terminals a frame reads: those of every tab, except the ones the view
\* says a command-line client is attached to.
Drained(u, d) == {n \in d.live : KindOf[n] = "app"} \ u.view.attached

\* Nodes a wire from src may be dropped on.
Targets(u, src) == {n \in u.view.nodes : <<src, n>> \in Wireable}

\* A drag goes on while the button is down; a Connect that finds it up joins
\* whatever is under the cursor.  A node that left the view ends its drag.
ContinueDrag(u, lmb, over) ==
  IF u.drag = None THEN u
  ELSE IF u.drag.id \notin u.view.nodes THEN [u EXCEPT !.drag = None]
  ELSE IF lmb THEN u
  ELSE LET v == [u EXCEPT !.drag = None]
       IN IF u.drag.mode = "Connect" /\ over \in Targets(u, u.drag.id)
          THEN finish_wire_drag(v, u.drag.id, over) ELSE v

\* The parts of a node's widget.
Parts(n) ==
  CASE KindOf[n] = "note" -> {"close", "grab", "body"}
    [] KindOf[n] = "file" -> {"close", "grab"}
    [] KindOf[n] = "uplink" -> {"close", "grab", "args"}
    [] KindOf[n] = "app"  -> {"close", "grab", "body", "files", "run", "args"}

\* Both ends of a wire are placed on the view (wire_endpoints).
Drawn(u, w) == w # None /\ {w[1], w[2]} \subseteq u.view.nodes

\* What the cursor may be on; an open panel or palette covers the rest.
Hits(u) ==
  {[at |-> "label", of |-> w] : w \in {x \in {u.wire_sel} : Drawn(u, x)}}
  \union
  IF u.panel THEN {[at |-> x, of |-> None] : x \in {"inside", "empty"}}
  ELSE IF u.palette_open
  THEN {[at |-> "row", of |-> c] : c \in PaletteCmds}
       \union {[at |-> "empty", of |-> None]}
  ELSE {[at |-> x, of |-> None] : x \in {"empty", "menu", "plus"}}
       \union {[at |-> x, of |-> t] : x \in {"tab", "tab_close"}, t \in Range(u.tabs)}
       \union {[at |-> "wire", of |-> w] : w \in u.view.wires}
       \union {[at |-> "port", of |-> n] :
                 n \in {m \in u.view.nodes : \E w \in Wireable : w[1] = m}}
       \union UNION {{[at |-> x, of |-> n] : x \in Parts(n)} : n \in u.view.nodes}

\* A click on a node, by its kind.
ClickNode(u, n, part) ==
  LET grab(v) == [v EXCEPT !.drag = [id |-> n, mode |-> "Move"]]
      f == IF KindOf[n] = "app" THEN [u EXCEPT !.kbd_focus = n] ELSE u
  IN CASE KindOf[n] = "app" /\ part = "close" ->
            [send(f, Op("del_node", n)) EXCEPT
               !.kbd_focus = None, !.editing_args = IF @ = n THEN None ELSE @]
       [] KindOf[n] # "app" /\ part = "close" -> send(f, Op("del_node", n))
       [] KindOf[n] = "app" /\ part = "grab" -> grab([f EXCEPT !.editing_args = None])
       [] KindOf[n] # "app" /\ part = "grab" -> grab(f)
       [] KindOf[n] = "note" /\ part = "body" ->
            [f EXCEPT !.editing_note = n]
       [] part = "files" -> [f EXCEPT !.panel = TRUE]
       [] part = "run" -> run_node(f, n)
       [] part = "args" -> [f EXCEPT !.editing_args = n]
       [] OTHER -> f

\* The clicked label edits its wire, which the view may have lost: a selection
\* is looked up only at the end of a frame.  Any other click ends that edit and the
\* selection.  A click off the edited note commits it.
ClickFields(u, h) ==
  LET v == IF h.at = "body" /\ h.of = u.editing_note THEN u ELSE commit_note(u)
  IN IF h.at = "label"
     THEN [v EXCEPT !.editing_wire = v.wire_sel, !.late = v.wire_sel]
     ELSE [v EXCEPT !.editing_wire = None, !.wire_sel = None]

Click(u, h, fresh) ==
  LET v == ClickFields(u, h)
      label == h.at = "label"
      bar == Len(v.tabs) > 1
  IN CASE v.panel -> [v EXCEPT !.panel = h.at = "inside"]
       [] ~v.panel /\ label -> v
       [] ~v.panel /\ ~label /\ v.palette_open ->
            [v EXCEPT !.palette_run = IF h.at = "row" THEN h.of ELSE @,
                      !.palette_open = FALSE]
       [] OTHER ->
            CASE h.at = "menu" -> [v EXCEPT !.palette_open = TRUE]
              [] h.at = "plus" /\ bar /\ fresh # None -> new_workspace(v, fresh)
              [] h.at = "tab_close" /\ bar -> close_workspace(v, h.of)
              [] h.at = "tab" /\ bar -> [v EXCEPT !.active = h.of]
              [] h.at = "port" -> [v EXCEPT !.drag = [id |-> h.of, mode |-> "Connect"]]
              [] h.at \in {"close", "grab", "body", "files", "run", "args"} ->
                   ClickNode(v, h.of, h.at)
              [] OTHER -> [v EXCEPT !.kbd_focus = None, !.editing_args = None,
                                    !.wire_sel = IF h.at = "wire" THEN h.of ELSE None]

\* Delete/Backspace drops whatever is selected when the frame gets to it.
DeleteWire(u) ==
  LET v == [u EXCEPT !.del_wire = FALSE]
      w == IF u.del_wire /\ u.wire_sel # None
           THEN [send(v, Op("del_wire", u.wire_sel)) EXCEPT !.wire_sel = None]
           ELSE v
  IN [w EXCEPT !.wire_sel = IF @ \in w.view.wires THEN @ ELSE None]

\* The mouse in the 3D view: the palette, then a wire being drawn, else the
\* panel under the cursor.
Mouse3d(u, lmb, down, h, over) ==
  CASE u.palette_open ->
         IF down THEN [u EXCEPT !.palette_open = FALSE,
                                !.palette_run = IF h.at = "row" THEN h.of ELSE @]
         ELSE u
    [] ~u.palette_open /\ u.wire3d # None ->
         IF lmb THEN u
         ELSE LET v == [u EXCEPT !.wire3d = None]
              IN IF over \in Targets(u, u.wire3d)
                 THEN finish_wire_drag(v, u.wire3d, over) ELSE v
    [] OTHER ->
         IF ~down THEN u
         ELSE CASE h.at = "port" -> [u EXCEPT !.wire3d = h.of]
                [] h.at = "body" -> [u EXCEPT !.kbd_focus = h.of]
                [] OTHER -> [u EXCEPT !.kbd_focus = None]

frame(u, d, lmb, down, h, over, fresh) ==
  LET v == DropUnseen(Refresh(u, d)) IN
  IF v.mode_3d
  THEN run_palette(Mouse3d(v, lmb, down, h, over), fresh)
  ELSE LET w == ContinueDrag(v, lmb, over)
       IN DeleteWire(run_palette(IF down /\ w.drag = None THEN Click(w, h, fresh)
                                 ELSE w, fresh))

(***************************************************************************)
(* Keys, handled between frames in the order window_event asks.            *)
(***************************************************************************)
Keys == {"Cmd+K", "Cmd+T", "Ctrl+Tab", "Cmd+W", "Escape", "Enter", "Delete", "other"}

TogglePalette(u) == [u EXCEPT !.palette_open = ~@]

palette_key(u, k, c) ==
  CASE k = "Escape" -> [u EXCEPT !.palette_open = FALSE]
    [] k = "Enter" -> [u EXCEPT !.palette_open = FALSE, !.palette_run = c]
    [] OTHER -> u

\* look: the right button is held, so keys fly the camera.
Key3d(u, k, c, look) ==
  CASE k = "Cmd+K" -> TogglePalette(u)
    [] k # "Cmd+K" /\ u.palette_open -> palette_key(u, k, c)
    [] OTHER -> IF k = "Escape" /\ (u.kbd_focus = None \/ look)
                THEN [u EXCEPT !.mode_3d = FALSE] ELSE u

\* The field that takes a keystroke: the args field, then the note, then the
\* wire's label.
Typist(u) ==
  CASE u.editing_args # None -> "args"
    [] u.editing_args = None /\ u.editing_note # None -> "note"
    [] OTHER -> IF u.editing_wire # None THEN "wire" ELSE None

FieldKey(u, k) ==
  CASE Typist(u) = "args" ->
         IF k = "Escape" THEN [u EXCEPT !.editing_args = None]
         ELSE IF k = "Enter" THEN run_node(u, u.editing_args) ELSE u
    [] Typist(u) = "note" -> IF k = "Escape" THEN commit_note(u) ELSE u
    [] Typist(u) = "wire" ->
         IF k \in {"Escape", "Enter"} THEN [u EXCEPT !.editing_wire = None] ELSE u

Key2d(u, k, c, fresh) ==
  CASE k = "Cmd+K" -> TogglePalette(u)
    [] k = "Cmd+T" -> IF fresh = None THEN u ELSE new_workspace(u, fresh)
    [] k = "Ctrl+Tab" -> cycle_tab(u, TRUE)
    [] k = "Cmd+W" -> close_workspace(u, u.active)
    [] OTHER ->
         IF u.panel
         THEN [u EXCEPT !.panel = k # "Escape"]
         ELSE IF u.palette_open THEN palette_key(u, k, c)
         ELSE IF Typist(u) # None THEN FieldKey(u, k)
         ELSE [u EXCEPT
                 !.run = IF k = "Escape" /\ u.kbd_focus = None THEN FALSE ELSE @,
                 !.del_wire = @ \/ (k = "Delete" /\ u.wire_sel # None
                                      /\ u.kbd_focus = None)]

(***************************************************************************)
(* Behaviour.                                                              *)
(***************************************************************************)
ClientInit ==
  /\ doc = InitDoc
  /\ inbox = <<>>
  /\ others = 0
  /\ inputs = 0
  /\ ui = InitUi
  /\ buttons = [lmb |-> FALSE, prev |-> FALSE]

\* The step's commands go to the server in the order they were sent.
Step(u) ==
  /\ Len(inbox) + Len(u.out) <= MAX_INBOX
  /\ inbox' = inbox \o u.out
  /\ ui' = [u EXCEPT !.out = <<>>]

Fresh ==
  LET unused == Tab \ (ui.minted \union Range(FirstTabs))
  IN IF unused = {} THEN None ELSE CHOOSE t \in unused : TRUE

MouseButton ==
  /\ ui.run
  /\ buttons.lmb \/ inputs < MAX_INPUTS
  /\ inputs' = IF buttons.lmb THEN inputs ELSE inputs + 1
  /\ buttons' = [buttons EXCEPT !.lmb = ~@]
  /\ UNCHANGED <<doc, inbox, others, ui>>

Key(k) ==
  /\ ui.run
  /\ inputs < MAX_INPUTS
  /\ inputs' = inputs + 1
  /\ \E c \in IF k = "Enter" /\ ui.palette_open
              THEN PaletteCmds \union {None} ELSE {None},
        look \in IF k = "Escape" /\ ui.mode_3d THEN BOOLEAN ELSE {FALSE} :
       Step(IF ui.mode_3d THEN Key3d(ui, k, c, look) ELSE Key2d(ui, k, c, Fresh))
  /\ UNCHANGED <<doc, others, buttons>>

Down == buttons.lmb /\ ~buttons.prev

Frame ==
  /\ ui.run
  /\ LET u == [ui EXCEPT !.waited = IF @ < PENDING_WS_FRAMES THEN @ + 1 ELSE @,
                          !.late = None]
         seen == DropUnseen(Refresh(u, doc))
         dragging == seen.drag # None \/ seen.wire3d # None
     IN \E h \in IF Down THEN Hits(seen) ELSE {[at |-> "empty", of |-> None]},
           over \in IF dragging /\ ~buttons.lmb THEN seen.view.nodes \union {None}
                    ELSE {None} :
          Step(frame(u, doc, buttons.lmb, Down, h, over, Fresh))
  /\ buttons' = [buttons EXCEPT !.prev = buttons.lmb]
  /\ UNCHANGED <<doc, others, inputs>>

\* The server thread: every queued command, then one publication.  A token
\* that does not cover workspaces has its creates refused.
Applied(d, cmds, allowed) ==
  LET done[n \in Nat] ==
        IF n = 0 THEN d
        ELSE IF allowed \/ cmds[n].op # "new_ws" THEN apply(done[n - 1], cmds[n])
        ELSE done[n - 1]
  IN done[Len(cmds)]

ServerTick ==
  /\ inbox # <<>>
  /\ \E allowed \in BOOLEAN : doc' = Applied(doc, inbox, allowed)
  /\ inbox' = <<>>
  /\ UNCHANGED <<others, inputs, ui, buttons>>

\* What the other clients of the same server do.
OtherEdits ==
  {apply(doc, Op("del_node", n)) : n \in doc.live}
  \union {apply(doc, Op("del_ws", t)) : t \in Range(doc.ws)}
  \union {apply(doc, Op("new_wire", w)) : w \in Wireable}
  \union {apply(doc, Op("del_wire", w)) : w \in doc.wires}
  \union {[doc EXCEPT !.attached = @ \union {n}] :
            n \in {m \in doc.live : KindOf[m] = "app"}}
  \union {[doc EXCEPT !.view_mode = [seq |-> @.seq + 1, want_3d |-> b]] : b \in BOOLEAN}

OtherClient ==
  /\ others < MAX_OTHERS
  /\ others' = others + 1
  /\ doc' \in OtherEdits
  /\ UNCHANGED <<inbox, inputs, ui, buttons>>

ClientNext ==
  \/ MouseButton
  \/ \E k \in Keys : Key(k)
  \/ Frame
  \/ ServerTick
  \/ OtherClient

ClientSpec == ClientInit /\ [][ClientNext]_clientVars

(***************************************************************************)
(* Properties.                                                             *)
(***************************************************************************)

\* Keystrokes handled between two frames go to a node or note that the last
\* frame still showed, or to the label of a wire it showed or whose label was
\* clicked in that very frame: nothing typed, and no paste, reaches the editor
\* of a node that was deleted or moved out of sight, and the editor of a wire
\* outlives the frame that saw the wire gone only when that frame's own click
\* opened it, which the next frame puts right.
NoDeadEditor ==
  /\ {ui.kbd_focus, ui.editing_args, ui.editing_note} \subseteq ui.view.nodes \union {None}
  /\ ui.editing_wire \notin ui.view.wires \union {None} =>
       ui.editing_wire = ui.late /\ Drawn(ui, ui.editing_wire)

\* The label being edited is of a wire the last frame showed.  It need not be:
\* another client deletes the selected wire, and a click on its label in the
\* frame that learns of it asks only where the two nodes are.
WireEditorIsShown == ui.editing_wire \in ui.view.wires \union {None}

\* A user who does nothing stays on the tab: a frame moves the client only
\* off a tab the server does not have and is not about to be asked for, or
\* whose create has been on its way for PENDING_WS_FRAMES frames (Cmd+T
\* before the server has applied the create).
NotDraggedBack ==
  [][ (Frame /\ ~Down /\ ui.palette_run = None /\ ui'.active # ui.active) =>
        /\ ui.active \notin Range(doc.ws)
        /\ Op("new_ws", ui.active) \in Range(inbox) =>
             ui.waited >= PENDING_WS_FRAMES ]_clientVars

\* A wire is drawn or taken away by a drag only in the frame that sees the
\* button come up.
WiredOnRelease ==
  [][ (Frame /\ Len(inbox') > Len(inbox) /\ ~Down /\ ~ui.del_wire /\ ui.palette_run = None)
        => (buttons.prev /\ ~buttons.lmb) ]_clientVars

\* The client does not read the terminal of a node that a command-line client
\* is attached to (as of the snapshot the frame worked from).
AttachedIsLeftAlone ==
  [][ Frame => Drained(ui', doc) \cap doc.attached = {} ]_clientVars

\* The note a click opens for editing is where the next keystrokes go.
TypesWhereClicked ==
  [][ (ui'.editing_note # None /\ ui'.editing_note # ui.editing_note) =>
        Typist(ui') = "note" ]_clientVars

\* A client that attaches later is not moved by a `wk view` request made
\* before it existed.
LateJoinerKeepsItsView ==
  [][ (Frame /\ others = 0 /\ ui.palette_run = None /\ ~Down)
        => ui'.mode_3d = ui.mode_3d ]_clientVars
=============================================================================
