---------------------------- MODULE MCWorkspace -----------------------------
(* What wk keeps: the workspace with its sidecars, or (part) the text of its *)
(* file as it is read, edited and written back, or the image store and the   *)
(* builder that fills it.  They share no state here, and a behaviour is one  *)
(* of one of them.                                                           *)
(*                                                                           *)
(* Two tabs; a volume, an app and two groups on the first; a definition with *)
(* an app, a persisted volume, a port and a nested group, and one with an    *)
(* app and a port.  The groups make three instances, as many as one          *)
(* expansion may; a duplicate makes one more.                                *)
(* Images are over two names, each a file, a link to the second, or a        *)
(* directory with one entry.                                                 *)
(* The file is an authored one that imports a definition and a tab, one with *)
(* definitions only, or missing; every kind of node can be placed and every  *)
(* line be written.                                                          *)
EXTENDS Workspace

CONSTANTS ImageSteps, t1, t2, v, a, g, h, h2, x, y, p, outp, kid, z, q

MCTabs == {t1, t2}
MCKindOf ==
    [n \in {v, y} |-> "vol"] @@ [n \in {a, x, z} |-> "app"] @@ [n \in {g, h, h2, kid} |-> "group"]
    @@ [n \in {p, q} |-> "in"] @@ (outp :> "out")
MCPortRel == [n \in {p, q, outp} |-> "bind"]

MCDefs ==
    ("outer" :> [nodes |-> {x, y, p, kid}, wires |-> {<<"bind", p, x>>, <<"bind", y, x>>},
                 lines |-> {<<kid, q, p>>}])
    @@ ("inner" :> [nodes |-> {z, q}, wires |-> {<<"bind", q, z>>}, lines |-> {}])
MCGroupDef == (g :> "outer") @@ [n \in {h, h2, kid} |-> "inner"]
MCDefPersist == {y}

MCFirstDoc ==
    [tabs |-> <<t1>>, place |-> [n \in {v, a, g, h} |-> t1], wires |-> {<<"bind", v, a>>},
     paths |-> {<<"bind", v, a>>}, lines |-> {<<g, p, v>>}, persist |-> {v}]
-----------------------------------------------------------------------------
VARIABLES part, store, images, wasms, tags, alias, build, unseen, steps

One == <<"bytes">>
D == <<"d">>
E == <<"e">>
DX == <<"d", "x">>
ImagePaths == {D, E, DX, <<"e", "x">>}
Tar(white, opaque, dirs, files) ==
  [white |-> white, opaque |-> opaque, dirs |-> dirs, files |-> files, links |-> << >>]
EX == <<"e", "x">>
Tars == {Tar({}, {}, {}, E :> One), Tar({}, {}, {D}, DX :> One @@ EX :> One)}
PulledImage == [layers |-> <<Tar({}, {}, {}, DX :> One), Tar({}, {D}, {}, E :> One)>>, exe |-> E]

Img == INSTANCE Images WITH
  Paths <- ImagePaths, Contents <- {One}, LinkTargets <- {E}, MAX_SYMLINK_HOPS <- 3,
  ContextTars <- Tars, Pulled <- PulledImage, Tags <- {"t"}, MaxStages <- 1, MaxSteps <- ImageSteps

imgVars == <<store, images, wasms, tags, alias, build, unseen, steps>>
-----------------------------------------------------------------------------
VARIABLES disk, mem, cli, asked, w_edits
fileVars == <<disk, mem, cli, asked, w_edits>>

SId == {"w", "d", "l", "t", "b", "s", "n1", "n2", "n3"}
Str(s) == <<"str", s>>
L(kw, args, kids, note) == [kw |-> kw, args |-> args, kids |-> kids, bare |-> FALSE, note |-> note]
B(kw, args, note) == [L(kw, args, << >>, note) EXCEPT !.bare = TRUE]
Ids2(i, j) == <<Str(i), Str(j)>>
Geo == <<B("pos", <<<<"num", 1>>, <<"num", 2>>>>, ""), B("size", <<<<"num", 3>>, <<"num", 4>>>>, "")>>
Files ==
  ("main" :> [header |-> "h", lines |->
      <<B("import", <<Str("lib")>>, "i"),
        L("dependencies", << >>, <<B("old", <<Str("old.wasm")>>, "o")>>, "d"),
        L("workspace", <<Str("w")>>, <<L("hostservice", <<Str("api"), Str("n1")>>, <<B("target", <<Str("h")>>, "")>> \o Geo, "c1")>>, "w")>>])
  @@ ("lib" :> [header |-> "", lines |->
      <<B("import", <<Str("main")>>, ""),
        L("dependencies", << >>, <<B("kit", <<Str("kit.wasm")>>, "k")>>, ""),
        L("workspace", <<Str("l")>>, <<B("name", <<Str("voice")>>, ""), B("tab", <<<<"bool", FALSE>>>>, ""),
             B("inport", <<Str("notes"), Str("midi"), Str("n3")>>, "")>>, ""),
        L("workspace", <<Str("t")>>, <<B("name", <<Str("shared")>>, "")>>, "")>>])
Definitions == [header |-> "", lines |-> <<L("workspace", <<Str("d")>>, <<B("tab", <<<<"bool", FALSE>>>>, "")>>, "d")>>]
Snap(kind, lead, id) ==
  [id |-> id, kind |-> kind, lead |-> lead, texts |-> << >>, options |-> << >>, args |-> << >>, port |-> << >>,
   persist |-> FALSE, ins |-> << >>, outs |-> << >>, pos |-> <<5, 6>>, size |-> <<7, 8>>, pos3d |-> << >>, panel3d |-> TRUE]
Uplink == [secret |-> <<"k">>, peer |-> << >>]
Placeable ==
  {Snap(kind, << >>, "n2") : kind \in {"network", "gateway", "router", "capture", "clipboard", "api"}}
  \cup {Snap(kind, <<"-.0">>, "n2") : kind \in {"bindmount", "midiin", "midiout"}}
  \cup {[Snap(kind, << >>, "n2") EXCEPT !.texts = Uplink] : kind \in {"iroh", "veilid"}}
  \cup {[Snap("volume", <<"true">>, "n2") EXCEPT !.persist = b] : b \in BOOLEAN}
  \cup {[Snap("node", <<"kit">>, "n2") EXCEPT !.texts = [name |-> nm, token |-> << >>], !.args = <<"a", "">>,
          !.options = <<0, 1>>, !.pos3d = <<<<1, 2, 3, 0>>>>] : nm \in {<< >>, <<"second">>}}
  \cup {[Snap("note", << >>, "n2") EXCEPT !.texts = [text |-> <<"">>], !.panel3d = FALSE],
        [Snap("hostport", << >>, "n2") EXCEPT !.port = <<8080>>],
        [Snap("hostservice", <<"db">>, "n2") EXCEPT !.texts = [target |-> <<"h">>]],
        [Snap("multicast", << >>, "n2") EXCEPT !.texts = [iface |-> << >>], !.args = <<"g1", "g2">>]}
  \cup {[Snap("group", <<"voice">>, "n2") EXCEPT !.texts = [name |-> nm], !.ins = <<<<"notes", "n1">>>>,
          !.outs = <<<<"sound", "n1">>>>] : nm \in {<< >>, <<"lead">>}}
TypedLines ==
  {<<<<"workspace", "w">>, l>> : l \in {
      L("virtualfile", Ids2("old", "n3"), Geo, "c3"),
      L("group", <<Str("voice"), Str("n3")>>, <<B("in", Ids2("notes", "n1"), "c4")>>, "c5"),
      B("multicast", <<Str("n3")>>, "c6"),
      B("midi", Ids2("n1", "n3") \o <<<<"num", 9>>>>, "c7"),
      B("connection", Ids2("n3", "n1") \o <<Str("/data")>>, "c8"),
      B("capturelink", Ids2("n1", "U"), "c9"),
      B("name", <<Str("")>>, "c10"),
      B("outport", <<Str("notes"), Str("net"), Str("n3")>>, "c11")}}
  \cup {<<<<"dependencies">>, L("more:", <<Str("oci://more")>>, <<B("args", <<Str("x")>>, "")>>, "c12")>>,
        <<<< >>, L("workspace", <<Str("l")>>, <<B("serve", Ids2("n1", "n2"), "c13")>>, "c14")>>,
        <<<< >>, L("workspace", <<Str("U")>>, << >>, "c15")>>,
        <<<< >>, B("import", <<Str("gone")>>, "c16")>>}
W == INSTANCE WorkspaceFile WITH Ids <- SId, Blank <- "b", Scratch <- "s", Main <- "main", Paths <- {"main", "lib"},
  AuthorLines <- TypedLines, Trimmed <- ("more:" :> "more"), Snaps <- Placeable, MaxEdits <- 2, edits <- w_edits, FirstDisk <- Files,
  NewDeps <- {[name |-> "kit", source |-> "new.wasm", args |-> << >>, description |-> << >>],
              [name |-> "synth", source |-> "synth.wasm", args |-> << >>, description |-> << >>]}
-----------------------------------------------------------------------------
FirstDisks == {Files, [Files EXCEPT !["main"] = Definitions], [Files EXCEPT !["main"] = W!Missing]}
FileInit == /\ disk \in (IF part = "file" THEN FirstDisks ELSE {Files})
            /\ mem = W!Down /\ cli = W!Idle /\ asked = {} /\ w_edits = 0

MCInit == /\ part \in {"workspace", "images", "file"}
          /\ Init /\ Img!Init /\ FileInit
MCNext ==
  \/ part = "workspace" /\ Next /\ UNCHANGED <<part, imgVars, fileVars>>
  \/ part = "images" /\ Img!Next /\ UNCHANGED <<part, vars, fileVars>>
  \/ part = "file" /\ W!Next /\ UNCHANGED <<part, vars, imgVars>>
MCSpec == MCInit /\ [][MCNext]_<<part, vars, imgVars, fileVars>>

\* Mounting an image gives what its build had (see Images).
ReplayIsTheBuild == part = "images" => Img!ReplayIsTheBuild
\* What is saved is read back as it was (see WorkspaceFile).
ReadsBackTheSame == part = "file" => W!ReadsBackTheSame
\* A comment stays at the node it is about (see WorkspaceFile).
NotesKept == W!NotesKept
=============================================================================
