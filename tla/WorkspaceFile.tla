--------------------------- MODULE WorkspaceFile ----------------------------
(* The `.wk` file (wk-server/src/workspace.rs): the lines a Document is       *)
(* written as and read from, the merging of the files it imports, and the     *)
(* three hands that write it - its author with an editor, `wk add` and        *)
(* `wk remove`, and the server, which loads it once and writes its own copy   *)
(* back when it stops.                                                        *)
(*                                                                            *)
(* A KDL line is its keyword, its arguments, its block and the comment above  *)
(* it.  An argument is <<"str", s>>, <<"num", n>> or <<"bool", b>>; an        *)
(* optional value is a sequence of at most one.                               *)
EXTENDS Integers, Sequences, FiniteSets, SequencesExt, FiniteSetsExt, TLC

CONSTANTS
    Ids,         \* the strings that parse as node ids
    Blank,       \* the id of the workspace made for a file that holds none
    Scratch,     \* the id of the tab made for a document that has none
    Main, Paths, \* the file wk is run on; it and the files it may import
    FirstDisk,   \* what the files say at first
    AuthorLines, \* <<block, line>>: what the author may write, at the end of a block
    Snaps,       \* the nodes the server may place
    NewDeps,     \* the dependencies `wk add` may add
    Trimmed,     \* a dependency's name as written, with its colon -> without
    MaxEdits

VARIABLES
    disk,   \* path -> its text: [header, lines], or Missing
    mem,    \* the server's Document, or Down
    cli,    \* a `wk add` between its load and its save: [doc, dep], or Idle
    asked,  \* the names of the dependencies `wk add` has reported added
    edits
vars == <<disk, mem, cli, asked, edits>>

Missing == [missing |-> TRUE]
Down == [down |-> TRUE]
Idle == [idle |-> TRUE]
-----------------------------------------------------------------------------
(* Lines.                                                                     *)

Line(kw, args, kids) == [kw |-> kw, args |-> args, kids |-> kids, bare |-> FALSE, note |-> ""]
BareLine(kw, args) == [Line(kw, args, << >>) EXCEPT !.bare = TRUE]

\* Always quoted, so that what looks like a number or a keyword stays a string.
str_entry(s) == <<"str", s>>
Strs(ss) == [i \in DOMAIN ss |-> str_entry(ss[i])]
Nums(ns) == [i \in DOMAIN ns |-> <<"num", ns[i]>>]
Bool(b) == <<"bool", b>>

Arg(l, i) == IF i \in DOMAIN l.args THEN <<l.args[i]>> ELSE << >>
Read(tag, o) == IF o # << >> /\ o[1][1] = tag THEN <<o[1][2]>> ELSE << >>
OrElse(o, default) == IF o = << >> THEN default ELSE o[1]
string(o) == Read("str", o)
num(o) == Read("num", o)
u16(o) == SelectSeq(num(o), LAMBDA n : n \in 0..65535)
node_id(o) == SelectSeq(string(o), LAMBDA s : s \in Ids)

All(kids, key) == SelectSeq(kids, LAMBDA l : l.kw = key)
get(kids, key) == SubSeq(All(kids, key), 1, Min({1, Len(All(kids, key))}))
FirstArg(kids, key) == IF get(kids, key) = << >> THEN << >> ELSE Arg(get(kids, key)[1], 1)
text(kids, key) == string(FirstArg(kids, key))
\* All the arguments of the first such line that read as `tag`.
Values(kids, key, tag) ==
    IF get(kids, key) = << >> THEN << >>
    ELSE LET good == SelectSeq(get(kids, key)[1].args, LAMBDA a : a[1] = tag)
         IN  [i \in DOMAIN good |-> good[i][2]]
-----------------------------------------------------------------------------
(* What a line is about.                                                      *)

Named == {"node", "volume", "virtualfile", "bindmount", "hostfile", "midiin", "midiout",
          "hostservice", "group"}
Ports == {"inport", "outport"}
WireKinds == <<"connection", "midi", "serve", "netlink", "capturelink", "clipboardlink", "apilink">>

\* The separate list that node_ident once kept, without `hostservice`.
id_arg_index_drifted(kw) ==
    CASE kw \in Named \ {"hostservice"} -> 1 [] kw \in Ports -> 2 [] OTHER -> 0
id_arg_index(kw) == CASE kw \in Named -> 1 [] kw \in Ports -> 2 [] OTHER -> 0

IdentAt(l, at) ==
    LET ids == node_id(Arg(l, 1)) \o node_id(Arg(l, 2))
        id  == node_id(Arg(l, at + 1))
    IN  CASE l.kw = "import" ->
                IF string(Arg(l, 1)) = << >> THEN << >> ELSE <<"import">> \o string(Arg(l, 1))
          [] l.kw = "workspace" ->
                IF node_id(Arg(l, 1)) = << >> THEN << >> ELSE <<"workspace">> \o node_id(Arg(l, 1))
          [] l.kw \in {"dependencies", "name", "tab"} -> <<l.kw>>
          [] l.kw \in Range(WireKinds) -> IF Len(ids) < 2 THEN << >> ELSE <<l.kw>> \o ids
          [] l.kw \in {"in", "out"} ->
                LET port == string(Arg(l, 1))
                    node == node_id(Arg(l, 2))
                IN  IF port = << >> \/ node = << >> THEN << >> ELSE <<l.kw>> \o port \o node
          [] OTHER -> IF id = << >> THEN << >> ELSE <<"placed">> \o id
node_ident_drifted(l) == IdentAt(l, id_arg_index_drifted(l.kw))
node_ident(l) == IdentAt(l, id_arg_index(l.kw))

RECURSIVE graft_level(_, _)
graft_level(fresh, old) ==
    LET mine(l) == SelectSeq(old, LAMBDA o : node_ident(o) # << >> /\ node_ident(o) = node_ident(l))
        graft(l) == IF mine(l) = << >> THEN l
                    ELSE LET o == Last(mine(l))
                         IN  [l EXCEPT !.note = IF o.note = "" THEN @ ELSE o.note,
                                       !.kids = IF l.bare \/ o.bare THEN @ ELSE graft_level(@, o.kids)]
    IN  [i \in DOMAIN fresh |-> graft(fresh[i])]

graft_comments(fresh, old) ==
    [header |-> IF old.header = "" THEN fresh.header ELSE old.header,
     lines  |-> graft_level(fresh.lines, old.lines)]
-----------------------------------------------------------------------------
(* A placed node.                                                             *)

SnapWords == Named \cup Ports \cup
    {"network", "gateway", "router", "iroh", "veilid", "note", "capture", "clipboard", "api", "hostport", "multicast"}
Declarations == Ports \cup {"group"}
\* `virtualfile` and `hostfile` are read as what they are called now.
KindOfWord(kw) == CASE kw = "virtualfile" -> "volume" [] kw = "hostfile" -> "bindmount" [] OTHER -> kw

\* The settings of a kind that are one string in its block.
Texts(kind) ==
    CASE kind = "node" -> {"name", "token"} [] kind = "group" -> {"name"}
      [] kind \in {"iroh", "veilid"} -> {"secret", "peer"} [] kind = "note" -> {"text"}
      [] kind = "hostservice" -> {"target"} [] kind = "multicast" -> {"iface"} [] OTHER -> {}

PortKinds == {"bind", "midi", "capture", "clipboard", "api", "net", "serve"}
DEFAULT_SIZE == <<130, 44>>

xy(kids, key) ==
    IF get(kids, key) = << >> THEN << >>
    ELSE LET l == get(kids, key)[1]
             ns == num(Arg(l, 1)) \o num(Arg(l, 2))
         IN  IF Len(ns) = 2 THEN <<ns>> ELSE << >>
pose(kids) ==
    IF get(kids, "pos3d") = << >> THEN << >>
    ELSE LET l == get(kids, "pos3d")[1]
             at == num(Arg(l, 1)) \o num(Arg(l, 2)) \o num(Arg(l, 3))
         IN  IF Len(at) = 3 THEN <<Append(at, OrElse(num(Arg(l, 4)), 0))>> ELSE << >>

\* The arguments before the id; a device name may be left out or be anything.
LeadOf(l) ==
    LET raw == [i \in 1..id_arg_index(l.kw) |-> string(Arg(l, i))]
    IN  IF l.kw \in {"midiin", "midiout"} THEN <<OrElse(raw[1], "")>> ELSE FlattenSeq(raw)
LeadReads(l) ==
    /\ Len(LeadOf(l)) = id_arg_index(l.kw)
    /\ l.kw \in Ports => LeadOf(l)[2] \in PortKinds

\* `in` and `out` lines of a group; validate_group has seen that they read.
GroupWires(kids, dir) ==
    LET ls == All(kids, dir)
    IN  [i \in DOMAIN ls |-> <<OrElse(string(Arg(ls[i], 1)), ""), OrElse(node_id(Arg(ls[i], 2)), "")>>]
Listed(kids, key) == FlattenSeq([i \in DOMAIN All(kids, key) |-> string(Arg(All(kids, key)[i], 1))])

parse_snap(l) ==
    LET kind == KindOfWord(l.kw)
        id   == node_id(Arg(l, id_arg_index(l.kw) + 1))
        decl == l.kw \in Declarations
        kids == IF l.bare THEN << >> ELSE l.kids
        set  == [key \in Texts(kind) |-> text(kids, key)]
        port == u16(FirstArg(kids, "port"))
    IN  IF \/ id = << >> \/ l.kw \notin SnapWords \/ ~LeadReads(l)
           \/ l.bare /\ ~decl
           \/ kind = "hostport" /\ port = << >>
           \/ kind = "hostservice" /\ set["target"] = << >>
           \/ ~decl /\ << >> \in {xy(kids, "pos"), xy(kids, "size")}
        THEN << >>
        ELSE <<[id |-> id[1], kind |-> kind, lead |-> LeadOf(l),
                texts |-> IF kind = "note" THEN [text |-> <<OrElse(set["text"], "")>>] ELSE set,
                options |-> IF kind = "node" THEN Values(kids, "options", "num") ELSE << >>,
                args |-> CASE kind = "node" -> Values(kids, "args", "str")
                           [] kind = "multicast" -> Listed(kids, "group") [] OTHER -> << >>,
                port |-> IF kind = "hostport" THEN port ELSE << >>,
                persist |-> kind = "volume" /\ OrElse(Read("bool", FirstArg(kids, "persist")), FALSE),
                ins  |-> IF kind = "group" THEN GroupWires(kids, "in") ELSE << >>,
                outs |-> IF kind = "group" THEN GroupWires(kids, "out") ELSE << >>,
                pos  |-> OrElse(xy(kids, "pos"), <<0, 0>>),
                size |-> OrElse(xy(kids, "size"), DEFAULT_SIZE),
                pos3d |-> pose(kids),
                panel3d |-> OrElse(Read("bool", FirstArg(kids, "panel3d")), TRUE)]>>

If(c, ls) == IF c THEN ls ELSE << >>
Leaf(kw, args) == BareLine(kw, args)
TextLine(s, key) == If(key \in DOMAIN s.texts /\ s.texts[key] # << >>, <<Leaf(key, Strs(s.texts[key]))>>)
WireLines(dir, ws) == [i \in DOMAIN ws |-> Leaf(dir, <<str_entry(ws[i][1]), str_entry(ws[i][2])>>)]

\* What a kind writes before its geometry.
OwnLines(s) ==
    CASE s.kind \in {"iroh", "veilid"} -> TextLine(s, "secret") \o TextLine(s, "peer")
      [] s.kind = "hostport" -> <<Leaf("port", Nums(s.port))>>
      [] s.kind = "note" -> TextLine(s, "text")
      [] s.kind = "hostservice" -> TextLine(s, "target")
      [] s.kind = "multicast" -> TextLine(s, "iface") \o [i \in DOMAIN s.args |-> Leaf("group", Strs(<<s.args[i]>>))]
      [] s.kind = "group" -> WireLines("in", s.ins) \o WireLines("out", s.outs)
      [] s.kind = "volume" -> If(s.persist, <<Leaf("persist", <<Bool(TRUE)>>)>>)
      [] OTHER -> << >>

SnapLine(s, own) ==
    Line(s.kind, Strs(Append(s.lead, s.id)),
         own
         \o <<Leaf("pos", Nums(s.pos)), Leaf("size", Nums(s.size))>>
         \o If(s.pos3d # << >>, [i \in DOMAIN s.pos3d |-> Leaf("pos3d", Nums(s.pos3d[i]))])
         \o If(~s.panel3d, <<Leaf("panel3d", <<Bool(FALSE)>>)>>)
         \o If(s.kind = "node" /\ s.options # << >>, <<Leaf("options", Nums(s.options))>>)
         \o If(s.kind = "node" /\ s.args # << >>, <<Leaf("args", Strs(s.args))>>)
         \o TextLine(s, "token"))

\* The chosen name as one more arm of the match: a named group loses its wires.
snap_kdl_name_first(s) ==
    SnapLine(s, IF TextLine(s, "name") # << >> THEN TextLine(s, "name") ELSE OwnLines(s))
snap_kdl(s) == SnapLine(s, TextLine(s, "name") \o OwnLines(s))
-----------------------------------------------------------------------------
(* A workspace.                                                               *)

EmptyWorkspace(id) ==
    [id |-> id, name |-> << >>, tab |-> TRUE, nodes |-> << >>,
     links |-> [k \in Range(WireKinds) |-> << >>], extra |-> << >>]

pair(l) == IF node_id(Arg(l, 1)) # << >> /\ node_id(Arg(l, 2)) # << >>
           THEN <<node_id(Arg(l, 1)) \o node_id(Arg(l, 2))>> ELSE << >>
\* The third argument a wire may carry: where it mounts, its channel, its port.
ThirdArg(l) ==
    CASE l.kw = "connection" -> string(Arg(l, 3))
      [] l.kw = "midi" -> SelectSeq(num(Arg(l, 3)), LAMBDA n : n \in 1..16)
      [] l.kw = "serve" -> u16(Arg(l, 3))
      [] OTHER -> << >>
ThirdArgLine(k, v) == IF k = "connection" THEN str_entry(v) ELSE <<"num", v>>

parse_line(ws, l) ==
    CASE l.kw = "name" -> [ws EXCEPT !.name = <<OrElse(string(Arg(l, 1)), "")>>]
      [] l.kw = "tab" -> [ws EXCEPT !.tab = OrElse(Read("bool", Arg(l, 1)), TRUE)]
      [] l.kw \in Range(WireKinds) ->
            [ws EXCEPT !.links[l.kw] = @ \o pair(l),
                       !.extra = IF pair(l) = << >> \/ ThirdArg(l) = << >> THEN @
                                 ELSE (<<l.kw, pair(l)[1]>> :> ThirdArg(l)[1]) @@ @]
      [] OTHER -> [ws EXCEPT !.nodes = @ \o parse_snap(l)]
parse_workspace(l) ==
    LET id == node_id(Arg(l, 1))
    IN  IF id = << >> THEN << >> ELSE <<FoldLeft(parse_line, EmptyWorkspace(id[1]), l.kids)>>

pair_kdl(ws, k, p) ==
    Leaf(k, Strs(p) \o If(<<k, p>> \in DOMAIN ws.extra, <<ThirdArgLine(k, ws.extra[<<k, p>>])>>))
workspace_kdl(ws) ==
    Line("workspace", Strs(<<ws.id>>),
         If(ws.name # << >>, <<Leaf("name", Strs(ws.name))>>)
         \o If(~ws.tab, <<Leaf("tab", <<Bool(FALSE)>>)>>)
         \o [i \in DOMAIN ws.nodes |-> snap_kdl(ws.nodes[i])]
         \o FlattenSeq([j \in DOMAIN WireKinds |->
                LET k == WireKinds[j]
                IN  [i \in DOMAIN ws.links[k] |-> pair_kdl(ws, k, ws.links[k][i])]]))
-----------------------------------------------------------------------------
(* A document.                                                                *)

\* An npm-style colon after the name is tolerated, and not written back.
DepName(kw) == IF kw \in DOMAIN Trimmed THEN Trimmed[kw] ELSE kw

parse_dep(l) ==
    IF string(Arg(l, 1)) = << >> THEN << >>
    ELSE <<[name |-> DepName(l.kw), source |-> string(Arg(l, 1))[1], args |-> Values(l.kids, "args", "str"),
            description |-> text(l.kids, "description")]>>
dep_kdl(d) ==
    LET sub == If(d.description # << >>, <<Leaf("description", Strs(d.description))>>)
               \o If(d.args # << >>, <<Leaf("args", Strs(d.args))>>)
    IN  IF sub = << >> THEN Leaf(d.name, Strs(<<d.source>>)) ELSE Line(d.name, Strs(<<d.source>>), sub)

\* Declarations are refused, not skipped, when they cannot be read.
validate_group(l) ==
    /\ string(Arg(l, 1)) # << >> /\ node_id(Arg(l, 2)) # << >>
    /\ \A c \in Range(l.kids) : c.kw \in {"in", "out"} =>
           string(Arg(c, 1)) # << >> /\ node_id(Arg(c, 2)) # << >>
validate_boundaries(lines) ==
    \A ws \in Range(All(lines, "workspace")) :
        /\ \A l \in Range(ws.kids) :
              /\ l.kw = "group" => validate_group(l)
              /\ l.kw \in Ports =>
                    /\ string(Arg(l, 1)) # << >>
                    /\ OrElse(string(Arg(l, 2)), "") \in PortKinds \ {"net", "serve"}
        /\ \A i, j \in DOMAIN ws.kids :
              i # j /\ ws.kids[i].kw \in Ports /\ ws.kids[i].kw = ws.kids[j].kw
              => Arg(ws.kids[i], 1) # Arg(ws.kids[j], 1)

Reads(t) == t # Missing /\ validate_boundaries(t.lines)
\* One file, its imports not followed.
load(t) ==
    LET deps == get(t.lines, "dependencies")
        wss  == FlattenSeq([i \in DOMAIN All(t.lines, "workspace") |-> parse_workspace(All(t.lines, "workspace")[i])])
    IN  [imports |-> Listed(t.lines, "import"),
         dependencies |-> IF deps = << >> THEN << >>
                          ELSE FlattenSeq([i \in DOMAIN deps[1].kids |-> parse_dep(deps[1].kids[i])]),
         workspaces |-> IF wss = << >> THEN <<EmptyWorkspace(Blank)>> ELSE wss,
         imported_deps |-> {}, imported_workspaces |-> {}, scratch_tab |-> << >>]

\* What came from an import stays in the file it came from.
to_kdl_doc(doc) ==
    LET deps == SelectSeq(doc.dependencies, LAMBDA d : d.name \notin doc.imported_deps)
        wss  == SelectSeq(doc.workspaces, LAMBDA w : w.id \notin doc.imported_workspaces)
    IN  [header |-> "",
         lines |-> [i \in DOMAIN doc.imports |-> Leaf("import", Strs(<<doc.imports[i]>>))]
                   \o If(deps # << >>, <<Line("dependencies", << >>, [i \in DOMAIN deps |-> dep_kdl(deps[i])])>>)
                   \o [i \in DOMAIN wss |-> workspace_kdl(wss[i])]]

save(doc, old) == IF old = Missing THEN to_kdl_doc(doc) ELSE graft_comments(to_kdl_doc(doc), old)

\* A workspace nobody wrote: no name, a tab, no node and none of these wires.
Phantom(ws) ==
    /\ ws.name = << >> /\ ws.tab /\ ws.nodes = << >>
    /\ \A k \in {"connection", "midi", "serve", "netlink"} : ws.links[k] = << >>
\* The first of each name, or id, is the one that counts.
merge_dep(imported, m, d) ==
    IF d.name \in {e.name : e \in Range(m.dependencies)} THEN m
    ELSE [m EXCEPT !.dependencies = Append(@, d), !.imported_deps = IF imported THEN @ \cup {d.name} ELSE @]
merge_workspace(imported, m, w) ==
    IF w.id \in {v.id : v \in Range(m.workspaces)} \/ (imported /\ Phantom(w)) THEN m
    ELSE [m EXCEPT !.workspaces = Append(@, w), !.imported_workspaces = IF imported THEN @ \cup {w.id} ELSE @]

\* acc is the document so far, the files seen and whether all of them read.
RECURSIVE resolve_into(_, _, _, _)
resolve_into(d, path, imported, acc) ==
    IF path \in acc.visited \/ ~acc.ok THEN acc
    ELSE IF path \notin DOMAIN d \/ ~Reads(d[path]) THEN [acc EXCEPT !.ok = FALSE]
    ELSE LET Merged(doc) ==
                 LET m0 == IF imported THEN acc.doc ELSE [acc.doc EXCEPT !.imports = doc.imports]
                     m1 == FoldLeft(LAMBDA m, x : merge_dep(imported, m, x), m0, doc.dependencies)
                 IN  FoldLeft(LAMBDA m, w : merge_workspace(imported, m, w), m1, doc.workspaces)
             Followed(doc) ==
                 FoldLeft(LAMBDA a, i : resolve_into(d, i, TRUE, a),
                          [acc EXCEPT !.doc = Merged(doc), !.visited = @ \cup {path}], doc.imports)
         IN  Followed(load(d[path]))

load_resolved(d) ==
    LET nothing == [imports |-> << >>, dependencies |-> << >>, workspaces |-> << >>,
                    imported_deps |-> {}, imported_workspaces |-> {}, scratch_tab |-> << >>]
        Tabbed(r) ==
            IF ~r.ok THEN << >>
            ELSE IF \E w \in Range(r.doc.workspaces) : w.tab THEN <<r.doc>>
            ELSE <<[r.doc EXCEPT !.workspaces = Append(@, EmptyWorkspace(Scratch)), !.scratch_tab = <<Scratch>>]>>
    IN  Tabbed(resolve_into(d, Main, FALSE, [doc |-> nothing, visited |-> {}, ok |-> TRUE]))
-----------------------------------------------------------------------------
(* The hands.                                                                 *)

Edit == edits < MaxEdits /\ edits' = edits + 1

\* What a line is about, whatever the code makes of it: the ids on it.
IdsOn(l) == SelectSeq(l.args, LAMBDA a : a[1] = "str" /\ a[2] \in Ids)
Subject(l) == <<l.kw \in Range(WireKinds) \cup {"in", "out", "workspace"}, IdsOn(l)>>

\* The author writes one line more, with a comment above it; ids are kept apart.
Author(where, l) ==
    LET t == disk[Main]
        put(ls) == [i \in DOMAIN ls |->
            IF node_ident(ls[i]) = where THEN [ls[i] EXCEPT !.kids = Append(@, l)] ELSE ls[i]]
        new == IF where = << >> THEN Append(t.lines, l) ELSE put(t.lines)
    IN  /\ Edit /\ t # Missing /\ new # t.lines
        /\ \A b \in Range(t.lines) : \A k \in {b} \cup Range(b.kids) :
              l # k /\ (IdsOn(l) # << >> => Subject(l) # Subject(k))
        /\ disk' = [disk EXCEPT ![Main].lines = new]
        /\ UNCHANGED <<mem, cli, asked>>

\* `wk init`.
init ==
    /\ disk[Main] = Missing
    /\ disk' = [disk EXCEPT ![Main] = to_kdl_doc(load([header |-> "", lines |-> << >>]))]
    /\ UNCHANGED <<mem, cli, asked, edits>>

\* `wk add`: the file is read, the source pulled or built, the file written.
add(d) ==
    /\ Edit /\ cli = Idle /\ Reads(disk[Main])
    /\ cli' = [doc |-> load(disk[Main]), dep |-> d]
    /\ UNCHANGED <<disk, mem, asked>>
Ensured ==
    /\ cli # Idle /\ cli' = Idle
    /\ IF cli.dep.name \in {d.name : d \in Range(cli.doc.dependencies)} THEN UNCHANGED <<disk, asked>>
       ELSE /\ disk' = [disk EXCEPT ![Main] =
                  save([cli.doc EXCEPT !.dependencies = Append(@, cli.dep)], @)]
            /\ asked' = asked \cup {cli.dep.name}
    /\ UNCHANGED <<mem, edits>>
EnsureFails ==
    /\ cli # Idle /\ cli' = Idle
    /\ UNCHANGED <<disk, mem, asked, edits>>

\* `wk remove`.
remove(name) ==
    /\ Edit /\ Reads(disk[Main])
    /\ \E doc \in {load(disk[Main])} :
          LET left == SelectSeq(doc.dependencies, LAMBDA d : d.name # name)
          IN  /\ left # doc.dependencies
              /\ disk' = [disk EXCEPT ![Main] = save([doc EXCEPT !.dependencies = left], @)]
    /\ asked' = asked \ {name}
    /\ UNCHANGED <<mem, cli>>

\* `wk run`: the files are read once.
Start ==
    /\ mem = Down
    /\ \E doc \in Range(load_resolved(disk)) : mem' = doc
    /\ UNCHANGED <<disk, cli, asked, edits>>

InMem(f(_)) == mem' = [mem EXCEPT !.workspaces = [i \in DOMAIN @ |-> f(@[i])]]
\* An edit of the canvas, as the file will tell it.
Place(w, s) ==
    /\ Edit /\ mem # Down
    /\ w \in {v.id : v \in {x \in Range(mem.workspaces) : x.tab}}
    /\ s.id \notin UNION {{n.id : n \in Range(v.nodes)} : v \in Range(mem.workspaces)}
    /\ InMem(LAMBDA v : IF v.id = w THEN [v EXCEPT !.nodes = Append(@, s)] ELSE v)
    /\ UNCHANGED <<disk, cli, asked>>
\* A node is deleted and its wires with it.
Delete(id) ==
    LET without(w) ==
        [w EXCEPT !.nodes = SelectSeq(@, LAMBDA n : n.id # id),
                  !.links = [k \in DOMAIN @ |-> SelectSeq(@[k], LAMBDA p : id \notin Range(p))],
                  !.extra = [x \in {y \in DOMAIN @ : id \notin Range(y[2])} |-> @[x]]]
    IN  /\ Edit /\ mem # Down
        /\ \E w \in Range(mem.workspaces) : w.tab /\ id \in {n.id : n \in Range(w.nodes)}
        /\ InMem(LAMBDA w : IF w.tab THEN without(w) ELSE w)
        /\ UNCHANGED <<disk, cli, asked>>

\* What the server writes: a scratch tab that is still empty stays out.
Kept(doc) == [doc EXCEPT !.workspaces =
                SelectSeq(@, LAMBDA w : <<w.id>> # doc.scratch_tab \/ w.nodes # << >>)]
Stop ==
    /\ mem # Down /\ mem' = Down
    /\ disk' = [disk EXCEPT ![Main] = save(Kept(mem), @)]
    /\ UNCHANGED <<cli, asked, edits>>

Init ==
    /\ disk = FirstDisk /\ mem = Down /\ cli = Idle
    /\ asked = {} /\ edits = 0

Placing == \E w \in Ids, s \in Snaps : Place(w, s)
Next ==
    \/ \E a \in AuthorLines : Author(a[1], a[2])
    \/ init
    \/ \E d \in NewDeps : add(d)
    \/ Ensured \/ EnsureFails
    \/ \E d \in NewDeps : remove(d.name)
    \/ Start \/ Placing
    \/ \E id \in Ids : Delete(id)
    \/ Stop
Spec == Init /\ [][Next]_vars
-----------------------------------------------------------------------------
TypeOK ==
    /\ DOMAIN disk = Paths /\ edits \in 0..MaxEdits
    /\ mem # Down => \E w \in Range(mem.workspaces) : w.tab
    /\ asked \subseteq {d.name : d \in NewDeps}

\* What the next start reads if the server saves now, and what it holds (a
\* scratch tab that is written down is one no more).
Reread == load_resolved([disk EXCEPT ![Main] = save(Kept(mem), @)])
Held == IF Kept(mem) = mem THEN [mem EXCEPT !.scratch_tab = << >>] ELSE mem

\* A document without the tabs it got from other files.
Own(doc) ==
    [doc EXCEPT !.workspaces = SelectSeq(@, LAMBDA w : ~(w.tab /\ w.id \in doc.imported_workspaces))]

\* Whatever the author wrote and the canvas became, the file the server would
\* write now loads, and loads as what the server holds, imported tabs aside: no
\* kind of node loses a setting, no wire its third argument, an imported
\* dependency, definition or tab is neither copied into the file nor lost, and a
\* tab invented for a file of definitions does not appear in it.
ReadsBackTheSame ==
    mem # Down => \E doc \in Range(Reread) :
                      /\ Own(doc) = Own(Held)
                      /\ {w.id : w \in Range(doc.workspaces)} = {w.id : w \in Range(Held.workspaces)}

\* NOT so: an imported tab is read back as the server holds it.  It is live and
\* can be edited like any other, and to_kdl_doc leaves it out of the file.
ImportedEditsAreKept == mem # Down => Reread = <<Held>>

\* A comment and what it is written above, in which blocks.
Subjects(t) ==
    IF t = Missing THEN {}
    ELSE UNION {{<<<<Subject(b)>>, b.note>>}
                \cup {<<<<Subject(b), Subject(l)>>, l.note>> : l \in Range(b.kids)}
                \cup UNION {{<<<<Subject(b), Subject(l), Subject(c)>>, c.note>> : c \in Range(l.kids)}
                            : l \in Range(b.kids)} : b \in Range(t.lines)}
HasId(s) == Last(s[1])[2] # << >>

\* Whoever saves, a comment stays above the line it was written above for as
\* long as a line about the same node, wire or workspace is written at all.
NotesKept ==
    [][\A s \in {x \in Subjects(disk[Main]) : x[2] # "" /\ HasId(x)} :
          s[1] \in {x[1] : x \in Subjects(disk'[Main])} => s \in Subjects(disk'[Main])]_vars

\* NOT kept: `save` says "the header, per-node notes, and formatting all
\* survive", but the line of a dependency has no node id and so no identity:
\* the comment above it goes with the first save.
DepLines(t) == IF t = Missing THEN {}
               ELSE UNION {Range(b.kids) : b \in Range(All(t.lines, "dependencies"))}
EveryNoteKept ==
    [][\A l \in DepLines(disk[Main]), k \in DepLines(disk'[Main]) : l.kw = k.kw => l.note = k.note]_vars

\* NOT so: a dependency that `wk add` reported added is in the file until
\* `wk remove` takes it out.  A server started before the `wk add` writes the
\* dependencies it loaded; a second `wk add` during the pull of the first too.
AddIsKept ==
    mem = Down /\ disk[Main] # Missing => asked \subseteq {d.name : d \in Range(load(disk[Main]).dependencies)}

\* NOT so: "the bare line `multicast "<id>"` is the whole of the common case".
\* A node without a block, or without a place and a size in it, is skipped, and
\* the next save takes its line out of the file.
LinesAreRead ==
    [][mem = Down /\ mem' # Down =>
          \A b \in Range(disk[Main].lines) : \A l \in Range(b.kids) :
             l.kw = "multicast" /\ IdsOn(l) # << >> /\ Subject(b)[2] # << >>
             => \E w \in Range(mem'.workspaces) : \E n \in Range(w.nodes) : n.id = IdsOn(l)[1][2]]_vars
=============================================================================
