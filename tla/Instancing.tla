----------------------------- MODULE Instancing -----------------------------
(* Expansion of `group` nodes (crates/wk-server/src/instancing.rs).  A         *)
(* definition is a workspace that is not a tab; each group that names it is an *)
(* instance: the definition's nodes under ids of their own, its wires, and the *)
(* wires through its boundary ports collapsed onto the nodes the group's       *)
(* `in`/`out` lines name.  Groups inside a definition expand in turn.          *)
EXTENDS Naturals, FiniteSets, Sequences, SequencesExt

CONSTANTS
    Defs,         \* name -> [nodes : set, wires : {<<rel, a, b>>}, lines : {<<group, port, node>>}]
    KindOf,       \* written node -> "app" | "vol" | "net" | "group" | "in" | "out"
    PortRel,      \* boundary port -> the relation its wires are of
    GroupDef,     \* group node -> the name of its definition
    MAX_DEPTH,    \* how deep groups may nest
    MAX_INSTANCES \* how many instances one expansion may make

\* derive_id: an id of an instance and an id of its definition give a live id
\* that is nobody else's.
derive_id(instance, inner) == <<instance, inner>>

Groups == DOMAIN GroupDef
Ports(ns) == {n \in ns : KindOf[n] \in {"in", "out"}}
Plain(ns) == {n \in ns : KindOf[n] \notin {"in", "out", "group"}}

Failed == [ok |-> FALSE, todo |-> << >>, out |-> << >>]

\* wiring::classify against the complementary port: what may stand at the far
\* end of an in-line (a source of that relation) and of an out-line (a
\* destination).
Fits(port, far) ==
    LET kind == KindOf[far]
    IN  CASE KindOf[port] = "in"  /\ PortRel[port] = "bind" -> kind \in {"vol", "app"}
          [] KindOf[port] = "in"  /\ PortRel[port] = "midi" -> kind = "app"
          [] KindOf[port] = "out" -> kind = "app"
          [] OTHER -> FALSE

OnePerSource == {"net"}

\* A line names a port of the definition and a node of the canvas the group is
\* on, of a kind the port can be wired to.
LineOk(d, canvas, l) ==
    /\ l[1] \in Ports(Defs[d].nodes)
    /\ l[2] \in canvas
    /\ Fits(l[1], l[2]) \/ (KindOf[l[2]] \in {"in", "out"} /\ PortRel[l[2]] = PortRel[l[1]]
                            /\ KindOf[l[2]] = KindOf[l[1]])

Refused(d, path, out, canvas, lines) ==
    \/ d \in Range(path)
    \/ Len(path) >= MAX_DEPTH
    \/ d \notin DOMAIN Defs
    \/ Len(out) >= MAX_INSTANCES
    \/ \E w \in Defs[d].wires : w[1] \in OnePerSource /\ w[2] \in Ports(Defs[d].nodes)
    \/ \E l \in lines : ~LineOk(d, canvas, l)

\* What an id of the definition stands for among live ids: its own derived node,
\* or, for a port, every node the level above bound to it.
Sub(i, d, lines, outer) ==
    [n \in Defs[d].nodes |->
        IF n \in Ports(Defs[d].nodes)
        THEN UNION {outer[l[2]] : l \in {x \in lines : x[1] = n}}
        ELSE {derive_id(i, n)}]

Pairs(wires, sub) ==
    UNION {{<<w[1], x, y>> : x \in sub[w[2]], y \in sub[w[3]]} : w \in wires}

\* The instance a nested group's own lines belong to.
LinesOf(lines, g) == {<<l[2], l[3]>> : l \in {x \in lines : x[1] = g}}

\* The calls of Expander::group for the groups a definition contains.
Inner(c, sub) ==
    LET ks == SetToSeq(Defs[c.d].nodes \cap Groups)
    IN  [j \in 1..Len(ks) |->
           [i |-> derive_id(c.i, ks[j]), parent |-> c.i, d |-> GroupDef[ks[j]],
            lines |-> LinesOf(Defs[c.d].lines, ks[j]), canvas |-> Defs[c.d].nodes,
            outer |-> sub, path |-> Append(c.path, c.d)]]

\* One call: this instance, and the calls it makes ahead of those that wait.
\* The first error refuses it all.
OneCall(acc) ==
    LET c    == Head(acc.todo)
        sub  == Sub(c.i, c.d, c.lines, c.outer)
        inst == [id |-> c.i, parent |-> c.parent,
                 nodes |-> {derive_id(c.i, n) : n \in Plain(Defs[c.d].nodes)},
                 wires |-> Pairs(Defs[c.d].wires, sub)]
    IN  IF acc.todo = << >> THEN acc
        ELSE IF Refused(c.d, c.path, acc.out, c.canvas, c.lines) THEN Failed
        ELSE [acc EXCEPT !.todo = Inner(c, sub) \o Tail(@), !.out = Append(@, inst)]

\* Expander::group: depth first, parents before children.  Each call that is not
\* refused adds an instance, so MAX_INSTANCES + 1 calls are enough.
group(c, out) ==
    LET run[n \in Nat] == IF n = 0 THEN [ok |-> TRUE, todo |-> <<c>>, out |-> out] ELSE OneCall(run[n - 1])
    IN  run[MAX_INSTANCES + 1]

\* One group written on a tab, after the instances of out: an endpoint on its
\* lines is already a live id.
tab_group(g, lines, canvas, out) ==
    group([i |-> g, parent |-> g, d |-> GroupDef[g], lines |-> LinesOf(lines, g), canvas |-> canvas,
           outer |-> [n \in canvas |-> {n}], path |-> << >>], out)

\* expand over a document whose nodes are placed on tabs: every group of every
\* tab, the instances counted together.
expand(place, lines) ==
    FoldLeft(LAMBDA acc, g : IF ~acc.ok THEN acc
                             ELSE tab_group(g, lines, {n \in DOMAIN place : place[n] = place[g]}, acc.out),
             [ok |-> TRUE, out |-> << >>], SetToSeq(DOMAIN place \cap Groups))
=============================================================================
