----------------------------- MODULE VfsProofs ------------------------------
(***************************************************************************)
(* For any processes, paths, layers, mounts and limits: bytes change only  *)
(* where a grant lets them, the directories form a forest, and the two     *)
(* resolvers agree.                                                        *)
(***************************************************************************)
EXTENDS Vfs, FiniteSetTheorems, SequenceTheorems, TLAPS

(***************************************************************************)
(* The invariant, of a filesystem f and the granted volumes G.             *)
(***************************************************************************)
Kinds == {"dir", "file", "shared", "host", "ro", "link", "dev", "provider"}

\* The struct: ids below the counter, nodes of the known kinds, the root a
\* directory as long as it is there.
IsFs(f) ==
  /\ f = [nodes |-> f.nodes, next |-> f.next, ro |-> f.ro, fds |-> f.fds]
  /\ f.next \in Nat \ {0}
  /\ DOMAIN f.nodes \subseteq 0 .. (f.next - 1)
  /\ \A i \in DOMAIN f.nodes :
       /\ f.nodes[i].k \in Kinds
       /\ f.nodes[i].k = "link" => f.nodes[i].to \in Path
       /\ i = ROOT => f.nodes[i].k = "dir"

\* An entry names an id that was given out, never the root; a directory is
\* named by one entry only.
EntriesBelow(f) ==
  \A d \in DOMAIN f.nodes : \A n \in DOMAIN Kids(f, d) : Kids(f, d)[n] \in 1 .. (f.next - 1)
OneEntry(f) ==
  \A d, e \in DOMAIN f.nodes : \A n \in DOMAIN Kids(f, d), m \in DOMAIN Kids(f, e) :
    Kids(f, d)[n] = Kids(f, e)[m] /\ Kind(f, Kids(f, d)[n]) = "dir" => d = e /\ n = m

\* A volume or host file that may be written through its node was granted.
WritesGranted(f, G) ==
  \A i \in DOMAIN f.nodes :
    f.nodes[i].k \in {"shared", "host"} /\ i \notin f.ro => f.nodes[i].blob \in G

Tree(f) == IsFs(f) /\ EntriesBelow(f) /\ OneEntry(f)
Good(f, G) == Tree(f) /\ WritesGranted(f, G)

\* A stream writes to a blob that was granted, wherever the mount is by now.
IsStream(s) ==
  \/ s = NoOut
  \/ s = [dst |-> s.dst, id |-> s.id, off |-> s.off] /\ s.dst \in {"node", "blob"}
StreamsGranted ==
  \A p \in Procs : IsStream(out[p]) /\ (out[p].dst = "blob" => out[p].id \in granted)

HostEntry == [at : Path, blob : Volumes, w : BOOLEAN]

VfsInv ==
  /\ Good(fs, granted)
  /\ out = [p \in Procs |-> out[p]] /\ StreamsGranted
  /\ bytes = [b \in Blobs |-> bytes[b]] /\ BytesFollowGrants
  /\ hostdir \in Seq(HostEntry)
  /\ granted \subseteq Volumes

(***************************************************************************)
(* What the helpers that change an Fs do to it.                            *)
(***************************************************************************)
Unnamed(f, id) == \A d \in DOMAIN f.nodes : \A n \in DOMAIN Kids(f, d) : Kids(f, d)[n] # id

LEMMA NoKidsEmpty == DOMAIN NoKids = {}
BY DEF NoKids

LEMMA SetNodeIs ==
  ASSUME NEW f, IsFs(f), NEW id \in DOMAIN f.nodes, NEW node
  PROVE  LET g == SetNode(f, id, node) IN
         /\ g = [nodes |-> g.nodes, next |-> f.next, ro |-> f.ro, fds |-> f.fds]
         /\ DOMAIN g.nodes = DOMAIN f.nodes
         /\ g.nodes[id] = node
         /\ \A i \in DOMAIN f.nodes : i # id => g.nodes[i] = f.nodes[i]
<1> DEFINE N == [f.nodes EXCEPT ![id] = node]
<1>1. SetNode(f, id, node) = [nodes |-> N, next |-> f.next, ro |-> f.ro, fds |-> f.fds]
  BY DEF SetNode, IsFs
<1>2. DOMAIN N = DOMAIN f.nodes /\ N[id] = node
      /\ \A i \in DOMAIN f.nodes : i # id => N[i] = f.nodes[i]
  OBVIOUS
<1> HIDE DEF N
<1> QED BY <1>1, <1>2

LEMMA AllocIs ==
  ASSUME NEW f, IsFs(f), NEW node
  PROVE  LET g == alloc(f, node) IN
         /\ g = [nodes |-> g.nodes, next |-> f.next + 1, ro |-> f.ro, fds |-> f.fds]
         /\ DOMAIN g.nodes = DOMAIN f.nodes \cup {f.next}
         /\ g.nodes[f.next] = node
         /\ \A i \in DOMAIN f.nodes : g.nodes[i] = f.nodes[i]
<1> DEFINE N == [i \in DOMAIN f.nodes \cup {f.next} |-> IF i = f.next THEN node ELSE f.nodes[i]]
<1>1. alloc(f, node) = [nodes |-> N, next |-> f.next + 1, ro |-> f.ro, fds |-> f.fds]
  BY DEF alloc, IsFs
<1>2. f.next \notin DOMAIN f.nodes
  BY DEF IsFs
<1>3. DOMAIN N = DOMAIN f.nodes \cup {f.next} /\ N[f.next] = node
      /\ \A i \in DOMAIN f.nodes : N[i] = f.nodes[i]
  BY <1>2
<1> HIDE DEF N
<1> QED BY <1>1, <1>3

LEMMA FreeIs ==
  ASSUME NEW f, IsFs(f), NEW S
  PROVE  LET g == FreeNodes(f, S) IN
         /\ g = [nodes |-> g.nodes, next |-> f.next, ro |-> f.ro, fds |-> f.fds]
         /\ DOMAIN g.nodes = DOMAIN f.nodes \ S
         /\ \A i \in DOMAIN g.nodes : g.nodes[i] = f.nodes[i]
BY DEF FreeNodes, IsFs

\* g is f with the entry name of dir set to id.
EntryAdded(f, g, dir, name, id) ==
  /\ g = [nodes |-> g.nodes, next |-> f.next, ro |-> f.ro, fds |-> f.fds]
  /\ DOMAIN g.nodes = DOMAIN f.nodes
  /\ \A i \in DOMAIN f.nodes : Kind(g, i) = Kind(f, i) /\ g.nodes[i].k = f.nodes[i].k
  /\ \A i \in DOMAIN f.nodes : i # dir => g.nodes[i] = f.nodes[i] /\ Kids(g, i) = Kids(f, i)
  /\ DOMAIN Kids(g, dir) = DOMAIN Kids(f, dir) \cup {name}
  /\ Kids(g, dir)[name] = id
  /\ \A n \in DOMAIN Kids(f, dir) : n # name => Kids(g, dir)[n] = Kids(f, dir)[n]

LEMMA AddEntryIs ==
  ASSUME NEW f, IsFs(f), NEW dir, Kind(f, dir) = "dir", NEW name, NEW id
  PROVE  EntryAdded(f, AddEntry(f, dir, name, id), dir, name, id)
<1> DEFINE K == [n \in DOMAIN Kids(f, dir) \cup {name} |-> IF n = name THEN id ELSE Kids(f, dir)[n]]
           g == SetNode(f, dir, Dir(K))
<1>1. AddEntry(f, dir, name, id) = g
  BY DEF AddEntry
<1>2. dir \in DOMAIN f.nodes
  BY DEF Kind, Has
<1>3. DOMAIN K = DOMAIN Kids(f, dir) \cup {name} /\ K[name] = id
      /\ \A n \in DOMAIN Kids(f, dir) : n # name => K[n] = Kids(f, dir)[n]
  OBVIOUS
<1> HIDE DEF K
<1>4. /\ g = [nodes |-> g.nodes, next |-> f.next, ro |-> f.ro, fds |-> f.fds]
      /\ DOMAIN g.nodes = DOMAIN f.nodes
      /\ g.nodes[dir] = Dir(K)
      /\ \A i \in DOMAIN f.nodes : i # dir => g.nodes[i] = f.nodes[i]
  BY <1>2, SetNodeIs
<1> HIDE DEF g
<1>5. Dir(K).k = "dir" /\ Dir(K).kids = K
  BY DEF Dir
<1>6. \A i \in DOMAIN f.nodes : Kind(g, i) = Kind(f, i) /\ g.nodes[i].k = f.nodes[i].k
  BY <1>4, <1>5, <1>2 DEF Kind, Has
<1>7. \A i \in DOMAIN f.nodes : i # dir => Kids(g, i) = Kids(f, i)
  BY <1>4, <1>6 DEF Kids
<1>8. Kids(g, dir) = K
  BY <1>4, <1>5, <1>6, <1>2 DEF Kids
<1> QED BY <1>1, <1>3, <1>4, <1>6, <1>7, <1>8 DEF EntryAdded

\* g is f without the entry name of dir.
EntryRemoved(f, g, dir, name) ==
  /\ g = [nodes |-> g.nodes, next |-> f.next, ro |-> f.ro, fds |-> f.fds]
  /\ DOMAIN g.nodes = DOMAIN f.nodes
  /\ \A i \in DOMAIN f.nodes : Kind(g, i) = Kind(f, i) /\ g.nodes[i].k = f.nodes[i].k
  /\ \A i \in DOMAIN f.nodes : i # dir => g.nodes[i] = f.nodes[i] /\ Kids(g, i) = Kids(f, i)
  /\ DOMAIN Kids(g, dir) = DOMAIN Kids(f, dir) \ {name}
  /\ \A n \in DOMAIN Kids(g, dir) : Kids(g, dir)[n] = Kids(f, dir)[n]

LEMMA DelEntryIs ==
  ASSUME NEW f, IsFs(f), NEW dir, Kind(f, dir) = "dir", NEW name
  PROVE  EntryRemoved(f, DelEntry(f, dir, name), dir, name)
<1> DEFINE K == [n \in DOMAIN Kids(f, dir) \ {name} |-> Kids(f, dir)[n]]
           g == SetNode(f, dir, Dir(K))
<1>1. DelEntry(f, dir, name) = g
  BY DEF DelEntry
<1>2. dir \in DOMAIN f.nodes
  BY DEF Kind, Has
<1>3. DOMAIN K = DOMAIN Kids(f, dir) \ {name} /\ \A n \in DOMAIN K : K[n] = Kids(f, dir)[n]
  OBVIOUS
<1> HIDE DEF K
<1>4. /\ g = [nodes |-> g.nodes, next |-> f.next, ro |-> f.ro, fds |-> f.fds]
      /\ DOMAIN g.nodes = DOMAIN f.nodes
      /\ g.nodes[dir] = Dir(K)
      /\ \A i \in DOMAIN f.nodes : i # dir => g.nodes[i] = f.nodes[i]
  BY <1>2, SetNodeIs
<1> HIDE DEF g
<1>5. Dir(K).k = "dir" /\ Dir(K).kids = K
  BY DEF Dir
<1>6. \A i \in DOMAIN f.nodes : Kind(g, i) = Kind(f, i) /\ g.nodes[i].k = f.nodes[i].k
  BY <1>4, <1>5, <1>2 DEF Kind, Has
<1>7. \A i \in DOMAIN f.nodes : i # dir => Kids(g, i) = Kids(f, i)
  BY <1>4, <1>6 DEF Kids
<1>8. Kids(g, dir) = K
  BY <1>4, <1>5, <1>6, <1>2 DEF Kids
<1> QED BY <1>1, <1>3, <1>4, <1>6, <1>7, <1>8 DEF EntryRemoved

(***************************************************************************)
(* Each of them keeps the tree.                                            *)
(***************************************************************************)
\* A node that can be placed: of a known kind, and with nothing below it.
Fresh(node) ==
  /\ node.k \in Kinds
  /\ node.k = "dir" => node.kids = NoKids
  /\ node.k = "link" => node.to \in Path

LEMMA AllocTree ==
  ASSUME NEW f, Tree(f), NEW node, Fresh(node)
  PROVE  Tree(alloc(f, node)) /\ Unnamed(alloc(f, node), f.next)
<1> DEFINE g == alloc(f, node)
<1>1. /\ g = [nodes |-> g.nodes, next |-> f.next + 1, ro |-> f.ro, fds |-> f.fds]
      /\ DOMAIN g.nodes = DOMAIN f.nodes \cup {f.next}
      /\ g.nodes[f.next] = node
      /\ \A i \in DOMAIN f.nodes : g.nodes[i] = f.nodes[i]
  BY AllocIs DEF Tree
<1> HIDE DEF g
<1>2. g.next = f.next + 1 /\ f.next \in Nat \ {0} /\ f.next \notin DOMAIN f.nodes
  BY <1>1 DEF Tree, IsFs
<1>3. IsFs(g)
  <2>1. DOMAIN g.nodes \subseteq 0 .. (g.next - 1)
    BY <1>1, <1>2 DEF Tree, IsFs
  <2>2. g = [nodes |-> g.nodes, next |-> g.next, ro |-> g.ro, fds |-> g.fds]
    BY <1>1
  <2> QED BY <2>1, <2>2, <1>1, <1>2 DEF IsFs, Tree, Fresh, ROOT
<1>4. \A i \in DOMAIN f.nodes : Kind(g, i) = Kind(f, i) /\ Kids(g, i) = Kids(f, i)
  BY <1>1 DEF Kind, Kids, Has
<1>5. Kids(g, f.next) = NoKids
  BY <1>1 DEF Kind, Kids, Has, Fresh
<1>6. EntriesBelow(g) /\ Unnamed(g, f.next)
  BY <1>1, <1>2, <1>4, <1>5, NoKidsEmpty DEF EntriesBelow, Unnamed, Tree
<1>7. OneEntry(g)
  <2> SUFFICES ASSUME NEW d \in DOMAIN g.nodes, NEW e \in DOMAIN g.nodes,
                      NEW n \in DOMAIN Kids(g, d), NEW m \in DOMAIN Kids(g, e),
                      Kids(g, d)[n] = Kids(g, e)[m], Kind(g, Kids(g, d)[n]) = "dir"
               PROVE  d = e /\ n = m
    BY DEF OneEntry
  <2>1. d \in DOMAIN f.nodes /\ e \in DOMAIN f.nodes
    BY <1>1, <1>5, NoKidsEmpty
  <2>2. Kids(g, d) = Kids(f, d) /\ Kids(g, e) = Kids(f, e)
    BY <2>1, <1>4
  <2>3. Kids(f, d)[n] # f.next
    BY <2>1, <2>2, <1>2 DEF Tree, EntriesBelow
  <2>4. Kind(f, Kids(f, d)[n]) = "dir"
    BY <2>2, <2>3, <1>1 DEF Kind, Has
  <2> QED BY <2>1, <2>2, <2>4 DEF Tree, OneEntry
<1> QED BY <1>3, <1>6, <1>7 DEF Tree, g

LEMMA AddEntryTree ==
  ASSUME NEW f, Tree(f), NEW dir, NEW name, NEW id \in 1 .. (f.next - 1),
         Kind(f, id) = "dir" => Unnamed(f, id)
  PROVE  Tree(AddEntry(f, dir, name, id))
<1>1. CASE Kind(f, dir) # "dir"
  BY <1>1 DEF AddEntry
<1>2. CASE Kind(f, dir) = "dir"
  <2> DEFINE g == AddEntry(f, dir, name, id)
  <2>0. EntryAdded(f, g, dir, name, id)
    BY <1>2, AddEntryIs DEF Tree
  <2>1. /\ g = [nodes |-> g.nodes, next |-> f.next, ro |-> f.ro, fds |-> f.fds]
        /\ DOMAIN g.nodes = DOMAIN f.nodes
        /\ \A i \in DOMAIN f.nodes : Kind(g, i) = Kind(f, i) /\ g.nodes[i].k = f.nodes[i].k
        /\ \A i \in DOMAIN f.nodes : i # dir => g.nodes[i] = f.nodes[i] /\ Kids(g, i) = Kids(f, i)
        /\ DOMAIN Kids(g, dir) = DOMAIN Kids(f, dir) \cup {name}
        /\ Kids(g, dir)[name] = id
        /\ \A n \in DOMAIN Kids(f, dir) : n # name => Kids(g, dir)[n] = Kids(f, dir)[n]
    BY <2>0 DEF EntryAdded
  <2> HIDE DEF g
  <2>2. g.next = f.next
    BY <2>1
  <2>3. IsFs(g)
    <3>1. dir \in DOMAIN f.nodes /\ f.nodes[dir].k = "dir"
      BY <1>2 DEF Kind, Has
    <3>2. g = [nodes |-> g.nodes, next |-> g.next, ro |-> g.ro, fds |-> g.fds]
      BY <2>1
    <3>3. ASSUME NEW i \in DOMAIN g.nodes
          PROVE  g.nodes[i].k \in Kinds /\ (g.nodes[i].k = "link" => g.nodes[i].to \in Path)
      BY <3>1, <2>1 DEF IsFs, Tree
    <3> QED BY <3>2, <3>3, <2>1, <2>2 DEF IsFs, Tree
  <2>4. EntriesBelow(g)
    <3> SUFFICES ASSUME NEW d \in DOMAIN g.nodes, NEW n \in DOMAIN Kids(g, d)
                 PROVE  Kids(g, d)[n] \in 1 .. (g.next - 1)
      BY DEF EntriesBelow
    <3> QED BY <2>1, <2>2 DEF EntriesBelow, Tree
  <2>5. \A x : Kind(g, x) = Kind(f, x)
    BY <2>1 DEF Kind, Has
  <2>6. OneEntry(g)
    <3> SUFFICES ASSUME NEW d \in DOMAIN g.nodes, NEW e \in DOMAIN g.nodes,
                        NEW n \in DOMAIN Kids(g, d), NEW m \in DOMAIN Kids(g, e),
                        Kids(g, d)[n] = Kids(g, e)[m], Kind(g, Kids(g, d)[n]) = "dir"
                 PROVE  d = e /\ n = m
      BY DEF OneEntry
    <3>1. ASSUME NEW x \in DOMAIN g.nodes, NEW y \in DOMAIN Kids(g, x), ~(x = dir /\ y = name)
          PROVE  x \in DOMAIN f.nodes /\ y \in DOMAIN Kids(f, x) /\ Kids(g, x)[y] = Kids(f, x)[y]
      BY <3>1, <2>1
    <3>2. CASE (d = dir /\ n = name) /\ ~(e = dir /\ m = name)
      BY <3>1, <3>2, <2>1, <2>5 DEF Unnamed
    <3>3. CASE ~(d = dir /\ n = name) /\ (e = dir /\ m = name)
      BY <3>1, <3>3, <2>1, <2>5 DEF Unnamed
    <3>4. CASE ~(d = dir /\ n = name) /\ ~(e = dir /\ m = name)
      <4>1. Kids(f, d)[n] = Kids(f, e)[m] /\ Kind(f, Kids(f, d)[n]) = "dir"
        BY <3>1, <3>4, <2>5
      <4> QED BY <4>1, <3>1, <3>4 DEF Tree, OneEntry
    <3> QED BY <3>2, <3>3, <3>4
  <2> QED BY <2>3, <2>4, <2>6 DEF Tree, g
<1> QED BY <1>1, <1>2

LEMMA DelEntryTree ==
  ASSUME NEW f, Tree(f), NEW dir, NEW name
  PROVE  Tree(DelEntry(f, dir, name))
<1>1. CASE Kind(f, dir) # "dir"
  BY <1>1 DEF DelEntry
<1>2. CASE Kind(f, dir) = "dir"
  <2> DEFINE g == DelEntry(f, dir, name)
  <2>0. EntryRemoved(f, g, dir, name)
    BY <1>2, DelEntryIs DEF Tree
  <2>1. /\ g = [nodes |-> g.nodes, next |-> f.next, ro |-> f.ro, fds |-> f.fds]
        /\ DOMAIN g.nodes = DOMAIN f.nodes
        /\ \A i \in DOMAIN f.nodes : Kind(g, i) = Kind(f, i) /\ g.nodes[i].k = f.nodes[i].k
        /\ \A i \in DOMAIN f.nodes : i # dir => g.nodes[i] = f.nodes[i] /\ Kids(g, i) = Kids(f, i)
        /\ DOMAIN Kids(g, dir) = DOMAIN Kids(f, dir) \ {name}
        /\ \A n \in DOMAIN Kids(g, dir) : Kids(g, dir)[n] = Kids(f, dir)[n]
    BY <2>0 DEF EntryRemoved
  <2> HIDE DEF g
  <2>2. g.next = f.next
    BY <2>1
  <2>3. IsFs(g)
    <3>1. dir \in DOMAIN f.nodes /\ f.nodes[dir].k = "dir"
      BY <1>2 DEF Kind, Has
    <3>2. g = [nodes |-> g.nodes, next |-> g.next, ro |-> g.ro, fds |-> g.fds]
      BY <2>1
    <3>3. ASSUME NEW i \in DOMAIN g.nodes
          PROVE  g.nodes[i].k \in Kinds /\ (g.nodes[i].k = "link" => g.nodes[i].to \in Path)
      BY <3>1, <2>1 DEF IsFs, Tree
    <3> QED BY <3>2, <3>3, <2>1, <2>2 DEF IsFs, Tree
  <2>4. \A d \in DOMAIN g.nodes : \A n \in DOMAIN Kids(g, d) :
          n \in DOMAIN Kids(f, d) /\ Kids(g, d)[n] = Kids(f, d)[n]
    BY <2>1
  <2>5. \A x : Kind(g, x) = Kind(f, x)
    BY <2>1 DEF Kind, Has
  <2>6. EntriesBelow(g)
    BY <2>1, <2>2, <2>4 DEF EntriesBelow, Tree
  <2>7. OneEntry(g)
    BY <2>1, <2>4, <2>5 DEF OneEntry, Tree
  <2> QED BY <2>3, <2>6, <2>7 DEF Tree, g
<1> QED BY <1>1, <1>2

LEMMA FreeTree ==
  ASSUME NEW f, Tree(f), NEW S
  PROVE  Tree(FreeNodes(f, S))
<1> DEFINE g == FreeNodes(f, S)
<1>1. /\ g = [nodes |-> g.nodes, next |-> f.next, ro |-> f.ro, fds |-> f.fds]
      /\ DOMAIN g.nodes = DOMAIN f.nodes \ S
      /\ \A i \in DOMAIN g.nodes : g.nodes[i] = f.nodes[i]
  BY FreeIs DEF Tree
<1> HIDE DEF g
<1>2. g.next = f.next
  BY <1>1
<1>3. IsFs(g)
  BY <1>1, <1>2 DEF IsFs, Tree
<1>4. \A d \in DOMAIN g.nodes : Kids(g, d) = Kids(f, d)
  BY <1>1 DEF Kids, Kind, Has
<1>5. \A x : Kind(g, x) = "dir" => Kind(f, x) = "dir"
  BY <1>1 DEF Kind, Has
<1>6. EntriesBelow(g)
  BY <1>1, <1>2, <1>4 DEF EntriesBelow, Tree
<1>7. OneEntry(g)
  BY <1>1, <1>4, <1>5 DEF OneEntry, Tree
<1> QED BY <1>3, <1>6, <1>7 DEF Tree, g

\* A node rewritten in place, from nothing below it to nothing below it.
LEMMA SetNodeTree ==
  ASSUME NEW f, Tree(f), NEW id \in DOMAIN f.nodes, NEW node, Fresh(node),
         node.k = "dir" <=> f.nodes[id].k = "dir"
  PROVE  Tree(SetNode(f, id, node))
<1> DEFINE g == SetNode(f, id, node)
<1>1. /\ g = [nodes |-> g.nodes, next |-> f.next, ro |-> f.ro, fds |-> f.fds]
      /\ DOMAIN g.nodes = DOMAIN f.nodes
      /\ g.nodes[id] = node
      /\ \A i \in DOMAIN f.nodes : i # id => g.nodes[i] = f.nodes[i]
  BY SetNodeIs DEF Tree
<1> HIDE DEF g
<1>2. g.next = f.next
  BY <1>1
<1>3. IsFs(g)
  BY <1>1, <1>2 DEF IsFs, Tree, Fresh
<1>4. /\ \A d \in DOMAIN g.nodes : d # id => Kids(g, d) = Kids(f, d)
      /\ DOMAIN Kids(g, id) = {}
  BY <1>1, NoKidsEmpty DEF Kids, Kind, Has, Fresh
<1>5. \A x : Kind(g, x) = "dir" => Kind(f, x) = "dir"
  BY <1>1 DEF Kind, Has
<1>6. EntriesBelow(g)
  BY <1>1, <1>2, <1>4 DEF EntriesBelow, Tree
<1>7. OneEntry(g)
  BY <1>1, <1>4, <1>5 DEF OneEntry, Tree
<1> QED BY <1>3, <1>6, <1>7 DEF Tree, g

(***************************************************************************)
(* And what may be written through them.                                   *)
(***************************************************************************)
\* As WritesGranted, the nodes S excepted.
WritesBut(f, G, S) ==
  \A i \in DOMAIN f.nodes \ S :
    f.nodes[i].k \in {"shared", "host"} /\ i \notin f.ro => f.nodes[i].blob \in G

LEMMA AddEntryWrites ==
  ASSUME NEW f, IsFs(f), NEW G, NEW S, WritesBut(f, G, S), NEW dir, NEW name, NEW id
  PROVE  WritesBut(AddEntry(f, dir, name, id), G, S)
<1>1. CASE Kind(f, dir) # "dir"
  BY <1>1 DEF AddEntry
<1>2. CASE Kind(f, dir) = "dir"
  <2> DEFINE g == AddEntry(f, dir, name, id)
  <2>1. EntryAdded(f, g, dir, name, id)
    BY <1>2, AddEntryIs
  <2> HIDE DEF g
  <2>2. g.ro = f.ro /\ DOMAIN g.nodes = DOMAIN f.nodes
    BY <2>1 DEF EntryAdded
  <2>3. \A i \in DOMAIN f.nodes : g.nodes[i] = f.nodes[i] \/ g.nodes[i].k = "dir"
    BY <2>1, <1>2 DEF EntryAdded, Kind, Has
  <2> QED BY <2>2, <2>3 DEF WritesBut, g
<1> QED BY <1>1, <1>2

LEMMA DelEntryWrites ==
  ASSUME NEW f, IsFs(f), NEW G, WritesGranted(f, G), NEW dir, NEW name
  PROVE  WritesGranted(DelEntry(f, dir, name), G)
<1>1. CASE Kind(f, dir) # "dir"
  BY <1>1 DEF DelEntry
<1>2. CASE Kind(f, dir) = "dir"
  <2> DEFINE g == DelEntry(f, dir, name)
  <2>0. EntryRemoved(f, g, dir, name)
    BY <1>2, DelEntryIs
  <2>1. /\ g = [nodes |-> g.nodes, next |-> f.next, ro |-> f.ro, fds |-> f.fds]
        /\ DOMAIN g.nodes = DOMAIN f.nodes
        /\ \A i \in DOMAIN f.nodes : Kind(g, i) = Kind(f, i) /\ g.nodes[i].k = f.nodes[i].k
        /\ \A i \in DOMAIN f.nodes : i # dir => g.nodes[i] = f.nodes[i] /\ Kids(g, i) = Kids(f, i)
        /\ DOMAIN Kids(g, dir) = DOMAIN Kids(f, dir) \ {name}
        /\ \A n \in DOMAIN Kids(g, dir) : Kids(g, dir)[n] = Kids(f, dir)[n]
    BY <2>0 DEF EntryRemoved
  <2> HIDE DEF g
  <2>2. g.ro = f.ro
    BY <2>1
  <2>3. \A i \in DOMAIN f.nodes : g.nodes[i] = f.nodes[i] \/ g.nodes[i].k = "dir"
    BY <2>1, <1>2 DEF Kind, Has
  <2> QED BY <2>1, <2>2, <2>3 DEF WritesGranted, g
<1> QED BY <1>1, <1>2

LEMMA FreeWrites ==
  ASSUME NEW f, IsFs(f), NEW G, WritesGranted(f, G), NEW S
  PROVE  WritesGranted(FreeNodes(f, S), G)
<1> DEFINE g == FreeNodes(f, S)
<1>1. /\ g = [nodes |-> g.nodes, next |-> f.next, ro |-> f.ro, fds |-> f.fds]
      /\ DOMAIN g.nodes = DOMAIN f.nodes \ S
      /\ \A i \in DOMAIN g.nodes : g.nodes[i] = f.nodes[i]
  BY FreeIs
<1> HIDE DEF g
<1>2. g.ro = f.ro
  BY <1>1
<1> QED BY <1>1, <1>2 DEF WritesGranted, g

LEMMA SetNodeWrites ==
  ASSUME NEW f, IsFs(f), NEW G, WritesGranted(f, G), NEW id \in DOMAIN f.nodes,
         NEW node, node.k \notin {"shared", "host"}
  PROVE  WritesGranted(SetNode(f, id, node), G)
<1> DEFINE g == SetNode(f, id, node)
<1>1. /\ g = [nodes |-> g.nodes, next |-> f.next, ro |-> f.ro, fds |-> f.fds]
      /\ DOMAIN g.nodes = DOMAIN f.nodes
      /\ g.nodes[id] = node
      /\ \A i \in DOMAIN f.nodes : i # id => g.nodes[i] = f.nodes[i]
  BY SetNodeIs
<1> HIDE DEF g
<1>2. g.ro = f.ro
  BY <1>1
<1> QED BY <1>1, <1>2 DEF WritesGranted, g

LEMMA AllocWrites ==
  ASSUME NEW f, IsFs(f), NEW G, WritesGranted(f, G), NEW node
  PROVE  WritesBut(alloc(f, node), G, {f.next})
<1> DEFINE g == alloc(f, node)
<1>1. /\ g = [nodes |-> g.nodes, next |-> f.next + 1, ro |-> f.ro, fds |-> f.fds]
      /\ DOMAIN g.nodes = DOMAIN f.nodes \cup {f.next}
      /\ g.nodes[f.next] = node
      /\ \A i \in DOMAIN f.nodes : g.nodes[i] = f.nodes[i]
  BY AllocIs
<1> HIDE DEF g
<1>2. g.ro = f.ro
  BY <1>1
<1> QED BY <1>1, <1>2 DEF WritesGranted, WritesBut, g

\* A new node under a new entry, marked read-only or not.
LEMMA PlaceTree ==
  ASSUME NEW f, NEW G, Good(f, G), NEW node, Fresh(node), NEW dir, NEW name
  PROVE  LET h == AddEntry(alloc(f, node), dir, name, f.next) IN
         /\ Tree(h) /\ h.next = f.next + 1 /\ f.next \in 1 .. (h.next - 1)
         /\ WritesBut(h, G, {f.next})
         /\ node.k # "dir" => h.nodes[f.next] = node
<1> DEFINE g == alloc(f, node)
           h == AddEntry(g, dir, name, f.next)
<1>1. Tree(g) /\ Unnamed(g, f.next)
  BY AllocTree DEF Good
<1>2. /\ g = [nodes |-> g.nodes, next |-> f.next + 1, ro |-> f.ro, fds |-> f.fds]
      /\ DOMAIN g.nodes = DOMAIN f.nodes \cup {f.next}
      /\ g.nodes[f.next] = node
  BY AllocIs DEF Good, Tree
<1>3. WritesBut(g, G, {f.next})
  BY AllocWrites DEF Good, Tree
<1> HIDE DEF g
<1>4. g.next = f.next + 1 /\ f.next \in 1 .. (g.next - 1)
  BY <1>2 DEF Good, Tree, IsFs
<1>5. Tree(h)
  BY <1>1, <1>4, AddEntryTree
<1>6. WritesBut(h, G, {f.next})
  BY <1>1, <1>3, AddEntryWrites DEF Tree
<1>7. h.next = g.next /\ (node.k # "dir" => h.nodes[f.next] = g.nodes[f.next])
  <2>1. CASE Kind(g, dir) # "dir"
    BY <2>1 DEF AddEntry
  <2>2. CASE Kind(g, dir) = "dir"
    <3>1. EntryAdded(g, h, dir, name, f.next)
      BY <2>2, <1>1, AddEntryIs DEF Tree
    <3>2. node.k # "dir" => dir # f.next
      BY <2>2, <1>2 DEF Kind
    <3> HIDE DEF h
    <3> QED BY <3>1, <3>2, <1>2 DEF EntryAdded
  <2> QED BY <2>1, <2>2
<1> HIDE DEF h
<1> QED BY <1>2, <1>4, <1>5, <1>6, <1>7 DEF g, h

LEMMA PlaceGood ==
  ASSUME NEW f, NEW G, Good(f, G), NEW node, Fresh(node), NEW dir, NEW name,
         node.k \in {"shared", "host"} => node.blob \in G
  PROVE  Good(AddEntry(alloc(f, node), dir, name, f.next), G)
<1> DEFINE h == AddEntry(alloc(f, node), dir, name, f.next)
<1>1. Tree(h) /\ WritesBut(h, G, {f.next}) /\ (node.k # "dir" => h.nodes[f.next] = node)
  BY PlaceTree
<1>2. node.k = "dir" => WritesBut(h, G, {})
  <2> SUFFICES ASSUME node.k = "dir" PROVE WritesBut(h, G, {})
    OBVIOUS
  <2> DEFINE g == alloc(f, node)
  <2>1. WritesBut(g, G, {f.next}) /\ IsFs(g)
    BY AllocWrites, AllocTree DEF Good, Tree
  <2>2. g.nodes[f.next] = node
    BY AllocIs DEF Good, Tree
  <2>3. WritesBut(g, G, {})
    BY <2>1, <2>2 DEF WritesBut
  <2> QED BY <2>1, <2>3, AddEntryWrites
<1> HIDE DEF h
<1> QED BY <1>1, <1>2 DEF Good, WritesBut, WritesGranted, h

LEMMA MarkedReadonly ==
  ASSUME NEW h, h = [nodes |-> h.nodes, next |-> h.next, ro |-> h.ro, fds |-> h.fds], NEW x
  PROVE  [h EXCEPT !.ro = @ \cup {x}] =
           [nodes |-> h.nodes, next |-> h.next, ro |-> h.ro \cup {x}, fds |-> h.fds]
<1> DEFINE r == [h EXCEPT !.ro = h.ro \cup {x}]
<1>1. r = [nodes |-> h.nodes, next |-> h.next, ro |-> h.ro \cup {x}, fds |-> h.fds]
  OBVIOUS
<1> QED BY <1>1

LEMMA PlaceReadonly ==
  ASSUME NEW f, NEW G, Good(f, G), NEW node, Fresh(node), NEW dir, NEW name
  PROVE  Good([AddEntry(alloc(f, node), dir, name, f.next) EXCEPT !.ro = @ \cup {f.next}], G)
<1> DEFINE h == AddEntry(alloc(f, node), dir, name, f.next)
           r == [h EXCEPT !.ro = @ \cup {f.next}]
<1>1. Tree(h) /\ WritesBut(h, G, {f.next})
  BY PlaceTree
<1> HIDE DEF h
<1>2. r = [nodes |-> h.nodes, next |-> h.next, ro |-> h.ro \cup {f.next}, fds |-> h.fds]
  BY <1>1, MarkedReadonly DEF Tree, IsFs
<1> HIDE DEF r
<1>3. r.nodes = h.nodes /\ r.next = h.next /\ r.ro = h.ro \cup {f.next}
  BY <1>2
<1>4. r = [nodes |-> r.nodes, next |-> r.next, ro |-> r.ro, fds |-> r.fds]
  BY <1>2
<1>5. \A x : Kind(r, x) = Kind(h, x) /\ Kids(r, x) = Kids(h, x)
  BY <1>3 DEF Kind, Kids, Has
<1>6. Tree(r)
  <2>1. IsFs(r)
    BY <1>1, <1>3, <1>4 DEF Tree, IsFs
  <2>2. EntriesBelow(r) /\ OneEntry(r)
    BY <1>1, <1>3, <1>5 DEF Tree, EntriesBelow, OneEntry
  <2> QED BY <2>1, <2>2 DEF Tree
<1>7. WritesGranted(r, G)
  BY <1>1, <1>3 DEF WritesGranted, WritesBut
<1> QED BY <1>6, <1>7 DEF Good, r, h

LEMMA FreeGood ==
  ASSUME NEW f, NEW G, Good(f, G), NEW S
  PROVE  Good(FreeNodes(f, S), G) /\ FreeNodes(f, S).next = f.next
<1>1. FreeNodes(f, S).next = f.next
  <2> DEFINE g == FreeNodes(f, S)
  <2>1. g = [nodes |-> g.nodes, next |-> f.next, ro |-> f.ro, fds |-> f.fds]
    BY FreeIs DEF Good, Tree
  <2> HIDE DEF g
  <2>2. g.next = f.next
    BY <2>1
  <2> QED BY <2>2 DEF g
<1> QED BY <1>1, FreeTree, FreeWrites DEF Good, Tree

LEMMA DelEntryGood ==
  ASSUME NEW f, NEW G, Good(f, G), NEW dir, NEW name
  PROVE  Good(DelEntry(f, dir, name), G) /\ DelEntry(f, dir, name).next = f.next
<1>1. Good(DelEntry(f, dir, name), G)
  BY DelEntryTree, DelEntryWrites DEF Good, Tree
<1>2. CASE Kind(f, dir) # "dir"
  BY <1>1, <1>2 DEF DelEntry
<1>3. CASE Kind(f, dir) = "dir"
  <2> DEFINE g == DelEntry(f, dir, name)
  <2>1. EntryRemoved(f, g, dir, name)
    BY <1>3, DelEntryIs DEF Good, Tree
  <2> HIDE DEF g
  <2>2. g.next = f.next
    BY <2>1 DEF EntryRemoved
  <2> QED BY <2>2, <1>1 DEF g
<1> QED BY <1>2, <1>3

LEMMA RemoveInGood ==
  ASSUME NEW f, NEW G, Good(f, G), NEW dir, NEW name
  PROVE  Good(remove_path_in(f, dir, name), G) /\ remove_path_in(f, dir, name).next = f.next
<1> DEFINE g == DelEntry(f, dir, name)
<1>1. Good(g, G) /\ g.next = f.next
  BY DelEntryGood
<1> HIDE DEF g
<1>2. \A S : Good(FreeNodes(g, S), G) /\ FreeNodes(g, S).next = f.next
  BY <1>1, FreeGood
<1> QED BY <1>2 DEF remove_path_in, drop_subtree, g

(***************************************************************************)
(* The recursions: the components of a path, a layer's entries, the layers *)
(* of an image, the steps of a walk.                                       *)
(***************************************************************************)
EnsureStep(comps, d, st, n) == EnsureDir(st, comps[n])
EntryStep(layer, ts, f, n) == ApplyIf(layer, ts, f, n)
LayerStep(ls, d, f, n) == apply(f, ls[n])
AtStep(f, follow, w, n) == ResolveAtStep(f, w, follow)
PlaceStep(f, follow, w, n) == ResolvePlaceStep(f, w, follow)

Ensure == INSTANCE Recursion WITH step <- EnsureStep
Entries == INSTANCE Recursion WITH step <- EntryStep
Layers == INSTANCE Recursion WITH step <- LayerStep
At == INSTANCE Recursion WITH step <- AtStep
Place == INSTANCE Recursion WITH step <- PlaceStep

LEMMA EnsureDirGood ==
  ASSUME NEW st, NEW G, Good(st.fs, G), NEW c
  PROVE  Good(EnsureDir(st, c).fs, G)
<1> DEFINE f == st.fs
           g == AddEntry(alloc(f, Dir(NoKids)), st.id, c, f.next)
<1>1. Fresh(Dir(NoKids)) /\ Dir(NoKids).k = "dir"
  BY DEF Fresh, Dir, Kinds
<1>2. Good(g, G)
  BY <1>1, PlaceGood
<1> HIDE DEF g
<1>3. EnsureDir(st, c).fs = f \/ EnsureDir(st, c).fs = g
  BY DEF EnsureDir, g
<1> QED BY <1>2, <1>3

LEMMA EnsurePathGood ==
  ASSUME NEW f, NEW G, Good(f, G), NEW comps, Len(comps) \in Nat
  PROVE  Good(ensure_dir_path(f, comps).fs, G)
<1> DEFINE run[n \in Nat] ==
             IF n = 0 THEN [fs |-> f, id |-> ROOT] ELSE EnsureDir(run[n - 1], comps[n])
<1>1. run = [n \in Nat |->
               IF n = 0 THEN [fs |-> f, id |-> ROOT] ELSE EnsureDir(run[n - 1], comps[n])]
  <2>1. PICK q : Ensure!IsRun(comps, 0, [fs |-> f, id |-> ROOT], q)
    BY Ensure!RunExists
  <2> QED BY <2>1 DEF Ensure!IsRun, EnsureStep
<1>2. ensure_dir_path(f, comps) = run[Len(comps)]
  BY DEF ensure_dir_path
<1> HIDE DEF run
<1> DEFINE T == {n \in Nat : Good(run[n].fs, G)}
<1>3. 0 \in T
  BY <1>1
<1>4. ASSUME NEW n \in Nat, n \in T PROVE n + 1 \in T
  <2>1. run[n + 1] = EnsureDir(run[n], comps[n + 1])
    BY <1>1
  <2> QED BY <2>1, <1>4, EnsureDirGood
<1> HIDE DEF T
<1>5. \A n \in Nat : n \in T
  BY <1>3, <1>4, Ensure!SetInduction
<1> QED BY <1>2, <1>5 DEF T

LEMMA ComponentsPath ==
  ASSUME NEW p \in Path
  PROVE  /\ components(p) \in Path
         /\ components(p) # <<>> => AllButLast(components(p)) \in Path
<1>1. components(p) \in Path
  <2>1. p # <<>> => Tail(p) \in Path
    BY HeadTailProperties DEF Path
  <2> QED BY <2>1 DEF components, IsAbs
<1> QED BY <1>1 DEF AllButLast, Path

LEMMA MountGood ==
  ASSUME NEW f, NEW G, Good(f, G), NEW p \in Path, NEW node, Fresh(node), NEW readonly,
         node.k \in {"shared", "host"} /\ ~readonly => node.blob \in G
  PROVE  Good(mount_node_at(f, p, node, readonly), G)
<1> DEFINE c == components(p)
           e == ensure_dir_path(f, AllButLast(c))
           g == remove_path_in(e.fs, e.id, c[Len(c)])
           h == AddEntry(alloc(g, node), e.id, c[Len(c)], e.fs.next)
           r == [h EXCEPT !.ro = @ \cup {e.fs.next}]
<1>1. SUFFICES ASSUME c # <<>> PROVE Good(mount_node_at(f, p, node, readonly), G)
  BY DEF mount_node_at
<1>2. Good(e.fs, G)
  <2>1. Len(AllButLast(c)) \in Nat
    BY <1>1, ComponentsPath DEF Path
  <2> QED BY <2>1, EnsurePathGood
<1> HIDE DEF e
<1>3. Good(g, G) /\ g.next = e.fs.next
  BY <1>2, RemoveInGood
<1> HIDE DEF g
<1>4. ~readonly => Good(h, G)
  BY <1>3, PlaceGood
<1>5. Good(r, G)
  BY <1>3, PlaceReadonly
<1>6. \/ mount_node_at(f, p, node, readonly) = e.fs
      \/ readonly /\ mount_node_at(f, p, node, readonly) = r
      \/ ~readonly /\ mount_node_at(f, p, node, readonly) = h
  BY <1>1 DEF mount_node_at, e, g
<1> HIDE DEF h, r
<1> QED BY <1>2, <1>4, <1>5, <1>6

LEMMA RemovePathGood ==
  ASSUME NEW f, NEW G, Good(f, G), NEW p
  PROVE  Good(remove_path(f, p), G)
BY RemoveInGood DEF remove_path

LEMMA ClearDirGood ==
  ASSUME NEW f, NEW G, Good(f, G), NEW p
  PROVE  Good(clear_dir_at(f, p), G)
<1> DEFINE w == resolve_at(f, ROOT, p, TRUE)
           gone == UNION {Subtree(f, k) : k \in KidIds(f, w.cur)}
           g == SetNode(f, w.cur, Dir(NoKids))
<1>1. \/ clear_dir_at(f, p) = f
      \/ Kind(f, w.cur) = "dir" /\ clear_dir_at(f, p) = FreeNodes(g, gone)
  BY DEF clear_dir_at
<1> HIDE DEF w, gone
<1>2. ASSUME Kind(f, w.cur) = "dir" PROVE Good(g, G)
  <2>1. w.cur \in DOMAIN f.nodes /\ f.nodes[w.cur].k = "dir"
    BY <1>2 DEF Kind, Has
  <2>2. Fresh(Dir(NoKids)) /\ Dir(NoKids).k = "dir"
    BY DEF Fresh, Dir, Kinds
  <2>3. Tree(g)
    BY <2>1, <2>2, SetNodeTree DEF Good
  <2>4. WritesGranted(g, G)
    BY <2>1, <2>2, SetNodeWrites DEF Good, Tree
  <2> QED BY <2>3, <2>4 DEF Good
<1> HIDE DEF g
<1> QED BY <1>1, <1>2, FreeGood

LEMMA DevicesGood ==
  ASSUME NEW f, NEW G, Good(f, G)
  PROVE  Good(ensure_standard_devices(f), G)
<1> DEFINE e == ensure_dir_path(f, <<"dev">>)
           h == AddEntry(alloc(e.fs, Device), e.id, "null", e.fs.next)
<1>1. Good(e.fs, G)
  BY EnsurePathGood
<1>2. Fresh(Device) /\ Device.k = "dev"
  BY DEF Fresh, Device, Kinds
<1>3. ensure_standard_devices(f) = e.fs \/ ensure_standard_devices(f) = h
  BY DEF ensure_standard_devices
<1> HIDE DEF e
<1>4. Good(h, G)
  BY <1>1, <1>2, PlaceGood
<1> HIDE DEF h
<1> QED BY <1>1, <1>3, <1>4

LEMMA ApplyEntryGood ==
  ASSUME NEW f, NEW G, Good(f, G), NEW e \in LayerEntry
  PROVE  Good(ApplyEntry(f, e), G)
<1>1. e.p \in Path /\ Len(e.p) \in Nat
  BY DEF LayerEntry, Path
<1>2. CASE e.t = "whiteout"
  BY <1>2, RemovePathGood DEF ApplyEntry
<1>3. CASE e.t = "opaque"
  BY <1>3, ClearDirGood DEF ApplyEntry
<1>4. CASE e.t = "dir"
  BY <1>4, <1>1, EnsurePathGood DEF ApplyEntry
<1>5. CASE e.t = "file"
  <2>1. Fresh(Blob("ro", e.blob)) /\ Blob("ro", e.blob).k = "ro"
    BY DEF Fresh, Blob, Kinds
  <2>2. Good(put_ro_file_at(f, e.p, e.blob), G)
    BY <2>1, <1>1, MountGood DEF put_ro_file_at
  <2> QED BY <2>2, <1>5 DEF ApplyEntry
<1>6. CASE e.t = "link"
  <2>1. e.to \in Path
    BY <1>6 DEF LayerEntry
  <2>2. Fresh(Symlink(e.to)) /\ Symlink(e.to).k = "link"
    BY <2>1 DEF Fresh, Symlink, Kinds
  <2>3. Good(put_symlink_at(f, e.p, e.to), G)
    BY <2>2, <1>1, MountGood DEF put_symlink_at
  <2> QED BY <2>3, <1>6 DEF ApplyEntry
<1> QED BY <1>2, <1>3, <1>4, <1>5, <1>6 DEF LayerEntry

LEMMA PassGood ==
  ASSUME NEW f, NEW G, Good(f, G), NEW layer \in Seq(LayerEntry), NEW ts
  PROVE  Good(Pass(f, layer, ts), G)
<1> DEFINE run[n \in Nat] == IF n = 0 THEN f ELSE ApplyIf(layer, ts, run[n - 1], n)
<1>1. run = [n \in Nat |-> IF n = 0 THEN f ELSE ApplyIf(layer, ts, run[n - 1], n)]
  <2>1. PICK q : Entries!IsRun(layer, ts, f, q)
    BY Entries!RunExists
  <2> QED BY <2>1 DEF Entries!IsRun, EntryStep
<1>2. Pass(f, layer, ts) = run[Len(layer)]
  BY DEF Pass
<1> HIDE DEF run
<1> DEFINE T == {n \in Nat : n <= Len(layer) => Good(run[n], G)}
<1>3. 0 \in T
  BY <1>1
<1>4. ASSUME NEW n \in Nat, n \in T PROVE n + 1 \in T
  <2> SUFFICES ASSUME n + 1 <= Len(layer) PROVE Good(run[n + 1], G)
    OBVIOUS
  <2>1. run[n + 1] = ApplyIf(layer, ts, run[n], n + 1)
    BY <1>1
  <2>2. layer[n + 1] \in LayerEntry /\ Good(run[n], G)
    BY <1>4
  <2> QED BY <2>1, <2>2, ApplyEntryGood DEF ApplyIf
<1> HIDE DEF T
<1>5. \A n \in Nat : n \in T
  BY <1>3, <1>4, Entries!SetInduction
<1> QED BY <1>2, <1>5 DEF T

LEMMA ApplyGood ==
  ASSUME NEW f, NEW G, Good(f, G), NEW layer \in Seq(LayerEntry)
  PROVE  Good(apply(f, layer), G)
<1> DEFINE a == Pass(f, layer, {"whiteout", "opaque"})
           b == Pass(a, layer, {"dir"})
           c == Pass(b, layer, {"file"})
<1>1. Good(a, G)
  BY PassGood
<1> HIDE DEF a
<1>2. Good(b, G)
  BY <1>1, PassGood
<1> HIDE DEF b
<1>3. Good(c, G)
  BY <1>2, PassGood
<1> HIDE DEF c
<1>4. Good(Pass(c, layer, {"link"}), G)
  BY <1>3, PassGood
<1> QED BY <1>4 DEF apply, a, b, c

LEMMA EmptyFsGood == ASSUME NEW G PROVE Good(EmptyFs, G)
<1> DEFINE f == EmptyFs
<1>1. /\ f = [nodes |-> f.nodes, next |-> f.next, ro |-> f.ro, fds |-> f.fds]
      /\ f.next = 1 /\ DOMAIN f.nodes = {0} /\ f.nodes[0] = Dir(NoKids)
  BY DEF EmptyFs, ROOT
<1> HIDE DEF f
<1>2. Dir(NoKids).k = "dir" /\ Dir(NoKids).kids = NoKids
  BY DEF Dir
<1>3. IsFs(f)
  BY <1>1, <1>2 DEF IsFs, Kinds
<1>4. Kids(f, 0) = NoKids
  BY <1>1, <1>2 DEF Kids, Kind, Has
<1>5. EntriesBelow(f) /\ OneEntry(f)
  BY <1>1, <1>4, NoKidsEmpty DEF EntriesBelow, OneEntry
<1>6. WritesGranted(f, G)
  BY <1>1, <1>2 DEF WritesGranted
<1> QED BY <1>3, <1>5, <1>6 DEF Good, Tree, f

LEMMA LayersGood ==
  ASSUME NEW ls \in Seq(Seq(LayerEntry)), NEW G
  PROVE  Good(MountLayers(ls), G)
<1> DEFINE run[n \in Nat] == IF n = 0 THEN EmptyFs ELSE apply(run[n - 1], ls[n])
<1>1. run = [n \in Nat |-> IF n = 0 THEN EmptyFs ELSE apply(run[n - 1], ls[n])]
  <2>1. PICK q : Layers!IsRun(ls, 0, EmptyFs, q)
    BY Layers!RunExists
  <2> QED BY <2>1 DEF Layers!IsRun, LayerStep
<1>2. MountLayers(ls) = EmptyFs \/ MountLayers(ls) = ensure_standard_devices(run[Len(ls)])
  BY DEF MountLayers
<1> HIDE DEF run
<1> DEFINE T == {n \in Nat : n <= Len(ls) => Good(run[n], G)}
<1>3. 0 \in T
  BY <1>1, EmptyFsGood
<1>4. ASSUME NEW n \in Nat, n \in T PROVE n + 1 \in T
  <2> SUFFICES ASSUME n + 1 <= Len(ls) PROVE Good(run[n + 1], G)
    OBVIOUS
  <2>1. run[n + 1] = apply(run[n], ls[n + 1])
    BY <1>1
  <2>2. ls[n + 1] \in Seq(LayerEntry) /\ Good(run[n], G)
    BY <1>4
  <2> QED BY <2>1, <2>2, ApplyGood
<1> HIDE DEF T
<1>5. \A n \in Nat : n \in T
  BY <1>3, <1>4, Layers!SetInduction
<1>6. Good(run[Len(ls)], G)
  BY <1>5 DEF T
<1> QED BY <1>2, <1>6, EmptyFsGood, DevicesGood

LEMMA InitVfs == Init => VfsInv
<1> SUFFICES ASSUME Init PROVE VfsInv
  OBVIOUS
<1>1. Good(fs, granted) /\ granted \subseteq Volumes
  <2>1. CASE fs \in {MountLayers(ls) : ls \in LayerStacks} /\ granted = {}
    <3>1. PICK ls \in LayerStacks : fs = MountLayers(ls)
      BY <2>1
    <3>2. ls \in Seq(Seq(LayerEntry))
      BY PathsAssumption
    <3> QED BY <2>1, <3>1, <3>2, LayersGood
  <2>2. CASE \E at \in MountAt, v \in Volumes, w \in BOOLEAN :
               /\ fs = mount_node_at(EmptyFs, at, Blob("shared", v), ~w)
               /\ granted = IF w THEN {v} ELSE {}
    <3>1. PICK at \in MountAt, v \in Volumes, w \in BOOLEAN :
            /\ fs = mount_node_at(EmptyFs, at, Blob("shared", v), ~w)
            /\ granted = IF w THEN {v} ELSE {}
      BY <2>2
    <3>2. at \in Path
      BY PathsAssumption
    <3>3. Fresh(Blob("shared", v)) /\ Blob("shared", v).blob = v
      BY DEF Fresh, Blob, Kinds
    <3>4. w => v \in granted
      BY <3>1
    <3>5. Good(mount_node_at(EmptyFs, at, Blob("shared", v), ~w), granted)
      BY <3>2, <3>3, <3>4, EmptyFsGood, MountGood
    <3> QED BY <3>1, <3>5
  <2> QED BY <2>1, <2>2 DEF Init
<1>2. out = [p \in Procs |-> out[p]] /\ StreamsGranted
  BY DEF Init, StreamsGranted, IsStream, NoOut
<1>3. bytes = [b \in Blobs |-> bytes[b]] /\ BytesFollowGrants
  BY DEF Init, BytesFollowGrants
<1>4. hostdir \in Seq(HostEntry)
  BY DEF Init
<1> QED BY <1>1, <1>2, <1>3, <1>4 DEF VfsInv

(***************************************************************************)
(* The calls of a guest or a child.                                        *)
(***************************************************************************)
LEMMA FdsGood ==
  ASSUME NEW f, NEW G, Good(f, G), NEW x
  PROVE  Good([nodes |-> f.nodes, next |-> f.next, ro |-> f.ro, fds |-> x], G)
<1> DEFINE g == [nodes |-> f.nodes, next |-> f.next, ro |-> f.ro, fds |-> x]
<1>1. /\ g = [nodes |-> g.nodes, next |-> g.next, ro |-> g.ro, fds |-> g.fds]
      /\ g.nodes = f.nodes /\ g.next = f.next /\ g.ro = f.ro
  OBVIOUS
<1> HIDE DEF g
<1>2. \A i : Kind(g, i) = Kind(f, i) /\ Kids(g, i) = Kids(f, i)
  BY <1>1 DEF Kind, Kids, Has
<1>3. IsFs(g)
  BY <1>1 DEF Good, Tree, IsFs
<1>4. EntriesBelow(g) /\ OneEntry(g)
  BY <1>1, <1>2 DEF Good, Tree, EntriesBelow, OneEntry
<1>5. WritesGranted(g, G)
  BY <1>1 DEF Good, WritesGranted
<1>6. Good(g, G)
  BY <1>3, <1>4, <1>5 DEF Good, Tree
<1> QED BY <1>6 DEF g

LEMMA OpenRefGood ==
  ASSUME NEW f, NEW G, Good(f, G), NEW id
  PROVE  Good(open_ref(f, id), G)
<1> DEFINE x == [f.fds EXCEPT ![id] = f.fds[id] + 1]
<1>1. open_ref(f, id) = [nodes |-> f.nodes, next |-> f.next, ro |-> f.ro, fds |-> x]
  BY DEF open_ref, Good, Tree, IsFs
<1> HIDE DEF x
<1> QED BY <1>1, FdsGood

LEMMA CloseRefGood ==
  ASSUME NEW f, NEW G, Good(f, G), NEW id
  PROVE  Good(close_ref(f, id), G)
<1> DEFINE x == [f.fds EXCEPT ![id] = f.fds[id] - 1]
           g == [f EXCEPT !.fds = x]
<1>1. g = [nodes |-> f.nodes, next |-> f.next, ro |-> f.ro, fds |-> x]
  BY DEF Good, Tree, IsFs
<1>3. close_ref(f, id) = g \/ close_ref(f, id) = FreeNodes(g, Subtree(g, id))
  BY DEF close_ref, drop_subtree
<1> HIDE DEF x
<1>2. Good(g, G)
  BY <1>1, FdsGood
<1> HIDE DEF g
<1> QED BY <1>2, <1>3, FreeGood

\* A directory has one entry, so none is left after a
\* rename has taken it away.
LEMMA MovedGood ==
  ASSUME NEW f, NEW G, Good(f, G), NEW a, NEW b, a.name \in DOMAIN Kids(f, a.dir),
         Has(f, a.dir)
  PROVE  Good(Moved(f, a, b, Kids(f, a.dir)[a.name]), G)
<1> DEFINE id == Kids(f, a.dir)[a.name]
           g == DelEntry(f, a.dir, a.name)
<1>1. Kind(f, a.dir) = "dir" /\ a.dir \in DOMAIN f.nodes
  BY NoKidsEmpty DEF Kids, Has
<1>2. Good(g, G) /\ g.next = f.next
  BY DelEntryGood
<1>3. EntryRemoved(f, g, a.dir, a.name)
  BY <1>1, DelEntryIs DEF Good, Tree
<1>4. id \in 1 .. (g.next - 1)
  BY <1>1, <1>2 DEF Good, Tree, EntriesBelow
<1> HIDE DEF g
<1>5. Kind(g, id) = "dir" => Unnamed(g, id)
  <2> SUFFICES ASSUME Kind(g, id) = "dir", NEW d \in DOMAIN g.nodes,
                      NEW n \in DOMAIN Kids(g, d), Kids(g, d)[n] = id
               PROVE  FALSE
    BY DEF Unnamed
  <2>1. id \in DOMAIN g.nodes /\ id \in DOMAIN f.nodes /\ d \in DOMAIN f.nodes
    BY <1>3 DEF EntryRemoved, Kind, Has
  <2>2. Kind(f, id) = "dir"
    BY <2>1, <1>3 DEF EntryRemoved
  <2>3. n \in DOMAIN Kids(f, d) /\ Kids(f, d)[n] = id /\ ~(d = a.dir /\ n = a.name)
    BY <2>1, <1>3 DEF EntryRemoved
  <2> HIDE DEF id
  <2>4. id = Kids(f, a.dir)[a.name]
    BY DEF id
  <2> QED BY <2>1, <2>2, <2>3, <2>4, <1>1 DEF Good, Tree, OneEntry
<1> HIDE DEF id
<1>6. Good(AddEntry(g, b.dir, b.name, id), G)
  BY <1>2, <1>4, <1>5, AddEntryTree, AddEntryWrites DEF Good, Tree, WritesGranted, WritesBut
<1> QED BY <1>6 DEF Moved, g, id

LEMMA ParentIsDir ==
  ASSUME NEW f, NEW start, NEW p, ParentOf(f, start, p).res = "local"
  PROVE  Kind(f, ParentOf(f, start, p).dir) = "dir" /\ Has(f, ParentOf(f, start, p).dir)
<1> DEFINE w == resolve_at(f, start, AllButLast(components(p)), TRUE)
<1>1. ParentOf(f, start, p) = [res |-> "local", dir |-> w.cur, name |-> p[Len(p)]]
      /\ Kind(f, w.cur) = "dir"
  BY DEF ParentOf
<1> HIDE DEF w
<1>2. ParentOf(f, start, p).dir = w.cur
  BY <1>1
<1> QED BY <1>1, <1>2 DEF Kind

LEMMA EntryIsThere ==
  ASSUME NEW f, NEW start, NEW p, EntryAt(f, ParentOf(f, start, p)) # NoFd
  PROVE  LET q == ParentOf(f, start, p) IN
         /\ Has(f, q.dir) /\ q.name \in DOMAIN Kids(f, q.dir)
         /\ EntryAt(f, q) = Kids(f, q.dir)[q.name]
BY ParentIsDir DEF EntryAt

\* What a call that changes contents may have done: the node became a private
\* file of some length, or the blob behind it changed.
Mutated(id) ==
  \/ /\ Kind(fs, id) \in {"file", "ro"}
     /\ \E n : fs' = SetNode(copy_up(fs, id), id, File(n))
     /\ bytes' = bytes
  \/ /\ Kind(fs, id) \in {"shared", "host"}
     /\ \E d : bytes' = [bytes EXCEPT ![fs.nodes[id].blob] = d]
     /\ fs' = fs
  \/ fs' = fs /\ bytes' = bytes

LEMMA FileGood ==
  ASSUME NEW f, NEW G, Good(f, G), NEW id \in DOMAIN f.nodes, f.nodes[id].k \in {"file", "ro"},
         NEW n
  PROVE  Good(SetNode(f, id, File(n)), G)
<1>1. Fresh(File(n)) /\ File(n).k = "file"
  BY DEF Fresh, File, Kinds
<1>2. Tree(SetNode(f, id, File(n)))
  BY <1>1, SetNodeTree DEF Good
<1>3. WritesGranted(SetNode(f, id, File(n)), G)
  BY <1>1, SetNodeWrites DEF Good, Tree
<1> QED BY <1>2, <1>3 DEF Good

LEMMA CopyUpGood ==
  ASSUME NEW f, NEW G, Good(f, G), NEW id
  PROVE  /\ Good(copy_up(f, id), G)
         /\ Kind(f, id) \in {"file", "ro"} =>
              /\ id \in DOMAIN copy_up(f, id).nodes
              /\ copy_up(f, id).nodes[id].k \in {"file", "ro"}
<1>1. CASE Kind(f, id) # "ro"
  BY <1>1 DEF copy_up, Kind, Has
<1>2. CASE Kind(f, id) = "ro"
  <2> DEFINE n == LenOf(f, id)
             g == SetNode(f, id, File(n))
  <2>1. copy_up(f, id) = g
    BY <1>2 DEF copy_up
  <2>2. id \in DOMAIN f.nodes /\ f.nodes[id].k = "ro"
    BY <1>2 DEF Kind, Has
  <2> HIDE DEF n
  <2>3. Good(g, G)
    BY <2>2, FileGood
  <2>4. DOMAIN g.nodes = DOMAIN f.nodes /\ g.nodes[id] = File(n)
    BY <2>2, SetNodeIs DEF Good, Tree
  <2> HIDE DEF g
  <2>5. File(n).k = "file"
    BY DEF File
  <2> QED BY <2>1, <2>2, <2>3, <2>4, <2>5
<1> QED BY <1>1, <1>2

LEMMA MutatedKeeps ==
  ASSUME VfsInv, NEW id, Kind(fs, id) \in {"shared", "host"} => ~is_readonly(fs, id),
         Mutated(id), granted' = granted
  PROVE  Good(fs', granted') /\ bytes' = [b \in Blobs |-> bytes'[b]] /\ BytesFollowGrants'
<1>1. Good(fs, granted) /\ bytes = [b \in Blobs |-> bytes[b]] /\ BytesFollowGrants
  BY DEF VfsInv
<1>2. CASE fs' = fs /\ bytes' = bytes
  BY <1>1, <1>2 DEF BytesFollowGrants
<1>3. CASE /\ Kind(fs, id) \in {"file", "ro"}
           /\ \E n : fs' = SetNode(copy_up(fs, id), id, File(n))
           /\ bytes' = bytes
  <2>1. PICK n : fs' = SetNode(copy_up(fs, id), id, File(n))
    BY <1>3
  <2>2. Good(fs', granted)
    BY <2>1, <1>1, <1>3, CopyUpGood, FileGood
  <2> QED BY <2>2, <1>1, <1>3 DEF BytesFollowGrants
<1>4. CASE /\ Kind(fs, id) \in {"shared", "host"}
           /\ \E d : bytes' = [bytes EXCEPT ![fs.nodes[id].blob] = d]
           /\ fs' = fs
  <2>1. PICK d : bytes' = [bytes EXCEPT ![fs.nodes[id].blob] = d]
    BY <1>4
  <2>2. fs.nodes[id].blob \in granted
    BY <1>1, <1>4 DEF Good, WritesGranted, Kind, Has, is_readonly
  <2>3. bytes' = [b \in Blobs |-> bytes'[b]]
    BY <2>1, <1>1
  <2>4. BytesFollowGrants'
    BY <2>1, <2>2, <1>1 DEF BytesFollowGrants
  <2> QED BY <2>3, <2>4, <1>1, <1>4
<1> QED BY <1>2, <1>3, <1>4 DEF Mutated

\* A step that changes the Fs only.
LEMMA FsOnly ==
  ASSUME VfsInv, Good(fs', granted), UNCHANGED <<bytes, granted, out, hostdir>>
  PROVE  VfsInv'
BY DEF VfsInv, StreamsGranted, BytesFollowGrants

LEMMA ContentsOnly ==
  ASSUME VfsInv, UNCHANGED <<granted, out, hostdir>>, Good(fs', granted'),
         bytes' = [b \in Blobs |-> bytes'[b]], BytesFollowGrants'
  PROVE  VfsInv'
BY DEF VfsInv, StreamsGranted

LEMMA OpenStep == ASSUME VfsInv, NEW p \in Procs, OpenResolve(p) PROVE VfsInv'
<1>1. \E w, flags, q :
        \/ /\ "truncate" \in flags => ~is_readonly(fs, w.cur)
           /\ IF "truncate" \in flags THEN Mutate(w.cur, LAMBDA d : <<>>)
              ELSE UNCHANGED <<fs, bytes>>
        \/ /\ fs' = AddEntry(alloc(fs, File(0)), q.dir, q.name, fs.next)
           /\ UNCHANGED bytes
  BY DEF OpenResolve
<1>2. UNCHANGED <<granted, out, hostdir>> /\ Good(fs, granted)
  BY DEF OpenResolve, VfsInv
<1>3. CASE UNCHANGED <<fs, bytes>>
  BY <1>2, <1>3, FsOnly
<1>4. ASSUME NEW w, ~is_readonly(fs, w.cur), Mutate(w.cur, LAMBDA d : <<>>) PROVE VfsInv'
  <2>1. Mutated(w.cur)
    BY <1>4 DEF Mutate, Mutated
  <2> QED BY <2>1, <1>2, <1>4, MutatedKeeps, ContentsOnly
<1>5. ASSUME NEW q, fs' = AddEntry(alloc(fs, File(0)), q.dir, q.name, fs.next), UNCHANGED bytes
      PROVE  VfsInv'
  <2>2. Fresh(File(0)) /\ File(0).k = "file"
    BY DEF Fresh, File, Kinds
  <2>3. Good(fs', granted)
    BY <2>2, <1>2, <1>5, PlaceGood
  <2> QED BY <2>3, <1>2, <1>5, FsOnly
<1> QED BY <1>1, <1>3, <1>4, <1>5

LEMMA RefStep == ASSUME VfsInv, NEW p \in Procs, OpenRef(p) \/ DropDescriptor(p) PROVE VfsInv'
<1>1. PICK id : fs' = open_ref(fs, id) \/ fs' = close_ref(fs, id)
  BY DEF OpenRef, DropDescriptor
<1>2. Good(fs', granted)
  BY <1>1, OpenRefGood, CloseRefGood DEF VfsInv
<1> QED BY <1>2, FsOnly DEF OpenRef, DropDescriptor

LEMMA CreateStep ==
  ASSUME VfsInv, NEW p \in Procs, create_directory_at(p) \/ symlink_at(p)
  PROVE  VfsInv'
<1>1. PICK q, node : /\ node = Dir(NoKids) \/ \E to \in Targets : node = Symlink(to)
                     /\ fs' = AddEntry(alloc(fs, node), q.dir, q.name, fs.next)
  BY DEF create_directory_at, symlink_at
<1>2. Fresh(node) /\ node.k \notin {"shared", "host"}
  BY <1>1, PathsAssumption DEF Fresh, Dir, Symlink, Kinds
<1>3. Good(fs', granted)
  BY <1>1, <1>2, PlaceGood DEF VfsInv
<1> QED BY <1>3, FsOnly DEF create_directory_at, symlink_at

LEMMA UnlinkStep == ASSUME VfsInv, NEW p \in Procs, unlink(p) PROVE VfsInv'
<1>1. PICK q, id, g : g = DelEntry(fs, q.dir, q.name) /\ (fs' = g \/ fs' = FreeNodes(g, {id}))
  BY DEF unlink
<1>2. Good(g, granted)
  BY <1>1, DelEntryGood DEF VfsInv
<1>3. Good(fs', granted)
  BY <1>1, <1>2, FreeGood
<1> QED BY <1>3, FsOnly DEF unlink

LEMMA RenameStep == ASSUME VfsInv, NEW p \in Procs, rename_at(p) PROVE VfsInv'
<1>1. PICK old, from, b, a, id : /\ a = ParentOf(fs, from, old) /\ id = EntryAt(fs, a) /\ id # NoFd
                                 /\ fs' = Moved(fs, a, b, id)
  BY DEF rename_at
<1>2. Has(fs, a.dir) /\ a.name \in DOMAIN Kids(fs, a.dir) /\ id = Kids(fs, a.dir)[a.name]
  BY <1>1, EntryIsThere
<1>3. Good(fs', granted)
  BY <1>1, <1>2, MovedGood DEF VfsInv
<1> QED BY <1>3, FsOnly DEF rename_at

LEMMA LinkStep == ASSUME VfsInv, NEW p \in Procs, link_at(p) PROVE VfsInv'
<1>1. PICK id, q : Linkable(fs, id) /\ fs' = AddEntry(fs, q.dir, q.name, id)
  BY DEF link_at
<1>2. Good(fs, granted) /\ IsFs(fs)
  BY DEF VfsInv, Good, Tree
<1>3. Kind(fs, id) # "dir" /\ id \in DOMAIN fs.nodes /\ id # ROOT
  BY <1>1, <1>2 DEF Linkable, Kind, Has, IsFs
<1>4. id \in 1 .. (fs.next - 1)
  BY <1>2, <1>3 DEF IsFs, ROOT
<1>5. Good(fs', granted)
  BY <1>1, <1>2, <1>3, <1>4, AddEntryTree, AddEntryWrites DEF Good, WritesGranted, WritesBut
<1> QED BY <1>5, FsOnly DEF link_at

LEMMA WriteStep == ASSUME VfsInv, NEW p \in Procs, write(p) \/ set_size(p) PROVE VfsInv'
<1>1. PICK id : ~is_readonly(fs, id) /\ Mutated(id)
  <2>1. CASE write(p)
    <3>1. PICK id : ~is_readonly(fs, id) /\ Mutate(id, LAMBDA d : write_at(d, 0))
      BY <2>1 DEF write
    <3>2. Mutated(id)
      BY <3>1 DEF Mutate, Mutated
    <3> QED BY <3>1, <3>2
  <2>2. CASE set_size(p)
    <3>1. PICK id \in OpenFds(p), n \in 0 .. MaxFile :
            ~is_readonly(fs, id) /\ Mutate(id, LAMBDA d : resize(d, n))
      BY <2>2 DEF set_size
    <3>2. Mutated(id)
      BY <3>1 DEF Mutate, Mutated
    <3> QED BY <3>1, <3>2
  <2> QED BY <2>1, <2>2
<1>2. UNCHANGED <<granted, out, hostdir>>
  BY DEF write, set_size
<1> QED BY <1>1, <1>2, MutatedKeeps, ContentsOnly

\* A stream is opened on what may be written, and keeps writing there.
LEMMA StreamTarget ==
  ASSUME VfsInv, NEW id, Streamable(fs, id), NEW off
  PROVE  /\ IsStream(WriteTarget(fs, id, off))
         /\ WriteTarget(fs, id, off).dst = "blob" => WriteTarget(fs, id, off).id \in granted
<1> DEFINE s == WriteTarget(fs, id, off)
           b == fs.nodes[id].blob
<1>1. \/ s = [dst |-> "node", id |-> id, off |-> off]
      \/ Kind(fs, id) \in {"shared", "host"} /\ s = [dst |-> "blob", id |-> b, off |-> off]
  BY DEF WriteTarget, Streamable
<1>2. Kind(fs, id) \in {"shared", "host"} => b \in granted
  BY DEF VfsInv, Good, WritesGranted, Streamable, Kind, Has, is_readonly
<1> HIDE DEF s, b
<1>3. IsStream(s) /\ (s.dst = "blob" => s.id \in granted)
  BY <1>1, <1>2 DEF IsStream
<1> QED BY <1>3 DEF s

LEMMA OpenStreamStep ==
  ASSUME VfsInv, NEW p \in Procs, write_via_stream(p) \/ append_via_stream(p)
  PROVE  VfsInv'
<1>1. PICK id, off : /\ Streamable(fs, id)
                     /\ fs' = fs \/ fs' = copy_up(fs, id)
                     /\ out' = [out EXCEPT ![p] = WriteTarget(fs, id, off)]
  BY DEF write_via_stream, append_via_stream
<1>2. UNCHANGED <<bytes, granted, hostdir>>
  BY DEF write_via_stream, append_via_stream
<1>3. Good(fs', granted)
  BY <1>1, CopyUpGood DEF VfsInv
<1> DEFINE s == WriteTarget(fs, id, off)
<1>4. IsStream(s) /\ (s.dst = "blob" => s.id \in granted)
  BY <1>1, StreamTarget
<1>5. out' = [out EXCEPT ![p] = s]
  BY <1>1
<1> HIDE DEF s
<1>6. out' = [q \in Procs |-> out'[q]] /\ StreamsGranted'
  BY <1>2, <1>4, <1>5 DEF VfsInv, StreamsGranted
<1> QED BY <1>2, <1>3, <1>6 DEF VfsInv, BytesFollowGrants

LEMMA StreamWriteStep == ASSUME VfsInv, NEW p \in Procs, StreamWrite(p) PROVE VfsInv'
<1> DEFINE s == out[p]
<1>1. /\ out' = [out EXCEPT ![p] = Consumed(s)]
      /\ UNCHANGED <<granted, hostdir>> /\ s # NoOut
      /\ IsStream(s) /\ (s.dst = "blob" => s.id \in granted)
  BY DEF StreamWrite, VfsInv, StreamsGranted
<1>2. Good(fs', granted') /\ bytes' = [b \in Blobs |-> bytes'[b]] /\ BytesFollowGrants'
  <2>1. CASE Lost(s)
    BY <2>1, <1>1 DEF StreamWrite, VfsInv, BytesFollowGrants
  <2>2. CASE ~Lost(s) /\ s.dst = "node"
    <3>1. Kind(fs, s.id) \in {"file", "ro"}
      BY <2>2 DEF Lost
    <3>2. Mutate(s.id, LAMBDA d : write_at(d, s.off))
      BY <2>2 DEF StreamWrite
    <3>3. Mutated(s.id)
      BY <3>2 DEF Mutate, Mutated
    <3> QED BY <3>1, <3>3, <1>1, MutatedKeeps
  <2>3. CASE ~Lost(s) /\ s.dst # "node"
    <3>1. fs' = fs /\ \E d : bytes' = [bytes EXCEPT ![s.id] = d]
      BY <2>3 DEF StreamWrite
    <3>2. PICK d : bytes' = [bytes EXCEPT ![s.id] = d]
      BY <3>1
    <3>3. s.id \in granted
      BY <2>3, <1>1 DEF IsStream
    <3> HIDE DEF s
    <3> QED BY <3>1, <3>2, <3>3, <1>1 DEF VfsInv, BytesFollowGrants
  <2> QED BY <2>1, <2>2, <2>3
<1>3. IsStream(Consumed(s)) /\ (Consumed(s).dst = "blob" => Consumed(s).id \in granted)
  <2> DEFINE t == [s EXCEPT !.off = s.off + 1]
  <2>1. s = [dst |-> s.dst, id |-> s.id, off |-> s.off]
    BY <1>1 DEF IsStream
  <2>2. t = [dst |-> s.dst, id |-> s.id, off |-> s.off + 1]
    BY <2>1
  <2>3. Consumed(s) = NoOut \/ Consumed(s) = t
    BY DEF Consumed
  <2> HIDE DEF t, s
  <2> QED BY <2>2, <2>3, <1>1 DEF IsStream, NoOut
<1> HIDE DEF s
<1>4. out' = [q \in Procs |-> out'[q]] /\ StreamsGranted'
  BY <1>1, <1>3 DEF VfsInv, StreamsGranted
<1> QED BY <1>1, <1>2, <1>4 DEF VfsInv

LEMMA DropStreamStep == ASSUME VfsInv, NEW p \in Procs, DropStream(p) PROVE VfsInv'
<1>1. /\ out' = [out EXCEPT ![p] = NoOut]
      /\ UNCHANGED <<fs, bytes, granted, hostdir>>
  BY DEF DropStream
<1>2. out' = [q \in Procs |-> out'[q]] /\ StreamsGranted'
  BY <1>1 DEF VfsInv, StreamsGranted, IsStream, NoOut
<1> QED BY <1>1, <1>2 DEF VfsInv, BytesFollowGrants

(***************************************************************************)
(* The server's mounts.                                                    *)
(***************************************************************************)
LEMMA GoodMore ==
  ASSUME NEW f, NEW G, NEW H, G \subseteq H, Good(f, G)
  PROVE  Good(f, H)
BY DEF Good, WritesGranted

\* Mounting a volume or a host file, writable only once it is granted.
LEMMA MountBlob ==
  ASSUME VfsInv, NEW at \in Path, NEW v \in Volumes, NEW w \in BOOLEAN,
         NEW kind \in {"shared", "host"},
         fs' = mount_node_at(fs, at, Blob(kind, v), ~w),
         granted' = IF w THEN granted \cup {v} ELSE granted,
         UNCHANGED <<bytes, out>>, hostdir' \in Seq(HostEntry)
  PROVE  VfsInv'
<1>1. Good(fs, granted')
  BY GoodMore DEF VfsInv
<1>2. Fresh(Blob(kind, v)) /\ Blob(kind, v).blob = v
  BY DEF Fresh, Blob, Kinds
<1>3. w => v \in granted'
  OBVIOUS
<1>4. Good(mount_node_at(fs, at, Blob(kind, v), ~w), granted')
  BY <1>1, <1>2, <1>3, MountGood
<1>5. granted \subseteq granted' /\ granted' \subseteq Volumes
  BY DEF VfsInv
<1>6. StreamsGranted'
  BY <1>5 DEF VfsInv, StreamsGranted
<1>7. BytesFollowGrants'
  BY <1>5 DEF VfsInv, BytesFollowGrants
<1> QED BY <1>4, <1>5, <1>6, <1>7 DEF VfsInv

LEMMA MountStep ==
  ASSUME VfsInv, mount_file \/ mount_provider \/ unmount_file
  PROVE  VfsInv'
<1>1. CASE mount_file
  <2>1. PICK at \in MountAt, v \in Volumes, w \in BOOLEAN :
          /\ fs' = mount_node_at(fs, at, Blob("shared", v), ~w)
          /\ granted' = IF w THEN granted \cup {v} ELSE granted
    BY <1>1 DEF mount_file
  <2>2. at \in Path
    BY PathsAssumption
  <2>3. UNCHANGED <<bytes, out>> /\ hostdir' \in Seq(HostEntry)
    BY <1>1 DEF mount_file, VfsInv
  <2> QED BY <2>1, <2>2, <2>3, MountBlob
<1>2. CASE mount_provider
  <2>1. PICK at \in MountAt, w \in BOOLEAN : fs' = mount_node_at(fs, at, Provider, ~w)
    BY <1>2 DEF mount_provider
  <2>2. at \in Path
    BY PathsAssumption
  <2>3. Fresh(Provider) /\ Provider.k = "provider"
    BY DEF Fresh, Provider, Kinds
  <2>4. Good(fs', granted)
    BY <2>1, <2>2, <2>3, MountGood DEF VfsInv
  <2> QED BY <2>4, <1>2, FsOnly DEF mount_provider
<1>3. CASE unmount_file
  <2>1. Good(fs', granted)
    BY <1>3, RemovePathGood DEF unmount_file, VfsInv
  <2> QED BY <2>1, <1>3, FsOnly DEF unmount_file
<1> QED BY <1>1, <1>2, <1>3

LEMMA HostDirStep == ASSUME VfsInv, mount_host_dir PROVE VfsInv'
<1>1. PICK at \in MountAt, w \in BOOLEAN :
        /\ fs' = ensure_dir_path(fs, components(at)).fs
        /\ hostdir' = [i \in 1 .. Len(HostDir) |->
                         [at |-> Append(at, HostDir[i][1]), blob |-> HostDir[i][2], w |-> w]]
  BY DEF mount_host_dir
<1>2. at \in Path /\ HostDir \in Seq(STRING \X Volumes)
  BY PathsAssumption
<1>3. Good(fs', granted)
  <2>1. components(at) \in Path
    BY <1>2, ComponentsPath
  <2>2. Len(components(at)) \in Nat
    BY <2>1 DEF Path
  <2> QED BY <2>2, <1>1, EnsurePathGood DEF VfsInv
<1>4. hostdir' \in Seq(HostEntry)
  <2>1. Len(HostDir) \in Nat /\ \A i \in 1 .. Len(HostDir) :
          HostDir[i][1] \in STRING /\ HostDir[i][2] \in Volumes
    BY <1>2
  <2>2. \A c \in STRING : Append(at, c) \in Path
    BY <1>2, AppendProperties DEF Path
  <2>3. \A i \in 1 .. Len(HostDir) :
          [at |-> Append(at, HostDir[i][1]), blob |-> HostDir[i][2], w |-> w] \in HostEntry
    BY <2>1, <2>2 DEF HostEntry
  <2> QED BY <2>1, <2>3, <1>1
<1> QED BY <1>3, <1>4 DEF mount_host_dir, VfsInv, StreamsGranted, BytesFollowGrants

LEMMA HostFileStep == ASSUME VfsInv, mount_host_file PROVE VfsInv'
<1> DEFINE h == Head(hostdir)
<1>1. hostdir \in Seq(HostEntry) /\ hostdir # <<>>
  BY DEF VfsInv, mount_host_file
<1>2. h \in HostEntry /\ Tail(hostdir) \in Seq(HostEntry)
  BY <1>1, HeadTailProperties
<1>3. /\ fs' = mount_node_at(fs, h.at, Blob("host", h.blob), ~h.w)
      /\ granted' = IF h.w THEN granted \cup {h.blob} ELSE granted
      /\ UNCHANGED <<bytes, out>> /\ hostdir' = Tail(hostdir)
  BY DEF mount_host_file
<1> HIDE DEF h
<1>4. h.at \in Path /\ h.blob \in Volumes /\ h.w \in BOOLEAN
  BY <1>2 DEF HostEntry
<1> QED BY <1>2, <1>3, <1>4, MountBlob

LEMMA StepVfs == VfsInv /\ [Next]_vars => VfsInv'
<1> SUFFICES ASSUME VfsInv, [Next]_vars PROVE VfsInv'
  OBVIOUS
<1>1. CASE UNCHANGED vars
  BY <1>1 DEF vars, VfsInv, StreamsGranted, BytesFollowGrants
<1>2. ASSUME NEW p \in Procs,
             \/ OpenResolve(p) \/ OpenRef(p) \/ DropDescriptor(p)
             \/ create_directory_at(p) \/ unlink(p) \/ rename_at(p)
             \/ link_at(p) \/ symlink_at(p)
             \/ write(p) \/ set_size(p)
             \/ write_via_stream(p) \/ append_via_stream(p) \/ StreamWrite(p) \/ DropStream(p)
      PROVE  VfsInv'
  BY <1>2, OpenStep, RefStep, CreateStep, UnlinkStep, RenameStep, LinkStep, WriteStep,
     OpenStreamStep, StreamWriteStep, DropStreamStep
<1>3. CASE mount_file \/ mount_provider \/ unmount_file \/ mount_host_dir \/ mount_host_file
  BY <1>3, MountStep, HostDirStep, HostFileStep
<1> QED BY <1>1, <1>2, <1>3 DEF Next

LEMMA VfsInvHolds == Spec => []VfsInv
BY InitVfs, StepVfs, PTL DEF Spec

\* A blob the server never made writable keeps its bytes, whatever the guest
\* and its children open, link, rename, truncate or stream to (copy_up and the
\* read-only checks of wk-vfs's descriptor calls).
THEOREM BytesGranted == Spec => []BytesFollowGrants
<1>1. VfsInv => BytesFollowGrants
  BY DEF VfsInv
<1> QED BY <1>1, VfsInvHolds, PTL

\* What can be reached from the root is a tree: no sequence of renames, links,
\* mounts and unmounts gives a directory two names or a way from the root into
\* directories that hang in a circle (rename_at, link_at, mount_node_at).
THEOREM TreeBelowRoot == Spec => []TreeFromRoot
<1>1. VfsInv => TreeFromRoot
  <2> SUFFICES ASSUME VfsInv PROVE TreeFromRoot
    OBVIOUS
  <2>1. EntriesBelow(fs) /\ OneEntry(fs)
    BY DEF VfsInv, Good, Tree
  <2>2. ASSUME NEW d \in DOMAIN fs.nodes PROVE ROOT \notin KidIds(fs, d)
    BY <2>1 DEF EntriesBelow, KidIds, ROOT
  <2>3. ASSUME NEW S \in SUBSET DOMAIN fs.nodes, Circle(S)
        PROVE  ROOT \notin S /\ \A d \in DOMAIN fs.nodes \ S : KidIds(fs, d) \cap S = {}
    <3>1. ROOT \notin S
      BY <2>2, <2>3 DEF Circle
    <3>2. ASSUME NEW d \in DOMAIN fs.nodes \ S, NEW c \in KidIds(fs, d), c \in S
          PROVE  FALSE
      <4>1. PICK e \in S : c \in KidIds(fs, e)
        BY <3>2, <2>3 DEF Circle
      <4>2. PICK n \in DOMAIN Kids(fs, d) : Kids(fs, d)[n] = c
        BY <3>2 DEF KidIds
      <4>3. PICK m \in DOMAIN Kids(fs, e) : Kids(fs, e)[m] = c
        BY <4>1 DEF KidIds
      <4>4. Kind(fs, c) = "dir"
        BY <3>2, <2>3 DEF Circle
      <4>5. d = e
        BY <4>2, <4>3, <4>4, <2>1 DEF OneEntry
      <4> QED BY <4>1, <4>5
    <3> QED BY <3>1, <3>2
  <2> QED BY <2>1, <2>2, <2>3 DEF TreeFromRoot, OneEntry
<1> QED BY <1>1, VfsInvHolds, PTL

(***************************************************************************)
(* The two resolvers, component by component.                              *)
(***************************************************************************)
IsWalk(w) ==
  /\ w = [cur |-> w.cur, todo |-> w.todo, anc |-> w.anc, hops |-> w.hops, res |-> w.res]
  /\ w.todo \in Path

LEMMA WalkStarts == ASSUME NEW start, NEW p \in Path PROVE IsWalk(Walk(start, p))
<1>1. components(p) \in Path
  BY ComponentsPath
<1> QED BY <1>1 DEF IsWalk, Walk

LEMMA UpIsWalk ==
  ASSUME NEW w, IsWalk(w), w.todo # <<>>
  PROVE  IsWalk(GoUp(w))
<1> DEFINE c == IF w.anc = <<>> THEN ROOT ELSE w.anc[Len(w.anc)]
           a == IF w.anc = <<>> THEN <<>> ELSE AllButLast(w.anc)
<1>1. GoUp(w) = [cur |-> c, todo |-> Tail(w.todo), anc |-> a, hops |-> w.hops, res |-> w.res]
  BY DEF GoUp
<1>2. Tail(w.todo) \in Path
  BY HeadTailProperties DEF IsWalk, Path
<1> HIDE DEF c, a
<1> QED BY <1>1, <1>2 DEF IsWalk

LEMMA DownIsWalk ==
  ASSUME NEW w, IsWalk(w), w.todo # <<>>, NEW next
  PROVE  IsWalk(GoDown(w, next))
<1>1. GoDown(w, next) = [cur |-> next, todo |-> Tail(w.todo), anc |-> Append(w.anc, w.cur),
                         hops |-> w.hops, res |-> w.res]
  BY DEF GoDown
<1>2. Tail(w.todo) \in Path
  BY HeadTailProperties DEF IsWalk, Path
<1> QED BY <1>1, <1>2 DEF IsWalk

LEMMA EndIsWalk ==
  ASSUME NEW w, IsWalk(w), NEW r
  PROVE  IsWalk([w EXCEPT !.res = r])
<1>1. [w EXCEPT !.res = r] =
        [cur |-> w.cur, todo |-> w.todo, anc |-> w.anc, hops |-> w.hops, res |-> r]
  BY DEF IsWalk
<1> QED BY <1>1 DEF IsWalk

LEMMA MissingIsWalk == ASSUME NEW w, IsWalk(w) PROVE IsWalk(Missing(w))
BY EndIsWalk DEF Missing

LEMMA LinkIsWalk ==
  ASSUME NEW w, IsWalk(w), w.todo # <<>>, NEW to \in Path
  PROVE  IsWalk(FollowLink(w, to))
<1> DEFINE c == IF IsAbs(to) THEN ROOT ELSE w.cur
           a == IF IsAbs(to) THEN <<>> ELSE w.anc
           t == components(to) \o Tail(w.todo)
           x == [cur |-> c, todo |-> t, anc |-> a, hops |-> w.hops + 1, res |-> w.res]
<1>1. FollowLink(w, to) = x \/ FollowLink(w, to) = Missing(w)
  BY DEF FollowLink
<1>2. t \in Path
  <2>1. Tail(w.todo) \in Path /\ components(to) \in Path
    BY HeadTailProperties, ComponentsPath DEF IsWalk, Path
  <2>2. \A r, s \in Path : r \o s \in Path
    BY ConcatProperties DEF Path
  <2> QED BY <2>1, <2>2
<1> HIDE DEF c, a, t
<1>3. IsWalk(x)
  BY <1>2 DEF IsWalk
<1> HIDE DEF x
<1> QED BY <1>1, <1>3, MissingIsWalk

\* One component: the same step, but for a provider.
LEMMA StepsAgree ==
  ASSUME NEW f, IsFs(f), NEW w, IsWalk(w), NEW follow \in BOOLEAN,
         ResolvePlaceStep(f, w, follow).res # "remote"
  PROVE  /\ ResolveAtStep(f, w, follow) = ResolvePlaceStep(f, w, follow)
         /\ IsWalk(ResolvePlaceStep(f, w, follow))
<1>1. CASE w.res # "walk"
  BY <1>1 DEF ResolveAtStep, ResolvePlaceStep
<1>2. CASE w.res = "walk" /\ w.todo = <<>>
  BY <1>2, EndIsWalk DEF ResolveAtStep, ResolvePlaceStep
<1>3. CASE w.res = "walk" /\ w.todo # <<>>
  <2> DEFINE c == w.todo[1]
             next == Kids(f, w.cur)[c]
             A == ResolveAtStep(f, w, follow)
             P == ResolvePlaceStep(f, w, follow)
  <2>1. Head(w.todo) = c /\ (Len(w.todo) > 1 <=> Tail(w.todo) # <<>>)
    <3>1. w.todo \in Seq(STRING)
      BY DEF IsWalk, Path
    <3>2. Tail(w.todo) \in Seq(STRING) /\ Len(Tail(w.todo)) = Len(w.todo) - 1
      BY <3>1, <1>3, HeadTailProperties
    <3>3. \A s \in Seq(STRING) : Len(s) \in Nat /\ (s = <<>> <=> Len(s) = 0)
      BY EmptySeq
    <3>4. Len(w.todo) \in Nat \ {0} /\ (Tail(w.todo) = <<>> <=> Len(Tail(w.todo)) = 0)
      BY <3>1, <3>2, <3>3, <1>3
    <3>5. Head(w.todo) = w.todo[1]
      BY <3>1, <1>3
    <3>6. Len(w.todo) > 1 <=> Len(Tail(w.todo)) # 0
      <4> DEFINE m == Len(w.todo)
                 k == Len(Tail(w.todo))
      <4>1. m \in Nat \ {0} /\ k = m - 1
        BY <3>2, <3>4
      <4> HIDE DEF m, k
      <4>2. m > 1 <=> k # 0
        BY <4>1
      <4> QED BY <4>2 DEF m, k
    <3> QED BY <3>4, <3>5, <3>6, Zenon
  <2>2. A = IF c = ".." THEN GoUp(w)
            ELSE IF c \notin DOMAIN Kids(f, w.cur) \/ ~Has(f, next) THEN Missing(w)
            ELSE IF Kind(f, next) = "link" /\ (Len(w.todo) > 1 \/ follow)
                 THEN FollowLink(w, f.nodes[next].to) ELSE GoDown(w, next)
    BY <1>3, <2>1 DEF ResolveAtStep
  <2>3. P = IF c = ".." THEN GoUp(w)
            ELSE IF c \notin DOMAIN Kids(f, w.cur) THEN Missing(w)
            ELSE CASE Kind(f, next) = "none" -> Missing(w)
                   [] Kind(f, next) = "provider" ->
                        [w EXCEPT !.res = "remote", !.cur = next, !.todo = Tail(@)]
                   [] Kind(f, next) = "link" /\ (follow \/ Tail(w.todo) # <<>>) ->
                        FollowLink(w, f.nodes[next].to)
                   [] OTHER -> GoDown(w, next)
    BY <1>3 DEF ResolvePlaceStep
  <2>4. Kind(f, next) = "none" <=> ~Has(f, next)
    BY DEF IsFs, Kind, Has, Kinds
  <2>5. Kind(f, next) = "link" => f.nodes[next].to \in Path
    BY DEF IsFs, Kind, Has
  <2>6. ASSUME c # "..", c \in DOMAIN Kids(f, w.cur), Kind(f, next) = "provider" PROVE FALSE
    <3> DEFINE x == [w EXCEPT !.res = "remote", !.cur = next, !.todo = Tail(@)]
    <3>1. P = x
      BY <2>3, <2>6
    <3>2. x.res = "remote"
      BY DEF IsWalk
    <3> QED BY <3>1, <3>2
  <2> HIDE DEF A, P, next, c
  <2>7. CASE c = ".."
    BY <2>7, <2>2, <2>3, <1>3, UpIsWalk DEF A, P
  <2>8. CASE c # ".." /\ (c \notin DOMAIN Kids(f, w.cur) \/ ~Has(f, next))
    <3>1. A = Missing(w)
      BY <2>8, <2>2
    <3>2. P = Missing(w)
      BY <2>8, <2>3, <2>4
    <3> QED BY <3>1, <3>2, MissingIsWalk DEF A, P
  <2>9. CASE c # ".." /\ c \in DOMAIN Kids(f, w.cur) /\ Has(f, next)
    <3>1. CASE Kind(f, next) = "link" /\ (follow \/ Tail(w.todo) # <<>>)
      <4>1. A = FollowLink(w, f.nodes[next].to)
        BY <2>9, <3>1, <2>1, <2>2
      <4>2. P = FollowLink(w, f.nodes[next].to)
        BY <2>9, <3>1, <2>3, <2>4
      <4> QED BY <4>1, <4>2, <3>1, <2>5, <1>3, LinkIsWalk DEF A, P
    <3>2. CASE ~(Kind(f, next) = "link" /\ (follow \/ Tail(w.todo) # <<>>))
      <4>1. A = GoDown(w, next)
        BY <2>9, <3>2, <2>1, <2>2
      <4>2. P = GoDown(w, next)
        BY <2>9, <3>2, <2>3, <2>4, <2>6
      <4> QED BY <4>1, <4>2, <1>3, DownIsWalk DEF A, P
    <3> QED BY <3>1, <3>2
  <2> QED BY <2>7, <2>8, <2>9
<1> QED BY <1>1, <1>2, <1>3

\* A walk that meets no provider takes the same steps in both resolvers.
LEMMA WalksAgree ==
  ASSUME NEW f, IsFs(f), NEW path \in Path, NEW follow \in BOOLEAN, NEW start,
         resolve_place(f, start, path, follow).res # "remote"
  PROVE  resolve_at(f, start, path, follow) = resolve_place(f, start, path, follow)
<1> DEFINE w0 == Walk(start, path)
           p0 == IF Kind(f, w0.cur) = "provider" THEN [w0 EXCEPT !.res = "remote"] ELSE w0
           at[n \in Nat] == IF n = 0 THEN w0 ELSE ResolveAtStep(f, at[n - 1], follow)
           pl[n \in Nat] == IF n = 0 THEN p0 ELSE ResolvePlaceStep(f, pl[n - 1], follow)
<1>1. at = [n \in Nat |-> IF n = 0 THEN w0 ELSE ResolveAtStep(f, at[n - 1], follow)]
  <2>1. PICK q : At!IsRun(f, follow, w0, q)
    BY At!RunExists
  <2> QED BY <2>1 DEF At!IsRun, AtStep
<1>2. pl = [n \in Nat |-> IF n = 0 THEN p0 ELSE ResolvePlaceStep(f, pl[n - 1], follow)]
  <2>1. PICK q : Place!IsRun(f, follow, p0, q)
    BY Place!RunExists
  <2> QED BY <2>1 DEF Place!IsRun, PlaceStep
<1>3. resolve_at(f, start, path, follow) = at[Fuel]
  BY DEF resolve_at
<1>4. resolve_place(f, start, path, follow) = pl[Fuel]
  BY DEF resolve_place
<1> DEFINE T == {n \in Nat : pl[n].res # "remote" => at[n] = pl[n] /\ IsWalk(pl[n])}
<1>5. 0 \in T
  <2>1. at[0] = w0 /\ pl[0] = p0 /\ IsWalk(w0)
    BY <1>1, <1>2, WalkStarts
  <2>2. p0.res # "remote" => p0 = w0
    BY DEF Walk
  <2> QED BY <2>1, <2>2
<1> HIDE DEF at, pl, w0, p0
<1>6. ASSUME NEW n \in Nat, n \in T PROVE n + 1 \in T
  <2>1. /\ at[n + 1] = ResolveAtStep(f, at[n], follow)
        /\ pl[n + 1] = ResolvePlaceStep(f, pl[n], follow)
    <3>1. n + 1 \in Nat /\ n + 1 # 0 /\ (n + 1) - 1 = n
      OBVIOUS
    <3> QED BY <3>1, <1>1, <1>2
  <2>2. SUFFICES ASSUME pl[n + 1].res # "remote"
                 PROVE  at[n + 1] = pl[n + 1] /\ IsWalk(pl[n + 1])
    OBVIOUS
  <2>3. pl[n].res # "remote"
    BY <2>1, <2>2 DEF ResolvePlaceStep
  <2>4. at[n] = pl[n] /\ IsWalk(pl[n])
    BY <2>3, <1>6
  <2> QED BY <2>1, <2>2, <2>4, StepsAgree
<1>7. \A n \in Nat : n \in T
  <2> HIDE DEF T
  <2> QED BY <1>5, <1>6, At!SetInduction
<1>8. Fuel \in Nat
  BY VfsAssumption DEF Fuel
<1> QED BY <1>3, <1>4, <1>7, <1>8

\* resolve_at and resolve_place, the two copies of the path walk, end in the
\* same place wherever the second meets no provider, in every tree the calls
\* and the mounts can build: open_at relies on it between its lock holds.
THEOREM Resolvers == Spec => []ResolversAgree
<1>1. VfsInv => ResolversAgree
  <2> SUFFICES ASSUME VfsInv, NEW path \in Paths, NEW follow \in BOOLEAN,
                      resolve_place(fs, ROOT, path, follow).res # "remote"
               PROVE  resolve_at(fs, ROOT, path, follow) = resolve_place(fs, ROOT, path, follow)
    BY DEF ResolversAgree
  <2>1. path \in Path /\ IsFs(fs)
    BY PathsAssumption DEF VfsInv, Good, Tree
  <2> QED BY <2>1, WalksAgree
<1> QED BY <1>1, VfsInvHolds, PTL
=============================================================================
