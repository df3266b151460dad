-------------------------------- MODULE Vfs --------------------------------
(***************************************************************************)
(* One node's in-memory filesystem (wk-vfs/src/lib.rs, p3.rs, layers.rs).  *)
(*                                                                         *)
(* The guest and the children it execs share one Fs behind a mutex, and    *)
(* the server thread mounts and unmounts volumes, host paths and providers *)
(* in it while they run.  Every call is one step under the lock, but       *)
(* open_at, which counts the new reference in a lock hold of its own. (The *)
(* first hold of open_at, mkdir, unlink and rename only decides whether    *)
(* the walk crosses a provider and is forwarded; it is one step with the   *)
(* hold that follows.)  A mutating helper of the code is an operator from  *)
(* a filesystem to a filesystem here.                                      *)
(*                                                                         *)
(* Bytes shared beyond this Fs (a layer file, a volume, a host file) live  *)
(* in the variable bytes, by blob; of a private file only the length is    *)
(* kept.                                                                   *)
(***************************************************************************)
EXTENDS Integers, Sequences, FiniteSets

CONSTANTS
  Procs,       \* the guest and its exec children: threads sharing the Fs
  Does,        \* bound: per process, the calls it makes
  MaxFd,       \* bound: descriptors one of them holds beside the preopened root
  Paths,       \* paths the callers use; a leading "/" marks an absolute one
  Targets,     \* what a new symbolic link may point at
  OpenFlags,   \* the flag sets passed to open_at
  MountAt,     \* where the server mounts (absolute paths)
  Volumes,     \* blobs behind a Volume or a host file
  LayerFiles,  \* blobs of layer files
  LayerStacks, \* the layer sequences a node may start from
  HostDir,     \* the entries of a bound host directory: sequence of <<name, blob>>
  MaxNodes,    \* MAX_FS_NODES
  MaxIds,      \* bound: node ids allocated in one behaviour
  MaxHost,     \* bound: mounts and unmounts by the server in one behaviour
  MaxFile,     \* MAX_FILE_SIZE
  MaxHops,     \* MAX_SYMLINK_HOPS
  MaxComps     \* bound: components of a path or of a link target

ASSUME VfsAssumption ==
  /\ MaxNodes \in Nat \ {0} /\ MaxIds \in Nat /\ MaxFile \in Nat \ {0}
  /\ MaxHops \in Nat /\ MaxComps \in Nat
  /\ Volumes \cap LayerFiles = {}

\* Paths and link targets are sequences of names; a layer's entries are the
\* five kinds ApplyEntry knows.
Path == Seq(STRING)
LayerEntry ==
  [t : {"whiteout", "opaque", "dir"}, p : Path]
  \cup [t : {"file"}, p : Path, blob : LayerFiles]
  \cup [t : {"link"}, p : Path, to : Path]
ASSUME PathsAssumption ==
  /\ \A p \in Paths \cup Targets \cup MountAt : p \in Path
  /\ HostDir \in Seq(STRING \X Volumes)
  /\ \A ls \in LayerStacks : ls \in Seq(Seq(LayerEntry))

VARIABLES
  fs,       \* [nodes, next, ro, fds]: the Fs struct
  bytes,    \* blob -> contents
  granted,  \* history: the volumes some mount of this Fs ever made writable
  call,     \* per process: the node open_at resolved and has still to count, or NoFd
  fd,       \* per process: the nodes behind its open descriptors, a sequence
  out,      \* per process: its open output stream, or NoOut
  hostdir,  \* entries of a host directory the server has still to mirror
  hostops   \* mounts and unmounts so far, for the bound

vars == <<fs, bytes, granted, call, fd, out, hostdir, hostops>>

ROOT == 0
NoFd == -1
NoOut == [dst |-> "none"]
Ids == 0 .. MaxIds
Blobs == Volumes \cup LayerFiles

----------------------------------------------------------------------------
(* Nodes and the Fs struct. *)

Dir(kids) == [k |-> "dir", kids |-> kids]
File(len) == [k |-> "file", len |-> len]
Blob(kind, b) == [k |-> kind, blob |-> b]     \* kind: "shared", "host", "ro"
Symlink(to) == [k |-> "link", to |-> to]
Device == [k |-> "dev"]
Provider == [k |-> "provider"]
NoKids == [n \in {} |-> ROOT]

EmptyFs == [nodes |-> [i \in {ROOT} |-> Dir(NoKids)], next |-> 1, ro |-> {},
            fds |-> [i \in Ids |-> 0]]

Has(f, id) == id \in DOMAIN f.nodes
Kind(f, id) == IF Has(f, id) THEN f.nodes[id].k ELSE "none"
Kids(f, id) == IF Kind(f, id) = "dir" THEN f.nodes[id].kids ELSE NoKids
KidIds(f, id) == {Kids(f, id)[n] : n \in DOMAIN Kids(f, id)}

at_capacity(f) == Cardinality(DOMAIN f.nodes) >= MaxNodes

\* The id counter only grows; a step that would pass the bound is not taken.
CanAlloc(f) == f.next <= MaxIds
alloc(f, node) ==
  [nodes |-> [i \in DOMAIN f.nodes \cup {f.next} |-> IF i = f.next THEN node ELSE f.nodes[i]],
   next |-> f.next + 1, ro |-> f.ro, fds |-> f.fds]
SetNode(f, id, node) == [f EXCEPT !.nodes[id] = node]
AddEntry(f, dir, name, id) ==
  IF Kind(f, dir) # "dir" THEN f
  ELSE SetNode(f, dir, Dir([n \in DOMAIN Kids(f, dir) \cup {name} |->
                              IF n = name THEN id ELSE Kids(f, dir)[n]]))
DelEntry(f, dir, name) ==
  IF Kind(f, dir) # "dir" THEN f
  ELSE SetNode(f, dir, Dir([n \in DOMAIN Kids(f, dir) \ {name} |-> Kids(f, dir)[n]]))
FreeNodes(f, S) == [f EXCEPT !.nodes = [i \in DOMAIN @ \ S |-> @[i]]]

node_is_referenced(f, id) == \E d \in DOMAIN f.nodes : id \in KidIds(f, d)

\* id and everything below it: each round adds the children of what is there.
Subtree(f, id) ==
  LET reach[n \in Nat] ==
        IF n = 0 THEN {id}
        ELSE LET near == reach[n - 1] IN near \cup UNION {KidIds(f, d) : d \in near}
  IN  reach[Cardinality(DOMAIN f.nodes)]
drop_subtree(f, id) == FreeNodes(f, Subtree(f, id))
remove_path_in(f, parent, name) ==
  IF name \in DOMAIN Kids(f, parent)
  THEN drop_subtree(DelEntry(f, parent, name), Kids(f, parent)[name])
  ELSE f

open_ref(f, id) == [f EXCEPT !.fds[id] = @ + 1]
close_ref(f, id) ==
  LET g == [f EXCEPT !.fds[id] = @ - 1] IN
  IF g.fds[id] = 0 /\ id # ROOT /\ ~node_is_referenced(g, id)
  THEN drop_subtree(g, id) ELSE g

----------------------------------------------------------------------------
(* Path resolution. A walk is [cur, todo, anc, hops, res]; one component a *)
(* step. resolve_at and resolve_place are two copies in the code, so they  *)
(* are two definitions here.                                               *)

IsAbs(p) == p # <<>> /\ Head(p) = "/"
components(p) == IF IsAbs(p) THEN Tail(p) ELSE p
AllButLast(s) == SubSeq(s, 1, Len(s) - 1)
Walk(start, p) ==
  [cur |-> IF IsAbs(p) THEN ROOT ELSE start, todo |-> components(p),
   anc |-> <<>>, hops |-> 0, res |-> "walk"]
Missing(w) == [w EXCEPT !.res = "missing"]
GoUp(w) ==
  [cur |-> IF w.anc = <<>> THEN ROOT ELSE w.anc[Len(w.anc)], todo |-> Tail(w.todo),
   anc |-> IF w.anc = <<>> THEN <<>> ELSE AllButLast(w.anc), hops |-> w.hops, res |-> w.res]
GoDown(w, next) ==
  [cur |-> next, todo |-> Tail(w.todo), anc |-> Append(w.anc, w.cur),
   hops |-> w.hops, res |-> w.res]
FollowLink(w, to) ==
  IF w.hops >= MaxHops THEN Missing(w)
  ELSE [cur |-> IF IsAbs(to) THEN ROOT ELSE w.cur, todo |-> components(to) \o Tail(w.todo),
        anc |-> IF IsAbs(to) THEN <<>> ELSE w.anc, hops |-> w.hops + 1, res |-> w.res]

ResolveAtStep(f, w, follow) ==
  LET comp == Head(w.todo)
      next == Kids(f, w.cur)[comp]
  IN  CASE w.res # "walk" -> w
        [] w.res = "walk" /\ w.todo = <<>> -> [w EXCEPT !.res = "local"]
        [] OTHER ->
             IF comp = ".." THEN GoUp(w)
             ELSE IF comp \notin DOMAIN Kids(f, w.cur) \/ ~Has(f, next) THEN Missing(w)
             ELSE IF Kind(f, next) = "link" /\ (Len(w.todo) > 1 \/ follow)
                  THEN FollowLink(w, f.nodes[next].to)
                  ELSE GoDown(w, next)

\* Mutant: the final link is followed whatever the caller asked for.
ResolvePlaceStep_follows(f, w, follow) ==
  IF w.res = "walk" /\ w.todo # <<>> /\ w.todo[1] \in DOMAIN Kids(f, w.cur)
     /\ Kind(f, Kids(f, w.cur)[w.todo[1]]) = "link"
  THEN FollowLink(w, f.nodes[Kids(f, w.cur)[w.todo[1]]].to)
  ELSE ResolveAtStep(f, w, follow)
ResolvePlaceStep(f, w, follow) ==
  IF w.res # "walk" THEN w
  ELSE IF w.todo = <<>> THEN [w EXCEPT !.res = "local"]
  ELSE IF w.todo[1] = ".." THEN GoUp(w)
  ELSE IF w.todo[1] \notin DOMAIN Kids(f, w.cur) THEN Missing(w)
  ELSE LET next == Kids(f, w.cur)[w.todo[1]] IN
       CASE Kind(f, next) = "none" -> Missing(w)
         [] Kind(f, next) = "provider" ->
              [w EXCEPT !.res = "remote", !.cur = next, !.todo = Tail(@)]
         [] Kind(f, next) = "link" /\ (follow \/ Tail(w.todo) # <<>>) ->
              FollowLink(w, f.nodes[next].to)
         [] OTHER -> GoDown(w, next)

Fuel == MaxComps * (MaxHops + 1) + 1
resolve_at(f, start, p, follow) ==
  LET run[n \in Nat] ==
        IF n = 0 THEN Walk(start, p) ELSE ResolveAtStep(f, run[n - 1], follow)
  IN  run[Fuel]
resolve_place(f, start, p, follow) ==
  LET w0 == Walk(start, p)
      run[n \in Nat] ==
        IF n = 0 THEN IF Kind(f, w0.cur) = "provider" THEN [w0 EXCEPT !.res = "remote"] ELSE w0
        ELSE ResolvePlaceStep(f, run[n - 1], follow)
  IN  run[Fuel]

\* The parent directory of the last component, which must be a directory.  The
\* components are joined again without a leading "/": the walk is from start.
ParentOf(f, start, p) ==
  IF components(p) = <<>> THEN [res |-> "missing", dir |-> NoFd, name |-> ""]
  ELSE LET w == resolve_at(f, start, AllButLast(components(p)), TRUE) IN
       IF w.res = "local" /\ Kind(f, w.cur) = "dir"
       THEN [res |-> "local", dir |-> w.cur, name |-> p[Len(p)]]
       ELSE [res |-> "missing", dir |-> NoFd, name |-> ""]
\* The node its last component names there.
EntryAt(f, q) ==
  IF q.res = "local" /\ q.name \in DOMAIN Kids(f, q.dir) THEN Kids(f, q.dir)[q.name] ELSE NoFd

----------------------------------------------------------------------------
(* Host-side placement: layers, devices and mounts. *)

\* Directories are created component by component, links are not followed;
\* [fs, id], with id NoFd when a component is not a directory or at capacity.
EnsureDir(st, c) ==
  IF st.id = NoFd THEN st
  ELSE IF c \in DOMAIN Kids(st.fs, st.id)
       THEN LET n == Kids(st.fs, st.id)[c] IN
            [fs |-> st.fs, id |-> IF Kind(st.fs, n) = "dir" THEN n ELSE NoFd]
  ELSE IF Kind(st.fs, st.id) # "dir" \/ at_capacity(st.fs) \/ ~CanAlloc(st.fs)
       THEN [fs |-> st.fs, id |-> NoFd]
  ELSE [fs |-> AddEntry(alloc(st.fs, Dir(NoKids)), st.id, c, st.fs.next),
        id |-> st.fs.next]
ensure_dir_path(f, comps) ==
  LET run[n \in Nat] ==
        IF n = 0 THEN [fs |-> f, id |-> ROOT] ELSE EnsureDir(run[n - 1], comps[n])
  IN  run[Len(comps)]

\* Place a node at p, creating the directories above it and replacing what is
\* there; readonly marks the new id.
mount_node_at(f, p, node, readonly) ==
  LET c == components(p) IN
  IF c = <<>> THEN f
  ELSE LET e == ensure_dir_path(f, AllButLast(c)) IN
       IF e.id = NoFd \/ at_capacity(e.fs) \/ ~CanAlloc(e.fs) THEN e.fs
       ELSE LET g == alloc(remove_path_in(e.fs, e.id, c[Len(c)]), node)
                h == AddEntry(g, e.id, c[Len(c)], e.fs.next)
            IN  IF readonly THEN [h EXCEPT !.ro = @ \cup {e.fs.next}] ELSE h

put_ro_file_at(f, p, b) == mount_node_at(f, p, Blob("ro", b), FALSE)
put_symlink_at(f, p, to) == mount_node_at(f, p, Symlink(to), FALSE)

remove_path(f, p) ==
  LET c == components(p) IN
  IF c = <<>> THEN f
  ELSE LET w == resolve_at(f, ROOT, AllButLast(c), TRUE) IN
       IF w.res = "local" THEN remove_path_in(f, w.cur, c[Len(c)]) ELSE f

clear_dir_at(f, p) ==
  LET w == resolve_at(f, ROOT, p, TRUE)
      gone == UNION {Subtree(f, k) : k \in KidIds(f, w.cur)}
  IN  IF w.res = "local" /\ Kind(f, w.cur) = "dir"
      THEN FreeNodes(SetNode(f, w.cur, Dir(NoKids)), gone) ELSE f

ensure_standard_devices(f) ==
  LET e == ensure_dir_path(f, <<"dev">>) IN
  IF e.id = NoFd \/ "null" \in DOMAIN Kids(e.fs, e.id) \/ at_capacity(e.fs) \/ ~CanAlloc(e.fs)
  THEN e.fs ELSE AddEntry(alloc(e.fs, Device), e.id, "null", e.fs.next)

\* Apply one layer, a sequence of [t, p] entries with t one of "whiteout",
\* "opaque", "dir", "file" (blob) and "link" (to): removals, directories,
\* files and links, in four passes.
ApplyEntry(f, e) ==
  CASE e.t = "whiteout" -> remove_path(f, e.p)
    [] e.t = "opaque" -> clear_dir_at(f, e.p)
    [] e.t = "dir" -> ensure_dir_path(f, e.p).fs
    [] e.t = "file" -> put_ro_file_at(f, e.p, e.blob)
    [] e.t = "link" -> put_symlink_at(f, e.p, e.to)
ApplyIf(layer, ts, f, n) == IF layer[n].t \in ts THEN ApplyEntry(f, layer[n]) ELSE f
Pass(f, layer, ts) ==
  LET run[n \in Nat] == IF n = 0 THEN f ELSE ApplyIf(layer, ts, run[n - 1], n)
  IN  run[Len(layer)]
apply(f, layer) ==
  Pass(Pass(Pass(Pass(f, layer, {"whiteout", "opaque"}), layer, {"dir"}), layer, {"file"}),
       layer, {"link"})
MountLayers(ls) ==
  LET run[n \in Nat] == IF n = 0 THEN EmptyFs ELSE apply(run[n - 1], ls[n])
  IN  IF ls = <<>> THEN EmptyFs ELSE ensure_standard_devices(run[Len(ls)])

----------------------------------------------------------------------------
(* Contents. *)

\* A write past the cap is refused and leaves the bytes alone.
write_at(d, off) ==
  IF off + 1 > MaxFile THEN d
  ELSE [i \in 1 .. (IF Len(d) > off THEN Len(d) ELSE off + 1) |->
          IF i = off + 1 THEN 1 ELSE IF i <= Len(d) THEN d[i] ELSE 0]
resize(d, n) == [i \in 1 .. n |-> IF i <= Len(d) THEN d[i] ELSE 0]

is_readonly(f, id) == id \in f.ro
LenOf(f, id) == IF Kind(f, id) = "file" THEN f.nodes[id].len ELSE Len(bytes[f.nodes[id].blob])
copy_up(f, id) ==
  IF Kind(f, id) = "ro" THEN SetNode(f, id, File(LenOf(f, id))) ELSE f

\* Change what id holds: a private file in place, a layer file after copy_up,
\* a volume or host file in its blob; a device discards, a directory refuses.
Mutate(id, New(_)) ==
  CASE Kind(fs, id) \in {"file", "ro"} ->
         LET zeros == [i \in 1 .. LenOf(fs, id) |-> 0] IN
         /\ fs' = SetNode(copy_up(fs, id), id, File(Len(New(zeros))))
         /\ UNCHANGED bytes
    [] Kind(fs, id) \in {"shared", "host"} ->
         /\ bytes' = [bytes EXCEPT ![fs.nodes[id].blob] = New(@)]
         /\ UNCHANGED fs
    [] OTHER -> UNCHANGED <<fs, bytes>>

----------------------------------------------------------------------------
\* A node starts from its layers, or with a volume wired to it before it ran.
Init ==
  /\ \/ /\ fs \in {MountLayers(ls) : ls \in LayerStacks}
        /\ granted = {}
     \/ \E at \in MountAt, v \in Volumes, w \in BOOLEAN :
          /\ fs = mount_node_at(EmptyFs, at, Blob("shared", v), ~w)
          /\ granted = IF w THEN {v} ELSE {}
  /\ bytes = [b \in Blobs |-> <<0>>]
  /\ call = [p \in Procs |-> NoFd]
  /\ fd = [p \in Procs |-> <<>>]
  /\ out = [p \in Procs |-> NoOut]
  /\ hostdir = <<>>
  /\ hostops = 0

\* The directory a call starts from: the preopened root or an open descriptor.
OpenFds(p) == {fd[p][i] : i \in DOMAIN fd[p]}
Starts(p) == {ROOT} \cup OpenFds(p)

Free(p, op) == call[p] = NoFd /\ op \in Does[p]
Opening(p, id) == call' = [call EXCEPT ![p] = id]

\* Crosses(start, path, follow): the provider answers (ProviderConn), no
\* local state changes.
Crosses(start, path, follow) == resolve_place(fs, start, path, follow).res = "remote"

\* open_at up to the release of the lock: resolve, truncate or create.
OpenResolve(p) ==
  /\ Free(p, "open") /\ Len(fd[p]) < MaxFd
  /\ \E path \in Paths, flags \in OpenFlags, start \in Starts(p) :
       /\ ~Crosses(start, path, "follow" \in flags)
       /\ \E w \in {resolve_at(fs, start, path, "follow" \in flags)} :
            \/ /\ w.res = "local"
               /\ "exclusive" \notin flags
               /\ "truncate" \in flags => ~is_readonly(fs, w.cur)
               /\ IF "truncate" \in flags THEN Mutate(w.cur, LAMBDA d : <<>>)
                  ELSE UNCHANGED <<fs, bytes>>
               /\ IF "directory" \in flags /\ Kind(fs, w.cur) # "dir"
                  THEN UNCHANGED call ELSE Opening(p, w.cur)
            \/ /\ w.res # "local" /\ "create" \in flags
               /\ ~at_capacity(fs) /\ CanAlloc(fs)
               /\ \E q \in {ParentOf(fs, start, path)} :
                    /\ q.res = "local"
                    /\ fs' = AddEntry(alloc(fs, File(0)), q.dir, q.name, fs.next)
               /\ Opening(p, fs.next)
               /\ UNCHANGED bytes
  /\ UNCHANGED <<granted, fd, out, hostdir, hostops>>

\* The next lock hold: Descriptor::open counts the reference, to a node that
\* may be gone by now.
OpenRef(p) ==
  /\ call[p] # NoFd
  /\ fs' = open_ref(fs, call[p])
  /\ fd' = [fd EXCEPT ![p] = Append(@, call[p])]
  /\ Opening(p, NoFd)
  /\ UNCHANGED <<bytes, granted, out, hostdir, hostops>>

DropDescriptor(p) ==
  /\ call[p] = NoFd
  /\ \E i \in DOMAIN fd[p] :
       /\ fs' = close_ref(fs, fd[p][i])
       /\ fd' = [fd EXCEPT ![p] = SubSeq(@, 1, i - 1) \o SubSeq(@, i + 1, Len(@))]
  /\ UNCHANGED <<bytes, granted, call, out, hostdir, hostops>>

create_directory_at(p) ==
  /\ Free(p, "mkdir")
  /\ ~at_capacity(fs) /\ CanAlloc(fs)
  /\ \E path \in Paths, start \in Starts(p) :
       /\ resolve_place(fs, start, path, TRUE).res = "missing"
       /\ \E q \in {ParentOf(fs, start, path)} :
            /\ q.res = "local" /\ q.name \notin DOMAIN Kids(fs, q.dir)
            /\ fs' = AddEntry(alloc(fs, Dir(NoKids)), q.dir, q.name, fs.next)
  /\ UNCHANGED <<bytes, granted, call, fd, out, hostdir, hostops>>

\* unlink_file_at (dir FALSE) and remove_directory_at (dir TRUE).
unlink(p) ==
  /\ Free(p, "unlink")
  /\ \E path \in Paths, start \in Starts(p), dir \in BOOLEAN :
       \E q \in {ParentOf(fs, start, path)} : \E id \in {EntryAt(fs, q)} :
         /\ ~Crosses(start, path, FALSE)
         /\ id # NoFd /\ ~is_readonly(fs, id)
         /\ IF dir THEN Kind(fs, id) = "dir" /\ KidIds(fs, id) = {}
            ELSE Kind(fs, id) \notin {"dir", "none"}
         /\ \E g \in {DelEntry(fs, q.dir, q.name)} :
              fs' = IF node_is_referenced(g, id) \/ g.fds[id] > 0 THEN g
                    ELSE FreeNodes(g, {id})
  /\ UNCHANGED <<bytes, granted, call, fd, out, hostdir, hostops>>

\* The entry moves; what it replaces is neither checked nor freed.
Moved(f, a, b, id) == AddEntry(DelEntry(f, a.dir, a.name), b.dir, b.name, id)
rename_at(p) ==
  /\ Free(p, "rename")
  /\ \E old \in Paths, from \in Starts(p) :
     \E a \in {ParentOf(fs, from, old)} : \E id \in {EntryAt(fs, a)} :
       /\ ~Crosses(from, old, FALSE)
       /\ id # NoFd /\ ~is_readonly(fs, id)
       /\ \E new \in Paths, to \in Starts(p) : \E b \in {ParentOf(fs, to, new)} :
            /\ ~Crosses(to, new, FALSE) /\ b.res = "local"
            /\ fs' = Moved(fs, a, b, id)
  /\ UNCHANGED <<bytes, granted, call, fd, out, hostdir, hostops>>

\* A second entry for the same node: neither a directory nor read-only.
\* Mutant: directories may be hard-linked.
Linkable_dirs(f, id) == Kind(f, id) # "none" /\ ~is_readonly(f, id)
Linkable(f, id) == Kind(f, id) \notin {"dir", "none"} /\ ~is_readonly(f, id)
link_at(p) ==
  /\ Free(p, "link")
  /\ \E old \in Paths, start \in Starts(p) : \E w \in {resolve_at(fs, start, old, FALSE)} :
       /\ w.res = "local" /\ Linkable(fs, w.cur)
       /\ \E new \in Paths, to \in Starts(p) : \E q \in {ParentOf(fs, to, new)} :
            /\ q.res = "local" /\ q.name \notin DOMAIN Kids(fs, q.dir)
            /\ fs' = AddEntry(fs, q.dir, q.name, w.cur)
  /\ UNCHANGED <<bytes, granted, call, fd, out, hostdir, hostops>>

symlink_at(p) ==
  /\ Free(p, "link")
  /\ ~at_capacity(fs) /\ CanAlloc(fs)
  /\ \E to \in Targets, path \in Paths, start \in Starts(p) :
     \E q \in {ParentOf(fs, start, path)} :
       /\ ~Crosses(start, path, FALSE)
       /\ q.res = "local" /\ q.name \notin DOMAIN Kids(fs, q.dir)
       /\ fs' = AddEntry(alloc(fs, Symlink(to)), q.dir, q.name, fs.next)
  /\ UNCHANGED <<bytes, granted, call, fd, out, hostdir, hostops>>

write(p) ==
  /\ call[p] = NoFd
  /\ \E id \in OpenFds(p) :
       ~is_readonly(fs, id) /\ Mutate(id, LAMBDA d : write_at(d, 0))
  /\ UNCHANGED <<granted, call, fd, out, hostdir, hostops>>

set_size(p) ==
  /\ call[p] = NoFd
  /\ \E id \in OpenFds(p), n \in 0 .. MaxFile :
       ~is_readonly(fs, id) /\ Mutate(id, LAMBDA d : resize(d, n))
  /\ UNCHANGED <<granted, call, fd, out, hostdir, hostops>>

\* A stream captures what it writes to when it is opened: the node of a
\* private file, the blob of a volume or host file.  Appending copies a
\* layer file up and fixes the offset at the end it then has.
WriteTarget(f, id, off) ==
  IF Kind(f, id) \in {"file", "ro"} THEN [dst |-> "node", id |-> id, off |-> off]
  ELSE [dst |-> "blob", id |-> f.nodes[id].blob, off |-> off]
\* Mutant: the streams skip the read-only check.
Streamable_ro(f, id) == Kind(f, id) \in {"file", "ro", "shared", "host"}
Streamable(f, id) ==
  ~is_readonly(f, id) /\ Kind(f, id) \in {"file", "ro", "shared", "host"}
write_via_stream(p) ==
  /\ call[p] = NoFd /\ out[p] = NoOut
  /\ \E id \in OpenFds(p) :
       /\ Streamable(fs, id)
       /\ out' = [out EXCEPT ![p] = WriteTarget(fs, id, 0)]
  /\ UNCHANGED <<fs, bytes, granted, call, fd, hostdir, hostops>>

append_via_stream(p) ==
  /\ call[p] = NoFd /\ out[p] = NoOut
  /\ \E id \in OpenFds(p) :
       /\ Streamable(fs, id)
       /\ fs' = copy_up(fs, id)
       /\ out' = [out EXCEPT ![p] = WriteTarget(fs, id, LenOf(fs, id))]
  /\ UNCHANGED <<bytes, granted, call, fd, hostdir, hostops>>

\* A write at the moving offset: the offset advances, or the stream is closed
\* because its node is gone or the file would pass the cap.
Lost(s) == s.dst = "node" /\ Kind(fs, s.id) \notin {"file", "ro"}
Consumed(s) ==
  IF Lost(s) \/ s.off + 1 > MaxFile THEN NoOut ELSE [s EXCEPT !.off = @ + 1]

\* One write on the stream, wherever its destination is by now: a captured
\* blob is written whatever became of the mount.
StreamWrite(p) ==
  /\ call[p] = NoFd /\ out[p] # NoOut
  /\ LET s == out[p] IN
       /\ IF Lost(s) THEN UNCHANGED <<fs, bytes>>
          ELSE IF s.dst = "node" THEN Mutate(s.id, LAMBDA d : write_at(d, s.off))
          ELSE /\ bytes' = [bytes EXCEPT ![s.id] = write_at(@, s.off)]
               /\ UNCHANGED fs
       /\ out' = [out EXCEPT ![p] = Consumed(s)]
  /\ UNCHANGED <<granted, call, fd, hostdir, hostops>>

DropStream(p) ==
  /\ call[p] = NoFd /\ out[p] # NoOut
  /\ out' = [out EXCEPT ![p] = NoOut]
  /\ UNCHANGED <<fs, bytes, granted, call, fd, hostdir, hostops>>

----------------------------------------------------------------------------
(* The server thread. *)

HostCall == hostdir = <<>> /\ hostops < MaxHost /\ hostops' = hostops + 1

mount_file ==
  /\ HostCall
  /\ \E at \in MountAt, v \in Volumes, w \in BOOLEAN :
       /\ fs' = mount_node_at(fs, at, Blob("shared", v), ~w)
       /\ granted' = IF w THEN granted \cup {v} ELSE granted
  /\ UNCHANGED <<bytes, call, fd, out, hostdir>>

mount_provider ==
  /\ HostCall
  /\ \E at \in MountAt, w \in BOOLEAN : fs' = mount_node_at(fs, at, Provider, ~w)
  /\ UNCHANGED <<bytes, granted, call, fd, out, hostdir>>

unmount_file ==
  /\ HostCall
  /\ \E at \in MountAt : fs' = remove_path(fs, at)
  /\ UNCHANGED <<bytes, granted, call, fd, out, hostdir>>

\* A bound directory is mirrored entry by entry, one lock hold each.
mount_host_dir ==
  /\ HostCall /\ HostDir # <<>>
  /\ \E at \in MountAt, w \in BOOLEAN :
       /\ fs' = ensure_dir_path(fs, components(at)).fs
       /\ hostdir' = [i \in 1 .. Len(HostDir) |->
                        [at |-> Append(at, HostDir[i][1]), blob |-> HostDir[i][2], w |-> w]]
  /\ UNCHANGED <<bytes, granted, call, fd, out>>
mount_host_file ==
  /\ hostdir # <<>>
  /\ LET h == Head(hostdir) IN
       /\ fs' = mount_node_at(fs, h.at, Blob("host", h.blob), ~h.w)
       /\ granted' = IF h.w THEN granted \cup {h.blob} ELSE granted
  /\ hostdir' = Tail(hostdir)
  /\ UNCHANGED <<bytes, call, fd, out, hostops>>

Next ==
  \/ \E p \in Procs :
       \/ OpenResolve(p) \/ OpenRef(p) \/ DropDescriptor(p)
       \/ create_directory_at(p) \/ unlink(p) \/ rename_at(p)
       \/ link_at(p) \/ symlink_at(p)
       \/ write(p) \/ set_size(p)
       \/ write_via_stream(p) \/ append_via_stream(p) \/ StreamWrite(p) \/ DropStream(p)
  \/ mount_file \/ mount_provider \/ unmount_file \/ mount_host_dir \/ mount_host_file

Spec == Init /\ [][Next]_vars

----------------------------------------------------------------------------
(* Properties. *)

\* The struct is well formed: every id in use was allocated, directories hold
\* allocated ids, and the descriptors counted are the descriptors held.
TypeOK ==
  /\ ROOT \in DOMAIN fs.nodes /\ DOMAIN fs.nodes \subseteq Ids
  /\ \A i \in DOMAIN fs.nodes : i < fs.next /\ \A k \in KidIds(fs, i) : k < fs.next
  /\ fs.ro \subseteq Ids
  /\ \A i \in Ids : fs.fds[i] = Cardinality(UNION {{<<p, j>> : j \in {k \in DOMAIN fd[p] : fd[p][k] = i}}
                                              : p \in Procs})
  /\ bytes \in [Blobs -> UNION {[1 .. n -> 0 .. 1] : n \in 0 .. MaxFile}]
  /\ granted \subseteq Volumes

\* A blob the server never mounted writable keeps its bytes: a layer file is
\* copied up before it is written, and a read-only mount is refused by every
\* path a guest can write through (open with truncate, write, set_size, the
\* streams, a hard link, a rename), in any interleaving with its children.
BytesFollowGrants == \A b \in Blobs \ granted : bytes[b] = <<0>>

\* Directories that hang below one another in a circle: each is named by one
\* of them.
Circle(S) == \A c \in S : Kind(fs, c) = "dir" /\ \E d \in S : c \in KidIds(fs, d)

\* What a walk reaches from the root is a tree of directories, whatever is
\* linked, renamed, unmounted or replaced: no directory has two names, none of
\* them is the root's, and where directories hang in a circle (rename_at lets a
\* directory be moved below itself) nothing outside it leads in.
TreeFromRoot ==
  /\ \A d \in DOMAIN fs.nodes : ROOT \notin KidIds(fs, d)
  /\ \A d, e \in DOMAIN fs.nodes :
       \A n \in DOMAIN Kids(fs, d), m \in DOMAIN Kids(fs, e) :
         Kids(fs, d)[n] = Kids(fs, e)[m] /\ Kind(fs, Kids(fs, d)[n]) = "dir" => d = e /\ n = m
  /\ \A S \in SUBSET DOMAIN fs.nodes :
       Circle(S) => ROOT \notin S /\ \A d \in DOMAIN fs.nodes \ S : KidIds(fs, d) \cap S = {}

\* There are such circles: `mkdir a` and a rename of a to a/b leave a nameless
\* directory that holds itself, beyond everybody's reach but still counted by
\* at_capacity.
NoneBelowItself == \A S \in SUBSET DOMAIN fs.nodes : Circle(S) => S = {}

\* The two resolvers agree: where resolve_place meets no provider, both end in
\* the same place; open_at relies on it between its first two lock holds.
ResolversAgree ==
  \A path \in Paths, follow \in BOOLEAN :
    LET a == resolve_at(fs, ROOT, path, follow)
        b == resolve_place(fs, ROOT, path, follow)
    IN  b.res # "remote" => a.res = b.res /\ (a.res = "local" => a.cur = b.cur)

\* What Fs::open_fds promises ("Freed only when both the link count (dir
\* entries) and this count reach zero"): no step of a guest or a child frees
\* a node that is open, or that a directory entry outside what is freed names.
GuestStep == hostops' = hostops /\ hostdir' = hostdir
FreedOnlyUnused ==
  [][GuestStep =>
       \A id \in DOMAIN fs.nodes \ DOMAIN fs'.nodes :
         fs'.fds[id] = 0 /\ ~node_is_referenced(fs', id)]_vars
=============================================================================
