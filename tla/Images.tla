------------------------------- MODULE Images -------------------------------
(* The local image store and the builder of wk-server images.rs, with the     *)
(* layers of wk-vfs layers.rs and the stages of wk-dockerfile.  A filesystem  *)
(* is a function from the paths that exist to what is there; a layer is what  *)
(* its tarball says, and stands for its own content digest.  One wk process   *)
(* at a time uses the store; it may die between and within its writes.  File  *)
(* contents are opaque, a link stands for the path it names, and the vfs is   *)
(* never full here (see module Vfs).                                          *)
EXTENDS SequencesExt

CONSTANTS
    Paths,        \* the paths of the model: sequences of names
    Contents,     \* what a file may hold
    LinkTargets,  \* the paths a RUN may link to
    MAX_SYMLINK_HOPS, \* the links one walk may cross
    ContextTars,  \* what COPY and ADD make of the build context
    Pulled,       \* the layers of an image that can be pulled
    Tags,         \* the names images are given
    MaxStages,    \* how many FROMs a Dockerfile has
    MaxSteps      \* instructions, program steps and store commands in all

VARIABLES
    store,   \* layer tars on disk: "whole" or "torn", by digest
    images,  \* stored manifests: [layers, exe]; a manifest is its own id
    wasms,   \* the manifests whose entrypoint component was extracted
    tags,    \* tags.json
    alias,   \* the manifest the Dockerfile was last built into, or NoImage
    build,   \* the build under way
    unseen,  \* has a RUN of this stage made a change that diff_layer does not see or misreads
    steps    \* steps so far

vars == <<store, images, wasms, tags, alias, build, unseen, steps>>
disk == <<store, images, wasms, tags, alias>>

Counted == steps < MaxSteps /\ steps' = steps + 1
NoImage == [layers |-> << >>, exe |-> << >>]
Idle == [phase |-> "idle", rootfs |-> << >>, layers |-> << >>, exe |-> << >>,
         before |-> << >>, finished |-> << >>]

-----------------------------------------------------------------------------
(* Filesystems, and the path helpers that apply layers to them.               *)

Dir == [t |-> "dir", v |-> << >>]
LayerFile(v) == [t |-> "ro", v |-> v]
PrivateFile(v) == [t |-> "file", v |-> v]
Symlink(v) == [t |-> "link", v |-> v]

Parent(p) == Front(p)
IsUnder(p, q) == IsPrefix(q, p)
Ancestors(p) == {SubSeq(p, 1, n) : n \in 1..Len(p)}
DirAt(fs, p) == p = << >> \/ (p \in DOMAIN fs /\ fs[p] = Dir)
LinksOn(fs, p) == {q \in Ancestors(p) \cap DOMAIN fs : fs[q].t = "link"}

\* resolve: the path without links that p leads to; << "loop" >> past the limit.
resolve(fs, p) ==
    LET first(q) == CHOOSE x \in LinksOn(fs, q) : \A y \in LinksOn(fs, q) : Len(x) <= Len(y)
        hop[n \in 0..MAX_SYMLINK_HOPS] ==
            IF n = 0 THEN p
            ELSE LET at == hop[n - 1]
                 IN  IF LinksOn(fs, at) = {} THEN at
                     ELSE fs[first(at)].v \o SubSeq(at, Len(first(at)) + 1, Len(at))
        end == hop[MAX_SYMLINK_HOPS]
    IN  IF LinksOn(fs, end) = {} THEN end ELSE <<"loop">>

\* read_file follows links, the last one too.
IsFile(fs, p) == LET end == resolve(fs, p) IN end \in DOMAIN fs /\ fs[end].t \in {"ro", "file"}

\* remove_path_in: p, whose parent is a directory, and all beneath it.
remove_path_in(fs, p) == [q \in {x \in DOMAIN fs : ~IsUnder(x, p)} |-> fs[q]]

\* The entry a whiteout of p removes: links on the way to it are followed.
Whited(fs, p) == Append(resolve(fs, Parent(p)), Last(p))
remove_path(fs, p) == remove_path_in(fs, Whited(fs, p))
clear_dir_at(fs, p) ==
    LET d == resolve(fs, p)
    IN  IF DirAt(fs, d) THEN [q \in {x \in DOMAIN fs : x = d \/ ~IsUnder(x, d)} |-> fs[q]] ELSE fs

\* Missing components are made; a component that is no directory stops it.
ensure_dir_path(fs, p) ==
    IF \E q \in Ancestors(p) : ~DirAt(fs, q) /\ q \in DOMAIN fs THEN fs
    ELSE fs @@ [q \in Ancestors(p) |-> Dir]

\* put_ro_file_at and put_symlink_at: a later layer wins.
PutAt(fs, p, entry) ==
    LET made == ensure_dir_path(fs, Parent(p))
    IN  IF DirAt(made, Parent(p)) THEN (p :> entry) @@ remove_path_in(made, p) ELSE made

\* layers.rs apply: whiteouts and opaque markers, then directories, then files,
\* then links.  A layer is [white, opaque, dirs, files, links].
apply(fs, layer) ==
    LET cleared == FoldSet(LAMBDA p, acc : remove_path(acc, p), fs, layer.white)
        emptied == FoldSet(LAMBDA p, acc : clear_dir_at(acc, p), cleared, layer.opaque)
        made == FoldSet(LAMBDA p, acc : ensure_dir_path(acc, p), emptied, layer.dirs)
        filed == FoldSet(LAMBDA p, acc : PutAt(acc, p, LayerFile(layer.files[p])), made, DOMAIN layer.files)
    IN  FoldSet(LAMBDA p, acc : PutAt(acc, p, Symlink(layer.links[p])), filed, DOMAIN layer.links)

\* images.rs mount: what a node running the image starts with.
mount(layers) == FoldLeft(apply, << >>, layers)

\* diff_layer: private files, new directories, changed links, and a whiteout
\* for the topmost path of everything that went.
Whiteouts(before, after) ==
    {p \in DOMAIN before \ DOMAIN after :
        ~(Parent(p) \in DOMAIN before /\ Parent(p) \notin DOMAIN after)}
diff_layer_no_whiteouts(before, after) ==
    [white |-> {}, opaque |-> {},
     dirs |-> {p \in DOMAIN after : after[p] = Dir /\ p \notin DOMAIN before},
     files |-> [p \in {q \in DOMAIN after : after[q].t = "file"} |-> after[p].v],
     links |-> << >>]
diff_layer(before, after) ==
    LET linked == {p \in DOMAIN after : /\ after[p].t = "link"
                                        /\ ~(p \in DOMAIN before /\ before[p] = after[p])}
        filed == {p \in DOMAIN after : after[p].t = "file"}
    IN  [white |-> Whiteouts(before, after), opaque |-> {},
         dirs |-> {p \in DOMAIN after : after[p] = Dir /\ p \notin DOMAIN before},
         files |-> [p \in filed |-> after[p].v],
         links |-> [p \in linked |-> after[p].v]]
EmptyLayer == [white |-> {}, opaque |-> {}, dirs |-> {}, files |-> << >>, links |-> << >>]

\* The changes a RUN can make that diff_layer passes over: a layer file under
\* another name or in another's place, and a directory where a file or link was.
Unseen(before, after) ==
    \E p \in DOMAIN after :
        \/ after[p].t = "ro" /\ ~(p \in DOMAIN before /\ before[p] = after[p])
        \/ after[p] = Dir /\ p \in DOMAIN before /\ before[p] # Dir

\* The changes it misreads when it applies its own layer to the live rootfs: what
\* went was in a directory that is now a link, and the whiteout takes an entry of
\* the directory the link names.
Misread(before, after) ==
    \E p \in Whiteouts(before, after) : Whited(after, p) \in DOMAIN after

\* copy_from_stage: src itself, or what is beneath it, moved to dest.
Rebased(p, src, dest) == dest \o SubSeq(p, Len(src) + 1, Len(p))
copy_from_stage(fs, src, dest) ==
    LET from == {p \in DOMAIN fs : IsUnder(p, src)}
        at(kinds) == {p \in from : fs[p].t \in kinds}
        target(q) == CHOOSE p \in from : Rebased(p, src, dest) = q
        moved(ps) == {Rebased(p, src, dest) : p \in ps}
    IN  [white |-> {}, opaque |-> {},
         dirs |-> moved(at({"dir"})),
         files |-> [q \in moved(at({"ro", "file"})) |-> fs[target(q)].v],
         links |-> [q \in moved(at({"link"})) |-> fs[target(q)].v]]

-----------------------------------------------------------------------------
(* The store.                                                                 *)

\* put_layer: a file that exists is taken to be the layer.
put_layer(disk_layers, layer) ==
    IF layer \in DOMAIN disk_layers THEN disk_layers ELSE (layer :> "whole") @@ disk_layers

\* The process dies while it writes a layer it did not find.
TornWrite(layer) ==
    /\ layer \notin DOMAIN store
    /\ store' = (layer :> "torn") @@ store
    /\ build' = Idle /\ unseen' = FALSE
    /\ UNCHANGED <<images, wasms, tags, alias>>

\* The process dies between two writes; what it held in memory is gone.
Crash ==
    /\ build.phase # "idle"
    /\ build' = Idle /\ unseen' = FALSE
    /\ UNCHANGED <<disk, steps>>

\* remove_image: manifest, entrypoint and tags; layers may be shared and stay.
KeepLayers_unused(m) == [l \in DOMAIN store \ Range(m.layers) |-> store[l]]
KeepLayers(m) == store
remove_image(m) ==
    /\ m \in images /\ build.phase = "idle" /\ Counted
    /\ images' = images \ {m}
    /\ wasms' = wasms \ {m}
    /\ tags' = [t \in {x \in DOMAIN tags : tags[x] # m} |-> tags[t]]
    /\ store' = KeepLayers(m)
    /\ UNCHANGED <<alias, build, unseen>>

set_tag(t, m) ==
    /\ m \in images /\ build.phase = "idle" /\ Counted
    /\ tags' = (t :> m) @@ tags
    /\ UNCHANGED <<store, images, wasms, alias, build, unseen>>

\* store_pulled_image: every layer, then the manifest, then its component.
store_pulled_image ==
    LET m == [layers |-> Pulled.layers, exe |-> Pulled.exe]
    IN  /\ build.phase = "idle" /\ m \notin images /\ Counted
        /\ \/ /\ store' = FoldLeft(put_layer, store, Pulled.layers)
              /\ IF IsFile(mount(Pulled.layers), Pulled.exe)
                 THEN images' = images \union {m} /\ wasms' = wasms \union {m}
                 ELSE UNCHANGED <<images, wasms>>
              /\ UNCHANGED <<tags, alias, build, unseen>>
           \/ \E l \in Range(Pulled.layers) : TornWrite(l)

-----------------------------------------------------------------------------
(* build_with_runner: one action per instruction.                             *)

\* FROM: the stage before is finished and kept for COPY --from; the base's
\* layers and entrypoint are inherited.
From(base) ==
    /\ build.phase \in {"idle", "stage"} /\ Len(build.finished) < MaxStages /\ Counted
    /\ build' = [phase |-> "stage", rootfs |-> mount(base.layers), layers |-> base.layers,
                 exe |-> base.exe, before |-> << >>,
                 finished |-> IF build.phase = "idle" THEN << >>
                              ELSE Append(build.finished, build.rootfs)]
    /\ unseen' = FALSE
    /\ UNCHANGED disk

\* apply_tar: store the layer, apply it to the live rootfs, add it to the manifest.
apply_tar(layer, missed) ==
    \/ /\ store' = put_layer(store, layer)
       /\ build' = [build EXCEPT !.rootfs = apply(@, layer), !.layers = Append(@, layer),
                                 !.phase = "stage", !.before = << >>]
       /\ unseen' = (unseen \/ missed)
       /\ UNCHANGED <<images, wasms, tags, alias>>
    \/ TornWrite(layer)

Copy(tar) ==
    /\ build.phase = "stage" /\ Counted
    /\ apply_tar(tar, FALSE)

CopyFrom(n, src, dest) ==
    /\ build.phase = "stage" /\ Counted /\ n \in DOMAIN build.finished
    /\ src \in DOMAIN build.finished[n] \* else the build fails
    /\ apply_tar(copy_from_stage(build.finished[n], src, dest), FALSE)

\* RUN: a program of the rootfs works on it; its writes become the next layer.
RunStarts ==
    /\ build.phase = "stage" /\ Counted
    /\ \E p \in DOMAIN build.rootfs : IsFile(build.rootfs, p)
    /\ build' = [build EXCEPT !.phase = "run", !.before = build.rootfs]
    /\ UNCHANGED <<disk, unseen>>

RunDoes(fs) ==
    /\ build.phase = "run" /\ Counted
    /\ fs # build.rootfs
    /\ build' = [build EXCEPT !.rootfs = fs]
    /\ UNCHANGED <<disk, unseen>>
RunWrites(p, entry) ==
    /\ DirAt(build.rootfs, Parent(p)) /\ ~DirAt(build.rootfs, p)
    /\ RunDoes((p :> entry) @@ build.rootfs)
RunMakesDir(p) ==
    /\ DirAt(build.rootfs, Parent(p)) /\ p \notin DOMAIN build.rootfs
    /\ RunDoes((p :> Dir) @@ build.rootfs)
RunRemoves(p) == RunDoes(remove_path_in(build.rootfs, p))
RunRenames(p, q) ==
    LET fs == build.rootfs
        moved == {x \in DOMAIN fs : IsUnder(x, p)}
        left == remove_path_in(remove_path_in(fs, q), p)
    IN  /\ p \in DOMAIN fs /\ DirAt(fs, Parent(q)) /\ ~IsUnder(q, p) /\ ~DirAt(fs, q)
        /\ {Rebased(x, p, q) : x \in moved} \subseteq Paths
        /\ RunDoes([y \in {Rebased(x, p, q) : x \in moved} |->
                       fs[CHOOSE x \in moved : Rebased(x, p, q) = y]] @@ left)

RunEnds ==
    /\ build.phase = "run"
    /\ LET layer == diff_layer(build.before, build.rootfs)
           missed == Unseen(build.before, build.rootfs) \/ Misread(build.before, build.rootfs)
       IN  IF layer = EmptyLayer
           THEN /\ build' = [build EXCEPT !.phase = "stage", !.before = << >>]
                /\ unseen' = (unseen \/ missed)
                /\ UNCHANGED disk
           ELSE apply_tar(layer, missed)
    /\ UNCHANGED steps

\* ENTRYPOINT (or CMD); the rest of the config has no effect on the build.
Entrypoint(p) ==
    /\ build.phase = "stage" /\ Counted /\ build.exe # p
    /\ build' = [build EXCEPT !.exe = p]
    /\ UNCHANGED <<disk, unseen>>

\* The end of the Dockerfile: the entrypoint is read from the live rootfs (or the
\* build fails), then the manifest is saved, the component and the alias.
Finish ==
    /\ build.phase = "stage"
    /\ LET m == [layers |-> build.layers, exe |-> build.exe]
       IN  IF IsFile(build.rootfs, build.exe)
           THEN /\ images' = images \union {m}
                /\ \/ wasms' = wasms \union {m} /\ alias' = m
                   \/ wasms' = wasms \union {m} /\ UNCHANGED alias   \* died before the alias
                   \/ UNCHANGED <<wasms, alias>>                     \* and before the component
           ELSE UNCHANGED <<images, wasms, alias>>
    /\ build' = Idle /\ unseen' = FALSE
    /\ UNCHANGED <<store, tags, steps>>

-----------------------------------------------------------------------------
Init ==
    /\ store = << >> /\ images = {} /\ wasms = {} /\ tags = << >> /\ alias = NoImage
    /\ build = Idle /\ unseen = FALSE /\ steps = 0

Next ==
    \/ From(NoImage) \* scratch
    \/ \E t \in DOMAIN tags : From(tags[t])
    \/ \E tar \in ContextTars : Copy(tar)
    \/ \E n \in 1..MaxStages : \E src, dest \in Paths : CopyFrom(n, src, dest)
    \/ RunStarts \/ RunEnds \/ Finish \/ Crash \/ store_pulled_image
    \/ \E p \in Paths :
         \/ \E v \in Contents : RunWrites(p, PrivateFile(v))
         \/ \E v \in LinkTargets : RunWrites(p, Symlink(v))
         \/ RunMakesDir(p) \/ RunRemoves(p) \/ Entrypoint(p)
         \/ \E q \in Paths : RunRenames(p, q)
    \/ \E m \in images : remove_image(m) \/ \E t \in Tags : set_tag(t, m)

Spec == Init /\ [][Next]_vars

-----------------------------------------------------------------------------
(* Properties.                                                                *)

\* What a reader sees of a filesystem: not whether a file is private yet.
Seen(fs) == [p \in DOMAIN fs |-> IF fs[p].t = "file" THEN LayerFile(fs[p].v) ELSE fs[p]]

\* A node that runs an image gets the filesystem the build had: mounting the
\* manifest's layers in order gives the live rootfs, whatever the instructions
\* copied, inherited, wrote, deleted or linked, unless a RUN moved a layer file,
\* put a directory in the place of a file, or put a link in the place of a
\* directory that shares a name with the one it leads to.
ReplayIsTheBuild ==
    build.phase = "stage" /\ ~unseen => mount(build.layers) = Seen(build.rootfs)

\* The same for every RUN: "Capture everything written to `fs` since `before`".
\* Fails for each of the three.
EveryRunIsCaptured ==
    build.phase = "stage" => mount(build.layers) = Seen(build.rootfs)

\* Every stored image has its layers on disk, however many images share them
\* and whichever of those are removed (remove_image, put_layer), and a tag only
\* names an image that is there.
SharedLayersSurvive ==
    /\ \A m \in images : Range(m.layers) \subseteq DOMAIN store
    /\ Range(tags) \subseteq images

\* Every stored image has its layers whole; not so after a crash (put_layer).
StoredIsWhole == \A m \in images : \A l \in Range(m.layers) : store[l] = "whole"
=============================================================================
