# TLA+ models of wk

wk is a canvas on which WebAssembly components run as *nodes* and are joined by
*wires*. A server (`crates/wk-server`) owns the canvas: it compiles components,
runs their guests on threads of their own, turns wires into effects (mounts,
MIDI routes, network membership, served ports, grants), filters every effect
through capability tokens, lets clients edit and undo, and keeps the whole in a
`.wk` file. This directory holds TLA+ models of it, the TLC runs that check
them, and TLAPS proofs.

- [Inventory](#inventory) – the parts, their state, what makes them correct
- [Modules](#modules) – which module models what, and how
- [Runs](#runs) – what TLC checks, on which bounds
- [Fairness](#fairness)
- [Proofs](#proofs) – what holds for every value of the constants, and why
- [Only model-checked](#only-model-checked)
- [What does not hold](#what-does-not-hold)
- [Not modelled](#not-modelled) and [what is left](#what-is-left)

## Inventory

| Part | State | Operations | Meets others through | What makes it correct |
|---|---|---|---|---|
| **Node lifecycle** (`plugin.rs`, `server.rs`) | node registry, write-once `setup`, atomics `finished`/`running`/`kill`, hub stack, pending run | spawn, compile, publish, run, stop, close, exit | compile thread, server thread, guest threads; no common lock | one guest per node; no stack of a dead node on the hub; Run is not lost; Stop ends a guest that runs or waits for its window |
| **Surfaces** (`plugin.rs`, `compositor.rs`) | sizes, wakers, registry of surfaces | poll, get frame, paint, resize, halt | guest thread, compositor's frame | the screen catches up with the window |
| **Provider conduit** (`wk-vfs/provider.rs`, `fsprov.rs`) | request queue, reply slots, serving flag, generation, handles | call, cast, reply, begin and end serving, open, drop | one lock, one lock per slot, deadlines | a call is answered by the loop that accepted it or fails; handles die with their loop |
| **Exec** (`execpipe.rs`, `exec.rs`) | pipe buffer, counts of ends, waker slots; the tree of programs | spawn, run, wait, read, write, drop | one lock per pipe; joins | end-of-file and broken pipe are final; no lost wake-up; joins cannot wait in a circle |
| **Guest sockets** (`sockets.rs`, `sockets_p3.rs`) | socket slots with generations; a bridged TCP connection's two pipes; a UDP socket's host bridge | both WASI generations' calls, host threads | hub thread, host threads, wakers | streams keep to their socket; bytes arrive in order; nobody sleeps over what it could use |
| **Fabric** (`wk-fabric/netstack.rs`, membership in `server.rs`) | stacks, addresses, nets, routers, trunks, frames under way | attach, wire, route, deliver, tunnel | hub thread, server thread, tunnel threads | frames stay inside what was wired |
| **Ways out** (`uplink.rs`, `veilid.rs`, `hostmcast.rs`, `listen.rs`, `portfwd.rs`, `sync_serves`) | tickets, connections, routes, groups, listeners, ports | dial, undial, reconcile, rebind | asynchronous tasks and listener threads that see a flag late | undialling parts; dialling reaches; a wanted endpoint is published in the end |
| **Canvas document** (`server.rs`, `wiring.rs`) | nodes, seven wire relations, pending wires, tokens, effects, undo | edit, authorize, undo, tick | one server lock; compile threads publish at any time | effects follow wires; revocation takes effect; pending wires are made |
| **Filesystem** (`wk-vfs/lib.rs`, `p3.rs`, `layers.rs`) | inode tree, mounts, descriptors, streams, layers | open, link, rename, write, mount | guests of one node and the server under one lock | bytes follow grants; what a walk reaches is a tree; two resolvers agree |
| **Workspace** (`workspace.rs`, `instancing.rs`, images) | document, file, sidecars, instances, image store | load, edit, undo, save, expand, build | crashes, hand edits, `wk add` | a saved file loads and reads back the same; what was asked for is kept |
| **Clients** (`client-local-ui`, `wk-api`, `attach.rs`, `terminal.rs`, `tty.rs`) | snapshots, focus, editors, connections, line discipline | input between frames, attach, logs, reads | command queue, other clients | no editor on a dead node; input wakes a reader; a hang-up gives the terminal back |
| **MIDI and music** (`midi.rs`, `midihw.rs`, `wk-sequence`, `wk-midifile`, plugins) | routes, held notes, inboxes; patterns, scheduler, song files | send, rewire, play, record, export | clocks, bounded queues | whatever is cut is released; silent after a stop; an export sounds as it does with every track heard |

What is hard here: flags that three kinds of thread read and write; locks taken
in two orders; a test and its use in different critical sections; wakers in one
slot; nets, routes and snapshots that are stale when used; toggles that are
their own inverse; effects re-judged only by a tick; a file rewritten in place.
PROJECT.json lists the hazards line by line with the properties that would
catch each.

## Modules

A module models one component; an `MC` module puts it, or several that share no
state, before TLC. Where several are put together, a variable `part` says which
of them this behaviour is about; the others stay in an initial state in which no
fair action of theirs is enabled, so a run of the sum is the runs of its parts.
A component that has theorems and stands beside another, in a run or in a module
of proofs, is combined with it by `EXTENDS`, so that run and theorem speak of the
same definition: its `Init`, `Next` and so on carry a prefix (`TreeInit`,
`GwNext`, `UplinkSpec`, `TermSpec`, `ClientSpec`, `SockSpec`, `MidiSpec`).

| Module | Models | Run | Theorems in |
|---|---|---|---|
| `NodeLifecycle` | life of an app node | `lifecycle` | `NodeLifecycleProofs` |
| `Remote` | clients over a connection: attach, logs, create | `lifecycle` | |
| `ProviderConn`, `FsService` | the conduit; the service it implements | `provider`, `provider_hang` | `ProviderConnProofs` |
| `Surface` | graphical guest and its window | `provider` | |
| `ExecPipe`, `ExecTree` | pipe between programs; the tree of programs | `pipes` | `PipesProofs` |
| `Gateway`, `Udp` | bridged TCP connection; UDP socket with its host bridge | `pipes` | `PipesProofs` (`Gateway`) |
| `Canvas` | document, wiring, effects, undo, tick | `canvas` | `CanvasProofs` |
| `Vfs` | a node's filesystem | `vfs` | `VfsProofs` |
| `Fabric`, `Sockets` | hub, routers, trunks; socket table | `network` | `FabricProofs` |
| `Serve`, `IrohUplink`, `VeilidUplink`, `HostMcast` | endpoints; tunnels; multicast | `outside` | `FabricProofs` (`IrohUplink`) |
| `Workspace`, `Instancing`, `WorkspaceFile`, `Images` | document on disk; groups; the file's lines; image store | `workspace` | `WorkspaceProofs` (`Workspace`) |
| `Client`, `Terminal` | window client; a terminal's input | `client` | `NodeLifecycleProofs` |
| `Midi` | router, channels, devices | `midi` | `WorkspaceProofs` |
| `Song`, `Sequencer`, `Instruments` | pattern, schedule and files; the sequencer node; piano, arpeggiator, synthesizer | `music` | |
| `Recursion` | nothing: what a loop written as a recursive function computes | | itself |

Loops of the code that a theorem is about are recursive functions
(`done[n \in Nat]`), the others folds. A helper that lies inside the lines of the
definition that uses it has no entry of its own in the map of PROJECT.json.

How state and steps correspond to the code, where it is not plain:

**NodeLifecycle.** An element of `Nodes` is one `Node` value: a node closed and
recreated is two. `cpc` is the compile thread, `rpc[t]` a thread's progress inside
`PluginHost::run_node`, `gpc` a guest thread. Server commands start only when
the server lock is free; `close_node` and the drain of pending runs are several
steps because others see them half done. Atomics are sequentially consistent
although the code uses `Relaxed`; the order of one thread's stores is kept. A
guest is parked on its standard input, on a frame, or on something else that
`halt_guest` does not wake: a socket, another event of its window, a child.

**ProviderConn.** One step is one critical section of the conduit's lock, but
`end_serving` keeps it while it fails calls slot by slot (`EndServing`,
`EndFail`, `EndDone`), and a timed-out caller keeps its slot's lock until it has
the conduit's (`TimeOut`, `Withdraw`). A handle is named by the loop that minted it.

**ExecPipe, ExecTree.** One step is one critical section of the pipe's lock;
`wends`, `rends` are the ends that exist, `writers`, `readers` the code's
counters. `ShellHolds` tells a shell that owns an end of each kind while it
spawns (libc's `pipe()`) from one that does not (`pipedemo.c`). In the tree, a
wait is a join inside a host call: `Epoch` does not reach it.

**Gateway.** `pump` is where the connect-and-pump thread is, `out` what it took
from the outgoing pipe and has not written. A read takes any part of the
buffer. Bytes are numbered as they are sent, so that order, loss and repetition
show.

**Fabric.** `hub[h]` is the driver's step with what it noted at its start
(stacks to poll, trunks, routes, bridges), so rewiring falls between its phases.
A hub has any number of trunks, and two of them may be on one net or joined to
each other. `conns` holds the pairs of trunks a tunnel joins or has joined;
`ever` is history too: every permitted wire there has been.

**Canvas.** The server is one record and a handler a function on it, so a
command is one step, as under the server lock. `component` is what a compile
will turn out to import, chosen initially and visible only after `Publish`.

**Vfs.** A call is one step under the lock, but `open_at`, which takes two.

**Workspace, WorkspaceFile.** A save is several steps and the server may die
between any two, or a write may fail, which the code logs and goes on from. The
settings of wires (mount paths, container ports, MIDI channels) are pruned by the
same code; the mount paths stand for them. A file is its lines; KDL's syntax is a
library's.

**Images.** A tree is a function from paths to entries. A whiteout and an opaque
marker follow links on their way, as `resolve` does; a link stands for the path
it names.

**Client.** The client acts on the snapshot of its last frame; its commands wait
in the server's inbox while others edit.

**Midi, Song, Sequencer.** Messages and files are sequences of bytes; a song file
is modelled to the byte, chunk headers aside. Time goes in units of 25 ms. A guest
that is run again finds its receivers as the last run left them. In `Instruments`
nothing is wired into the piano, so its MIDI thru forwards nothing.

**Serve.** `busy` says that the clients of a UDP socket send without a pause, in
which `udp_pump` does not look at its kill flag.

## Runs

All bounds are in the `.cfg` or the `MC` module.

| Run | Checks | Bounds, and why they are enough | Distinct states |
|---|---|---|---|
| `lifecycle` | `OneGuest`, `ServesWhileGuestRuns`, `NoLeakedStack`, `PendingRunHonoured`, `StopEndsGuest`, `ReclaimedAfterHangup` | one node (nodes share nothing), two guest threads (a double start needs two), commands unbounded; three things to be parked on; two clients on two terminals | 150 018 |
| `provider` | `DownFailsFast`, `LiveHandleIsOurs`, refinement `ImplementsService`, `ScreenFollowsWindow` | two consumers, a queue of one (so that it overflows), four requests, one restart; a guest run twice with two resizes | 319 859 |
| `pipes` | `EofIsFinal`, `NoLostWakeup`, `BytesArriveInOrder`, `WaitsRunDown`, `ParkedIsWoken`, `DatagramIsHeard` | pipelines of up to two producers and two consumers, capacity two (partial reads and writes); connection pipes of two bytes, four in and three out (both fill up); four programs two levels deep; a UDP queue of one | 488 873 |
| `canvas` | `EffectsFollowWires`, `RevocationTakesEffect`, `PendingWireIsMade` | six commands over two apps, a volume, a gateway, a capture node and an uplink: what it takes to create two apps and a gateway, wire both pairs and delete one | 407 054 |
| `vfs` | `BytesFollowGrants`, `TreeFromRoot`, `ResolversAgree` | two guests with different calls, names two deep, three inodes, one symbolic link hop, a volume, a layer and a host directory | 421 223 |
| `network` | `DeliveredWhereWired`, `StreamsKeepToTheirSocket` | two hubs, three nets, a router, two trunks on one hub and one on the other, one tunnel between any two of them, an address clash across hubs; from an unwired start one rewiring and one token change, from a joined one either; the two like trunks are symmetric; six socket calls | 1 025 363 |
| `outside` | `UndialParts`, `PublishedInTheEnd`, `DialerReaches`, `GroupIsJoined` | two iroh uplinks and three Veilid ends (so that one may dial in beside the target) with up to three dials, one loss; two host ports over two numbers, two changes, UDP clients that pause or do not; one group and two bridges | 151 842 |
| `workspace` | `SavedFileLoads`, `AskedForIsKept`, `ReplayIsTheBuild`, `ReadsBackTheSame`, `UndoRestores`, `NotesKept` | three edits or failed writes, an undo stack of two, nested groups at the limit of instances; two edits of the file by any hand, one with an editable imported tab; an image of six steps with links | 165 365 |
| `client` | `NoDeadEditor`, `InputWakes` | four inputs, a foreign command between any two frames; three keys in any split into frames | 1 200 664 |
| `midi` | `NoStuckNote` | two apps, a device each way, a backlog of two, four events | 1 568 665 |
| `music` | `SilentWhenReleased`, `SilentWhenStopped`, `ExportSoundsTheSame` | two tracks, two patterns, three steps, four gestures of each kind of session, one of them with reruns | 1 376 967 |
| `provider_hang` | violation of `EveryCallReturns` | as `provider`, with fairness | |

`provider_hang` is a disagreement of the code with its own words ("Failure is
EIO, never a hang", `provider.rs:14`): a timed-out caller and `end_serving` take
the slot's and the conduit's lock in opposite orders and wait for ever.

Deadlock is checked in `lifecycle` and `canvas`, whose bounds never stop them.
Elsewhere behaviours end where their bounds on calls, inputs or restarts do, or
the system may really stop, as a pipeline does.

## Fairness

Threads that can run do run, and tasks whose waker was called are polled. Beyond
that:

- `lifecycle`: the server loop ticks between commands (strong fairness of `Tick`,
  as commands take the lock in between), and each tick advances the engine's
  epoch, so a guest that executes again and again meets the callback (strong
  fairness of `GuestTrap`). No guest has to return. A connection's thread and its
  pump run.
- `provider`: the guest's loop and the compositor's frames go on; strong fairness
  of `Interrupt` is the epoch again. `provider_hang`: threads run and deadlines
  pass; no guest has to answer.
- `pipes`: the pump runs, woken tasks are polled, the hub ticks. Programs, guests
  and remotes promise nothing.
- `canvas`: there are always more ticks; compilation is not assumed to end.
- `outside`: dialers, accept loops and route events are tasks that run; the
  server ticks; a listener polls its kill flag on a timeout. The UDP pump reads its
  own only when its clients pause for 5 ms, which nobody promises: `UdpEnds` is
  enabled only while they do not flood it, and `PublishedInTheEnd` has the proviso
  (`Flooded`). Likewise `DialerReaches` is about a dialler that nobody else has
  dialled, since the retry waits for an empty list of peers. A network that sends
  to a group keeps doing so (strong fairness of `FabricSend`), for otherwise nobody
  would miss the group.

## Proofs

Eight modules, checked by TLAPS, each theorem for every value of the constants
under the assumption its component's module states (TLC evaluates these too).
Each rests on an inductive invariant; TLC checked every property it implies on
the run's bounds before it was proved. The last step of each theorem is
`Init => Inv`, `Inv /\ [Next]_vars => Inv'`, `Inv => property`. A module that
proves things about several components has a part for each.

**Recursion.** Lemmas only. `RunExists`: a recursion over `Nat` with any step has a solution,
and `SetInduction`, induction stated with a set of numbers so that it can be
cited. A module instantiates it with the step of a loop (`Playing == INSTANCE
Recursion WITH step <- PlayStep`), unfolds the loop with the first and follows it
with the second. This is how the loops of `Canvas`, `Vfs`, `Client`, `Sockets` and
`Midi` are reasoned about.

**NodeLifecycleProofs: the node** (`LifecycleAssumption`). `TypeCorrect`;
`AtMostOneGuest`: `[]OneGuest`; `ServesExactly`: `[]ServesWhileGuestRuns`;
`StacksAreDetached`: `[]NoLeakedStack`. The invariant adds to these `Positions`
(where the compile thread is when its node is starting, what the server may be
doing) and `StackInv`, which covers the window between publication and the compile
thread's check, where either side may still have to detach.

**NodeLifecycleProofs: the terminal** (no assumption). `TerminalTypeCorrect`;
`NeverSleepsOverInput`: `[]InputWakes`, inductive with the types, because whoever
fills the buffer or closes the terminal takes the waker in the same critical
section.

**NodeLifecycleProofs: the window client** (`ClientAssumption`: any nodes, tabs,
inputs). `EditorsAreShown`: `[]NoDeadEditor`. `ClientInv` adds what the server's
document and the commands on their way look like. Most handlers only let go of
editors and leave the view alone (`LetsGo`); a new frame's snapshot may lose
anything, and the client then clears what the snapshot no longer shows before it
takes input again. A label of a wire is different: a click of the same frame may
open it after that check, so the invariant allows an editor of a wire that is gone
when this frame's click opened it (`late`) and both its ends are still drawn; the
next frame closes it.

**ProviderConnProofs** (`ProviderAssumption`: any consumers, queue length, calls
and restarts). `DownNeverHangs`: `[]DownFailsFast`; `NoRequestOrphaned`;
`LiveHandleIsOwn`: `[]LiveHandleIsOurs`; and `ConduitImplementsService`: the
conduit implements `FsService` under the mapping of `ImplementsService`, step by
step. The invariant `ConnInv` follows a call's id: ids are fresh, one caller has
one, what is owed a reply has an empty slot, a waiter is owed one, and whatever
is owed was accepted by the loop that is there unless that one is just ending.
What the queue holds plays no part, so its type is left to TLC.

**PipesProofs: the pipe** (`PipeAssumption`: any capacity, finite sets of
programs). `PipeTypeCorrect`; `CountersAreExact` (the counters are the ends that
exist, so `saturating_sub` never saturates); `NeverStranded`: `[]NoLostWakeup`;
`BufferIsBounded`; `EofFinal` and `BrokenPipeFinal`, both assuming `ShellHolds`,
without which the second is false. `SleepsRightly` strengthens `NoLostWakeup`: an
unwoken sleeper alone on its side has its waker in the slot, and what it waits
for has not happened. `Headroom` bounds the buffer without summing permits.
`ShellWaits` turns "no ends now" into "no ends ever".

**PipesProofs: the tree of programs** (`TreeAssumption`: any programs, any
`MAX_DEPTH`). `TreeTypeCorrect`; `JoinsRunDown`: `[]WaitsRunDown`. The invariant
says where a child can be: in its starter's handle, waited for by its starter, or
beyond anybody's reach; a handle is taken out of the table before the wait begins.

**PipesProofs: the bridged connection** (`GatewayAssumption`: any capacity, read
size, number of bytes). `GatewayTypeCorrect`; `BridgedInFull`:
`[]BytesArriveInOrder`. Towards the guest, what it has and what waits is the start
of what was sent, the pump alone closes the pipe as its last act, and without a
reset only when the remote has ended and nothing is left. Towards the host, what
arrived, what the pump holds and what is in the pipe are together all that was
written while the pump runs; the pump holds bytes only between a drain and the
write after it.

**FabricProofs: the uplinks** (`UplinkAssumption`). `UplinkTypeCorrect`;
`UndialledIsParted`: `[]UndialParts`. The last ticket on the way from document to
dialer is the document's (`TicketArrives`); a dialer without target connects to
nobody and has no live connection it dialed (`NoTargetNoTunnel`), because an open
connection is in the list of the side that dialed it (`DialerLists`), so the
clearing misses none.

**FabricProofs: the fabric** (`FabricAssumption`: any hubs, nodes, nets, routers,
any number of trunks on each hub, any tunnels between them). `FramesKeepToTheirNets`: `[]DeliveredWhereWired`. A net, a route, a bridge
or a queued frame may be out of date when the driver uses it; what never goes out
of date is that its wire was once there, and its tunnel once made. The invariant
ties each of them to `ever` and `conns.made`, which only grow, from the server's
tables over the driver's notes to frames in trunks, in the air and delivered: what
waits in a trunk to go out was sent by a node that once shared a net with it, and
what came in crossed one tunnel from such a trunk; `ClosureGrows` says that reachability grows
with it.

**FabricProofs: the sockets** (`SocketAssumption`: any slots, backlog, closing
time). `NoStrayStream`: `[]StreamsKeepToTheirSocket`. Generations are given out in
ascending order and never twice; whatever the table (`TableOk`) or a stream
(`Served`) remembers is from before the next one, so a slot that was reaped and
taken again is never taken for the old socket.

**VfsProofs** (`VfsAssumption`, `PathsAssumption`: any guests, names, volumes,
layers, bounds). `BytesGranted`: `[]BytesFollowGrants`; `TreeBelowRoot`:
`[]TreeFromRoot`; `Resolvers`: `[]ResolversAgree`. `VfsInv` says that entries
name inodes that were given out, that a directory is named by one entry
(`OneEntry`, from which it follows that nothing outside a circle leads into it),
that what is writable was granted (`WritesGranted`), and that a
stream writes where a grant lets it even after the mount is gone
(`StreamsGranted`). That the two copies of the path walk agree is shown by taking
them one component at a time and comparing where they stand.

**CanvasProofs** (`CanvasAssumption`: any finite canvas, any components and tokens).
`Effects`: `[]EffectsFollowWires`; `OneEach`: `[]OnePerSource`; `NothingDenied`:
`DeniedGainsNothing`, an action property. A handler is a composition of cuts,
toggles and reconcilers. `Keeps` says what every one of those that places and
removes no node preserves (`Good`, the nodes, and that nothing denied is gained),
and handlers are chained by it; `UndoFine` says that what is on the undo stack can
be replayed. Network membership has no reconciler at hand and moves with its wire,
so `Good` has to know that only a stack or a trunk is ever moved.

**WorkspaceProofs: saving.** `PersistedAreKept`: `[]AskedForIsKept`. The file and
its sidecars change in different steps of a save; `KeptInv` says what each leaves
for the next, and records in `torn` whether the last save was cut short or failed
to write something, for then the statement is false. Nothing is assumed of the
graph.

**WorkspaceProofs: MIDI** (`MidiAssumption`: any nodes, finitely many wires, any queue length,
size of dumps). `NotesEnd`: `[]NoStuckNote`, assuming `NotesOnly`, without which it
is false (see below). The invariant is about one note of one app (`Covered`): a
wire into the app holds it, or its release was lost, or it is `Silent`, that is,
every note-on of it that sounds, is scheduled or is queued has a note-off behind
it that is played later. A push keeps `Silent` unless it sheds the note-off it
rests on, which is what `lost` records; a cut or narrowed wire pushes the note-offs
of what it held before it forgets them; and `PlayedOut` shows that a silent note
is over once everything has been played.

## Only model-checked

Liveness and fairness are outside the prover's reach: `PendingRunHonoured`,
`StopEndsGuest`, `ReclaimedAfterHangup`, `ScreenFollowsWindow`, `ParkedIsWoken`,
`DatagramIsHeard`, `RevocationTakesEffect`, `PendingWireIsMade`,
`PublishedInTheEnd`, `DialerReaches`, `GroupIsJoined`.

Of the safety properties these stay with TLC: `SavedFileLoads`, `UndoRestores`,
`ReadsBackTheSame` and `NotesKept`, which compare a document with what is read back
from its lines and need an induction over nested data; `ReplayIsTheBuild`, over the
layers of an image; and `SilentWhenReleased`, `SilentWhenStopped` and
`ExportSoundsTheSame`, which compute with songs and files byte by byte through
folds whose operator argument the provers cannot instantiate.

Checked earlier and still stated in the modules, but in no run because something
deeper in the same run covers their ground: `NoOrphanRequest`,
`BrokenPipeIsFinal`, `BoundedBuffer`, `OnePerSource` and `DeniedGainsNothing` (all
proved); `TunnelComesUp`, `BridgeEnds`, `SharedLayersSurvive`,
`EditsAreKept`, `NotDraggedBack`, `WholeMessages`, `RestartKeepsTheSong`,
`RecordedNoteExists`.

## What does not hold

These are stated in the modules, TLC finds counterexamples to them, and each is
something a reader of the code might take for granted:

| Module | Not so |
|---|---|
| `NodeLifecycle` | `NoUnkillableGuest`: a close between the compile thread's kill check and `run_node`'s reset leaves a guest nothing can stop; `StopEndsParkedGuest`: `halt_guest` wakes what is parked on input or a frame, nothing that waits for a socket, another event of its window or a child |
| `ProviderConn` | `NoStaleHandle`: a handle tested before a restart is queued for the loop after it |
| `ExecPipe` | `EveryWriterWoken`: the second writer to park evicts the first from the only slot; `BrokenPipeIsFinal` when the shell holds no end |
| `ExecTree` | `RevokedStartsNothing`, `KilledNodeEnds`: children have a permit of their own, and a join is not interrupted |
| `Terminal` | `CleanStart`, `NothingHeldBack`, `GridFits` |
| `Surface` | `NoStaleSurface`, and a headless halted guest need not end |
| `Remote` | `EveryHangupReclaims`, `ConfiguresItsOwn` |
| `Gateway`, `Udp`, `Sockets` | `ConnectIsSeen` (flag read, then parked); `DroppedIsSilent`, `RevokedHearsNothing`, `SentThroughGateway`, `NobodyElses`, `ConnectedHearsItsPeer`; `ReadyMeansAcceptable` |
| `Fabric` | `AddressesUnique`: an address is picked and registered in two steps |
| `Serve`, `IrohUplink`, `VeilidUplink`, `HostMcast` | `WiredNodeReachesItsApi`, `PublishedUnderLoad` (a killed UDP pump keeps its port while its clients never pause); `RetargetTakesEffect`, `OneTunnel`; `BothSidesHoldARoute`, `UndialParts` of Veilid, `DialerReachesAmongOthers` (the target's record is fetched again only when there are no peers, so one that dials in keeps the dialler from its target); `NoEcho`, `UnderItsGroup`, `KeepsABridge` |
| `Canvas` | `NoDanglingWires`, `PrivateNetsAreTracked` |
| `Vfs` | `FreedOnlyUnused`; `NoneBelowItself`: `rename_at` looks at no ancestors, and a directory moved below itself is a circle nobody reaches but `at_capacity` counts |
| `Workspace`, `WorkspaceFile`, `Images` | `WiringIsWhatTheFileSays`; `EverySavedFileLoads` (a duplicated group is held to `MAX_INSTANCES` by itself, a loaded document as a whole); `AskedForIsAlwaysKept` (a crash or a failed write after the pruning leaves the old file without its bytes); `UndoRestoresSettings`, `UnplacedKeepSettings` (mount paths, and with them ports and channels, go with their wire and do not come back); `EveryNoteKept`, `AddIsKept`, `LinesAreRead`; `ImportedEditsAreKept` (imported tabs can be edited, and a save leaves them out); `EveryRunIsCaptured` (a moved layer file, a directory in a file's place, a link in the place of a directory that shares a name with the one it leads to), `StoredIsWhole` |
| `Client` | `WiredOnRelease`, `AttachedIsLeftAlone`, `TypesWhereClicked`, `LateJoinerKeepsItsView`; `WireEditorIsShown`: a label clicked in the frame that loses its wire is edited until the next |
| `Midi`, `Sequencer`, `Instruments` | `DeletedOutputIsSilent`; `NoStuckNote` without `NotesOnly` (`observe` takes controller 121 for a release and a synth plays on; a full queue sheds 120 and 123 like any message that is no note-off); `NeverTraps`, `RestartIsHeard`, `NotReplacedByAWire`, `WorkspaceKeepsTheSong`, `HiddenStaysHidden`, `SilentAfterRerun` (a stopped guest's notes are released by nobody), `ExportKeepsMutes` (a muted track is exported and comes back heard); `EveryReleaseArrives`, `NoStuckVoice`, `HeldByMouseIsHeld` |

## Not modelled

PROJECT.json says for every part what is left out. In general: pixels, layout,
hit geometry and the terminal emulator's screen; argument parsing; Datalog and
signatures behind tokens (a token is the set of uses it allows); smoltcp, iroh,
Veilid, KDL, tar and OCI downloads, which are external and appear as what the
code asks of them; audio samples; the bodies of WASI calls that change no shared
state; plugins that are ported third-party programs. The map covers about a
third of the implementation's lines: much of the rest is of these kinds.

## What is left

- `WholeMessages` for any stream of bytes: the decoder's lemma (`DecoderOk`) has to
  say how much data is still missing.
- `SilentWhenStopped` for any song, once the scheduler's folds are recursive
  functions as those of `Midi` are.
- `UndoRestores` for any document: the undo stack holds inverses, and the invariant
  would say that each is the inverse of the step it came from.
- The capability tokens themselves: a token is the set of uses it allows, and what
  biscuit computes from its Datalog is taken as given.
