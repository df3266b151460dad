--------------------------- MODULE NodeLifecycle ---------------------------
(***************************************************************************)
(* The life of an app node: the thread that compiles its component, the    *)
(* server thread that runs, stops and closes it, and the guest threads     *)
(* that execute it.  They share no lock; they meet in the node's atomics   *)
(* (finished, running, kill), its write-once setup, its terminal, its      *)
(* filesystem-provider conduit and its stack on the network hub.           *)
(*                                                                         *)
(* Each element of Nodes is one incarnation (one Node value): a node that  *)
(* is closed and recreated is two of them.  PluginHost::run_node is called *)
(* by two kinds of thread, a node's compile thread (identified with the    *)
(* node) and the server thread, so its steps take the calling thread.      *)
(***************************************************************************)
EXTENDS Naturals, FiniteSets

CONSTANTS
  Nodes,      \* app node incarnations
  Providers,  \* those whose component imports wk:fs/provider
  Guests,     \* guest thread slots
  Server      \* the server thread (also "no node")

ASSUME LifecycleAssumption ==
  /\ Providers \subseteq Nodes
  /\ Server \notin Nodes

VARIABLES
  registered,  \* nodes in the server's node registry
  setup,       \* the published setup (OnceLock): what the component turned out to be
  stack,       \* the node's stack on the hub
  finished, running, kill,  \* the node's atomics
  stdin,       \* is the terminal's input open?
  serving,     \* does the provider conduit accept calls?
  surfaces,    \* nodes owning an open surface in the surface registry
  cpc,         \* compile thread of each node
  rpc,         \* progress of each thread inside PluginHost::run_node
  srvNode,     \* the node the server thread is working on
  closing,     \* is the server thread inside close_node?
  todo,        \* nodes drain_pending_run still has to visit
  pendingRun,  \* Run commands waiting for a compilation
  gpc, gnode   \* guest threads and the nodes they execute

Kinds == {"plain", "net", "http"}  \* no sockets; wasi:sockets; wasi:http server

vars == <<registered, setup, stack, finished, running, kill, stdin, serving,
          surfaces, cpc, rpc, srvNode, closing, todo, pendingRun, gpc, gnode>>

compileVars == <<cpc, setup, stack>>
serverVars  == <<registered, srvNode, closing, todo, pendingRun>>
guestVars   == <<gpc, gnode, surfaces>>

Threads == Nodes \cup {Server}
Target(t) == IF t = Server THEN srvNode ELSE t

Loading(n) == setup[n] = "none"
Runnable(n) == setup[n] \in {"plain", "net"}

Parked == {"stdin", "frame", "other"}
Running == {"run"} \cup Parked  \* a guest that executes or is parked
Live(g, n) == gpc[g] \in Running /\ gnode[g] = n

TypeOK ==
  /\ registered \subseteq Nodes
  /\ setup \in [Nodes -> Kinds \cup {"none"}]
  /\ stack \in [Nodes -> {"none", "attached", "detached"}]
  /\ finished \in [Nodes -> BOOLEAN]
  /\ running \in [Nodes -> BOOLEAN]
  /\ kill \in [Nodes -> BOOLEAN]
  /\ stdin \in [Nodes -> BOOLEAN]
  /\ serving \in [Nodes -> BOOLEAN]
  /\ surfaces \subseteq Nodes
  /\ cpc \in [Nodes -> {"unborn", "load", "publish", "check",
                        "abort", "done"}]
  /\ rpc \in [Threads -> {"idle", "swap", "reset", "reopen", "start"}]
  /\ srvNode \in Threads
  /\ closing \in BOOLEAN
  /\ todo \subseteq Nodes
  /\ pendingRun \subseteq Nodes
  /\ gpc \in [Guests -> Running \cup {"idle", "unserve", "clear"}]
  /\ gnode \in [Guests -> Threads]

Init ==
  /\ registered = {}
  /\ setup = [n \in Nodes |-> "none"]
  /\ stack = [n \in Nodes |-> "none"]
  /\ finished = [n \in Nodes |-> FALSE]
  /\ running = [n \in Nodes |-> FALSE]
  /\ kill = [n \in Nodes |-> FALSE]
  /\ stdin = [n \in Nodes |-> TRUE]
  /\ serving = [n \in Nodes |-> FALSE]
  /\ surfaces = {}
  /\ cpc = [n \in Nodes |-> "unborn"]
  /\ rpc = [t \in Threads |-> "idle"]
  /\ srvNode = Server
  /\ closing = FALSE
  /\ todo = {}
  /\ pendingRun = {}
  /\ gpc = [g \in Guests |-> "idle"]
  /\ gnode = [g \in Guests |-> Server]

-----------------------------------------------------------------------------
(* The compile thread of node n *)

\* The image's root filesystem is mounted and the component compiled; a
\* networked node's stack goes on the hub.  A failure ends the thread.
CompileLoad(n) ==
  /\ cpc[n] = "load"
  /\ \/ /\ cpc' = [cpc EXCEPT ![n] = "publish"]
        /\ stack' \in {stack, [stack EXCEPT ![n] = "attached"]}
        /\ UNCHANGED finished
     \/ /\ cpc' = [cpc EXCEPT ![n] = "done"]
        /\ finished' = [finished EXCEPT ![n] = TRUE]
        /\ UNCHANGED stack
  /\ UNCHANGED <<setup, running, kill, stdin, serving, rpc, serverVars, guestVars>>

\* The setup becomes visible to the server.
CompilePublish(n) ==
  /\ cpc[n] = "publish"
  /\ \E k \in Kinds :
       /\ k = "net" <=> stack[n] = "attached"
       /\ setup' = [setup EXCEPT ![n] = k]
  /\ cpc' = [cpc EXCEPT ![n] = "check"]
  /\ UNCHANGED <<stack, finished, running, kill, stdin, serving, rpc,
                 serverVars, guestVars>>

\* A node whose kill flag is up is not started; a plain one starts now.
CompileCheckIgnoresKill(n) ==  \* mutant
  /\ cpc[n] = "check"
  /\ cpc' = [cpc EXCEPT ![n] = "done"]
  /\ rpc' = [rpc EXCEPT ![n] = IF setup[n] = "plain" THEN "swap" ELSE @]
  /\ UNCHANGED <<setup, stack, finished, running, kill, stdin, serving,
                 serverVars, guestVars>>

CompileCheck(n) ==
  /\ cpc[n] = "check"
  /\ cpc' = [cpc EXCEPT ![n] = IF kill[n] THEN "abort" ELSE "done"]
  /\ rpc' = [rpc EXCEPT ![n] = IF ~kill[n] /\ setup[n] = "plain"
                               THEN "swap" ELSE @]
  /\ UNCHANGED <<setup, stack, finished, running, kill, stdin, serving,
                 serverVars, guestVars>>

CompileAbort(n) ==
  /\ cpc[n] = "abort"
  /\ cpc' = [cpc EXCEPT ![n] = "done"]
  /\ stack' = [stack EXCEPT ![n] = IF @ = "attached" THEN "detached" ELSE @]
  /\ finished' = [finished EXCEPT ![n] = TRUE]
  /\ UNCHANGED <<setup, running, kill, stdin, serving, rpc, serverVars, guestVars>>

CompileStep(n) ==
  CompileLoad(n) \/ CompilePublish(n) \/ CompileCheck(n) \/ CompileAbort(n)

-----------------------------------------------------------------------------
(* PluginHost::run_node, called by thread t *)

RunSwapLoadOnly(t) ==  \* mutant: running is read and not set
  LET n == Target(t)
  IN /\ rpc[t] = "swap"
     /\ rpc' = [rpc EXCEPT ![t] = IF Runnable(n) /\ ~running[n]
                                  THEN "reset" ELSE "idle"]
     /\ UNCHANGED <<compileVars, finished, running, kill, stdin, serving,
                    serverVars, guestVars>>

RunSwapClearsKill(t) ==  \* mutant: kill is cleared before running is looked at
  LET n == Target(t)
      starts == Runnable(n) /\ ~running[n]
  IN /\ rpc[t] = "swap"
     /\ rpc' = [rpc EXCEPT ![t] = IF starts THEN "reset" ELSE "idle"]
     /\ running' = [running EXCEPT ![n] = starts \/ @]
     /\ kill' = [kill EXCEPT ![n] = FALSE]
     /\ UNCHANGED <<compileVars, finished, stdin, serving, serverVars, guestVars>>

RunSwap(t) ==
  LET n == Target(t)
      starts == Runnable(n) /\ ~running[n]
  IN /\ rpc[t] = "swap"
     /\ rpc' = [rpc EXCEPT ![t] = IF starts THEN "reset" ELSE "idle"]
     /\ running' = [running EXCEPT ![n] = starts \/ @]
     /\ UNCHANGED <<compileVars, finished, kill, stdin, serving, serverVars, guestVars>>

\* finished and kill are cleared for the new run.
RunReset(t) ==
  /\ rpc[t] = "reset"
  /\ rpc' = [rpc EXCEPT ![t] = "reopen"]
  /\ finished' = [finished EXCEPT ![Target(t)] = FALSE]
  /\ kill' = [kill EXCEPT ![Target(t)] = FALSE]
  /\ UNCHANGED <<compileVars, running, stdin, serving, serverVars, guestVars>>

RunReopen(t) ==
  /\ rpc[t] = "reopen"
  /\ rpc' = [rpc EXCEPT ![t] = "start"]
  /\ stdin' = [stdin EXCEPT ![Target(t)] = TRUE]
  /\ UNCHANGED <<compileVars, finished, running, kill, serving, serverVars, guestVars>>

\* A provider's conduit opens and the guest thread starts.
RunStart(t) ==
  /\ rpc[t] = "start"
  /\ rpc' = [rpc EXCEPT ![t] = "idle"]
  /\ IF Target(t) \in Providers
       THEN serving' = [serving EXCEPT ![Target(t)] = TRUE]
       ELSE UNCHANGED serving
  /\ \E g \in Guests :
       /\ gpc[g] = "idle"
       /\ gpc' = [gpc EXCEPT ![g] = "run"]
       /\ gnode' = [gnode EXCEPT ![g] = Target(t)]
  /\ UNCHANGED <<compileVars, finished, running, kill, stdin, serverVars, surfaces>>

RunStep(t) == RunSwap(t) \/ RunReset(t) \/ RunReopen(t) \/ RunStart(t)

-----------------------------------------------------------------------------
(* A guest thread g *)

\* The guest waits for input, for the next frame of a surface it opened, or for
\* something else: a socket, a resize, the pointer or a key, or a child's end.
GuestPark(g) ==
  /\ gpc[g] = "run"
  /\ \/ /\ stdin[gnode[g]]
        /\ gpc' = [gpc EXCEPT ![g] = "stdin"]
        /\ UNCHANGED surfaces
     \/ /\ gpc' = [gpc EXCEPT ![g] = "frame"]
        /\ surfaces' = surfaces \cup {gnode[g]}
     \/ /\ gpc' = [gpc EXCEPT ![g] = "other"]
        /\ surfaces' \in {surfaces, surfaces \cup {gnode[g]}}
  /\ UNCHANGED <<compileVars, finished, running, kill, stdin, serving, rpc,
                 serverVars, gnode>>

\* What it waits for arrives: input or a frame from a client, a datagram, ...
GuestInput(g) ==
  /\ gpc[g] \in Parked
  /\ gpc' = [gpc EXCEPT ![g] = "run"]
  /\ UNCHANGED <<compileVars, finished, running, kill, stdin, serving, rpc,
                 serverVars, gnode, surfaces>>

\* A closed terminal reads as end of file; a closed surface traps the guest that
\* waits for its frame.  Other waits do not look at kill or at closed.
GuestWoken(g) ==
  /\ \/ /\ gpc[g] = "stdin" /\ ~stdin[gnode[g]]
        /\ gpc' = [gpc EXCEPT ![g] = "run"]
     \/ /\ gpc[g] = "frame" /\ gnode[g] \notin surfaces
        /\ gpc' = [gpc EXCEPT ![g] = "unserve"]
  /\ UNCHANGED <<compileVars, finished, running, kill, stdin, serving, rpc,
                 serverVars, gnode, surfaces>>

\* The guest returns, traps or exits.
GuestExit(g) ==
  /\ gpc[g] = "run"
  /\ gpc' = [gpc EXCEPT ![g] = "unserve"]
  /\ UNCHANGED <<compileVars, finished, running, kill, stdin, serving, rpc,
                 serverVars, gnode, surfaces>>

\* The epoch callback interrupts a guest whose kill flag is up.
GuestTrap(g) == GuestExit(g) /\ kill[gnode[g]]

GuestEndsServingLate(g) ==  \* mutant: the conduit is closed after running is cleared
  /\ gpc[g] = "unserve"
  /\ gpc' = [gpc EXCEPT ![g] = "clear"]
  /\ running' = [running EXCEPT ![gnode[g]] = FALSE]
  /\ UNCHANGED <<compileVars, finished, serving, kill, stdin, rpc,
                 serverVars, gnode, surfaces>>

GuestEndServing(g) ==
  /\ gpc[g] = "unserve"
  /\ gpc' = [gpc EXCEPT ![g] = "clear"]
  /\ serving' = [serving EXCEPT ![gnode[g]] = FALSE]
  /\ UNCHANGED <<compileVars, finished, running, kill, stdin, rpc,
                 serverVars, gnode, surfaces>>

\* finished goes up and then running down; only the latter hands the node on.
GuestClear(g) ==
  /\ gpc[g] = "clear"
  /\ gpc' = [gpc EXCEPT ![g] = "idle"]
  /\ finished' = [finished EXCEPT ![gnode[g]] = TRUE]
  /\ running' = [running EXCEPT ![gnode[g]] = FALSE]
  /\ gnode' = [gnode EXCEPT ![g] = Server]
  /\ UNCHANGED <<compileVars, kill, stdin, serving, rpc, serverVars, surfaces>>

GuestEnd(g) == GuestEndServing(g) \/ GuestClear(g)

GuestStep(g) ==
  \/ GuestPark(g) \/ GuestInput(g) \/ GuestWoken(g) \/ GuestExit(g) \/ GuestEnd(g)

-----------------------------------------------------------------------------
(* The server thread: one command or tick at a time *)

ServerFree == rpc[Server] = "idle" /\ ~closing /\ todo = {}

\* PluginHost::spawn: the node is registered and its compile thread starts.
Spawn(n) ==
  /\ ServerFree
  /\ cpc[n] = "unborn"
  /\ cpc' = [cpc EXCEPT ![n] = "load"]
  /\ registered' = registered \cup {n}
  /\ UNCHANGED <<setup, stack, finished, running, kill, stdin, serving, rpc,
                 srvNode, closing, todo, pendingRun, guestVars>>

\* Server::run_node once the node is known to be registered.
ServerRun(n) ==
  /\ IF ~Loading(n)
       THEN /\ pendingRun' = pendingRun \ {n}
            /\ rpc' = [rpc EXCEPT ![Server] = "swap"]
            /\ srvNode' = n
       ELSE /\ pendingRun' = pendingRun \cup {n}
            /\ UNCHANGED <<rpc, srvNode>>

RunCommand(n) ==
  /\ ServerFree
  /\ n \in registered
  /\ ServerRun(n)
  /\ UNCHANGED <<compileVars, finished, running, kill, stdin, serving,
                 registered, closing, todo, guestVars>>

\* Signal the guest to exit and wake it from its terminal and its surfaces.
HaltGuest(n) ==
  /\ kill' = [kill EXCEPT ![n] = TRUE]
  /\ stdin' = [stdin EXCEPT ![n] = FALSE]
  /\ surfaces' = surfaces \ {n}

StopCommand(n) ==
  /\ ServerFree
  /\ n \in registered
  /\ HaltGuest(n)
  /\ UNCHANGED <<compileVars, finished, running, serving, rpc, serverVars, gpc, gnode>>

\* close_node halts the guest, and then tears the node down.
CloseCommand(n) ==
  /\ ServerFree
  /\ n \in registered
  /\ HaltGuest(n)
  /\ closing' = TRUE
  /\ srvNode' = n
  /\ UNCHANGED <<compileVars, finished, running, serving, rpc,
                 registered, todo, pendingRun, gpc, gnode>>

CloseTeardown ==
  /\ closing
  /\ closing' = FALSE
  /\ registered' = registered \ {srvNode}
  /\ stack' = [stack EXCEPT ![srvNode] =
                 IF ~Loading(srvNode) /\ @ = "attached" THEN "detached" ELSE @]
  /\ UNCHANGED <<cpc, setup, finished, running, kill, stdin, serving, rpc,
                 srvNode, todo, pendingRun, guestVars>>

\* The tick takes the pending runs to visit.
Tick ==
  /\ ServerFree
  /\ todo' = pendingRun
  /\ UNCHANGED <<compileVars, finished, running, kill, stdin, serving, rpc,
                 registered, srvNode, closing, pendingRun, guestVars>>

\* drain_pending_run visits n: gone, still compiling, failed or ready.
DrainForgetsRun(n) ==  \* mutant: the entry goes whether or not the node is ready
  /\ rpc[Server] = "idle"
  /\ n \in todo
  /\ todo' = todo \ {n}
  /\ pendingRun' = pendingRun \ {n}
  /\ IF n \in registered /\ ~Loading(n)
       THEN rpc' = [rpc EXCEPT ![Server] = "swap"] /\ srvNode' = n
       ELSE UNCHANGED <<rpc, srvNode>>
  /\ UNCHANGED <<compileVars, finished, running, kill, stdin, serving,
                 registered, closing, guestVars>>

DrainPendingRun(n) ==
  /\ rpc[Server] = "idle"
  /\ n \in todo
  /\ todo' = todo \ {n}
  /\ IF n \in registered /\ ~Loading(n)
       THEN ServerRun(n)
       ELSE /\ pendingRun' = IF n \in registered /\ ~finished[n]
                             THEN pendingRun ELSE pendingRun \ {n}
            /\ UNCHANGED <<rpc, srvNode>>
  /\ UNCHANGED <<compileVars, finished, running, kill, stdin, serving,
                 registered, closing, guestVars>>

-----------------------------------------------------------------------------
Next ==
  \/ \E n \in Nodes :
       \/ CompileStep(n) \/ Spawn(n) \/ RunCommand(n) \/ StopCommand(n)
       \/ CloseCommand(n) \/ DrainPendingRun(n)
  \/ \E t \in Threads : RunStep(t)
  \/ \E g \in Guests : GuestStep(g)
  \/ CloseTeardown
  \/ Tick

(***************************************************************************)
(* Threads that can run do run.  The server loop ticks again and again     *)
(* between commands, and every tick advances the engine's epoch, so a      *)
(* guest that executes again and again meets the epoch callback.  Users    *)
(* and clients promise nothing, and no guest has to return.                *)
(***************************************************************************)
Fairness ==
  /\ \A n \in Nodes : WF_vars(CompileStep(n)) /\ WF_vars(DrainPendingRun(n))
  /\ \A t \in Threads : WF_vars(RunStep(t))
  /\ \A g \in Guests :
       /\ WF_vars(GuestWoken(g))
       /\ WF_vars(GuestEnd(g))
       /\ SF_vars(GuestTrap(g))
  /\ WF_vars(CloseTeardown)
  /\ SF_vars(Tick)

Spec == Init /\ [][Next]_vars
FairSpec == Spec /\ Fairness

-----------------------------------------------------------------------------
(* Properties *)

\* A thread that owns the node's running flag: in run_node past the swap, or
\* a guest thread that has not cleared it yet.
Starting(t, n) == rpc[t] \in {"reset", "reopen", "start"} /\ Target(t) = n
Occupies(g, n) == gpc[g] # "idle" /\ gnode[g] = n
Serves(g, n) == gpc[g] \in Running \cup {"unserve"} /\ gnode[g] = n

(* A node never has two guests, although its compile thread and the server  *)
(* may both be starting it while an earlier guest is still unwinding: the   *)
(* swap on running hands the node to one starter, and the flag stays up     *)
(* until that starter's guest has done its last write to the node.          *)
OneGuest ==
  \A n \in Nodes :
    /\ \A g, h \in Guests : Occupies(g, n) /\ Occupies(h, n) => g = h
    /\ \A t, u \in Threads : Starting(t, n) /\ Starting(u, n) => t = u
    /\ \A t \in Threads, g \in Guests : ~(Starting(t, n) /\ Occupies(g, n))
    /\ running[n] <=> \/ \E g \in Guests : Occupies(g, n)
                      \/ \E t \in Threads : Starting(t, n)

(* "A provider node's conduit accepts consumer calls only while its serve   *)
(* loop can answer them": it is open for exactly as long as the guest that  *)
(* serves it is there, across any number of stops and re-runs.              *)
ServesWhileGuestRuns ==
  \A n \in Providers :
    serving[n] <=> \E g \in Guests : Serves(g, n)

(* A node closed at any moment of its compilation leaves no stack on the    *)
(* hub: either close_node sees the published setup and detaches it, or the  *)
(* compile thread sees the kill flag and does.                              *)
NoLeakedStack ==
  \A n \in Nodes : cpc[n] = "done" /\ n \notin registered => stack[n] # "attached"

(* Run pressed while the component compiles "must not be a lost no-op": the *)
(* node gets a guest unless it is closed or does not compile.               *)
PendingRunHonoured ==
  \A n \in Nodes :
    n \in pendingRun /\ Loading(n) ~>
      \/ \E g \in Guests : Live(g, n)
      \/ n \notin registered
      \/ setup[n] = "http"
      \/ Loading(n) /\ finished[n]

(* A stop ends a guest that executes, reads its terminal or waits for a     *)
(* frame, whatever is pressed next (Run included).  It does not end one that *)
(* waits, or comes to wait, for a frame of a surface opened after the stop  *)
(* or for anything else (see StopEndsParkedGuest): when such a guest goes   *)
(* on, the stop is still in force and ends it then.                         *)
StopEndsGuest ==
  \A g \in Guests, n \in Nodes :
    Live(g, n) /\ kill[n] /\ ~stdin[n]
      ~> \/ ~Live(g, n)
         \/ gpc[g] = "frame" /\ n \in surfaces
         \/ gpc[g] = "other"

(* "Signal a node's guest to exit and wake it if it's parked" (halt_guest): *)
(* not so for a guest parked on a socket, on another event of its surface   *)
(* or in Child::wait, which nothing wakes and no epoch interrupts.          *)
StopEndsParkedGuest ==
  \A g \in Guests, n \in Nodes :
    Live(g, n) /\ kill[n] /\ ~stdin[n]
      ~> ~Live(g, n) \/ (gpc[g] = "frame" /\ n \in surfaces)

(* load_and_setup honours a deletion during the compilation because the     *)
(* guest "otherwise would run unkillable, its id already gone from every    *)
(* table": no guest outlives its node's registration with the kill flag down. *)
NoUnkillableGuest ==
  \A g \in Guests, n \in Nodes : Live(g, n) /\ n \notin registered => kill[n]
=============================================================================
