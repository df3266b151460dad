------------------------------ MODULE ExecTree ------------------------------
(* wk:exec (wk-server/src/exec.rs and plugin.rs, run_program to Child::wait): *)
(* a node's guest starts programs out of its own filesystem, they start       *)
(* others, and each may wait for the ones it started.  Every program has a    *)
(* thread of its own; waiting is a join, so a waiting guest is inside a host  *)
(* call, where the epoch that ends a killed node cannot reach it.             *)
(*                                                                            *)
(* Progs are told apart only by who started them.  Of a child's streams    *)
(* just its standard input is here: it may come through a pipe of which the   *)
(* parent keeps a writing end (module ExecPipe has the pipe itself).          *)
EXTENDS Naturals

CONSTANTS
    Progs,   \* the programs there may be
    Node,       \* the node's own guest
    MAX_DEPTH,
    Nobody

ASSUME TreeAssumption ==
    /\ Node \in Progs
    /\ Nobody \notin Progs
    /\ MAX_DEPTH \in Nat

VARIABLES
    state,    \* what each program does
    parent,   \* who started it
    depth,    \* ExecCtx.depth of its store
    on,       \* whom it waits for
    handles,  \* the ChildHandles in its table that still hold a child
    ends,     \* the children whose pipe it keeps a writing end of
    reaped,   \* how often a program's thread has been joined
    exec_permit,   \* the node's ExecPermit
    killed
treeVars == <<state, parent, depth, on, handles, ends, reaped, exec_permit, killed>>

Live == {p \in Progs : state[p] \in {"runs", "waits", "reads"}}

\* program_bytes: the permit is the store's own, and a child's store has one
\* that is always set.
May(p) ==
    /\ state[p] = "runs"
    /\ p = Node => exec_permit
    /\ depth[p] < MAX_DEPTH

\* spawn_program with the depth of the caller, not one more.
Started_same_depth(p, c) ==
    /\ parent' = [parent EXCEPT ![c] = p]
    /\ depth' = [depth EXCEPT ![c] = depth[p]]
Started(p, c) ==
    /\ parent' = [parent EXCEPT ![c] = p]
    /\ depth' = [depth EXCEPT ![c] = depth[p] + 1]

\* The thread is made and the child's handle put into the caller's table.  The
\* caller may have its standard input from a pipe it writes to itself.
spawn(p, c, piped) ==
    /\ May(p) /\ state[c] = "unborn"
    /\ Started(p, c)
    /\ state' = [state EXCEPT ![c] = "runs"]
    /\ handles' = [handles EXCEPT ![p] = @ \cup {c}]
    /\ ends' = IF piped THEN [ends EXCEPT ![p] = @ \cup {c}] ELSE ends
    /\ UNCHANGED <<on, reaped, exec_permit, killed>>

\* The same, its standard input given as bytes, and wait at once.
run(p, c) ==
    /\ May(p) /\ state[c] = "unborn"
    /\ Started(p, c)
    /\ state' = [state EXCEPT ![c] = "runs", ![p] = "waits"]
    /\ on' = [on EXCEPT ![p] = c]
    /\ UNCHANGED <<handles, ends, reaped, exec_permit, killed>>

\* wait looks at the child instead of taking it.
wait_borrows(p, c) ==
    /\ state[p] = "runs" /\ c \in handles[p]
    /\ state' = [state EXCEPT ![p] = "waits"]
    /\ on' = [on EXCEPT ![p] = c]
    /\ UNCHANGED <<parent, depth, handles, ends, reaped, exec_permit, killed>>
\* wait takes the child out of its handle; a second one finds it empty.
wait(p, c) ==
    /\ state[p] = "runs" /\ c \in handles[p]
    /\ state' = [state EXCEPT ![p] = "waits"]
    /\ on' = [on EXCEPT ![p] = c]
    /\ handles' = [handles EXCEPT ![p] = @ \ {c}]
    /\ UNCHANGED <<parent, depth, ends, reaped, exec_permit, killed>>

Joined(p) ==
    /\ state[p] = "waits" /\ state[on[p]] = "ended"
    /\ state' = [state EXCEPT ![p] = "runs"]
    /\ on' = [on EXCEPT ![p] = Nobody]
    /\ reaped' = [reaped EXCEPT ![on[p]] = @ + 1]
    /\ UNCHANGED <<parent, depth, handles, ends, exec_permit, killed>>

\* The handle is dropped unwaited: the child runs on.
drop(p, c) ==
    /\ state[p] = "runs" /\ c \in handles[p]
    /\ handles' = [handles EXCEPT ![p] = @ \ {c}]
    /\ UNCHANGED <<state, parent, depth, on, ends, reaped, exec_permit, killed>>

CloseEnd(p, c) ==
    /\ state[p] = "runs" /\ c \in ends[p]
    /\ ends' = [ends EXCEPT ![p] = @ \ {c}]
    /\ UNCHANGED <<state, parent, depth, on, handles, reaped, exec_permit, killed>>

\* A child reads its standard input to the end of file.
ReadInput(c) ==
    /\ state[c] = "runs" /\ c # Node
    /\ state' = [state EXCEPT ![c] = "reads"]
    /\ UNCHANGED <<parent, depth, on, handles, ends, reaped, exec_permit, killed>>
EndOfFile(c) ==
    /\ state[c] = "reads" /\ c \notin ends[parent[c]]
    /\ state' = [state EXCEPT ![c] = "runs"]
    /\ UNCHANGED <<parent, depth, on, handles, ends, reaped, exec_permit, killed>>

\* A guest returns or traps, and its store goes with all it holds.
End(p) ==
    /\ state[p] = "runs"
    /\ state' = [state EXCEPT ![p] = "ended"]
    /\ handles' = [handles EXCEPT ![p] = {}]
    /\ ends' = [ends EXCEPT ![p] = {}]
    /\ UNCHANGED <<parent, depth, on, reaped, exec_permit, killed>>

\* The server refreshes the permit from the node's token every tick.
Refresh ==
    /\ exec_permit' = ~exec_permit
    /\ UNCHANGED <<state, parent, depth, on, handles, ends, reaped, killed>>
\* The node is stopped or deleted: its guest traps at the next epoch, if it is
\* running.  A child's epoch callback lets it go on.
Kill ==
    /\ ~killed /\ killed' = TRUE
    /\ UNCHANGED <<state, parent, depth, on, handles, ends, reaped, exec_permit>>
Epoch == killed /\ End(Node)

TreeInit ==
    /\ state = [p \in Progs |-> IF p = Node THEN "runs" ELSE "unborn"]
    /\ parent = [p \in Progs |-> Nobody]
    /\ depth = [p \in Progs |-> 0]
    /\ on = [p \in Progs |-> Nobody]
    /\ handles = [p \in Progs |-> {}]
    /\ ends = [p \in Progs |-> {}]
    /\ reaped = [p \in Progs |-> 0]
    /\ exec_permit \in BOOLEAN /\ killed = FALSE

TreeNext ==
    \/ \E p, c \in Progs :
          \/ \E piped \in BOOLEAN : spawn(p, c, piped)
          \/ run(p, c) \/ wait(p, c) \/ drop(p, c) \/ CloseEnd(p, c)
    \/ \E p \in Progs : Joined(p) \/ ReadInput(p) \/ EndOfFile(p) \/ End(p)
    \/ Refresh \/ Kill \/ Epoch

\* The threads are scheduled, and the epoch ticks; no program has to end or to
\* close what it holds.
TreeFairness == WF_treeVars(Epoch) /\ \A p \in Progs : WF_treeVars(Joined(p)) /\ WF_treeVars(EndOfFile(p))
TreeSpec == TreeInit /\ [][TreeNext]_treeVars /\ TreeFairness
-----------------------------------------------------------------------------
TreeTypeOK ==
    /\ state \in [Progs -> {"unborn", "runs", "waits", "reads", "ended"}]
    /\ parent \in [Progs -> Progs \cup {Nobody}]
    /\ depth \in [Progs -> 0..MAX_DEPTH]
    /\ on \in [Progs -> Progs \cup {Nobody}]
    /\ handles \in [Progs -> SUBSET Progs]
    /\ ends \in [Progs -> SUBSET Progs]
    /\ reaped \in [Progs -> Nat]
    /\ exec_permit \in BOOLEAN /\ killed \in BOOLEAN

\* Joins cannot deadlock among themselves, and cannot pile up: whoever waits,
\* waits for a program it started itself and that nobody else waits for or
\* ever collects, one level further down, and there are MAX_DEPTH levels; and
\* no thread is joined twice.
WaitsRunDown ==
    /\ \A p \in Progs : state[p] = "waits" =>
          /\ on[p] \in Progs /\ parent[on[p]] = p
          /\ depth[on[p]] = depth[p] + 1 /\ depth[on[p]] <= MAX_DEPTH
          /\ reaped[on[p]] = 0
          /\ \A q \in Progs : on[p] \notin handles[q] /\ (q # p => on[q] # on[p])
    /\ \A p \in Progs : reaped[p] <= 1

\* NOT so: "attenuating a token stops further `run`s within a tick".  A child's
\* permit is a fresh one, and what is running already goes on starting programs.
RevokedStartsNothing == [][~exec_permit => \A p \in Progs : state[p] = "unborn" => state'[p] = "unborn"]_treeVars

\* NOT so: a killed node's guest ends.  It may be waiting for a child that
\* runs on, or that reads a pipe of which this very guest has the other end.
KilledNodeEnds == killed ~> state[Node] = "ended"
=============================================================================
