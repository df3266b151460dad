------------------------------- MODULE Remote -------------------------------
(* Clients of a running server that are not the window: `wk attach`, `wk logs *)
(* -f`, `wk create` and `wk node add`, and programs that speak the protocol   *)
(* themselves.  Each has a connection and a thread that serves it (wk-api     *)
(* serve_client), which while a terminal is attached has a pump thread beside *)
(* it; the terminals are wk-server terminal.rs, the command queue and its     *)
(* loop wk-server runtime.rs, the programs src/attach.rs and src/cli.rs.      *)
(*                                                                            *)
(* Bytes are numbered in the order a guest writes them.  A request with one   *)
(* reply on an otherwise idle connection (a snapshot, a command) is one step. *)
(* Input and resizes, which have no reply and no effect on the rest, are left *)
(* out, and so is the bound of a socket's buffer.                             *)
EXTENDS Naturals, Sequences, SequencesExt

CONSTANTS
    Terminals,     \* app nodes placed at the start
    Idle,          \* bound: those of them whose guest and user do nothing
    NewIds,        \* ids of the nodes clients create: 1..n
    Clients,
    Programs,      \* what the clients may run: a set of [Clients -> program]
    MayUpdate,     \* clients whose token grants node update; all may read
    OutCap,        \* bytes of output kept for the window or an attached client
    LOG_CAP,       \* bytes of output kept for logs
    MaxOut,        \* bound: bytes a guest writes
    MaxMsgs        \* bound: messages an api client sends

VARIABLES
    nodes,     \* placed nodes, oldest first
    config,    \* nodes whose arguments were set, and by whom
    term,      \* terminals: [out, log, total, closed]
    attached,  \* Server::attached
    cmds,      \* the command channel
    up, down,  \* bytes in flight on each connection, as messages
    conn,      \* the serving thread: [at, node, todo, cursor, stop]
    pump,      \* the pump thread: [at, hold]
    cli,       \* the client process: [pc, prog, open, cur, before, mine, sent]
    heard      \* clients that hung up attached, with nothing left to read

vars == <<nodes, config, term, attached, cmds, up, down, conn, pump, cli, heard>>
server == <<nodes, config, attached, cmds>>

None == "none"
Detached == [m |-> "detached"]
Attached(n) == [m |-> "attached", node |-> n]
Term(n, bs) == [m |-> "term", node |-> n, bytes |-> bs]
LogChunk(bs) == [m |-> "chunk", bytes |-> bs]
LogEnd == [m |-> "end"]
Refusal == [m |-> "error"]

-----------------------------------------------------------------------------
(* terminal.rs *)

\* LogRing::push drops the oldest bytes; read clamps to what is retained.
push(t, b) ==
    LET all == Append(t.log, b)
    IN  [t EXCEPT !.log = SubSeq(all, Max({0, Len(all) - LOG_CAP}) + 1, Len(all)),
                  !.total = @ + 1]
log_read(t, from) ==
    LET earliest == t.total - Len(t.log)
        skip == Max({from, earliest}) - earliest
    IN  SubSeq(t.log, skip + 1, Len(t.log))

\* write_out: the live backlog takes no more once it is full; the log does.
GuestWrites(n) ==
    /\ term[n].total < MaxOut
    /\ LET b == term[n].total + 1
           t == push(term[n], b)
       IN  term' = [term EXCEPT ![n] = [t EXCEPT !.out = IF Len(@) < OutCap THEN Append(@, b) ELSE @]]
    /\ UNCHANGED <<server, up, down, conn, pump, cli, heard>>

\* Stop closes stdin, and so does Ctrl-D; a new run opens it again.
Closes(n) ==
    /\ ~term[n].closed
    /\ term' = [term EXCEPT ![n].closed = TRUE]
    /\ UNCHANGED <<server, up, down, conn, pump, cli, heard>>
Reopens(n) ==
    /\ n \in Range(nodes) /\ term[n].closed
    /\ term' = [term EXCEPT ![n].closed = FALSE]
    /\ UNCHANGED <<server, up, down, conn, pump, cli, heard>>

\* The window drains a terminal nobody is attached to (see module Client).
WindowDrains(n) ==
    /\ n \in Range(nodes) \ attached /\ term[n].out # << >>
    /\ term' = [term EXCEPT ![n].out = << >>]
    /\ UNCHANGED <<server, up, down, conn, pump, cli, heard>>

-----------------------------------------------------------------------------
(* runtime.rs: the server loop applies what is queued. *)

Apply(g, cmd) ==
    IF cmd.c = "create" THEN [g EXCEPT !.nodes = Append(@, cmd.id)]
    ELSE [g EXCEPT !.config = @ \cup ({<<cmd.id, cmd.by>>} \cap (Range(g.nodes) \X Clients))]
serve ==
    /\ cmds # << >>
    /\ LET g == FoldLeft(Apply, [nodes |-> nodes, config |-> config], cmds)
       IN  nodes' = g.nodes /\ config' = g.config
    /\ cmds' = << >>
    /\ UNCHANGED <<term, attached, up, down, conn, pump, cli, heard>>

\* Another client deletes the node; its terminal lives on with whoever holds it.
CloseNode(n) ==
    /\ n \in Range(nodes)
    /\ nodes' = SelectSeq(nodes, LAMBDA x : x # n)
    /\ term' = [term EXCEPT ![n].closed = TRUE]
    /\ UNCHANGED <<config, attached, cmds, up, down, conn, pump, cli, heard>>

-----------------------------------------------------------------------------
(* serve_client and its pump. *)

Open(c) == cli[c].open
Say(c, msg) == IF Open(c) THEN down' = [down EXCEPT ![c] = Append(@, msg)] ELSE UNCHANGED down
\* A failed write ends the thread through `?`, with whatever it holds.
Reply(c, msg, next) ==
    /\ Say(c, msg)
    /\ conn' = [conn EXCEPT ![c] = IF Open(c) THEN next ELSE [next EXCEPT !.at = "gone"]]

Attaching(c) == pump[c].at # None

\* ClientMsg::Attach, with no attach left to end.
DoAttach(c, n) ==
    /\ IF n \in Range(nodes) /\ c \in MayUpdate
       THEN /\ attached' = attached \cup {n}
            /\ Reply(c, Attached(n), [conn[c] EXCEPT !.at = "loop", !.node = n, !.todo = None, !.stop = FALSE])
            /\ pump' = IF Open(c) THEN [pump EXCEPT ![c].at = "top"] ELSE pump
       ELSE /\ attached' = IF n \in Range(nodes) THEN attached \ {n} ELSE attached
            /\ Reply(c, Refusal, [conn[c] EXCEPT !.at = "loop", !.todo = None])
            /\ UNCHANGED pump

ToEnd(c, why) ==
    /\ conn' = [conn EXCEPT ![c].at = "ending", ![c].stop = TRUE, ![c].todo = why]
    /\ UNCHANGED <<attached, down, pump>>

\* The scrollback, if there is any, and then the follow loop.
DoLogs(c, n) ==
    LET following == [conn[c] EXCEPT !.at = "follow", !.cursor = <<n, term[n].total>>]
    IN  /\ CASE n \notin Range(nodes) -> Reply(c, Refusal, conn[c])
             [] n \in Range(nodes) /\ term[n].log # << >> ->
                    Reply(c, LogChunk(log_read(term[n], 0)), following)
             [] OTHER -> conn' = [conn EXCEPT ![c] = following] /\ UNCHANGED down
        /\ UNCHANGED <<attached, pump>>

\* One turn of the message loop.
Receive(c) ==
    /\ conn[c].at = "loop" /\ up[c] # << >>
    /\ up' = [up EXCEPT ![c] = Tail(@)]
    /\ LET msg == Head(up[c])
       IN  CASE msg.m = "attach" /\ Attaching(c) -> ToEnd(c, msg.node)
             [] msg.m = "attach" /\ ~Attaching(c) -> DoAttach(c, msg.node)
             [] msg.m = "detach" /\ Attaching(c) -> ToEnd(c, "detach")
             [] msg.m = "detach" /\ ~Attaching(c) ->
                    Reply(c, Detached, conn[c]) /\ UNCHANGED <<attached, pump>>
             [] msg.m = "logs" -> DoLogs(c, msg.node)
    /\ UNCHANGED <<nodes, config, cmds, term, cli, heard>>

Hangup_silent(c) ==   \* mutant: nothing behind the loop
    /\ conn[c].at = "loop" /\ up[c] = << >> /\ ~Open(c)
    /\ conn' = [conn EXCEPT ![c].at = "gone"]
    /\ UNCHANGED <<server, term, up, down, pump, cli, heard>>
\* End of stream releases the attach.  A socket closed with bytes unread is an
\* error on some platforms (ECONNRESET), and an error leaves through `?`.
Hangup(c) ==
    /\ conn[c].at = "loop" /\ up[c] = << >> /\ ~Open(c)
    /\ \/ Attaching(c) /\ ToEnd(c, "gone")
       \/ /\ ~Attaching(c) \/ down[c] # << >>
          /\ conn' = [conn EXCEPT ![c].at = "gone"]
          /\ UNCHANGED <<attached, down, pump>>
    /\ UNCHANGED <<nodes, config, cmds, term, up, cli, heard>>

\* Attach::end: join the pump, release the node; then what asked for it.
JoinPump_not(c) == UNCHANGED pump   \* mutant: the pump is told to stop, not waited for
JoinPump(c) == /\ pump[c].at = "done"
               /\ pump' = [pump EXCEPT ![c] = [at |-> None, hold |-> << >>]]
End(c) ==
    /\ conn[c].at = "ending" /\ JoinPump(c)
    /\ attached' = attached \ {conn[c].node}
    /\ IF conn[c].todo = "detach"
       THEN Reply(c, Detached, [conn[c] EXCEPT !.at = "loop", !.todo = None])
       ELSE /\ conn' = [conn EXCEPT ![c].at = IF conn[c].todo = "gone" THEN "gone" ELSE "attach"]
            /\ UNCHANGED down
    /\ UNCHANGED <<nodes, config, cmds, term, up, cli, heard>>
Reattach(c) ==
    /\ conn[c].at = "attach"
    /\ DoAttach(c, conn[c].todo)
    /\ UNCHANGED <<nodes, config, cmds, term, up, cli, heard>>

\* The follow loop reads nothing from the client; it ends with the terminal.
Follow(c) ==
    LET n == conn[c].cursor[1]
        chunk == log_read(term[n], conn[c].cursor[2])
    IN  /\ conn[c].at = "follow"
        /\ \/ /\ chunk # << >>
              /\ Say(c, LogChunk(chunk))
              /\ conn' = [conn EXCEPT ![c] = IF Open(c) THEN [@ EXCEPT !.cursor = <<n, term[n].total>>]
                                                        ELSE [@ EXCEPT !.at = "loop"]]
           \/ /\ chunk = << >> /\ term[n].closed
              /\ Say(c, LogEnd)
              /\ conn' = [conn EXCEPT ![c].at = "loop"]
        /\ UNCHANGED <<server, term, up, pump, cli, heard>>

\* spawn_pump: the stop flag, then what there is to drain, then the end.
PumpTop(c) ==
    LET n == conn[c].node
    IN  /\ pump[c].at = "top"
        /\ \/ /\ conn[c].stop
              /\ pump' = [pump EXCEPT ![c].at = "done"]
              /\ UNCHANGED <<term, down>>
           \/ /\ ~conn[c].stop /\ term[n].out # << >>
              /\ pump' = [pump EXCEPT ![c] = [at |-> "write", hold |-> term[n].out]]
              /\ term' = [term EXCEPT ![n].out = << >>]
              /\ UNCHANGED down
           \/ /\ ~conn[c].stop /\ term[n].out = << >> /\ term[n].closed
              /\ Say(c, Detached)
              /\ pump' = [pump EXCEPT ![c].at = "done"]
              /\ UNCHANGED term
        /\ UNCHANGED <<server, up, conn, cli, heard>>
PumpWrite(c) ==
    /\ pump[c].at = "write"
    /\ Say(c, Term(conn[c].node, pump[c].hold))
    /\ pump' = [pump EXCEPT ![c] = [at |-> IF Open(c) THEN "top" ELSE "done", hold |-> << >>]]
    /\ UNCHANGED <<server, term, up, conn, cli, heard>>

-----------------------------------------------------------------------------
(* The client processes. *)

Step(c, pc) == cli' = [cli EXCEPT ![c].pc = pc]
Ask(c, msg) == up' = [up EXCEPT ![c] = Append(@, msg)]

\* `wk attach` and `wk logs -f` ask and wait.
AsksAttach(c, n) ==
    /\ cli[c].prog = "attach" /\ cli[c].pc = "start"
    /\ Ask(c, [m |-> "attach", node |-> n]) /\ Step(c, "wait")
    /\ UNCHANGED <<server, term, down, conn, pump, heard>>
AsksLogs(c, n) ==
    /\ cli[c].prog = "logs" /\ cli[c].pc = "start"
    /\ Ask(c, [m |-> "logs", node |-> n]) /\ Step(c, "on")
    /\ UNCHANGED <<server, term, down, conn, pump, heard>>
\* The detach keys: Detach is sent, and its reply ends the output loop.
Leaves(c) ==
    /\ cli[c].prog = "attach" /\ cli[c].pc = "on"
    /\ Ask(c, [m |-> "detach"]) /\ Step(c, "leaving")
    /\ UNCHANGED <<server, term, down, conn, pump, heard>>
\* Another program attaches and detaches as it likes, replies read or not.
Calls(c, msg) ==
    /\ cli[c].prog = "api" /\ cli[c].pc = "start" /\ cli[c].sent < MaxMsgs
    /\ Ask(c, msg) /\ cli' = [cli EXCEPT ![c].sent = @ + 1]
    /\ UNCHANGED <<server, term, down, conn, pump, heard>>

AfterMsg(k, msg) ==
    IF k.prog = "attach" THEN CASE msg.m = "attached" -> "on"
                                [] msg.m = "error" -> "exit"
                                [] msg.m = "detached" /\ k.pc \in {"on", "leaving"} -> "over"
                                [] OTHER -> k.pc
    ELSE IF k.prog = "logs" /\ msg.m \in {"end", "error"} THEN "exit"
    ELSE k.pc
NowAttached(k, msg) ==
    CASE msg.m = "attached" -> msg.node [] msg.m = "detached" -> None [] OTHER -> k.cur
Reads(c) ==
    /\ Open(c) /\ down[c] # << >>
    /\ LET msg == Head(down[c])
       IN  cli' = [cli EXCEPT ![c].pc = AfterMsg(cli[c], msg), ![c].cur = NowAttached(cli[c], msg)]
    /\ down' = [down EXCEPT ![c] = Tail(@)]
    /\ UNCHANGED <<server, term, up, conn, pump, heard>>
\* Behind the output loop the program sends a Detach in any case.
Over(c) ==
    /\ cli[c].pc = "over"
    /\ Ask(c, [m |-> "detach"]) /\ Step(c, "exit")
    /\ UNCHANGED <<server, term, down, conn, pump, heard>>

\* A process that is done, or is killed, takes its socket with it.
Exits(c) ==
    /\ Open(c) /\ (cli[c].pc # "start" \/ cli[c].sent > 0)
    /\ cli' = [cli EXCEPT ![c].open = FALSE, ![c].pc = "dead"]
    /\ heard' = IF cli[c].prog = "attach" /\ cli[c].cur # None /\ down[c] = << >>
                THEN heard \cup {c} ELSE heard
    /\ UNCHANGED <<server, term, up, down, conn, pump>>

\* `wk create`: snapshot, Create, poll for an id the snapshot had not, Update.
\* `wk node add` with arguments looks once, for the newest node without any.
Creates(c, id) ==
    /\ cli[c].prog \in {"create", "add"} /\ cli[c].pc = "start"
    /\ id \notin Range(nodes) /\ \A i \in DOMAIN cmds : cmds[i].id # id
    /\ cmds' = Append(cmds, [c |-> "create", id |-> id])
    /\ cli' = [cli EXCEPT ![c].pc = "poll", ![c].before = Range(nodes), ![c].mine = id]
    /\ UNCHANGED <<nodes, config, attached, term, up, down, conn, pump, heard>>
PollFor(c) == SelectSeq(nodes, LAMBDA n : n \notin cli[c].before)
Configures(c) ==
    LET bare == SelectSeq(nodes, LAMBDA n : \A x \in config : x[1] # n)
        found == IF cli[c].prog = "create" THEN PollFor(c) ELSE Reverse(bare)
    IN  /\ cli[c].pc = "poll" /\ found # << >>
        /\ cmds' = Append(cmds, [c |-> "update", id |-> Head(found), by |-> c])
        /\ Step(c, "exit")
        /\ UNCHANGED <<nodes, config, attached, term, up, down, conn, pump, heard>>

-----------------------------------------------------------------------------
Init ==
    /\ nodes = SetToSeq(Terminals) /\ config = {} /\ attached = {} /\ cmds = << >>
    /\ term = [n \in Terminals |-> [out |-> << >>, log |-> << >>, total |-> 0, closed |-> FALSE]]
    /\ up = [c \in Clients |-> << >>] /\ down = up
    /\ conn = [c \in Clients |-> [at |-> "loop", node |-> None, todo |-> None, cursor |-> << >>, stop |-> FALSE]]
    /\ pump = [c \in Clients |-> [at |-> None, hold |-> << >>]]
    /\ \E run \in Programs :
         cli = [c \in Clients |-> [pc |-> "start", prog |-> run[c], open |-> TRUE, cur |-> None,
                                   before |-> {}, mine |-> None, sent |-> 0]]
    /\ heard = {}

Thread(c) == Receive(c) \/ Hangup(c) \/ End(c) \/ Reattach(c) \/ Follow(c)
Pump(c) == PumpTop(c) \/ PumpWrite(c)
Process(c) ==
    \/ \E n \in Terminals : \/ AsksAttach(c, n) \/ AsksLogs(c, n)
                            \/ Calls(c, [m |-> "attach", node |-> n])
    \/ Calls(c, [m |-> "detach"])
    \/ Leaves(c) \/ Reads(c) \/ Over(c) \/ Exits(c) \/ Configures(c)
    \/ \E id \in NewIds : Creates(c, id)
Next ==
    \/ \E c \in Clients : Thread(c) \/ Pump(c) \/ Process(c)
    \/ \E n \in Terminals \ Idle : GuestWrites(n) \/ Closes(n) \/ Reopens(n) \/ WindowDrains(n) \/ CloseNode(n)
    \/ serve

\* The threads of the server run; clients, guests and users do as they like.
Fairness == /\ \A c \in Clients : WF_vars(Thread(c)) /\ WF_vars(Pump(c))
            /\ WF_vars(serve)

Spec == Init /\ [][Next]_vars /\ Fairness

-----------------------------------------------------------------------------
TypeOK ==
    /\ attached \subseteq Terminals /\ heard \subseteq Clients
    /\ Range(nodes) \subseteq Terminals \cup NewIds
    /\ config \subseteq (Terminals \cup NewIds) \X Clients
    /\ \A n \in Terminals : Len(term[n].out) <= OutCap /\ Len(term[n].log) <= LOG_CAP
    /\ \A c \in Clients : conn[c].at \in {"loop", "ending", "attach", "follow", "gone"}

\* The node a client takes the i-th message in flight to it to be about.
Believed(c, i) ==
    LET before == {j \in 1..i : down[c][j].m \in {"attached", "detached"}}
    IN  IF before = {} THEN cli[c].cur ELSE NowAttached(cli[c], down[c][Max(before)])
OfKind(c, k) == {i \in DOMAIN down[c] : down[c][i].m = k}
Follows(s, t) == Last(s) < Head(t)

\* What a client is sent of a terminal is of the node it attached to last, and
\* nothing of it after the Detached that answers its Detach, although a pump
\* thread writes to the same socket as the replies: Attach::end joins the pump
\* before the reply.  Output keeps its order, and a follower of a log misses
\* bytes only where the ring had dropped them already.
StreamIsOfItsNode ==
    \A c \in Clients :
      /\ \A i \in OfKind(c, "term") : down[c][i].node = Believed(c, i)
      /\ \A k \in {"term", "chunk"} : \A i, j \in OfKind(c, k) :
            (/\ i < j /\ \A e \in OfKind(c, "end") : e < i \/ e > j
             /\ k = "term" => down[c][i].node = down[c][j].node)
              => Follows(down[c][i].bytes, down[c][j].bytes)
\* A `wk attach` that goes away attached, having read what it was sent, gives its
\* node back to the window: the flag is down again unless another connection
\* has attached the node.  (serve_client's `a.end` behind its loop.)
ReclaimedAfterHangup ==
    \A c \in Clients :
      c \in heard ~> \/ conn[c].node \notin attached
                     \/ \E d \in Clients \ {c} : conn[d].node = conn[c].node
\* The comment behind the loop promises it of every disconnection.  Violated: a
\* client killed before its Attached is written, or with output unread on a
\* platform that resets the socket, ends the thread through `?`.
EveryHangupReclaims ==
    \A c \in Clients :
      ~Open(c) ~> \/ conn[c].node \notin attached
                  \/ \E d \in Clients \ {c} : conn[d].node = conn[c].node
\* `wk create` and `wk node add` configure the node they created.  Violated by
\* both: by the first when two run at once, by the second at any time, because
\* it looks before the server loop has applied its Create.
ConfiguresItsOwn == \A x \in config : cli[x[2]].mine = x[1]
=============================================================================
