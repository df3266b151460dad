------------------------------- MODULE Gateway -------------------------------
(* A guest's TCP connection to the real host network, bridged by a thread     *)
(* (HostConn and host_pump in wk-server sockets.rs, the 0.3 stream halves in  *)
(* sockets_p3.rs).  Two pipes under a lock each carry the bytes, with a list  *)
(* of parked wakers; two flags say how the connect ended.  The guest runs     *)
(* three tasks: one awaits the connect, one reads, one writes.                *)
(* The host's TCP socket and the remote end behind it are external.           *)
EXTENDS Naturals, Sequences

CONSTANTS
    HOST_BUF_CAP, \* bytes a pipe holds before its producer is held back
    ReadMax,      \* bytes one read of the host socket may return
    ToGuest,      \* how many bytes the remote sends
    ToHost        \* how many bytes the guest writes

ASSUME GatewayAssumption == /\ HOST_BUF_CAP \in Nat /\ ReadMax \in Nat
                            /\ ToGuest \in Nat /\ ToHost \in Nat

VARIABLES
    connected, failed, abort, \* the shared flags
    incoming, outgoing,       \* the pipes: [buf, closed, wakers]
    pump,     \* the connect-and-pump thread: where it is
    out,      \* bytes the thread took from outgoing and has not written yet
    task,     \* the guest's tasks: [Tasks -> state]
    held,     \* does the guest still own the socket resource
    remote,   \* the other end: [sent, eof, up]
    got,      \* bytes delivered: [guest, host]
    written   \* bytes the guest wrote

gwVars == <<connected, failed, abort, incoming, outgoing, pump, out, task, held,
          remote, got, written>>

Tasks == {"connect", "read", "write"}
\* A task is about to poll, about to park (it saw nothing to do), parked, or
\* finished.
TaskStates == {"off", "poll", "parking", "parked", "done"}
PumpStates == {"none", "dial", "settled", "top", "read", "drain", "write", "done"}

flags == <<connected, failed, abort>>
Pipe == [buf : Seq(Nat), closed : BOOLEAN, wakers : SUBSET Tasks]
EmptyPipe == [buf |-> << >>, closed |-> FALSE, wakers |-> {}]

\* Drain the waker list and wake every task on it.
wake_pipe(t, pipe) == [k \in Tasks |-> IF k \in pipe.wakers /\ t[k] = "parked" THEN "poll" ELSE t[k]]
NoWakers(pipe) == [pipe EXCEPT !.wakers = {}]

GwInit ==
    /\ connected = FALSE /\ failed = FALSE /\ abort = FALSE
    /\ incoming = EmptyPipe /\ outgoing = EmptyPipe
    /\ pump = "none" /\ out = << >>
    /\ task = [t \in Tasks |-> "off"]
    /\ held = TRUE
    /\ remote = [sent |-> 0, eof |-> FALSE, up |-> TRUE]
    /\ got = [guest |-> << >>, host |-> << >>]
    /\ written = 0

-----------------------------------------------------------------------------
(* The guest.                                                                 *)

\* HostConn::connect: the pipes and flags exist, the thread is started.
Connect ==
    /\ pump = "none" /\ held
    /\ pump' = "dial"
    /\ task' = [task EXCEPT !["connect"] = "poll"]
    /\ UNCHANGED <<flags, incoming, outgoing, out, held, remote, got, written>>

\* ConnReady::poll reads the flags first, without the pipe's lock ...
ConnCheck ==
    /\ task["connect"] = "poll"
    /\ task' = [task EXCEPT !["connect"] = IF connected \/ failed THEN "done" ELSE "parking"]
    /\ UNCHANGED <<flags, incoming, outgoing, pump, out, held, remote, got, written>>

\* ... and then leaves its waker on the incoming pipe.
ConnPark ==
    /\ task["connect"] = "parking"
    /\ task' = [task EXCEPT !["connect"] = "parked"]
    /\ incoming' = [incoming EXCEPT !.wakers = @ \cup {"connect"}]
    /\ UNCHANGED <<flags, outgoing, pump, out, held, remote, got, written>>

\* finish_connect, send and receive: the halves are handed out once the
\* connect succeeded.
Start ==
    /\ task["connect"] = "done" /\ connected /\ held /\ task["read"] = "off"
    /\ task' = [task EXCEPT !["read"] = "poll", !["write"] = "poll"]
    /\ UNCHANGED <<flags, incoming, outgoing, pump, out, held, remote, got, written>>

\* HostInput with PipeReady, HostReceiveProducer: under the pipe's lock, take
\* as much of what is there as was asked for, end at a closed empty pipe, or park.
GuestRead ==
    /\ task["read"] = "poll"
    /\ \/ \E n \in 1..Len(incoming.buf) :
             /\ got' = [got EXCEPT !.guest = @ \o SubSeq(incoming.buf, 1, n)]
             /\ incoming' = [incoming EXCEPT !.buf = SubSeq(@, n + 1, Len(@))]
             /\ UNCHANGED task
       \/ /\ incoming.buf = << >> /\ incoming.closed
          /\ task' = [task EXCEPT !["read"] = "done"]
          /\ UNCHANGED <<incoming, got>>
       \/ /\ incoming.buf = << >> /\ ~incoming.closed
          /\ task' = [task EXCEPT !["read"] = "parked"]
          /\ incoming' = [incoming EXCEPT !.wakers = @ \cup {"read"}]
          /\ UNCHANGED got
    /\ UNCHANGED <<flags, outgoing, pump, out, held, remote, written>>

\* HostOutput with PipeWritable, HostSendConsumer: write what fits, fail on a
\* closed pipe, park on a full one.
GuestWrite ==
    /\ task["write"] = "poll" /\ written < ToHost
    /\ \/ /\ outgoing.closed
          /\ task' = [task EXCEPT !["write"] = "done"]
          /\ UNCHANGED <<outgoing, written>>
       \/ /\ ~outgoing.closed /\ Len(outgoing.buf) < HOST_BUF_CAP
          /\ written' = written + 1
          /\ outgoing' = [outgoing EXCEPT !.buf = Append(@, written + 1)]
          /\ UNCHANGED task
       \/ /\ ~outgoing.closed /\ Len(outgoing.buf) >= HOST_BUF_CAP
          /\ task' = [task EXCEPT !["write"] = "parked"]
          /\ outgoing' = [outgoing EXCEPT !.wakers = @ \cup {"write"}]
          /\ UNCHANGED written
    /\ UNCHANGED <<flags, incoming, pump, out, held, remote, got>>

\* HostSendConsumer::drop: the guest closes its stream; the pump is to shut
\* the write side of the host socket.  Nobody is woken.
CloseSend ==
    /\ task["write"] \in {"poll", "parked"}
    /\ outgoing' = [outgoing EXCEPT !.closed = TRUE]
    /\ task' = [task EXCEPT !["write"] = "done"]
    /\ UNCHANGED <<flags, incoming, pump, out, held, remote, got, written>>

\* HostConn::drop: the guest drops the socket.
Drop ==
    /\ held /\ pump # "none"
    /\ held' = FALSE
    /\ abort' = TRUE
    /\ task' = wake_pipe(wake_pipe(task, incoming), outgoing)
    /\ outgoing' = [NoWakers(outgoing) EXCEPT !.closed = TRUE]
    /\ incoming' = NoWakers(incoming)
    /\ UNCHANGED <<connected, failed, pump, out, remote, got, written>>

-----------------------------------------------------------------------------
(* The connect thread, then host_pump.                                        *)

\* connect_timeout returns: the flag is set ...
Dialed(ok) ==
    /\ pump = "dial"
    /\ connected' = ok /\ failed' = ~ok
    /\ pump' = "settled"
    /\ UNCHANGED <<abort, incoming, outgoing, out, task, held, remote, got, written>>

\* ... and the wakers on the incoming pipe are woken.
Settle ==
    /\ pump = "settled"
    /\ pump' = IF connected THEN "top" ELSE "done"
    /\ task' = wake_pipe(task, incoming)
    /\ incoming' = NoWakers(incoming)
    /\ UNCHANGED <<flags, outgoing, out, held, remote, got, written>>

\* The loop's head: stop when the guest is gone, read only into a pipe with
\* room.
PumpTop ==
    /\ pump = "top"
    /\ pump' = IF abort THEN "done"
               ELSE IF Len(incoming.buf) < HOST_BUF_CAP THEN "read" ELSE "drain"
    /\ UNCHANGED <<flags, incoming, outgoing, out, task, held, remote, got, written>>

Unread == remote.sent - Len(got.guest) - Len(incoming.buf)

NextBytes(n) == [i \in 1..n |-> Len(got.guest) + Len(incoming.buf) + i]

\* The same without waking anyone.
PumpEnds_silent ==
    /\ incoming' = [incoming EXCEPT !.closed = TRUE]
    /\ pump' = "done"
    /\ UNCHANGED task

\* The incoming pipe closes and its reader is woken; the thread ends.
PumpEnds ==
    /\ incoming' = [NoWakers(incoming) EXCEPT !.closed = TRUE]
    /\ task' = wake_pipe(task, incoming)
    /\ pump' = "done"

\* stream.read: bytes, end of stream or an error, or nothing within 10 ms.
PumpRead ==
    /\ pump = "read"
    /\ \/ \E n \in 1..ReadMax :
          /\ n <= Unread
          /\ incoming' = [NoWakers(incoming) EXCEPT !.buf = @ \o NextBytes(n)]
          /\ task' = wake_pipe(task, incoming)
          /\ pump' = "drain"
       \/ /\ Unread = 0 /\ remote.eof
          /\ PumpEnds
       \/ /\ ~remote.up
          /\ PumpEnds
       \/ /\ Unread = 0 /\ ~remote.eof
          /\ pump' = "drain"
          /\ UNCHANGED <<incoming, task>>
    /\ UNCHANGED <<flags, outgoing, out, held, remote, got, written>>

\* A drain that copies.
PumpDrain_copies ==
    /\ pump = "drain"
    /\ out' = outgoing.buf
    /\ pump' = "write"
    /\ UNCHANGED <<flags, incoming, outgoing, task, held, remote, got, written>>

\* Take everything the guest buffered, and whether it closed its side.
PumpDrain ==
    /\ pump = "drain"
    /\ out' = outgoing.buf
    /\ outgoing' = [outgoing EXCEPT !.buf = << >>]
    /\ pump' = "write"
    /\ UNCHANGED <<flags, incoming, task, held, remote, got, written>>

\* write_all, then wake a writer held back by a full pipe.
WakeWriter(t) == wake_pipe(t, outgoing)

PumpWrite ==
    /\ pump = "write"
    /\ out' = << >>
    /\ \/ /\ out # << >> /\ remote.up
          /\ got' = [got EXCEPT !.host = @ \o out]
          /\ task' = WakeWriter(task)
          /\ outgoing' = NoWakers(outgoing)
          /\ pump' = "top"
          /\ UNCHANGED incoming
       \/ /\ out # << >> /\ ~remote.up
          /\ PumpEnds
          /\ UNCHANGED <<outgoing, got>>
       \/ /\ out = << >>
          /\ pump' = "top"
          /\ UNCHANGED <<incoming, outgoing, task, got>>
    /\ UNCHANGED <<flags, held, remote, written>>

-----------------------------------------------------------------------------
(* The remote end: sends its bytes, closes its side, or resets.               *)

RemoteSend == /\ remote.sent < ToGuest /\ ~remote.eof /\ remote.up /\ connected
              /\ remote' = [remote EXCEPT !.sent = @ + 1]
RemoteEof == /\ ~remote.eof /\ remote.up /\ connected
             /\ remote' = [remote EXCEPT !.eof = TRUE]
RemoteReset == /\ remote.up /\ connected
               /\ remote' = [remote EXCEPT !.up = FALSE]

Remote == /\ RemoteSend \/ RemoteEof \/ RemoteReset
          /\ UNCHANGED <<flags, incoming, outgoing, pump, out, task, held, got, written>>

GuestStep == \/ Connect
             \/ ConnCheck
             \/ ConnPark
             \/ Start
             \/ GuestRead
             \/ GuestWrite
             \/ CloseSend
             \/ Drop

PumpStep == \/ \E ok \in BOOLEAN : Dialed(ok)
            \/ Settle
            \/ PumpTop
            \/ PumpRead
            \/ PumpDrain
            \/ PumpWrite

GwNext == GuestStep \/ PumpStep \/ Remote

\* The thread runs, and a woken task is polled; the guest need not write,
\* close or drop, and the remote need not do anything.
GwFairness == /\ WF_gwVars(PumpStep)
              /\ WF_gwVars(ConnCheck) /\ WF_gwVars(ConnPark) /\ WF_gwVars(Start)
              /\ WF_gwVars(GuestRead) /\ WF_gwVars(GuestWrite)

GwSpec == GwInit /\ [][GwNext]_gwVars /\ GwFairness

-----------------------------------------------------------------------------

IsCount(s) == \A i \in DOMAIN s : s[i] = i

(* Types; a connect never both succeeds and fails.                            *)
GwTypeOK ==
    /\ connected \in BOOLEAN /\ failed \in BOOLEAN /\ abort \in BOOLEAN
    /\ ~(connected /\ failed)
    /\ pump \in PumpStates /\ task \in [Tasks -> TaskStates] /\ held \in BOOLEAN
    /\ incoming \in Pipe /\ outgoing \in Pipe /\ out \in Seq(Nat)
    /\ remote \in [sent : 0..ToGuest, eof : BOOLEAN, up : BOOLEAN]
    /\ got \in [guest : Seq(Nat), host : Seq(Nat)]
    /\ written \in 0..ToHost

(* Both directions deliver the bytes in order and without gaps, across every  *)
(* partial read, drain and write of the two pipes; while the pump runs, no    *)
(* byte the guest wrote is lost between the pipe and the socket; and the      *)
(* guest's reader ends only after it has every byte the remote sent before    *)
(* its FIN, unless the connection was reset (host_pump, HostInput).           *)
BytesArriveInOrder ==
    /\ IsCount(got.guest \o incoming.buf)
    /\ IsCount(got.host)
    /\ pump # "done" => IsCount(got.host \o out \o outgoing.buf)
    /\ task["read"] = "done" /\ remote.up => Len(got.guest) = remote.sent

(* Whatever the remote sent, and its FIN, reach a reader that is parked, and  *)
(* a writer held back by a full pipe goes on while the pump runs (wake_pipe). *)
ParkedIsWoken ==
    /\ (task["read"] = "parked" /\ pump # "done" /\ (Unread > 0 \/ remote.eof))
           ~> (task["read"] # "parked" \/ ~held)
    /\ (task["write"] = "parked" /\ connected)
           ~> (task["write"] # "parked" \/ pump = "done")

(* Once a connect has settled, the task that awaits it learns of it.          *)
ConnectIsSeen == (connected \/ failed) ~> task["connect"] = "done"
=============================================================================
