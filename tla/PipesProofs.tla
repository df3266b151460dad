---------------------------- MODULE PipesProofs -----------------------------
(* Proofs about what crosses from one runtime to another: the bridged TCP     *)
(* connection, the tree of programs and the pipe between them.               *)
EXTENDS ExecPipe, ExecTree, Gateway, FiniteSetTheorems, SequenceTheorems, TLAPS

(* That a bridged TCP connection delivers its bytes in order and in full, for *)
(* any pipe capacity, any size of read and any number of bytes either way.    *)
(*                                                                            *)
(* Towards the guest: what it has and what waits in the pipe is always the    *)
(* start of what the remote sent, the pump alone closes the pipe, as its last *)
(* act, and without a reset it does so only when the remote has ended and     *)
(* nothing is left in the socket.  Towards the host: what arrived, what the   *)
(* pump holds and what is in the pipe are together all the guest wrote, as    *)
(* long as the pump runs; the pump holds bytes only between a drain and the   *)
(* write after it, so that no drain forgets the one before.                   *)

InboundIsSent ==
    /\ IsCount(got.guest \o incoming.buf)
    /\ Len(got.guest) + Len(incoming.buf) <= remote.sent

ClosedAtTheEnd ==
    incoming.closed => /\ pump = "done"
                       /\ remote.up => remote.eof /\ Unread = 0

ReaderEndsLast == task["read"] = "done" => incoming.closed /\ incoming.buf = << >>

HeldInWrite == out # << >> => pump = "write"

OutboundIsWritten ==
    pump # "done" => /\ IsCount(got.host \o out \o outgoing.buf)
                     /\ Len(got.host) + Len(out) + Len(outgoing.buf) = written

HostGetsAStart == IsCount(got.host)

GatewayInv ==
    /\ GwTypeOK /\ InboundIsSent /\ ClosedAtTheEnd /\ ReaderEndsLast
    /\ HeldInWrite /\ OutboundIsWritten /\ HostGetsAStart
-----------------------------------------------------------------------------
(* Counts, pipes and wakers *)

LEMMA CountExtends ==
    ASSUME NEW s \in Seq(Nat), NEW u \in Seq(Nat), IsCount(s),
           \A i \in 1..Len(u) : u[i] = Len(s) + i
    PROVE  IsCount(s \o u)
<1>1. /\ s \o u \in Seq(Nat) /\ Len(s \o u) = Len(s) + Len(u)
      /\ \A i \in 1..Len(s) + Len(u) : (s \o u)[i] = IF i <= Len(s) THEN s[i] ELSE u[i - Len(s)]
    BY ConcatProperties
<1>2. Len(s) \in Nat /\ Len(u) \in Nat /\ DOMAIN s = 1..Len(s) /\ DOMAIN (s \o u) = 1..Len(s) + Len(u)
    BY <1>1, LenProperties
<1>3. ASSUME NEW i \in 1..Len(s) + Len(u) PROVE (s \o u)[i] = i
    <2>1. CASE i <= Len(s)
        BY <1>1, <1>2, <2>1 DEF IsCount
    <2>2. CASE ~(i <= Len(s))
        <3>1. i - Len(s) \in 1..Len(u)
            BY <1>2, <2>2
        <3>2. u[i - Len(s)] = Len(s) + (i - Len(s))
            BY <3>1
        <3> QED
            BY <1>1, <1>2, <2>2, <3>2
    <2> QED
        BY <2>1, <2>2
<1> QED
    BY <1>2, <1>3 DEF IsCount

LEMMA CountStart ==
    ASSUME NEW s \in Seq(Nat), NEW u \in Seq(Nat), IsCount(s \o u)
    PROVE  IsCount(s)
<1>1. /\ s \o u \in Seq(Nat) /\ Len(s \o u) = Len(s) + Len(u)
      /\ \A i \in 1..Len(s) + Len(u) : (s \o u)[i] = IF i <= Len(s) THEN s[i] ELSE u[i - Len(s)]
    BY ConcatProperties
<1>2. Len(s) \in Nat /\ Len(u) \in Nat /\ DOMAIN s = 1..Len(s) /\ DOMAIN (s \o u) = 1..Len(s) + Len(u)
    BY <1>1, LenProperties
<1> QED
    BY <1>1, <1>2 DEF IsCount

LEMMA FunctionIsSeq ==
    ASSUME NEW n \in Nat, NEW f \in [1..n -> Nat]
    PROVE  f \in Seq(Nat) /\ Len(f) = n
OBVIOUS

LEMMA PartsJoined ==
    ASSUME NEW s \in Seq(Nat), NEW t \in Seq(Nat)
    PROVE  s \o t \in Seq(Nat) /\ Len(s \o t) = Len(s) + Len(t)
BY ConcatProperties

LEMMA JoinedThrice ==
    ASSUME NEW s \in Seq(Nat), NEW t \in Seq(Nat), NEW u \in Seq(Nat)
    PROVE  (s \o t) \o u = s \o (t \o u)
BY ConcatAssociative

LEMMA Shifted ==
    ASSUME NEW a \in Nat, NEW b \in Nat, NEW n \in Nat
    PROVE  (a + n) + (b - n) = a + b
OBVIOUS

\* What the state's parts are made of.
LEMMA Parts ==
    ASSUME GwTypeOK
    PROVE  /\ got.guest \in Seq(Nat) /\ got.host \in Seq(Nat) /\ out \in Seq(Nat)
           /\ incoming.buf \in Seq(Nat) /\ outgoing.buf \in Seq(Nat)
           /\ Len(got.guest) \in Nat /\ Len(got.host) \in Nat /\ Len(out) \in Nat
           /\ Len(incoming.buf) \in Nat /\ Len(outgoing.buf) \in Nat
BY LenProperties DEF GwTypeOK, Pipe

\* A wake moves parked tasks only.
LEMMA WokenTasks ==
    ASSUME NEW t \in [Tasks -> TaskStates], NEW p
    PROVE  /\ wake_pipe(t, p) \in [Tasks -> TaskStates]
           /\ \A k \in Tasks : wake_pipe(t, p)[k] = "done" => t[k] = "done"
BY DEF wake_pipe, TaskStates

LEMMA PipeChanges ==
    ASSUME NEW p \in Pipe
    PROVE  /\ NoWakers(p) \in Pipe /\ NoWakers(p).buf = p.buf /\ NoWakers(p).closed = p.closed
           /\ [p EXCEPT !.closed = TRUE] \in Pipe
           /\ \A k \in Tasks : [p EXCEPT !.wakers = @ \cup {k}] \in Pipe
           /\ \A b \in Seq(Nat) : [p EXCEPT !.buf = b] \in Pipe
BY DEF Pipe, NoWakers

\* A step that moves no byte, closes no incoming pipe and ends no reader.
Quiet ==
    /\ got' = got /\ out' = out /\ written' = written /\ remote' = remote
    /\ incoming'.buf = incoming.buf /\ incoming'.closed = incoming.closed
    /\ outgoing'.buf = outgoing.buf
    /\ task'["read"] = "done" => task["read"] = "done"
    /\ pump = "done" => pump' = "done"
    /\ pump = "write" => pump' = "write"

LEMMA QuietStep ==
    ASSUME GatewayInv, Quiet, GwTypeOK'
    PROVE  GatewayInv'
<1> USE DEF GatewayInv, Quiet
<1>1. InboundIsSent' /\ ClosedAtTheEnd'
    BY DEF InboundIsSent, ClosedAtTheEnd, Unread
<1>2. ReaderEndsLast' /\ HeldInWrite'
    BY DEF ReaderEndsLast, HeldInWrite
<1>3. OutboundIsWritten' /\ HostGetsAStart'
    BY DEF OutboundIsWritten, HostGetsAStart
<1> QED
    BY <1>1, <1>2, <1>3
-----------------------------------------------------------------------------
(* Steps *)

LEMMA InitGateway ==
    ASSUME GwInit
    PROVE  GatewayInv
<1>0. <<>> \in Seq(Nat) /\ Len(<<>>) = 0 /\ <<>> \o <<>> = <<>> /\ IsCount(<<>>)
    BY EmptySeq, ConcatEmptySeq, LenProperties DEF IsCount
<1>1. GwTypeOK
    <2>1. EmptyPipe \in Pipe
        BY <1>0 DEF EmptyPipe, Pipe
    <2>2. task \in [Tasks -> TaskStates] /\ pump \in PumpStates
        BY DEF GwInit, TaskStates, PumpStates
    <2>3. /\ remote \in [sent : 0..ToGuest, eof : BOOLEAN, up : BOOLEAN]
          /\ got \in [guest : Seq(Nat), host : Seq(Nat)] /\ written \in 0..ToHost
        BY <1>0, GatewayAssumption DEF GwInit
    <2> QED
        BY <1>0, <2>1, <2>2, <2>3 DEF GwInit, GwTypeOK
<1>2. /\ got.guest = <<>> /\ got.host = <<>> /\ out = <<>> /\ incoming.buf = <<>>
      /\ outgoing.buf = <<>> /\ remote.sent = 0 /\ written = 0 /\ incoming.closed = FALSE
      /\ task["read"] = "off"
    BY DEF GwInit, EmptyPipe, Tasks
<1>3. InboundIsSent /\ ClosedAtTheEnd /\ ReaderEndsLast /\ HeldInWrite
    BY <1>0, <1>2 DEF InboundIsSent, ClosedAtTheEnd, ReaderEndsLast, HeldInWrite
<1>4. OutboundIsWritten /\ HostGetsAStart
    BY <1>0, <1>2 DEF OutboundIsWritten, HostGetsAStart
<1> QED
    BY <1>1, <1>3, <1>4 DEF GatewayInv

\* The steps of the connect: flags, tasks and wakers.
LEMMA ConnectSteps ==
    ASSUME GatewayInv, Connect \/ ConnCheck \/ ConnPark \/ Start
    PROVE  GatewayInv'
<1> USE DEF GatewayInv
<1>1. GwTypeOK /\ task \in [Tasks -> TaskStates] /\ incoming \in Pipe /\ pump \in PumpStates
    BY DEF GwTypeOK
<1>2. task' \in [Tasks -> TaskStates] /\ (task'["read"] = "done" => task["read"] = "done")
    BY <1>1 DEF Connect, ConnCheck, ConnPark, Start, Tasks, TaskStates
<1>3. /\ incoming' \in Pipe
      /\ incoming'.buf = incoming.buf /\ incoming'.closed = incoming.closed
    BY <1>1 DEF Connect, ConnCheck, ConnPark, Start, Pipe, Tasks
<1>4. /\ pump' \in PumpStates
      /\ (pump = "done" => pump' = "done") /\ (pump = "write" => pump' = "write")
    BY <1>1 DEF Connect, ConnCheck, ConnPark, Start, PumpStates
<1>5. UNCHANGED <<flags, outgoing, out, held, remote, got, written>>
    BY DEF Connect, ConnCheck, ConnPark, Start
<1>6. GwTypeOK'
    BY <1>1, <1>2, <1>3, <1>4, <1>5 DEF GwTypeOK, flags
<1> QED
    BY <1>2, <1>3, <1>4, <1>5, <1>6, QuietStep DEF Quiet

\* What a read takes and what it leaves are the buffer.
LEMMA SplitBuffer ==
    ASSUME NEW g \in Seq(Nat), NEW b \in Seq(Nat), NEW n \in 1..Len(b)
    PROVE  /\ SubSeq(b, 1, n) \in Seq(Nat) /\ SubSeq(b, n + 1, Len(b)) \in Seq(Nat)
           /\ Len(SubSeq(b, 1, n)) = n /\ Len(SubSeq(b, n + 1, Len(b))) = Len(b) - n
           /\ (g \o SubSeq(b, 1, n)) \o SubSeq(b, n + 1, Len(b)) = g \o b
<1> DEFINE p == SubSeq(b, 1, n)
           q == SubSeq(b, n + 1, Len(b))
<1>1. Len(b) \in Nat /\ n \in Nat /\ n <= Len(b) /\ 1 <= n
    BY LenProperties
<1>2. \A i \in 1..Len(b) : b[i] \in Nat
    BY ElementOfSeq
<1>3. /\ p \in Seq(Nat) /\ Len(p) = n /\ \A i \in 1..n : p[i] = b[i]
    BY <1>1, <1>2, SubSeqProperties
<1>4. /\ q \in Seq(Nat) /\ Len(q) = Len(b) - n /\ \A i \in 1..(Len(b) - n) : q[i] = b[n + i]
    BY <1>1, <1>2, SubSeqProperties
<1> HIDE DEF p, q
<1>5. p \o q = b
    <2>0. /\ p \o q \in Seq(Nat) /\ Len(p \o q) = Len(p) + Len(q)
          /\ \A i \in 1..(Len(p) + Len(q)) : (p \o q)[i] = IF i <= Len(p) THEN p[i] ELSE q[i - Len(p)]
        BY <1>3, <1>4, ConcatProperties, Zenon
    <2>1. p \o q \in Seq(Nat) /\ Len(p) + Len(q) = Len(b) /\ Len(p \o q) = Len(b)
        BY <1>1, <1>3, <1>4, <2>0
    <2>2. ASSUME NEW i \in 1..Len(b) PROVE (p \o q)[i] = b[i]
        <3>1. (p \o q)[i] = IF i <= n THEN p[i] ELSE q[i - n]
            BY <1>3, <2>0, <2>1
        <3>2. CASE i <= n
            BY <1>1, <1>3, <3>1, <3>2
        <3>3. CASE ~(i <= n)
            <4>1. i - n \in 1..(Len(b) - n) /\ n + (i - n) = i
                BY <1>1, <3>3
            <4> QED
                BY <1>4, <3>1, <3>3, <4>1
        <3> QED
            BY <3>2, <3>3
    <2> QED
        BY <2>1, <2>2, SeqEqual
<1>6. (g \o p) \o q = g \o b
    <2>1. (g \o p) \o q = g \o (p \o q)
        BY <1>3, <1>4, JoinedThrice
    <2> QED
        BY <1>5, <2>1, Zenon
<1> QED
    BY <1>3, <1>4, <1>6 DEF p, q

\* The reader takes some of what is there, or ends at the closed empty pipe.
LEMMA ReadStep ==
    ASSUME GatewayInv, GuestRead
    PROVE  GatewayInv'
<1> USE DEF GatewayInv
<1>1. /\ GwTypeOK /\ task \in [Tasks -> TaskStates] /\ incoming \in Pipe
      /\ got \in [guest : Seq(Nat), host : Seq(Nat)]
    BY DEF GwTypeOK
<1>2. UNCHANGED <<flags, outgoing, pump, out, held, remote, written>>
    BY DEF GuestRead
<1>3. /\ got.guest \in Seq(Nat) /\ incoming.buf \in Seq(Nat)
      /\ Len(got.guest) \in Nat /\ Len(incoming.buf) \in Nat
    BY Parts
<1>4. ASSUME NEW n \in 1..Len(incoming.buf),
             got' = [got EXCEPT !.guest = @ \o SubSeq(incoming.buf, 1, n)],
             incoming' = [incoming EXCEPT !.buf = SubSeq(@, n + 1, Len(@))],
             task' = task, task["read"] = "poll"
      PROVE  GatewayInv'
    <2> DEFINE p == SubSeq(incoming.buf, 1, n)
               q == SubSeq(incoming.buf, n + 1, Len(incoming.buf))
    <2>1. /\ p \in Seq(Nat) /\ q \in Seq(Nat) /\ Len(p) = n /\ Len(q) = Len(incoming.buf) - n
          /\ (got.guest \o p) \o q = got.guest \o incoming.buf
        BY <1>3, SplitBuffer
    <2>2. got' = [got EXCEPT !.guest = got.guest \o p] /\ incoming' = [incoming EXCEPT !.buf = q]
        BY <1>4
    <2> HIDE DEF p, q
    <2>3. got.guest \o p \in Seq(Nat) /\ Len(got.guest \o p) = Len(got.guest) + n
        BY <1>3, <2>1, ConcatProperties
    <2>4. /\ got'.guest = got.guest \o p /\ got'.host = got.host
          /\ got' \in [guest : Seq(Nat), host : Seq(Nat)]
        BY <1>1, <2>2, <2>3
    <2>5. /\ incoming'.buf = q /\ incoming'.closed = incoming.closed /\ incoming' \in Pipe
        BY <1>1, <2>1, <2>2 DEF Pipe
    <2>6. GwTypeOK'
        BY <1>1, <1>2, <1>4, <2>4, <2>5 DEF GwTypeOK, flags
    <2>7. InboundIsSent' /\ ClosedAtTheEnd'
        <3>1. got'.guest \o incoming'.buf = got.guest \o incoming.buf
            BY <2>1, <2>4, <2>5
        <3>2. remote.sent \in Nat /\ remote' = remote /\ pump' = pump
            BY <1>1, <1>2 DEF GwTypeOK
        <3>3. Len(got'.guest) = Len(got.guest) + n /\ Len(incoming'.buf) = Len(incoming.buf) - n
            BY <2>1, <2>3, <2>4, <2>5
        <3>4. Len(got'.guest) + Len(incoming'.buf) = Len(got.guest) + Len(incoming.buf)
            <4>1. PICK a \in Nat, b \in Nat : a = Len(got.guest) /\ b = Len(incoming.buf)
                BY <1>3
            <4>2. Len(got'.guest) = a + n /\ Len(incoming'.buf) = b - n /\ n \in Nat
                BY <3>3, <4>1
            <4>3. (a + n) + (b - n) = a + b
                BY <4>1, <4>2, Shifted
            <4> QED
                BY <4>1, <4>2, <4>3, Zenon
        <3>5. Unread' = Unread
            <4>1. /\ Len(got.guest) \in Nat /\ Len(incoming.buf) \in Nat /\ remote.sent \in Nat
                  /\ remote'.sent = remote.sent
                BY <1>3, <3>2
            <4>2. PICK a \in Nat, b \in Nat, r \in Nat :
                      a = Len(got.guest) /\ b = Len(incoming.buf) /\ r = remote.sent
                BY <4>1
            <4>3. Unread = r - a - b /\ Unread' = r - (a + n) - (b - n)
                BY <3>3, <4>1, <4>2 DEF Unread
            <4> QED
                BY <4>3
        <3> QED
            BY <2>5, <3>1, <3>2, <3>4, <3>5 DEF InboundIsSent, ClosedAtTheEnd
    <2>8. ReaderEndsLast' /\ HeldInWrite' /\ OutboundIsWritten' /\ HostGetsAStart'
        BY <1>2, <1>4, <2>4 DEF ReaderEndsLast, HeldInWrite, OutboundIsWritten, HostGetsAStart
    <2> QED
        BY <2>6, <2>7, <2>8
<1>5. ASSUME incoming.buf = <<>>, got' = got,
             \/ /\ incoming.closed /\ incoming' = incoming
                /\ task' = [task EXCEPT !["read"] = "done"]
             \/ /\ incoming' = [incoming EXCEPT !.wakers = @ \cup {"read"}]
                /\ task' = [task EXCEPT !["read"] = "parked"]
      PROVE  GatewayInv'
    <2>1. /\ incoming' \in Pipe
          /\ incoming'.buf = incoming.buf /\ incoming'.closed = incoming.closed
        BY <1>1, <1>5 DEF Pipe, Tasks
    <2>2. /\ task' \in [Tasks -> TaskStates]
          /\ task'["read"] = "done" => incoming.closed
        BY <1>1, <1>5 DEF Tasks, TaskStates
    <2>3. GwTypeOK'
        BY <1>1, <1>2, <1>5, <2>1, <2>2 DEF GwTypeOK, flags
    <2>4. InboundIsSent' /\ ClosedAtTheEnd' /\ HeldInWrite'
        BY <1>2, <1>5, <2>1 DEF InboundIsSent, ClosedAtTheEnd, HeldInWrite, Unread
    <2>5. ReaderEndsLast' /\ OutboundIsWritten' /\ HostGetsAStart'
        BY <1>2, <1>5, <2>1, <2>2 DEF ReaderEndsLast, OutboundIsWritten, HostGetsAStart
    <2> QED
        BY <2>3, <2>4, <2>5
<1> QED
    BY <1>4, <1>5 DEF GuestRead

\* One more byte in the outgoing pipe is the next of the count.
LEMMA WriteStep ==
    ASSUME GatewayInv, GuestWrite
    PROVE  GatewayInv'
<1> USE DEF GatewayInv
<1>1. /\ GwTypeOK /\ task \in [Tasks -> TaskStates] /\ outgoing \in Pipe
      /\ written \in 0..ToHost /\ written < ToHost
    BY DEF GwTypeOK, GuestWrite
<1>2. UNCHANGED <<flags, incoming, pump, out, held, remote, got>>
    BY DEF GuestWrite
<1>3. CASE UNCHANGED written
    <2>1. task' \in [Tasks -> TaskStates] /\ task'["read"] = task["read"]
        BY <1>1, <1>3 DEF GuestWrite, Tasks, TaskStates
    <2>2. outgoing' \in Pipe /\ outgoing'.buf = outgoing.buf
        BY <1>1, <1>3 DEF GuestWrite, Pipe, Tasks
    <2>3. GwTypeOK'
        BY <1>1, <1>2, <1>3, <2>1, <2>2 DEF GwTypeOK, flags
    <2> QED
        BY <1>2, <1>3, <2>1, <2>2, <2>3, QuietStep DEF Quiet
<1>4. CASE /\ written' = written + 1
           /\ outgoing' = [outgoing EXCEPT !.buf = Append(@, written + 1)]
           /\ UNCHANGED task
    <2> DEFINE old == got.host \o out
               sent == old \o outgoing.buf
               more == Append(outgoing.buf, written + 1)
    <2>1. /\ got.host \in Seq(Nat) /\ out \in Seq(Nat) /\ outgoing.buf \in Seq(Nat)
          /\ Len(got.host) \in Nat /\ Len(out) \in Nat /\ Len(outgoing.buf) \in Nat
        BY Parts
    <2>2. /\ written \in Nat /\ written + 1 \in 0..ToHost
        BY <1>1, GatewayAssumption
    <2>3. /\ more \in Seq(Nat) /\ Len(more) = Len(outgoing.buf) + 1
          /\ more = outgoing.buf \o <<written + 1>>
        BY <2>1, <2>2, AppendProperties, AppendIsConcat
    <2>4. /\ outgoing' \in Pipe /\ outgoing'.buf = more
        BY <1>1, <1>4, <2>3 DEF Pipe
    <2>5. GwTypeOK'
        BY <1>1, <1>2, <1>4, <2>2, <2>4 DEF GwTypeOK, flags
    <2>6. OutboundIsWritten'
        <3> SUFFICES ASSUME pump # "done"
                     PROVE  /\ IsCount(old \o more)
                            /\ Len(got.host) + Len(out) + Len(more) = written + 1
            BY <1>2, <1>4, <2>4 DEF OutboundIsWritten
        <3>1. /\ IsCount(sent)
              /\ Len(got.host) + Len(out) + Len(outgoing.buf) = written
            BY DEF OutboundIsWritten
        <3>2. /\ old \in Seq(Nat) /\ Len(old) = Len(got.host) + Len(out)
            BY <2>1, PartsJoined
        <3> HIDE DEF old
        <3>3. /\ sent \in Seq(Nat) /\ Len(sent) = Len(old) + Len(outgoing.buf)
            BY <2>1, <3>2, PartsJoined
        <3>4. /\ <<written + 1>> \in Seq(Nat) /\ Len(<<written + 1>>) = 1
              /\ <<written + 1>>[1] = written + 1
            BY <2>2
        <3>5. Len(sent) = written
            BY <2>1, <3>1, <3>2, <3>3
        <3>6. old \o (outgoing.buf \o <<written + 1>>) = sent \o <<written + 1>>
            BY <2>1, <3>2, <3>4, JoinedThrice
        <3> HIDE DEF sent
        <3>7. \A i \in 1..Len(<<written + 1>>) : <<written + 1>>[i] = Len(sent) + i
            BY <3>4, <3>5, <2>2
        <3>8. IsCount(sent \o <<written + 1>>)
            BY <3>1, <3>3, <3>4, <3>7, CountExtends
        <3>9. old \o more = sent \o <<written + 1>>
            BY <2>3, <3>6
        <3>10. Len(got.host) + Len(out) + Len(more) = written + 1
            <4>1. Len(more) = Len(outgoing.buf) + 1
                BY <2>3
            <4>2. /\ Len(got.host) \in Nat /\ Len(out) \in Nat /\ Len(outgoing.buf) \in Nat
                  /\ Len(got.host) + Len(out) + Len(outgoing.buf) = written
                BY <2>1, <3>1
            <4> HIDE DEF more
            <4>3. PICK a \in Nat, b \in Nat, c \in Nat, m \in Nat :
                      a = Len(got.host) /\ b = Len(out) /\ c = Len(outgoing.buf) /\ m = Len(more)
                BY <4>1, <4>2
            <4>4. m = c + 1 /\ a + b + c = written
                BY <4>1, <4>2, <4>3
            <4>5. a + b + m = written + 1
                BY <4>4
            <4> QED
                BY <4>3, <4>5
        <3> QED
            BY <3>8, <3>9, <3>10
    <2>7. InboundIsSent' /\ ClosedAtTheEnd' /\ ReaderEndsLast' /\ HeldInWrite' /\ HostGetsAStart'
        BY <1>2, <1>4 DEF InboundIsSent, ClosedAtTheEnd, Unread, ReaderEndsLast, HeldInWrite, HostGetsAStart
    <2> QED
        BY <2>5, <2>6, <2>7
<1> QED
    BY <1>3, <1>4 DEF GuestWrite

\* The guest closes its side, or lets the socket go.
LEMMA CloseSteps ==
    ASSUME GatewayInv, CloseSend \/ Drop
    PROVE  GatewayInv'
<1> USE DEF GatewayInv
<1>1. GwTypeOK /\ task \in [Tasks -> TaskStates] /\ incoming \in Pipe /\ outgoing \in Pipe
    BY DEF GwTypeOK
<1>2. task' \in [Tasks -> TaskStates] /\ (task'["read"] = "done" => task["read"] = "done")
    <2>1. CASE CloseSend
        BY <1>1, <2>1 DEF CloseSend, Tasks, TaskStates
    <2>2. CASE Drop
        <3>1. wake_pipe(task, incoming) \in [Tasks -> TaskStates] /\ "read" \in Tasks
            BY <1>1, WokenTasks DEF Tasks
        <3> QED
            BY <1>1, <2>2, <3>1, WokenTasks DEF Drop
    <2> QED
        BY <2>1, <2>2
<1>3. /\ incoming' \in Pipe /\ outgoing' \in Pipe
      /\ incoming'.buf = incoming.buf /\ incoming'.closed = incoming.closed
      /\ outgoing'.buf = outgoing.buf
    BY <1>1 DEF CloseSend, Drop, NoWakers, Pipe
<1>4. /\ UNCHANGED <<connected, failed, pump, out, remote, got, written>>
      /\ abort' \in BOOLEAN /\ held' \in BOOLEAN
    BY DEF CloseSend, Drop, flags, GwTypeOK
<1>5. GwTypeOK'
    BY <1>1, <1>2, <1>3, <1>4 DEF GwTypeOK
<1> QED
    BY <1>2, <1>3, <1>4, <1>5, QuietStep DEF Quiet
\* The connect settles, and the pump looks whether it is to go on.
LEMMA TopSteps ==
    ASSUME GatewayInv, (\E ok \in BOOLEAN : Dialed(ok)) \/ Settle \/ PumpTop
    PROVE  GatewayInv'
<1> USE DEF GatewayInv
<1>1. GwTypeOK /\ task \in [Tasks -> TaskStates] /\ incoming \in Pipe /\ "read" \in Tasks
    BY DEF GwTypeOK, Tasks
<1>2. task' \in [Tasks -> TaskStates] /\ (task'["read"] = "done" => task["read"] = "done")
    BY <1>1, WokenTasks DEF Dialed, Settle, PumpTop
<1>3. /\ incoming' \in Pipe
      /\ incoming'.buf = incoming.buf /\ incoming'.closed = incoming.closed
    BY <1>1, PipeChanges DEF Dialed, Settle, PumpTop
<1>4. /\ pump' \in PumpStates /\ pump \notin {"done", "write"}
    BY DEF Dialed, Settle, PumpTop, PumpStates
<1>5. /\ UNCHANGED <<abort, outgoing, out, held, remote, got, written>>
      /\ connected' \in BOOLEAN /\ failed' \in BOOLEAN /\ ~(connected' /\ failed')
    <2>1. CASE \E ok \in BOOLEAN : Dialed(ok)
        <3>1. PICK ok \in BOOLEAN : Dialed(ok)
            BY <2>1
        <3>2. connected' = ok /\ failed' = ~ok
            BY <3>1 DEF Dialed
        <3>3. UNCHANGED <<abort, outgoing, out, held, remote, got, written>>
            BY <3>1 DEF Dialed
        <3> QED
            BY <3>2, <3>3, Zenon
    <2>2. CASE Settle \/ PumpTop
        BY <2>2, <1>1 DEF Settle, PumpTop, flags, GwTypeOK
    <2> QED
        BY <2>1, <2>2
<1>6. GwTypeOK'
    BY <1>1, <1>2, <1>3, <1>4, <1>5 DEF GwTypeOK
<1> QED
    BY <1>2, <1>3, <1>4, <1>5, <1>6, QuietStep DEF Quiet

\* The pump ends: at a reset, or when the remote ended and all was read.
LEMMA EndStep ==
    ASSUME GatewayInv, PumpEnds, ~remote.up \/ (remote.eof /\ Unread = 0), out' = <<>>,
           UNCHANGED <<flags, outgoing, held, remote, got, written>>
    PROVE  GatewayInv'
<1> USE DEF GatewayInv
<1>1. GwTypeOK /\ task \in [Tasks -> TaskStates] /\ incoming \in Pipe /\ "read" \in Tasks
    BY DEF GwTypeOK, Tasks
<1>2. task' \in [Tasks -> TaskStates] /\ (task'["read"] = "done" => task["read"] = "done")
    BY <1>1, WokenTasks DEF PumpEnds
<1>3. incoming' \in Pipe /\ incoming'.buf = incoming.buf /\ incoming'.closed = TRUE
    BY <1>1 DEF PumpEnds, NoWakers, Pipe
<1>4. pump' = "done" /\ pump' \in PumpStates /\ out' \in Seq(Nat)
    BY EmptySeq DEF PumpEnds, PumpStates
<1>5. GwTypeOK'
    BY <1>1, <1>2, <1>3, <1>4 DEF GwTypeOK, flags
<1>6. InboundIsSent' /\ ClosedAtTheEnd'
    BY <1>3, <1>4 DEF InboundIsSent, ClosedAtTheEnd, Unread
<1>7. ReaderEndsLast' /\ HeldInWrite'
    BY <1>2, <1>3 DEF ReaderEndsLast, HeldInWrite
<1>8. OutboundIsWritten' /\ HostGetsAStart'
    BY <1>4 DEF OutboundIsWritten, HostGetsAStart
<1> QED
    BY <1>5, <1>6, <1>7, <1>8

\* What a read brings in is the next stretch of what the remote sent.
LEMMA ArriveStep ==
    ASSUME GatewayInv, pump = "read", NEW n \in 1..ReadMax, n <= Unread,
           incoming' = [NoWakers(incoming) EXCEPT !.buf = @ \o NextBytes(n)],
           task' = wake_pipe(task, incoming), pump' = "drain",
           UNCHANGED <<flags, outgoing, out, held, remote, got, written>>
    PROVE  GatewayInv'
<1> USE DEF GatewayInv
<1> DEFINE have == got.guest \o incoming.buf
           more == incoming.buf \o NextBytes(n)
<1>1. GwTypeOK /\ task \in [Tasks -> TaskStates] /\ incoming \in Pipe /\ "read" \in Tasks
    BY DEF GwTypeOK, Tasks
<1>2. task' \in [Tasks -> TaskStates] /\ (task'["read"] = "done" => task["read"] = "done")
    BY <1>1, WokenTasks
<1>3. /\ got.guest \in Seq(Nat) /\ incoming.buf \in Seq(Nat)
      /\ Len(got.guest) \in Nat /\ Len(incoming.buf) \in Nat /\ n \in Nat /\ remote.sent \in Nat
    BY Parts, GatewayAssumption DEF GwTypeOK
<1>4. /\ NextBytes(n) \in Seq(Nat) /\ Len(NextBytes(n)) = n
      /\ \A i \in 1..n : NextBytes(n)[i] = Len(got.guest) + Len(incoming.buf) + i
    <2>1. PICK a \in Nat, b \in Nat : a = Len(got.guest) /\ b = Len(incoming.buf)
        BY <1>3
    <2>2. NextBytes(n) = [i \in 1..n |-> a + b + i]
        BY <2>1 DEF NextBytes
    <2>3. /\ NextBytes(n) \in Seq(Nat) /\ Len(NextBytes(n)) = n
          /\ \A i \in 1..n : NextBytes(n)[i] = a + b + i
        <3>1. [i \in 1..n |-> a + b + i] \in [1..n -> Nat]
            BY <1>3
        <3> QED
            BY <1>3, <2>2, <3>1, FunctionIsSeq
    <2> QED
        BY <2>1, <2>3
<1>5. /\ more \in Seq(Nat) /\ Len(more) = Len(incoming.buf) + n
      /\ have \in Seq(Nat) /\ Len(have) = Len(got.guest) + Len(incoming.buf)
      /\ got.guest \o more = have \o NextBytes(n)
    BY <1>3, <1>4, PartsJoined, JoinedThrice
<1>6. incoming' \in Pipe /\ incoming'.buf = more /\ incoming'.closed = incoming.closed
    BY <1>1, <1>5 DEF NoWakers, Pipe
<1>7. GwTypeOK'
    BY <1>1, <1>2, <1>6 DEF GwTypeOK, flags, PumpStates
<1>8. IsCount(have \o NextBytes(n))
    <2>1. IsCount(have)
        BY DEF InboundIsSent
    <2> HIDE DEF have
    <2>2. \A i \in 1..Len(NextBytes(n)) : NextBytes(n)[i] = Len(have) + i
        BY <1>4, <1>5
    <2> QED
        BY <1>4, <1>5, <2>1, <2>2, CountExtends
<1>9. Len(got.guest) + Len(more) <= remote.sent
    <2>1. PICK a \in Nat, b \in Nat, r \in Nat :
              a = Len(got.guest) /\ b = Len(incoming.buf) /\ r = remote.sent
        BY <1>3
    <2>2. n <= r - a - b
        BY <2>1 DEF Unread
    <2>3. a + (b + n) <= r
        BY <1>3, <2>2
    <2> QED
        BY <1>5, <2>1, <2>3
<1>10. InboundIsSent'
    <2>1. got' = got /\ remote' = remote
        OBVIOUS
    <2> HIDE DEF more, have
    <2> QED
        BY <1>5, <1>6, <1>8, <1>9, <2>1 DEF InboundIsSent
<1>11. ~incoming.closed
    BY DEF ClosedAtTheEnd
<1>12. ClosedAtTheEnd' /\ ReaderEndsLast' /\ HeldInWrite'
    BY <1>2, <1>6, <1>11 DEF ClosedAtTheEnd, ReaderEndsLast, HeldInWrite
<1>13. OutboundIsWritten' /\ HostGetsAStart'
    BY DEF OutboundIsWritten, HostGetsAStart
<1> QED
    BY <1>7, <1>10, <1>12, <1>13

LEMMA PumpReadStep ==
    ASSUME GatewayInv, PumpRead
    PROVE  GatewayInv'
<1>1. UNCHANGED <<flags, outgoing, out, held, remote, got, written>> /\ pump = "read"
    BY DEF PumpRead
<1>2. ASSUME NEW n \in 1..ReadMax, n <= Unread,
             incoming' = [NoWakers(incoming) EXCEPT !.buf = @ \o NextBytes(n)],
             task' = wake_pipe(task, incoming), pump' = "drain"
      PROVE  GatewayInv'
    BY <1>1, <1>2, ArriveStep
<1>3. CASE PumpEnds /\ (~remote.up \/ (remote.eof /\ Unread = 0))
    <2>1. out' = <<>>
        BY <1>1 DEF GatewayInv, HeldInWrite
    <2> QED
        BY <1>1, <1>3, <2>1, EndStep
<1>4. CASE pump' = "drain" /\ UNCHANGED <<incoming, task>>
    <2>1. GwTypeOK'
        BY <1>1, <1>4 DEF GatewayInv, GwTypeOK, flags, PumpStates
    <2> QED
        BY <1>1, <1>4, <2>1, QuietStep DEF Quiet
<1> QED
    BY <1>2, <1>3, <1>4 DEF PumpRead

\* A drain moves the pipe's bytes into the pump's empty hands.
LEMMA DrainStep ==
    ASSUME GatewayInv, PumpDrain
    PROVE  GatewayInv'
<1> USE DEF GatewayInv
<1>1. /\ GwTypeOK /\ outgoing \in Pipe /\ pump = "drain" /\ out = <<>>
      /\ got.host \in Seq(Nat) /\ outgoing.buf \in Seq(Nat) /\ <<>> \in Seq(Nat)
    BY Parts, EmptySeq DEF GwTypeOK, HeldInWrite, PumpDrain
<1>2. /\ out' = outgoing.buf /\ pump' = "write" /\ outgoing' \in Pipe /\ outgoing'.buf = <<>>
    BY <1>1 DEF PumpDrain, Pipe
<1>3. UNCHANGED <<flags, incoming, task, held, remote, got, written>>
    BY DEF PumpDrain
<1>4. GwTypeOK'
    BY <1>1, <1>2, <1>3 DEF GwTypeOK, flags, PumpStates
<1>5. OutboundIsWritten'
    <2>1. /\ IsCount((got.host \o <<>>) \o outgoing.buf)
          /\ Len(got.host) + Len(<<>>) + Len(outgoing.buf) = written
        BY <1>1 DEF OutboundIsWritten
    <2>2. /\ got.host \o <<>> = got.host /\ got.host \o outgoing.buf \in Seq(Nat)
          /\ Len(<<>>) = 0 /\ Len(got.host) \in Nat /\ Len(outgoing.buf) \in Nat
        BY <1>1, PartsJoined, ConcatEmptySeq, EmptySeq, LenProperties
    <2>3. (got.host \o outgoing.buf) \o <<>> = got.host \o outgoing.buf
        BY <2>2, ConcatEmptySeq
    <2>4. Len(got.host) + Len(outgoing.buf) + Len(<<>>) = written
        <3>1. PICK a \in Nat, b \in Nat : a = Len(got.host) /\ b = Len(outgoing.buf)
            BY <2>2
        <3>2. a + 0 + b = written
            BY <2>1, <2>2, <3>1
        <3>3. a + b + 0 = written
            BY <3>2
        <3> QED
            BY <2>2, <3>1, <3>3
    <2> QED
        BY <1>2, <1>3, <2>1, <2>2, <2>3, <2>4 DEF OutboundIsWritten
<1>6. InboundIsSent' /\ ClosedAtTheEnd' /\ ReaderEndsLast'
    BY <1>1, <1>3 DEF InboundIsSent, ClosedAtTheEnd, ReaderEndsLast, Unread
<1>7. HeldInWrite' /\ HostGetsAStart'
    BY <1>2, <1>3 DEF HeldInWrite, HostGetsAStart
<1> QED
    BY <1>4, <1>5, <1>6, <1>7

\* write_all hands on what the drain took, or finds the connection reset.
LEMMA PumpWriteStep ==
    ASSUME GatewayInv, PumpWrite
    PROVE  GatewayInv'
<1> USE DEF GatewayInv
<1>1. /\ UNCHANGED <<flags, held, remote, written>> /\ pump = "write" /\ out' = <<>>
    BY DEF PumpWrite
<1>2. /\ GwTypeOK /\ task \in [Tasks -> TaskStates] /\ outgoing \in Pipe /\ "read" \in Tasks
      /\ got \in [guest : Seq(Nat), host : Seq(Nat)]
      /\ got.host \in Seq(Nat) /\ out \in Seq(Nat) /\ outgoing.buf \in Seq(Nat) /\ <<>> \in Seq(Nat)
      /\ Len(got.host) \in Nat /\ Len(out) \in Nat /\ Len(outgoing.buf) \in Nat
    BY Parts, EmptySeq DEF GwTypeOK, Tasks
<1>3. CASE /\ got' = [got EXCEPT !.host = @ \o out] /\ task' = WakeWriter(task)
           /\ outgoing' = NoWakers(outgoing) /\ pump' = "top" /\ UNCHANGED incoming
    <2> DEFINE arrived == got.host \o out
    <2>1. arrived \in Seq(Nat) /\ Len(arrived) = Len(got.host) + Len(out)
        BY <1>2, PartsJoined
    <2>2. arrived \o <<>> = arrived /\ Len(<<>>) = 0
        BY <2>1, ConcatEmptySeq, EmptySeq
    <2>3. /\ got'.guest = got.guest /\ got'.host = arrived
          /\ got' \in [guest : Seq(Nat), host : Seq(Nat)]
        BY <1>2, <1>3, <2>1
    <2>4. /\ task' \in [Tasks -> TaskStates] /\ (task'["read"] = "done" => task["read"] = "done")
          /\ outgoing' \in Pipe /\ outgoing'.buf = outgoing.buf
        <3>1. task' = wake_pipe(task, outgoing) /\ outgoing' = NoWakers(outgoing)
            BY <1>3 DEF WakeWriter
        <3>2. task \in [Tasks -> TaskStates] /\ outgoing \in Pipe /\ "read" \in Tasks
            BY <1>2
        <3>3. task' \in [Tasks -> TaskStates] /\ (task'["read"] = "done" => task["read"] = "done")
            BY <3>1, <3>2, WokenTasks
        <3>4. outgoing' \in Pipe /\ outgoing'.buf = outgoing.buf
            BY <3>1, <3>2, PipeChanges
        <3> QED
            BY <3>3, <3>4
    <2>5. GwTypeOK'
        BY <1>1, <1>2, <1>3, <2>3, <2>4 DEF GwTypeOK, flags, PumpStates
    <2>6. IsCount(arrived \o outgoing.buf) /\ Len(got.host) + Len(out) + Len(outgoing.buf) = written
        BY <1>1 DEF OutboundIsWritten
    <2>7. Len(arrived) + Len(<<>>) + Len(outgoing.buf) = written
        <3>1. PICK a \in Nat, b \in Nat, c \in Nat, z \in Nat :
                  a = Len(got.host) /\ b = Len(out) /\ c = Len(outgoing.buf) /\ z = Len(<<>>)
            BY <1>2, <2>2
        <3>2. a + b + c = written /\ Len(arrived) = a + b /\ z = 0
            BY <2>1, <2>2, <2>6, <3>1
        <3>3. (a + b) + z + c = written
            BY <3>2
        <3> HIDE DEF arrived
        <3> QED
            BY <3>1, <3>2, <3>3
    <2>8. IsCount(arrived)
        <3> HIDE DEF arrived
        <3> QED
            BY <1>2, <2>1, <2>6, CountStart
    <2>9. OutboundIsWritten' /\ HostGetsAStart'
        <3> HIDE DEF arrived
        <3> QED
            BY <1>1, <2>2, <2>3, <2>4, <2>6, <2>7, <2>8 DEF OutboundIsWritten, HostGetsAStart
    <2>10. ~incoming.closed
        BY <1>1 DEF ClosedAtTheEnd
    <2>11. InboundIsSent' /\ ClosedAtTheEnd' /\ ReaderEndsLast' /\ HeldInWrite'
        BY <1>1, <1>3, <2>3, <2>4, <2>10 DEF InboundIsSent, ClosedAtTheEnd, ReaderEndsLast, HeldInWrite
    <2> QED
        BY <2>5, <2>9, <2>11
<1>4. CASE ~remote.up /\ PumpEnds /\ UNCHANGED <<outgoing, got>>
    BY <1>1, <1>4, EndStep
<1>5. CASE out = <<>> /\ pump' = "top" /\ UNCHANGED <<incoming, outgoing, task, got>>
    <2>1. GwTypeOK'
        BY <1>1, <1>2, <1>5 DEF GwTypeOK, flags, PumpStates
    <2>2. ~incoming.closed
        BY <1>1 DEF ClosedAtTheEnd
    <2>3. InboundIsSent' /\ ClosedAtTheEnd' /\ ReaderEndsLast' /\ HeldInWrite'
        BY <1>1, <1>5, <2>2 DEF InboundIsSent, ClosedAtTheEnd, ReaderEndsLast, HeldInWrite
    <2>4. OutboundIsWritten' /\ HostGetsAStart'
        BY <1>1, <1>5 DEF OutboundIsWritten, HostGetsAStart
    <2> QED
        BY <2>1, <2>3, <2>4
<1> QED
    BY <1>3, <1>4, <1>5 DEF PumpWrite

\* The remote sends, ends or resets; after its FIN it sends no more.
LEMMA RemoteStep ==
    ASSUME GatewayInv, Remote
    PROVE  GatewayInv'
<1> USE DEF GatewayInv
<1>1. UNCHANGED <<flags, incoming, outgoing, pump, out, task, held, got, written>>
    BY DEF Remote
<1>2. /\ GwTypeOK /\ remote \in [sent : 0..ToGuest, eof : BOOLEAN, up : BOOLEAN]
      /\ Len(got.guest) \in Nat /\ Len(incoming.buf) \in Nat
    BY Parts DEF GwTypeOK
<1>3. /\ remote' \in [sent : 0..ToGuest, eof : BOOLEAN, up : BOOLEAN]
      /\ remote.sent \in Nat /\ remote'.sent \in {remote.sent, remote.sent + 1}
      /\ (remote'.sent # remote.sent => ~remote.eof /\ remote.up)
      /\ (remote.eof => remote'.eof) /\ (remote'.up => remote.up)
    <2>1. CASE RemoteSend
        BY <1>2, <2>1, GatewayAssumption DEF RemoteSend
    <2>2. CASE RemoteEof
        <3>1. remote' = [remote EXCEPT !.eof = TRUE] /\ remote.up
            BY <2>2 DEF RemoteEof
        <3>2. /\ remote'.sent = remote.sent /\ remote'.eof = TRUE /\ remote'.up = remote.up
              /\ remote' \in [sent : 0..ToGuest, eof : BOOLEAN, up : BOOLEAN]
            BY <1>2, <3>1
        <3>3. remote.sent \in Nat
            BY <1>2, GatewayAssumption
        <3> QED
            BY <3>1, <3>2, <3>3
    <2>3. CASE RemoteReset
        <3>1. remote' = [remote EXCEPT !.up = FALSE] /\ remote.up
            BY <2>3 DEF RemoteReset
        <3>2. /\ remote'.sent = remote.sent /\ remote'.up = FALSE /\ remote'.eof = remote.eof
              /\ remote' \in [sent : 0..ToGuest, eof : BOOLEAN, up : BOOLEAN]
            BY <1>2, <3>1
        <3>3. remote.sent \in Nat
            BY <1>2, GatewayAssumption
        <3> QED
            BY <3>1, <3>2, <3>3
    <2> QED
        BY <2>1, <2>2, <2>3 DEF Remote
<1>4. GwTypeOK'
    BY <1>1, <1>2, <1>3 DEF GwTypeOK, flags
<1>5. InboundIsSent'
    <2>1. PICK a \in Nat, b \in Nat, r \in Nat, q \in Nat :
              a = Len(got.guest) /\ b = Len(incoming.buf) /\ r = remote.sent /\ q = remote'.sent
        BY <1>2, <1>3
    <2>2. a + b <= r /\ (q = r \/ q = r + 1)
        BY <1>3, <2>1 DEF InboundIsSent
    <2>3. a + b <= q
        BY <2>2
    <2> QED
        BY <1>1, <2>1, <2>3 DEF InboundIsSent
<1>6. ClosedAtTheEnd'
    <2> SUFFICES ASSUME incoming.closed, remote'.up
                 PROVE  pump = "done" /\ remote'.eof /\ Unread' = 0
        BY <1>1 DEF ClosedAtTheEnd
    <2>1. pump = "done" /\ remote.eof /\ Unread = 0
        BY <1>3 DEF ClosedAtTheEnd
    <2>2. remote'.sent = remote.sent
        BY <1>3, <2>1
    <2> QED
        BY <1>1, <1>3, <2>1, <2>2 DEF Unread
<1>7. ReaderEndsLast' /\ HeldInWrite' /\ OutboundIsWritten' /\ HostGetsAStart'
    BY <1>1 DEF ReaderEndsLast, HeldInWrite, OutboundIsWritten, HostGetsAStart
<1> QED
    BY <1>4, <1>5, <1>6, <1>7

LEMMA GatewayStep ==
    ASSUME GatewayInv, [GwNext]_gwVars
    PROVE  GatewayInv'
<1>1. CASE UNCHANGED gwVars
    <2>1. GwTypeOK'
        BY <1>1 DEF GatewayInv, GwTypeOK, gwVars
    <2> QED
        BY <1>1, <2>1, QuietStep DEF Quiet, gwVars
<1>2. CASE GuestStep
    BY <1>2, ConnectSteps, ReadStep, WriteStep, CloseSteps DEF GuestStep
<1>3. CASE PumpStep
    BY <1>3, TopSteps, PumpReadStep, DrainStep, PumpWriteStep DEF PumpStep
<1>4. CASE Remote
    BY <1>4, RemoteStep
<1> QED
    BY <1>1, <1>2, <1>3, <1>4 DEF GwNext

LEMMA GatewayInvariant == GwSpec => []GatewayInv
<1>1. GwInit => GatewayInv
    BY InitGateway
<1>2. GatewayInv /\ [GwNext]_gwVars => GatewayInv'
    BY GatewayStep
<1> QED
    BY <1>1, <1>2, PTL DEF GwSpec

-----------------------------------------------------------------------------
\* The bridge's state keeps its type, and a connect never both succeeds and
\* fails (HostConn::connect, host_pump).
THEOREM GatewayTypeCorrect == GwSpec => []GwTypeOK
<1>1. GatewayInv => GwTypeOK
    BY DEF GatewayInv
<1> QED
    BY <1>1, GatewayInvariant, PTL

\* host_pump between its two pipes: for any capacity, size of read and number
\* of bytes, both directions arrive in order and without gaps, nothing is lost
\* while the pump runs, and without a reset the guest's reader ends only after
\* the last byte the remote sent.
THEOREM BridgedInFull == GwSpec => []BytesArriveInOrder
<1>1. GatewayInv => BytesArriveInOrder
    <2> SUFFICES ASSUME GatewayInv PROVE BytesArriveInOrder
        OBVIOUS
    <2> USE DEF GatewayInv
    <2>1. ASSUME task["read"] = "done", remote.up
          PROVE  Len(got.guest) = remote.sent
        <3>1. incoming.buf = <<>> /\ Unread = 0
            BY <2>1 DEF ReaderEndsLast, ClosedAtTheEnd
        <3>2. PICK a \in Nat, b \in Nat, r \in Int :
                  a = Len(got.guest) /\ b = Len(incoming.buf) /\ r = remote.sent
            BY Parts DEF GwTypeOK
        <3>3. b = 0
            BY <3>1, <3>2, EmptySeq
        <3>4. r - a - b = 0
            BY <3>1, <3>2 DEF Unread
        <3>5. r = a
            BY <3>3, <3>4
        <3> QED
            BY <3>2, <3>5
    <2> QED
        BY <2>1 DEF BytesArriveInOrder, InboundIsSent, HostGetsAStart, OutboundIsWritten
<1> QED
    BY <1>1, GatewayInvariant, PTL

-----------------------------------------------------------------------------
(* That joins run down the tree of programs, for any number of programs and   *)
(* any MAX_DEPTH.  What makes it hold is where a child can be: its starter    *)
(* has its handle, or waits for it, or nobody ever will.  A handle is in one  *)
(* table only, taken out before the wait begins, so a child is never in a     *)
(* handle and joined, or waited for by two.                                   *)

\* A program that does not wait, waits for nobody.
OnlyWaitersWait == \A p \in Progs : state[p] # "waits" => on[p] = Nobody

\* Nothing refers to a program that was not started, and it has no handles.
UnbornIsUnknown ==
    \A c \in Progs : state[c] = "unborn" =>
        /\ handles[c] = {} /\ reaped[c] = 0
        /\ \A q \in Progs : c \notin handles[q] /\ on[q] # c

\* A handle is its starter's, and whoever is still in one is not waited for
\* and was never joined.
HandleIsStarters ==
    \A p \in Progs : \A c \in handles[p] :
        /\ parent[c] = p /\ depth[c] = depth[p] + 1 /\ reaped[c] = 0
        /\ \A q \in Progs : on[q] # c

\* Whom a program waits for.
Awaits(p) ==
    /\ on[p] \in Progs /\ parent[on[p]] = p
    /\ depth[on[p]] = depth[p] + 1
    /\ reaped[on[p]] = 0
    /\ \A q \in Progs : on[p] \notin handles[q] /\ (q # p => on[q] # on[p])
WaitersAwait == \A p \in Progs : state[p] = "waits" => Awaits(p)

JoinedOnce == \A p \in Progs : reaped[p] <= 1

TreeInv ==
    /\ TreeTypeOK
    /\ OnlyWaitersWait /\ UnbornIsUnknown /\ HandleIsStarters
    /\ WaitersAwait /\ JoinedOnce
-----------------------------------------------------------------------------
(* The type invariant, by actions. *)

LEMMA InitTree ==
    ASSUME TreeInit
    PROVE  TreeInv
<1>1. TreeTypeOK
    <2>1. /\ state \in [Progs -> {"unborn", "runs", "waits", "reads", "ended"}]
          /\ parent \in [Progs -> Progs \cup {Nobody}]
          /\ on \in [Progs -> Progs \cup {Nobody}]
          /\ handles \in [Progs -> SUBSET Progs]
          /\ ends \in [Progs -> SUBSET Progs]
          /\ exec_permit \in BOOLEAN /\ killed \in BOOLEAN
        BY Zenon DEF TreeInit
    <2>2. depth \in [Progs -> 0..MAX_DEPTH] /\ reaped \in [Progs -> Nat]
        BY TreeAssumption DEF TreeInit
    <2> QED
        BY <2>1, <2>2 DEF TreeTypeOK
<1>2. OnlyWaitersWait /\ UnbornIsUnknown /\ HandleIsStarters
    BY TreeAssumption DEF TreeInit, OnlyWaitersWait, UnbornIsUnknown, HandleIsStarters
<1>3. WaitersAwait /\ JoinedOnce
    BY DEF TreeInit, WaitersAwait, JoinedOnce
<1> QED
    BY <1>1, <1>2, <1>3 DEF TreeInv

LEMMA TreeTypeStep ==
    ASSUME TreeTypeOK, WaitersAwait, [TreeNext]_treeVars
    PROVE  TreeTypeOK'
<1> USE TreeAssumption DEF TreeTypeOK
<1>1. ASSUME NEW p \in Progs, NEW c \in Progs, NEW piped \in BOOLEAN, spawn(p, c, piped)
      PROVE  TreeTypeOK'
    <2>1. depth[p] + 1 \in 0..MAX_DEPTH
        BY <1>1 DEF spawn, May
    <2>2. ends' \in [Progs -> SUBSET Progs]
        BY <1>1 DEF spawn
    <2> QED
        BY <1>1, <2>1, <2>2 DEF spawn, Started
<1>2. ASSUME NEW p \in Progs, NEW c \in Progs, run(p, c)
      PROVE  TreeTypeOK'
    <2>1. depth[p] + 1 \in 0..MAX_DEPTH
        BY <1>2 DEF run, May
    <2> QED
        BY <1>2, <2>1 DEF run, Started
<1>3. ASSUME NEW p \in Progs, NEW c \in Progs, wait(p, c) \/ drop(p, c) \/ CloseEnd(p, c)
      PROVE  TreeTypeOK'
    BY <1>3 DEF wait, drop, CloseEnd
<1>4. ASSUME NEW p \in Progs, Joined(p)
      PROVE  TreeTypeOK'
    <2>1. on[p] \in Progs /\ reaped[on[p]] + 1 \in Nat
        BY <1>4 DEF Joined, WaitersAwait, Awaits
    <2> QED
        BY <1>4, <2>1 DEF Joined
<1>5. ASSUME NEW p \in Progs, ReadInput(p) \/ EndOfFile(p) \/ End(p)
      PROVE  TreeTypeOK'
    BY <1>5 DEF ReadInput, EndOfFile, End
<1>6. ASSUME Refresh \/ Kill \/ Epoch
      PROVE  TreeTypeOK'
    <2>1. CASE Refresh
        BY <2>1 DEF Refresh
    <2>2. CASE Kill
        BY <2>2 DEF Kill
    <2>3. CASE Epoch
        BY <2>3 DEF Epoch, End
    <2> QED
        BY <1>6, <2>1, <2>2, <2>3
<1>7. CASE UNCHANGED treeVars
    BY <1>7 DEF treeVars
<1> QED
    BY <1>1, <1>2, <1>3, <1>4, <1>5, <1>6, <1>7 DEF TreeNext

-----------------------------------------------------------------------------
(* A child is started: nothing referred to it, and now its starter does. *)

LEMMA SpawnStep ==
    ASSUME TreeInv, TreeTypeOK',
           NEW p \in Progs, NEW c \in Progs, NEW piped \in BOOLEAN, spawn(p, c, piped)
    PROVE  TreeInv'
<1> USE DEF TreeInv
<1>1. /\ p # c /\ state[p] = "runs" /\ state[c] = "unborn"
      /\ state' = [state EXCEPT ![c] = "runs"]
      /\ parent' = [parent EXCEPT ![c] = p]
      /\ depth' = [depth EXCEPT ![c] = depth[p] + 1]
      /\ handles' = [handles EXCEPT ![p] = @ \cup {c}]
      /\ on' = on /\ reaped' = reaped
    BY DEF spawn, May, Started
<1>2. /\ handles[c] = {} /\ reaped[c] = 0
      /\ \A q \in Progs : c \notin handles[q] /\ on[q] # c
    BY <1>1 DEF UnbornIsUnknown
<1>3. OnlyWaitersWait'
    BY <1>1 DEF OnlyWaitersWait, TreeTypeOK
<1>4. UnbornIsUnknown'
    BY <1>1 DEF UnbornIsUnknown, TreeTypeOK
<1>5. HandleIsStarters'
    BY <1>1, <1>2 DEF HandleIsStarters, TreeTypeOK
<1>6. WaitersAwait'
    <2> SUFFICES ASSUME NEW q \in Progs, state'[q] = "waits"
                 PROVE  Awaits(q)'
        BY DEF WaitersAwait
    <2>1. q # c /\ Awaits(q)
        BY <1>1 DEF WaitersAwait, TreeTypeOK
    <2>2. on[q] # c
        BY <1>2
    <2> QED
        BY <1>1, <2>1, <2>2 DEF Awaits, TreeTypeOK
<1>7. JoinedOnce'
    BY <1>1 DEF JoinedOnce
<1> QED
    BY <1>3, <1>4, <1>5, <1>6, <1>7

LEMMA RunStep ==
    ASSUME TreeInv, TreeTypeOK',
           NEW p \in Progs, NEW c \in Progs, run(p, c)
    PROVE  TreeInv'
<1> USE DEF TreeInv
<1>1. /\ p # c /\ state[p] = "runs" /\ state[c] = "unborn"
      /\ state' = [state EXCEPT ![c] = "runs", ![p] = "waits"]
      /\ parent' = [parent EXCEPT ![c] = p]
      /\ depth' = [depth EXCEPT ![c] = depth[p] + 1]
      /\ on' = [on EXCEPT ![p] = c]
      /\ handles' = handles /\ reaped' = reaped
    BY DEF run, May, Started
<1>2. /\ handles[c] = {} /\ reaped[c] = 0
      /\ \A q \in Progs : c \notin handles[q] /\ on[q] # c
    BY <1>1 DEF UnbornIsUnknown
<1>3. OnlyWaitersWait'
    BY <1>1 DEF OnlyWaitersWait, TreeTypeOK
<1>4. UnbornIsUnknown'
    BY <1>1 DEF UnbornIsUnknown, TreeTypeOK
<1>5. HandleIsStarters'
    BY <1>1, <1>2 DEF HandleIsStarters, TreeTypeOK
<1>6. WaitersAwait'
    <2> SUFFICES ASSUME NEW q \in Progs, state'[q] = "waits"
                 PROVE  Awaits(q)'
        BY DEF WaitersAwait
    <2>1. CASE q = p
        BY <1>1, <1>2, <2>1 DEF Awaits, TreeTypeOK
    <2>2. CASE q # p
        <3>1. q # c /\ Awaits(q) /\ on[q] # c
            BY <1>1, <1>2, <2>2 DEF WaitersAwait, TreeTypeOK
        <3> QED
            BY <1>1, <2>2, <3>1 DEF Awaits, TreeTypeOK
    <2> QED
        BY <2>1, <2>2
<1>7. JoinedOnce'
    BY <1>1 DEF JoinedOnce
<1> QED
    BY <1>3, <1>4, <1>5, <1>6, <1>7

(* The child leaves its handle as its starter begins to wait for it. *)
LEMMA WaitStep ==
    ASSUME TreeInv, TreeTypeOK',
           NEW p \in Progs, NEW c \in Progs, wait(p, c)
    PROVE  TreeInv'
<1> USE DEF TreeInv
<1>1. /\ state[p] = "runs" /\ c \in handles[p]
      /\ state' = [state EXCEPT ![p] = "waits"]
      /\ on' = [on EXCEPT ![p] = c]
      /\ handles' = [handles EXCEPT ![p] = @ \ {c}]
      /\ parent' = parent /\ depth' = depth /\ reaped' = reaped
    BY DEF wait
<1>2. /\ parent[c] = p /\ depth[c] = depth[p] + 1 /\ reaped[c] = 0
      /\ \A q \in Progs : on[q] # c
      /\ \A q \in Progs : q # p => c \notin handles[q]
      /\ state[c] # "unborn"
    BY <1>1 DEF HandleIsStarters, UnbornIsUnknown
<1>3. OnlyWaitersWait'
    BY <1>1 DEF OnlyWaitersWait, TreeTypeOK
<1>4. UnbornIsUnknown'
    BY <1>1, <1>2 DEF UnbornIsUnknown, TreeTypeOK
<1>5. HandleIsStarters'
    BY <1>1, <1>2 DEF HandleIsStarters, TreeTypeOK
<1>6. WaitersAwait'
    <2> SUFFICES ASSUME NEW q \in Progs, state'[q] = "waits"
                 PROVE  Awaits(q)'
        BY DEF WaitersAwait
    <2>1. CASE q = p
        BY <1>1, <1>2, <2>1 DEF Awaits, TreeTypeOK
    <2>2. CASE q # p
        <3>1. Awaits(q) /\ on[q] # c
            BY <1>1, <1>2, <2>2 DEF WaitersAwait, TreeTypeOK
        <3> QED
            BY <1>1, <2>2, <3>1 DEF Awaits, TreeTypeOK
    <2> QED
        BY <2>1, <2>2
<1>7. JoinedOnce'
    BY <1>1 DEF JoinedOnce
<1> QED
    BY <1>3, <1>4, <1>5, <1>6, <1>7

(* The thread is joined: it was nobody else's to join, and is in no handle. *)
LEMMA JoinStep ==
    ASSUME TreeInv, TreeTypeOK', NEW p \in Progs, Joined(p)
    PROVE  TreeInv'
<1> USE DEF TreeInv
<1>1. /\ state[p] = "waits" /\ state[on[p]] = "ended"
      /\ state' = [state EXCEPT ![p] = "runs"]
      /\ on' = [on EXCEPT ![p] = Nobody]
      /\ reaped' = [reaped EXCEPT ![on[p]] = @ + 1]
      /\ parent' = parent /\ depth' = depth /\ handles' = handles
    BY DEF Joined
<1>2. on[p] \in Progs /\ reaped[on[p]] = 0
    BY <1>1 DEF WaitersAwait, Awaits
<1>3. \A q \in Progs : on[p] \notin handles[q] /\ (q # p => on[q] # on[p])
    BY <1>1 DEF WaitersAwait, Awaits
<1>4. OnlyWaitersWait'
    BY <1>1 DEF OnlyWaitersWait, TreeTypeOK
<1>5. UnbornIsUnknown'
    BY <1>1, <1>2, TreeAssumption DEF UnbornIsUnknown, TreeTypeOK
<1>6. HandleIsStarters'
    BY <1>1, <1>2, <1>3, TreeAssumption DEF HandleIsStarters, TreeTypeOK
<1>7. WaitersAwait'
    <2> SUFFICES ASSUME NEW q \in Progs, state'[q] = "waits"
                 PROVE  Awaits(q)'
        BY DEF WaitersAwait
    <2>1. q # p /\ Awaits(q) /\ on[q] # on[p]
        BY <1>1, <1>3 DEF WaitersAwait, TreeTypeOK
    <2> QED
        BY <1>1, <1>2, <2>1, TreeAssumption DEF Awaits, TreeTypeOK
<1>8. JoinedOnce'
    BY <1>1, <1>2 DEF JoinedOnce, TreeTypeOK
<1> QED
    BY <1>4, <1>5, <1>6, <1>7, <1>8

(* What only takes handles away, or moves a program that does not wait. *)
LEMMA LeaveStep ==
    ASSUME TreeInv, TreeTypeOK', on' = on, reaped' = reaped,
           parent' = parent, depth' = depth,
           \A q \in Progs : handles'[q] \subseteq handles[q],
           \A q \in Progs : /\ state'[q] = "waits" <=> state[q] = "waits"
                            /\ state'[q] = "unborn" <=> state[q] = "unborn"
    PROVE  TreeInv'
<1> USE DEF TreeInv
<1>1. OnlyWaitersWait' /\ JoinedOnce'
    BY DEF OnlyWaitersWait, JoinedOnce
<1>2. UnbornIsUnknown'
    BY DEF UnbornIsUnknown, TreeTypeOK
<1>3. HandleIsStarters'
    BY DEF HandleIsStarters, TreeTypeOK
<1>4. WaitersAwait'
    BY DEF WaitersAwait, Awaits
<1> QED
    BY <1>1, <1>2, <1>3, <1>4

LEMMA TreeStep ==
    ASSUME TreeInv, [TreeNext]_treeVars
    PROVE  TreeInv'
<1>1. TreeTypeOK'
    BY TreeTypeStep DEF TreeInv
<1>2. ASSUME NEW p \in Progs, NEW c \in Progs, drop(p, c) \/ CloseEnd(p, c)
      PROVE  TreeInv'
    BY <1>1, <1>2, LeaveStep DEF drop, CloseEnd, TreeInv, TreeTypeOK
<1>3. ASSUME NEW p \in Progs, ReadInput(p) \/ EndOfFile(p) \/ End(p)
      PROVE  TreeInv'
    BY <1>1, <1>3, LeaveStep DEF ReadInput, EndOfFile, End, TreeInv, TreeTypeOK
<1>4. ASSUME Refresh \/ Kill \/ UNCHANGED treeVars
      PROVE  TreeInv'
    BY <1>1, <1>4, LeaveStep DEF Refresh, Kill, treeVars, TreeInv, TreeTypeOK
<1>5. ASSUME Epoch
      PROVE  TreeInv'
    BY <1>3, <1>5, TreeAssumption DEF Epoch
<1> QED
    BY <1>1, <1>2, <1>3, <1>4, <1>5, SpawnStep, RunStep, WaitStep, JoinStep DEF TreeNext

-----------------------------------------------------------------------------
\* The state of the tree keeps its type, however many programs there are and
\* however deep they may start one another: in particular no child's depth
\* exceeds MAX_DEPTH, although the test is made in the parent.
THEOREM TreeTypeCorrect == TreeSpec => []TreeTypeOK
<1>1. TreeInit => TreeInv
    BY InitTree
<1>2. TreeInv /\ [TreeNext]_treeVars => TreeInv'
    BY TreeStep
<1>3. TreeInv => TreeTypeOK
    BY DEF TreeInv
<1> QED
    BY <1>1, <1>2, <1>3, PTL DEF TreeSpec

\* Child::wait: whoever is inside a join waits for a program of its own one
\* level further down, which nobody else waits for, has a handle of or has
\* joined; so joins form chains of at most MAX_DEPTH and never a circle, and no
\* thread is joined twice.
THEOREM JoinsRunDown == TreeSpec => []WaitsRunDown
<1>1. TreeInit => TreeInv
    BY InitTree
<1>2. TreeInv /\ [TreeNext]_treeVars => TreeInv'
    BY TreeStep
<1>3. TreeInv => WaitsRunDown
    BY TreeAssumption DEF TreeInv, TreeTypeOK, WaitersAwait, Awaits, JoinedOnce, WaitsRunDown
<1> QED
    BY <1>1, <1>2, <1>3, PTL DEF TreeSpec

-----------------------------------------------------------------------------
(* Proofs about the pipe, for any capacity and any finite sets of programs. *)

Active == {"run", "parked", "check", "write", "closed"}

(* Only the pipeline's programs are ever started.                           *)
OnlyThesePrograms == \A p \in Programs : p \notin pipeline => pc[p] = "done"

(* The counters count the ends there are; a program has its end of the pipe *)
(* from its spawn to its exit and none before.                              *)
EndsCounted ==
  /\ IsFiniteSet(wends) /\ writers = Cardinality(wends)
  /\ IsFiniteSet(rends) /\ readers = Cardinality(rends)
  /\ \A p \in Programs : pc[p] = "unborn" =>
       \A s \in Streams : <<p, s>> \notin wends /\ <<p, s>> \notin rends
  /\ \A w \in Writers : pc[w] \in Active => <<w, "stdout">> \in wends

(* A shell with ends of its own keeps them while it still has to spawn a    *)
(* program on that side.                                                    *)
ShellWaits ==
  /\ \A w \in Writers : pc[w] = "unborn" => <<Shell, "fd">> \in wends
  /\ \A r \in Readers : pc[r] = "unborn" => <<Shell, "fd">> \in rends

(* Why the only program of a side that sleeps unwoken sleeps rightly: its   *)
(* waker is in the slot, and what it waits for has not happened.            *)
SleepsRightly ==
  /\ Sole(Readers) => \A r \in Readers : pc[r] = "parked" /\ ~woken[r] =>
       reader_waker = r /\ buf = 0 /\ writers # 0
  /\ Sole(Writers) => \A w \in Writers : pc[w] = "parked" /\ ~woken[w] =>
       writer_waker = w /\ buf >= Capacity /\ readers # 0

Writing == {w \in Writers : pc[w] = "write"}

(* What the writers that hold a permit can still add.  The last of them to  *)
(* have asked got what the buffer lacked then; since, each of the others    *)
(* may have written a capacity.                                             *)
Headroom ==
  LET all == Cardinality(pipeline \cap Writers)
      holding == Cardinality(Writing)
  IN  /\ \A w \in Writing : permit[w] <= Capacity
      /\ Writing = {} => buf <= Capacity * all
      /\ Writing # {} => \E w \in Writing :
           buf + permit[w] <= Capacity * (all - holding + 1)

USE PipeAssumption DEF Programs, Streams, Owners

(* Dropping an end that exists makes one fewer.                             *)
LEMMA DropCount ==
  ASSUME NEW S, IsFiniteSet(S), NEW e \in S
  PROVE  /\ IsFiniteSet(S \ {e})
         /\ Cardinality(S) \in Nat \ {0}
         /\ Cardinality(S \ {e}) = Cardinality(S) - 1
         /\ Cardinality(S \ {e}) = OneLess(Cardinality(S))
<1>1. Cardinality(S) \in Nat /\ Cardinality(S) # 0
  BY FS_CardinalityType, FS_EmptySet
<1>2. IsFiniteSet(S \ {e}) /\ Cardinality(S \ {e}) = Cardinality(S) - 1
  BY FS_RemoveElement
<1>3. QED
  BY <1>1, <1>2 DEF OneLess

(* Minting an end that did not exist makes one more.                        *)
LEMMA AddCount ==
  ASSUME NEW S, IsFiniteSet(S), NEW e, e \notin S
  PROVE  /\ IsFiniteSet(S \cup {e})
         /\ Cardinality(S \cup {e}) = Cardinality(S) + 1
BY FS_AddElement

(* A writer has one stream on the pipe or two.                              *)
LEMMA PipedCount ==
  ASSUME NEW piped \in {{"stdout"}, {"stdout", "stderr"}}
  PROVE  /\ piped = {"stdout"} => Cardinality(piped) = 1
         /\ piped = {"stdout", "stderr"} => Cardinality(piped) = 2
         /\ Cardinality(piped) \in Nat
<1>1. IsFiniteSet({"stdout"}) /\ Cardinality({"stdout"}) = 1
  BY FS_Singleton
<1>2. {"stdout", "stderr"} = {"stdout"} \cup {"stderr"}
  OBVIOUS
<1>3. "stderr" \notin {"stdout"}
  OBVIOUS
<1>4. Cardinality({"stdout", "stderr"}) = Cardinality({"stdout"}) + 1
  BY <1>1, <1>2, <1>3, AddCount
<1>5. QED
  BY <1>1, <1>4

(* Minting two ends makes two more.                                         *)
LEMMA AddTwoCount ==
  ASSUME NEW S, IsFiniteSet(S), NEW d, NEW e, d \notin S, e \notin S, d # e
  PROVE  /\ IsFiniteSet(S \cup {d, e})
         /\ Cardinality(S \cup {d, e}) = Cardinality(S) + 2
<1>1. /\ IsFiniteSet(S \cup {d})
      /\ Cardinality(S \cup {d}) = Cardinality(S) + 1
  BY AddCount
<1>2. e \notin S \cup {d} /\ S \cup {d, e} = (S \cup {d}) \cup {e}
  OBVIOUS
<1>3. /\ IsFiniteSet(S \cup {d, e})
      /\ Cardinality(S \cup {d, e}) = Cardinality(S) + 1 + 1
  BY <1>1, <1>2, AddCount
<1>4. QED
  BY <1>3, FS_CardinalityType

(* The pipe starts empty, with the shell's ends or none.                    *)
LEMMA InitInv == Init => TypeOK /\ OnlyThesePrograms /\ EndsCounted
<1> SUFFICES ASSUME Init PROVE TypeOK /\ OnlyThesePrograms /\ EndsCounted
  OBVIOUS
<1>1. IsFiniteSet(ShellEnds) /\ Cardinality(ShellEnds) \in Nat
  <2>1. CASE ShellHolds
    <3>1. ShellEnds = {<<Shell, "fd">>}
      BY <2>1 DEF ShellEnds
    <3>2. IsFiniteSet(ShellEnds) /\ Cardinality(ShellEnds) = 1
      BY <3>1, FS_Singleton
    <3>3. QED
      BY <3>2
  <2>2. CASE ~ShellHolds
    <3>1. ShellEnds = {}
      BY <2>2 DEF ShellEnds
    <3>2. QED
      BY <3>1, FS_EmptySet
  <2>3. QED
    BY <2>1, <2>2
<1>2. ShellEnds \subseteq Owners \X Streams
  BY DEF ShellEnds
<1>3. TypeOK
  BY <1>1, <1>2 DEF Init, TypeOK
<1>4. \A p \in Programs, s \in Streams : <<p, s>> \notin ShellEnds
  BY DEF ShellEnds
<1>5. OnlyThesePrograms
  BY DEF Init, OnlyThesePrograms
<1>6. EndsCounted
  BY <1>1, <1>4 DEF Init, EndsCounted, Active
<1>7. QED
  BY <1>3, <1>5, <1>6

(* Every step keeps the variables in their types.                           *)
LEMMA PipeTypeStep == TypeOK /\ [Next]_vars => TypeOK'
<1> SUFFICES ASSUME TypeOK, [Next]_vars PROVE TypeOK'
  OBVIOUS
<1> USE DEF TypeOK
<1>1. ASSUME NEW p \in Programs, Spawn(p) PROVE TypeOK'
  <2>1. pc' \in [Programs -> {"unborn", "run", "parked", "check", "write",
                              "closed", "exit", "done"}]
    BY <1>1 DEF Spawn
  <2>2. CASE p \in Readers
    BY <1>1, <2>1, <2>2 DEF Spawn
  <2>3. CASE p \in Writers
    <3>1. PICK piped \in {{"stdout"}, {"stdout", "stderr"}} :
            /\ wends' = wends \cup {<<p, s>> : s \in piped}
            /\ writers' = writers + Cardinality(piped)
      BY <1>1, <2>3 DEF Spawn
    <3>2. Cardinality(piped) \in Nat
      BY PipedCount
    <3>3. wends' \subseteq Owners \X Streams
      BY <3>1
    <3>4. QED
      BY <1>1, <2>1, <2>3, <3>1, <3>2, <3>3 DEF Spawn
  <2>4. QED
    BY <2>2, <2>3
<1>2. ASSUME NEW e, DropWriter(e), pc' \in [Programs -> {"unborn", "run",
                "parked", "check", "write", "closed", "exit", "done"}]
      PROVE  TypeOK'
  <2>1. /\ reader_waker' \in Readers \cup {NoWaker}
        /\ woken' \in [Programs -> BOOLEAN]
    BY <1>2 DEF DropWriter, Woken
  <2>2. QED
    BY <1>2, <2>1 DEF DropWriter, OneLess
<1>3. ASSUME NEW e, DropReader(e), pc' \in [Programs -> {"unborn", "run",
                "parked", "check", "write", "closed", "exit", "done"}]
      PROVE  TypeOK'
  BY <1>3 DEF DropReader, OneLess, Woken
<1>4. CASE ShellClose
  BY <1>2, <1>3, <1>4 DEF ShellClose
<1>5. ASSUME NEW p \in Programs, Exit(p) PROVE TypeOK'
  BY <1>5 DEF Exit
<1>6. ASSUME NEW p \in Programs, DropEnd(p) PROVE TypeOK'
  <2>1. pc' \in [Programs -> {"unborn", "run", "parked", "check", "write",
                              "closed", "exit", "done"}]
    BY <1>6 DEF DropEnd
  <2>2. QED
    BY <1>2, <1>3, <1>6, <2>1 DEF DropEnd
<1>7. ASSUME NEW r \in Readers, PollRead(r) PROVE TypeOK'
  BY <1>7 DEF PollRead
<1>8. ASSUME NEW r \in Readers, Read(r) PROVE TypeOK'
  <2>1. buf' \in Nat
    BY <1>8 DEF Read
  <2>2. QED
    BY <1>8, <2>1 DEF Read, Woken
<1>9. ASSUME NEW w \in Writers, PollWrite(w) PROVE TypeOK'
  BY <1>9 DEF PollWrite
<1>10. ASSUME NEW w \in Writers, CheckWrite(w) PROVE TypeOK'
  BY <1>10 DEF CheckWrite, Room
<1>11. ASSUME NEW w \in Writers, Write(w) PROVE TypeOK'
  <2>1. buf' \in Nat
    BY <1>11 DEF Write
  <2>2. QED
    BY <1>11, <2>1 DEF Write, Woken
<1>12. CASE UNCHANGED vars
  BY <1>12 DEF vars
<1>13. QED
  BY <1>1, <1>4, <1>5, <1>6, <1>7, <1>8, <1>9, <1>10, <1>11, <1>12 DEF Next

(* A program outside the pipeline never leaves its place.                   *)
LEMMA StartedStep == TypeOK /\ OnlyThesePrograms /\ [Next]_vars => OnlyThesePrograms'
<1> SUFFICES ASSUME TypeOK, OnlyThesePrograms, [Next]_vars,
                    NEW p \in Programs, p \notin pipeline
             PROVE  pipeline' = pipeline /\ pc'[p] = "done"
  BY DEF OnlyThesePrograms, Next, Spawn, Exit, DropEnd, PollRead, Read, PollWrite,
         CheckWrite, Write, ShellClose, DropWriter, DropReader, vars
<1>1. pc[p] = "done"
  BY DEF OnlyThesePrograms
<1>2. pipeline' = pipeline
  BY DEF Next, Spawn, Exit, DropEnd, PollRead, Read, PollWrite,
         CheckWrite, Write, ShellClose, DropWriter, DropReader, vars
<1>3. pc'[p] = "done"
  BY <1>1 DEF TypeOK, Next, Spawn, Exit, DropEnd, PollRead, Read, PollWrite,
         CheckWrite, Write, ShellClose, DropWriter, DropReader, vars
<1>4. QED
  BY <1>2, <1>3
(* Spawning mints as many ends as are counted, and dropping takes one.      *)
LEMMA EndsStep == TypeOK /\ EndsCounted /\ [Next]_vars => EndsCounted'
<1> SUFFICES ASSUME TypeOK, EndsCounted, [Next]_vars PROVE EndsCounted'
  OBVIOUS
<1>1. ASSUME NEW p \in Programs, Spawn(p) PROVE EndsCounted'
  <2>1. /\ pc'[p] \in {"run", "exit"}
        /\ \A q \in Programs : q # p => pc'[q] = pc[q]
    BY <1>1 DEF Spawn, TypeOK
  <2>2. \A s \in Streams : <<p, s>> \notin wends /\ <<p, s>> \notin rends
    BY <1>1 DEF Spawn, EndsCounted
  <2>3. CASE p \in Readers
    <3>1. /\ rends' = rends \cup {<<p, "stdin">>} /\ readers' = readers + 1
          /\ UNCHANGED <<wends, writers>>
      BY <1>1, <2>3 DEF Spawn
    <3>2. IsFiniteSet(rends') /\ readers' = Cardinality(rends')
      BY <2>2, <3>1, AddCount DEF EndsCounted
    <3>3. \A q \in Programs : pc'[q] = "unborn" =>
            \A s \in Streams : <<q, s>> \notin wends' /\ <<q, s>> \notin rends'
      <4> SUFFICES ASSUME NEW q \in Programs, pc'[q] = "unborn",
                          NEW s \in Streams
                   PROVE  <<q, s>> \notin wends' /\ <<q, s>> \notin rends'
        OBVIOUS
      <4>1. q # p /\ pc[q] = "unborn"
        BY <2>1
      <4>2. <<q, s>> \notin wends /\ <<q, s>> \notin rends
        BY <4>1 DEF EndsCounted
      <4>3. QED
        BY <3>1, <4>1, <4>2
    <3>4. \A w \in Writers : pc'[w] \in Active => <<w, "stdout">> \in wends'
      BY <2>1, <2>3, <3>1 DEF EndsCounted
    <3>5. QED
      BY <3>1, <3>2, <3>3, <3>4 DEF EndsCounted
  <2>4. CASE p \in Writers
    <3>1. PICK piped \in {{"stdout"}, {"stdout", "stderr"}} :
            /\ wends' = wends \cup {<<p, s>> : s \in piped}
            /\ writers' = writers + Cardinality(piped)
            /\ UNCHANGED <<rends, readers>>
      BY <1>1, <2>4 DEF Spawn
    <3>2. IsFiniteSet(wends') /\ writers' = Cardinality(wends')
      <4>1. IsFiniteSet(wends) /\ writers = Cardinality(wends)
        BY DEF EndsCounted
      <4>2. CASE piped = {"stdout"}
        <5>1. wends' = wends \cup {<<p, "stdout">>} /\ writers' = writers + 1
          BY <3>1, <4>2, PipedCount
        <5>2. QED
          BY <2>2, <4>1, <5>1, AddCount
      <4>3. CASE piped = {"stdout", "stderr"}
        <5>1. writers' = writers + 2
          BY <3>1, <4>3, PipedCount
        <5>2. wends' = wends \cup {<<p, "stdout">>, <<p, "stderr">>}
          BY <3>1, <4>3
        <5>3. QED
          BY <2>2, <4>1, <5>1, <5>2, AddTwoCount
      <4>4. QED
        BY <4>2, <4>3
    <3>3. \A q \in Programs : pc'[q] = "unborn" =>
            \A s \in Streams : <<q, s>> \notin wends' /\ <<q, s>> \notin rends'
      <4> SUFFICES ASSUME NEW q \in Programs, pc'[q] = "unborn",
                          NEW s \in Streams
                   PROVE  <<q, s>> \notin wends' /\ <<q, s>> \notin rends'
        OBVIOUS
      <4>1. q # p /\ pc[q] = "unborn"
        BY <2>1
      <4>2. <<q, s>> \notin wends /\ <<q, s>> \notin rends
        BY <4>1 DEF EndsCounted
      <4>3. QED
        BY <3>1, <4>1, <4>2
    <3>4. \A w \in Writers : pc'[w] \in Active => <<w, "stdout">> \in wends'
      BY <2>1, <3>1 DEF EndsCounted
    <3>5. QED
      BY <3>1, <3>2, <3>3, <3>4 DEF EndsCounted
  <2>5. QED
    BY <2>3, <2>4
<1>2. ASSUME NEW e \in wends, DropWriter(e),
             \A q \in Programs : pc'[q] # pc[q] => pc'[q] = "done",
             \A w \in Writers : pc'[w] \in Active => e # <<w, "stdout">>
      PROVE  EndsCounted'
  <2>1. /\ wends' = wends \ {e} /\ writers' = OneLess(writers)
        /\ UNCHANGED <<rends, readers>>
    BY <1>2 DEF DropWriter
  <2>2. IsFiniteSet(wends') /\ writers' = Cardinality(wends')
    BY <2>1, DropCount DEF EndsCounted
  <2>3. \A w \in Writers : pc'[w] \in Active => <<w, "stdout">> \in wends'
    BY <1>2, <2>1 DEF EndsCounted, Active
  <2>4. \A q \in Programs : pc'[q] = "unborn" =>
          \A s \in Streams : <<q, s>> \notin wends' /\ <<q, s>> \notin rends'
    BY <1>2, <2>1 DEF EndsCounted
  <2>5. QED
    BY <2>1, <2>2, <2>3, <2>4 DEF EndsCounted
<1>3. ASSUME NEW e \in rends, DropReader(e),
             \A q \in Programs : pc'[q] # pc[q] => pc'[q] = "done"
      PROVE  EndsCounted'
  <2>1. /\ rends' = rends \ {e} /\ readers' = OneLess(readers)
        /\ UNCHANGED <<wends, writers>>
    BY <1>3 DEF DropReader
  <2>2. IsFiniteSet(rends') /\ readers' = Cardinality(rends')
    BY <2>1, DropCount DEF EndsCounted
  <2>3. \A w \in Writers : pc'[w] \in Active => <<w, "stdout">> \in wends'
    BY <1>3, <2>1 DEF EndsCounted, Active
  <2>4. \A q \in Programs : pc'[q] = "unborn" =>
          \A s \in Streams : <<q, s>> \notin wends' /\ <<q, s>> \notin rends'
    BY <1>3, <2>1 DEF EndsCounted
  <2>5. QED
    BY <2>1, <2>2, <2>3, <2>4 DEF EndsCounted
<1>4. CASE ShellClose
  BY <1>2, <1>3, <1>4 DEF ShellClose
<1>5. ASSUME NEW p \in Programs, DropEnd(p) PROVE EndsCounted'
  <2>1. CASE \E e \in wends : e[1] = p /\ DropWriter(e)
    <3>1. PICK e \in wends : e[1] = p /\ DropWriter(e)
      BY <2>1
    <3>2. \A q \in Programs : pc'[q] # pc[q] => pc'[q] = "done"
      BY <1>5 DEF DropEnd, TypeOK
    <3>3. pc'[p] \in {"exit", "done"}
      BY <1>5 DEF DropEnd, TypeOK
    <3>4. QED
      BY <1>2, <3>1, <3>2, <3>3 DEF Active
  <2>2. CASE \E e \in rends : DropReader(e)
    <3>1. \A q \in Programs : pc'[q] # pc[q] => pc'[q] = "done"
      BY <1>5 DEF DropEnd, TypeOK
    <3>2. QED
      BY <1>3, <2>2, <3>1
  <2>3. QED
    BY <1>5, <2>1, <2>2 DEF DropEnd
<1>6. ASSUME UNCHANGED <<writers, readers, wends, rends>>,
             \A q \in Programs :
               /\ pc'[q] = "unborn" => pc[q] = "unborn"
               /\ pc'[q] \in Active => pc[q] \in Active
      PROVE  EndsCounted'
  BY <1>6 DEF EndsCounted
<1>7. ASSUME NEW p \in Programs, Exit(p) PROVE EndsCounted'
  BY <1>6, <1>7 DEF Exit, TypeOK, Active
<1>8. ASSUME NEW r \in Readers, PollRead(r) \/ Read(r) PROVE EndsCounted'
  BY <1>6, <1>8 DEF PollRead, Read, TypeOK, Active
<1>9. ASSUME NEW w \in Writers, PollWrite(w) \/ CheckWrite(w) \/ Write(w)
      PROVE  EndsCounted'
  BY <1>6, <1>9 DEF PollWrite, CheckWrite, Write, TypeOK, Active
<1>10. CASE UNCHANGED vars
  BY <1>6, <1>10 DEF vars
<1>11. QED
  BY <1>1, <1>4, <1>5, <1>7, <1>8, <1>9, <1>10 DEF Next
(* The shell closes a side only when everybody on it has been spawned.      *)
LEMMA ShellStep == TypeOK /\ ShellWaits /\ [Next]_vars => ShellWaits'
<1> SUFFICES ASSUME TypeOK, ShellWaits, [Next]_vars PROVE ShellWaits'
  OBVIOUS
<1>1. \A p \in Programs : pc'[p] = "unborn" => pc[p] = "unborn"
  BY DEF TypeOK, Next, Spawn, Exit, DropEnd, PollRead, Read, PollWrite,
         CheckWrite, Write, ShellClose, vars
<1>2. ASSUME NEW p \in Programs, Spawn(p) PROVE ShellWaits'
  BY <1>1, <1>2 DEF Spawn, ShellWaits
<1>3. CASE ShellClose
  BY <1>1, <1>3 DEF ShellClose, DropWriter, DropReader, ShellWaits
<1>4. ASSUME NEW p \in Programs, DropEnd(p) PROVE ShellWaits'
  <2>1. ASSUME <<Shell, "fd">> \in wends PROVE <<Shell, "fd">> \in wends'
    BY <1>4, <2>1 DEF DropEnd, DropWriter, DropReader
  <2>2. ASSUME <<Shell, "fd">> \in rends PROVE <<Shell, "fd">> \in rends'
    BY <1>4, <2>2 DEF DropEnd, DropWriter, DropReader
  <2>3. QED
    BY <1>1, <2>1, <2>2 DEF ShellWaits
<1>5. CASE UNCHANGED <<wends, rends>>
  BY <1>1, <1>5 DEF ShellWaits
<1>6. QED
  BY <1>2, <1>3, <1>4, <1>5 DEF Next, Exit, PollRead, Read, PollWrite,
     CheckWrite, Write, vars

(* End-of-file is told on a drained pipe without writers, and no step can   *)
(* undo either once the shell has handed out the writing ends.              *)
LEMMA EofStep ==
  TypeOK /\ EndsCounted /\ ShellWaits /\ EofIsFinal /\ [Next]_vars => EofIsFinal'
<1> SUFFICES ASSUME TypeOK, EndsCounted, ShellWaits, EofIsFinal, [Next]_vars,
                    NEW r \in Readers, pc'[r] = "closed"
             PROVE  /\ buf' = 0 /\ wends' = {}
                    /\ \A w \in Writers : pc'[w] # "unborn"
  BY DEF EofIsFinal
<1>1. \A p \in Programs : pc'[p] = "unborn" => pc[p] = "unborn"
  BY DEF TypeOK, Next, Spawn, Exit, DropEnd, PollRead, Read, PollWrite,
         CheckWrite, Write, ShellClose, vars
<1>2. CASE pc[r] = "closed"
  <2>1. buf = 0 /\ wends = {} /\ \A w \in Writers : pc[w] # "unborn"
    BY <1>2 DEF EofIsFinal
  <2>2. \A w \in Writers : pc[w] \notin Active
    BY <2>1 DEF EndsCounted
  <2>3. buf' = 0
    BY <2>1, <2>2 DEF Active, Next, Spawn, Exit, DropEnd, PollRead, Read,
       PollWrite, CheckWrite, Write, ShellClose, DropWriter, DropReader, vars
  <2>4. wends' = {}
    BY <2>1 DEF Next, Spawn, Exit, DropEnd, PollRead, Read,
       PollWrite, CheckWrite, Write, ShellClose, DropWriter, DropReader, vars
  <2>5. QED
    BY <1>1, <2>1, <2>3, <2>4
<1>3. CASE pc[r] # "closed"
  <2>1. Read(r)
    BY <1>3 DEF TypeOK, Next, Spawn, Exit, DropEnd, PollRead, Read,
       PollWrite, CheckWrite, Write, ShellClose, vars
  <2>2. buf = 0 /\ writers = 0 /\ buf' = buf /\ wends' = wends
    BY <1>3, <2>1 DEF Read, TypeOK
  <2>3. wends = {}
    BY <2>2, FS_EmptySet DEF EndsCounted
  <2>4. \A w \in Writers : pc[w] # "unborn"
    BY <2>3 DEF ShellWaits
  <2>5. QED
    BY <1>1, <2>2, <2>3, <2>4
<1>4. QED
  BY <1>2, <1>3

(* A broken pipe is told only when the reading ends are gone for good.      *)
LEMMA BrokenStep ==
  TypeOK /\ EndsCounted /\ ShellWaits /\ BrokenPipeIsFinal /\ [Next]_vars
    => BrokenPipeIsFinal'
<1> SUFFICES ASSUME TypeOK, EndsCounted, ShellWaits, BrokenPipeIsFinal,
                    [Next]_vars, NEW w \in Writers, pc'[w] = "closed"
             PROVE  rends' = {} /\ \A r \in Readers : pc'[r] # "unborn"
  BY DEF BrokenPipeIsFinal
<1>1. \A p \in Programs : pc'[p] = "unborn" => pc[p] = "unborn"
  BY DEF TypeOK, Next, Spawn, Exit, DropEnd, PollRead, Read, PollWrite,
         CheckWrite, Write, ShellClose, vars
<1>2. CASE pc[w] = "closed"
  <2>1. rends = {} /\ \A r \in Readers : pc[r] # "unborn"
    BY <1>2 DEF BrokenPipeIsFinal
  <2>2. rends' = {}
    BY <2>1 DEF Next, Spawn, Exit, DropEnd, PollRead, Read,
       PollWrite, CheckWrite, Write, ShellClose, DropWriter, DropReader, vars
  <2>3. QED
    BY <1>1, <2>1, <2>2
<1>3. CASE pc[w] # "closed"
  <2>1. CheckWrite(w) \/ Write(w)
    BY <1>3 DEF TypeOK, Next, Spawn, Exit, DropEnd, PollRead, Read,
       PollWrite, CheckWrite, Write, ShellClose, vars
  <2>2. readers = 0 /\ rends' = rends
    BY <1>3, <2>1 DEF CheckWrite, Write, TypeOK
  <2>3. rends = {}
    BY <2>2, FS_EmptySet DEF EndsCounted
  <2>4. \A r \in Readers : pc[r] # "unborn"
    BY <2>3 DEF ShellWaits
  <2>5. QED
    BY <1>1, <2>2, <2>3, <2>4
<1>4. QED
  BY <1>2, <1>3
(* Whoever makes a sleeper's condition true calls the waker in its slot,    *)
(* and nobody else of a lone program's side can have taken that slot.       *)
LEMMA SleepStep ==
  TypeOK /\ OnlyThesePrograms /\ SleepsRightly /\ [Next]_vars => SleepsRightly'
<1> SUFFICES ASSUME TypeOK, OnlyThesePrograms, SleepsRightly, [Next]_vars
             PROVE  SleepsRightly'
  OBVIOUS
<1>1. pipeline' = pipeline
  BY DEF Next, Spawn, Exit, DropEnd, PollRead, Read, PollWrite,
         CheckWrite, Write, ShellClose, DropWriter, DropReader, vars
<1>2. ASSUME Sole(Readers), NEW r \in Readers, pc'[r] = "parked", ~woken'[r]
      PROVE  reader_waker' = r /\ buf' = 0 /\ writers' # 0
  <2>1. CASE PollRead(r)
    BY <1>2, <2>1 DEF PollRead, TypeOK
  <2>2. CASE ~PollRead(r)
    <3>1. pc[r] = "parked"
      BY <1>2, <2>2 DEF TypeOK, Next, Spawn, Exit, DropEnd, PollRead, Read,
         PollWrite, CheckWrite, Write, ShellClose, vars
    <3>2. ~woken[r]
      BY <1>2, <2>2 DEF TypeOK, Next, Spawn, Exit, DropEnd, PollRead, Read,
         PollWrite, CheckWrite, Write, ShellClose, DropWriter, DropReader,
         Woken, vars
    <3>3. reader_waker = r /\ buf = 0 /\ writers # 0
      BY <1>2, <3>1, <3>2 DEF SleepsRightly
    <3>4. \A q \in Readers : q # r => pc[q] = "done"
      BY <1>2, <3>1 DEF OnlyThesePrograms, Sole
    <3>5. ASSUME NEW e, DropWriter(e) PROVE reader_waker' = r /\ writers' # 0
      <4>1. CASE writers <= 1
        <5>1. woken' = [p \in Programs |-> woken[p] \/ p = reader_waker]
          BY <3>5, <4>1 DEF DropWriter, Woken
        <5>2. woken'[r]
          BY <3>3, <5>1
        <5>3. QED
          BY <1>2, <5>2
      <4>2. CASE ~(writers <= 1)
        BY <3>3, <3>5, <4>2 DEF DropWriter, OneLess, TypeOK
      <4>3. QED
        BY <4>1, <4>2
    <3>6. ASSUME NEW p \in Programs, Spawn(p)
          PROVE  reader_waker' = r /\ writers' # 0
      <4>1. CASE writers' = writers
        BY <3>3, <3>6, <4>1 DEF Spawn
      <4>2. CASE \E piped \in {{"stdout"}, {"stdout", "stderr"}} :
                   writers' = writers + Cardinality(piped)
        BY <3>3, <3>6, <4>2, PipedCount DEF Spawn, TypeOK
      <4>3. QED
        BY <3>6, <4>1, <4>2 DEF Spawn
    <3>7. ASSUME NEW w \in Writers, Write(w)
          PROVE  reader_waker' = r /\ buf' = 0 /\ writers' # 0
      BY <1>2, <3>3, <3>7 DEF Write, Woken, TypeOK
    <3>8. buf' = 0
      BY <3>3, <3>7 DEF Next, Spawn, Exit, DropEnd, PollRead, Read, PollWrite,
         CheckWrite, ShellClose, DropWriter, DropReader, vars
    <3>9. ASSUME NEW q \in Readers PROVE ~PollRead(q)
      BY <2>2, <3>4 DEF PollRead
    <3>10. reader_waker' = r /\ writers' # 0
      <4>1. CASE ShellClose \/ \E p \in Programs : DropEnd(p)
        BY <3>3, <3>5, <4>1 DEF ShellClose, DropEnd, DropReader
      <4>2. CASE UNCHANGED <<reader_waker, writers>>
        BY <3>3, <4>2
      <4>3. QED
        BY <3>6, <3>7, <3>9, <4>1, <4>2 DEF Next, Exit, Read, PollWrite,
           CheckWrite, vars
    <3>11. QED
      BY <3>8, <3>10
  <2>3. QED
    BY <2>1, <2>2
<1>3. ASSUME Sole(Writers), NEW w \in Writers, pc'[w] = "parked", ~woken'[w]
      PROVE  writer_waker' = w /\ buf' >= Capacity /\ readers' # 0
  <2>1. CASE PollWrite(w)
    BY <1>3, <2>1 DEF PollWrite, TypeOK
  <2>2. CASE ~PollWrite(w)
    <3>1. pc[w] = "parked"
      BY <1>3, <2>2 DEF TypeOK, Next, Spawn, Exit, DropEnd, PollRead, Read,
         PollWrite, CheckWrite, Write, ShellClose, vars
    <3>2. ~woken[w]
      BY <1>3, <2>2 DEF TypeOK, Next, Spawn, Exit, DropEnd, PollRead, Read,
         PollWrite, CheckWrite, Write, ShellClose, DropWriter, DropReader,
         Woken, vars
    <3>3. writer_waker = w /\ buf >= Capacity /\ readers # 0
      BY <1>3, <3>1, <3>2 DEF SleepsRightly
    <3>4. \A q \in Writers : q # w => pc[q] = "done"
      BY <1>3, <3>1 DEF OnlyThesePrograms, Sole
    <3>5. ASSUME NEW e PROVE ~DropReader(e)
      BY <1>3, <3>3 DEF DropReader, Woken
    <3>6. ASSUME NEW r \in Readers, Read(r)
          PROVE  UNCHANGED <<writer_waker, buf, readers>>
      BY <1>3, <3>3, <3>6 DEF Read, Woken
    <3>7. ASSUME NEW v \in Writers PROVE ~Write(v) /\ ~CheckWrite(v)
      BY <3>1, <3>4 DEF Write, CheckWrite
    <3>8. ASSUME NEW v \in Writers PROVE ~PollWrite(v)
      BY <2>2, <3>4 DEF PollWrite
    <3>9. UNCHANGED <<writer_waker, buf>>
      BY <3>5, <3>6, <3>7, <3>8 DEF Next, Spawn, Exit, DropEnd, PollRead,
         ShellClose, DropWriter, vars
    <3>10. readers' # 0
      BY <3>3, <3>5, <3>6, <3>7, <3>8 DEF Next, Spawn, Exit, DropEnd,
         PollRead, ShellClose, DropWriter, vars, TypeOK
    <3>11. QED
      BY <3>3, <3>9, <3>10
  <2>3. QED
    BY <2>1, <2>2
<1>4. QED
  BY <1>1, <1>2, <1>3 DEF SleepsRightly, Sole
(* A capacity more or less per writer.                                      *)
LEMMA OneCapacity ==
  ASSUME NEW n \in Nat
  PROVE  /\ Capacity * n \in Nat
         /\ Capacity * (n + 1) = Capacity * n + Capacity
BY SMT

(* Fewer writers, less room.                                                *)
LEMMA Monotone ==
  ASSUME NEW m \in Nat, NEW n \in Nat, m <= n
  PROVE  Capacity * m <= Capacity * n
BY SMT

(* Each writer adds at most what it was allowed, and the last one allowed   *)
(* knew of everything that was then in the buffer.                          *)
LEMMA HeadroomStep == TypeOK /\ OnlyThesePrograms /\ Headroom /\ [Next]_vars => Headroom'
<1> SUFFICES ASSUME TypeOK, OnlyThesePrograms, Headroom, [Next]_vars PROVE Headroom'
  OBVIOUS
<1> DEFINE all == Cardinality(pipeline \cap Writers)
           holding == Cardinality(Writing)
<1>1. pipeline' = pipeline
  BY DEF Next, Spawn, Exit, DropEnd, PollRead, Read, PollWrite,
         CheckWrite, Write, ShellClose, DropWriter, DropReader, vars
<1>2. /\ Writing \subseteq pipeline \cap Writers
      /\ IsFiniteSet(pipeline \cap Writers) /\ IsFiniteSet(Writing)
      /\ all \in Nat /\ holding \in Nat /\ holding <= all
  <2>1. Writing \subseteq pipeline \cap Writers
    BY DEF Writing, OnlyThesePrograms
  <2>2. IsFiniteSet(pipeline \cap Writers)
    BY FS_Subset
  <2>3. QED
    BY <2>1, <2>2, FS_Subset, FS_CardinalityType
<1>3. ASSUME Writing' = Writing, \A w \in Writing : permit'[w] = permit[w],
             buf' <= buf, buf' \in Nat
      PROVE  Headroom'
  <2>1. all' = all /\ holding' = holding
    BY <1>1, <1>3
  <2>2. CASE Writing = {}
    <3>1. Capacity * all \in Nat
      BY <1>2, OneCapacity
    <3>2. QED
      BY <1>3, <2>1, <2>2, <3>1 DEF Headroom, TypeOK
  <2>3. CASE Writing # {}
    <3>1. PICK w \in Writing : buf + permit[w] <= Capacity * (all - holding + 1)
      BY <2>3 DEF Headroom
    <3>2. Capacity * (all - holding + 1) \in Nat
      BY <1>2, OneCapacity
    <3>3. buf' + permit'[w] <= Capacity * (all' - holding' + 1)
      BY <1>3, <2>1, <3>1, <3>2 DEF TypeOK, Writing
    <3>4. QED
      BY <1>3, <2>3, <3>1, <3>3 DEF Headroom
  <2>4. QED
    BY <2>2, <2>3
<1>4. ASSUME NEW w \in Writers, CheckWrite(w) PROVE Headroom'
  <2>1. CASE readers = 0 \/ Room = 0
    <3>1. pc'[w] # "write" /\ pc[w] # "write"
      BY <1>4, <2>1 DEF CheckWrite, TypeOK
    <3>2. Writing' = Writing
      BY <1>4, <3>1 DEF CheckWrite, TypeOK, Writing
    <3>3. \A v \in Writing : permit'[v] = permit[v]
      BY <1>4, <3>1 DEF CheckWrite, TypeOK, Writing
    <3>4. QED
      BY <1>3, <1>4, <3>2, <3>3 DEF CheckWrite, TypeOK
  <2>2. CASE readers # 0 /\ Room # 0
    <3>1. /\ pc[w] = "check" /\ pc' = [pc EXCEPT ![w] = "write"]
          /\ permit' = [permit EXCEPT ![w] = Capacity - buf]
          /\ buf' = buf /\ buf < Capacity
      BY <1>4, <2>2 DEF CheckWrite, Room, TypeOK
    <3>2. w \notin Writing /\ Writing' = Writing \cup {w}
      BY <3>1 DEF Writing, TypeOK
    <3>3. holding' = holding + 1
      BY <1>2, <3>2, AddCount
    <3>4. w \in pipeline \cap Writers /\ holding' <= all
      <4>1. Writing' \subseteq pipeline \cap Writers
        BY <1>2, <3>1, <3>2 DEF OnlyThesePrograms
      <4>2. QED
        BY <1>2, <3>2, <4>1, FS_Subset
    <3>5. \A v \in Writing' : permit'[v] <= Capacity
      BY <3>1, <3>2 DEF Headroom, TypeOK, Writing
    <3>6. buf' + permit'[w] = Capacity
      BY <3>1 DEF TypeOK
    <3>7. Capacity <= Capacity * (all - holding' + 1)
      BY <1>2, <3>3, <3>4, OneCapacity
    <3>8. QED
      BY <1>1, <3>2, <3>5, <3>6, <3>7 DEF Headroom
  <2>3. QED
    BY <2>1, <2>2
<1>5. ASSUME NEW w \in Writers, Write(w) PROVE Headroom'
  <2>1. /\ w \in Writing /\ Writing' = Writing \ {w}
        /\ \A v \in Writing' : permit'[v] = permit[v] /\ permit[v] <= Capacity
    BY <1>5 DEF Write, Writing, TypeOK, Headroom
  <2>2. buf' \in Nat /\ buf' <= buf + permit[w] /\ permit[w] <= Capacity
    BY <1>5, <2>1 DEF Write, TypeOK, Headroom
  <2>3. holding' = holding - 1 /\ holding >= 1
    BY <1>2, <2>1, DropCount
  <2>4. all' = all
    BY <1>1
  <2>5. all - holding \in Nat /\ all' - holding' + 1 = (all - holding + 1) + 1
    BY <1>2, <2>3, <2>4
  <2>6. PICK v \in Writing : buf + permit[v] <= Capacity * (all - holding + 1)
    BY <2>1 DEF Headroom
  <2> DEFINE k == Capacity * (all - holding + 1)
  <2>7. k \in Nat /\ Capacity * (all' - holding' + 1) = k + Capacity
    BY <2>5, OneCapacity
  <2>8. permit[v] \in Nat /\ permit[w] \in Nat
    BY <2>1, <2>6 DEF TypeOK, Writing
  <2>9. CASE Writing' = {}
    <3>1. v = w
      BY <2>1, <2>6, <2>9
    <3>2. holding = 1
      <4>1. holding' = 0
        BY <2>9, FS_EmptySet
      <4>2. QED
        BY <1>2, <2>3, <4>1
    <3>3. k = Capacity * all
      BY <1>2, <3>2
    <3>4. buf' <= Capacity * all
      BY <2>2, <2>6, <2>7, <2>8, <3>1, <3>3 DEF TypeOK
    <3>5. QED
      BY <2>1, <2>4, <2>9, <3>4 DEF Headroom
  <2>10. CASE Writing' # {}
    <3>1. \E u \in Writing' : buf' + permit'[u] <= k + Capacity
      <4>1. CASE v = w
        <5>1. PICK u \in Writing' : TRUE
          BY <2>10
        <5>2. permit'[u] <= Capacity /\ permit'[u] \in Nat
          BY <2>1 DEF TypeOK, Writing
        <5>3. buf' <= k
          BY <2>2, <2>6, <2>7, <2>8, <4>1 DEF TypeOK
        <5>4. QED
          BY <2>2, <2>7, <5>2, <5>3
      <4>2. CASE v # w
        <5>1. v \in Writing' /\ permit'[v] = permit[v]
          BY <2>1, <2>6, <4>2
        <5>2. buf' + permit'[v] <= k + Capacity
          BY <2>2, <2>6, <2>7, <2>8, <5>1 DEF TypeOK
        <5>3. QED
          BY <5>1, <5>2
      <4>3. QED
        BY <4>1, <4>2
    <3>2. QED
      BY <2>1, <2>7, <2>10, <3>1 DEF Headroom
  <2>11. QED
    BY <2>9, <2>10
<1>6. ASSUME NEW r \in Readers, Read(r) PROVE Headroom'
  <2>1. buf' <= buf /\ buf' \in Nat
    BY <1>6 DEF Read, TypeOK
  <2>2. Writing' = Writing /\ permit' = permit
    BY <1>6 DEF Read, TypeOK, Writing
  <2>3. QED
    BY <1>3, <2>1, <2>2
<1>7. ASSUME buf' = buf, permit' = permit,
             \A w \in Writers : pc'[w] = "write" <=> pc[w] = "write"
      PROVE  Headroom'
  <2>1. Writing' = Writing
    BY <1>7 DEF Writing
  <2>2. QED
    BY <1>3, <1>7, <2>1 DEF TypeOK
<1>8. ASSUME NEW p \in Programs, Spawn(p) \/ Exit(p) \/ DropEnd(p)
      PROVE  Headroom'
  BY <1>7, <1>8 DEF Spawn, Exit, DropEnd, DropWriter, DropReader, TypeOK
<1>9. ASSUME NEW r \in Readers, PollRead(r) PROVE Headroom'
  BY <1>7, <1>9 DEF PollRead, TypeOK
<1>10. ASSUME NEW w \in Writers, PollWrite(w) PROVE Headroom'
  BY <1>7, <1>10 DEF PollWrite, TypeOK
<1>11. CASE ShellClose
  BY <1>7, <1>11 DEF ShellClose, DropWriter, DropReader
<1>12. CASE UNCHANGED vars
  BY <1>7, <1>12 DEF vars
<1>13. QED
  BY <1>4, <1>5, <1>6, <1>8, <1>9, <1>10, <1>11, <1>12 DEF Next
(* The invariant of every pipe, whoever owns its ends.                      *)
PipeInv == TypeOK /\ OnlyThesePrograms /\ EndsCounted /\ SleepsRightly /\ Headroom

(* The invariant holds in every reachable state.                            *)
LEMMA PipeInvariance == Spec => []PipeInv
<1>1. Init => PipeInv
  <2> SUFFICES ASSUME Init PROVE SleepsRightly /\ Headroom
    BY InitInv DEF PipeInv
  <2>1. Writing = {} /\ SleepsRightly
    BY DEF Init, Writing, SleepsRightly
  <2>2. Capacity * Cardinality(pipeline \cap Writers) \in Nat
    <3>1. Cardinality(pipeline \cap Writers) \in Nat
      BY FS_Subset, FS_CardinalityType
    <3>2. QED
      BY <3>1, OneCapacity
  <2>3. Headroom
    BY <2>1, <2>2 DEF Init, Headroom
  <2>4. QED
    BY <2>1, <2>3
<1>2. PipeInv /\ [Next]_vars => PipeInv'
  BY PipeTypeStep, StartedStep, EndsStep, SleepStep, HeadroomStep DEF PipeInv
<1>3. QED
  BY <1>1, <1>2, PTL DEF Spec

(* The pipe's buffer, counters, slots and programs keep their types.        *)
THEOREM PipeTypeCorrect == Spec => []TypeOK
<1>1. PipeInv => TypeOK
  BY DEF PipeInv
<1>2. QED
  BY PipeInvariance, <1>1, PTL

(* The counters are exactly the ends that exist, through every spawn, close *)
(* and drop: saturating_sub never has anything to save.                     *)
THEOREM CountersAreExact == Spec => []EndsCounted
<1>1. PipeInv => EndsCounted
  BY DEF PipeInv
<1>2. QED
  BY PipeInvariance, <1>1, PTL

(* The only reader, or the only writer, of a pipe never sleeps through its  *)
(* wake-up: poll registers the waker under the lock that the other side     *)
(* changes the buffer under.                                                *)
THEOREM NeverStranded == Spec => []NoLostWakeup
<1>1. PipeInv => NoLostWakeup
  BY DEF PipeInv, SleepsRightly, NoLostWakeup, ReaderStranded, WriterStranded,
         TypeOK
<1>2. QED
  BY PipeInvariance, <1>1, PTL

(* The buffer never exceeds one capacity per program that writes, although  *)
(* the lock is released between check_write and write.                      *)
THEOREM BufferIsBounded == Spec => []BoundedBuffer
<1>1. PipeInv => BoundedBuffer
  <2> SUFFICES ASSUME PipeInv PROVE BoundedBuffer
    OBVIOUS
  <2> DEFINE all == Cardinality(pipeline \cap Writers)
             holding == Cardinality(Writing)
  <2>1. Writing \subseteq pipeline \cap Writers
    BY DEF PipeInv, Writing, OnlyThesePrograms
  <2>2. IsFiniteSet(pipeline \cap Writers)
    BY FS_Subset
  <2>3. all \in Nat /\ holding \in Nat /\ holding <= all /\ IsFiniteSet(Writing)
    BY <2>1, <2>2, FS_Subset, FS_CardinalityType
  <2>4. CASE Writing # {}
    <3>1. holding # 0
      BY <2>3, <2>4, FS_EmptySet
    <3>2. PICK w \in Writing : buf + permit[w] <= Capacity * (all - holding + 1)
      BY <2>4 DEF PipeInv, Headroom
    <3>3. /\ all - holding + 1 \in Nat /\ all - holding + 1 <= all
          /\ permit[w] \in Nat /\ buf \in Nat
      BY <2>3, <3>1 DEF PipeInv, TypeOK, Writing
    <3>4. Capacity * (all - holding + 1) <= Capacity * all
      BY <2>3, <3>3, Monotone
    <3>5. Capacity * (all - holding + 1) \in Nat /\ Capacity * all \in Nat
      BY <2>3, <3>3, OneCapacity
    <3>6. QED
      BY <3>2, <3>3, <3>4, <3>5 DEF BoundedBuffer
  <2>5. CASE Writing = {}
    BY <2>5 DEF PipeInv, Headroom, BoundedBuffer
  <2>6. QED
    BY <2>4, <2>5
<1>2. QED
  BY PipeInvariance, <1>1, PTL

(* With a shell that owns an end of each kind while it spawns, end-of-file  *)
(* is final: nothing was left to read and nobody can write again.           *)
THEOREM EofFinal == ASSUME ShellHolds PROVE Spec => []EofIsFinal
<1>1. Init => ShellWaits /\ EofIsFinal
  BY DEF Init, ShellEnds, ShellWaits, EofIsFinal
<1>2. TypeOK /\ EndsCounted /\ ShellWaits /\ EofIsFinal /\ [Next]_vars
        => ShellWaits' /\ EofIsFinal'
  BY ShellStep, EofStep
<1>3. PipeInv => TypeOK /\ EndsCounted
  BY DEF PipeInv
<1>4. QED
  BY PipeInvariance, <1>1, <1>2, <1>3, PTL DEF Spec

(* Likewise a broken pipe is final, so that no producer dies of a consumer  *)
(* that is yet to be spawned.                                               *)
THEOREM BrokenPipeFinal == ASSUME ShellHolds PROVE Spec => []BrokenPipeIsFinal
<1>1. Init => ShellWaits /\ BrokenPipeIsFinal
  BY DEF Init, ShellEnds, ShellWaits, BrokenPipeIsFinal
<1>2. TypeOK /\ EndsCounted /\ ShellWaits /\ BrokenPipeIsFinal /\ [Next]_vars
        => ShellWaits' /\ BrokenPipeIsFinal'
  BY ShellStep, BrokenStep
<1>3. PipeInv => TypeOK /\ EndsCounted
  BY DEF PipeInv
<1>4. QED
  BY PipeInvariance, <1>1, <1>2, <1>3, PTL DEF Spec
=============================================================================
