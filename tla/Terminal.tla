------------------------------ MODULE Terminal ------------------------------
(* What is typed at a node's terminal and how its guest gets it               *)
(* (wk-server/src/terminal.rs and tty.rs): the compositor's keys pass the     *)
(* line discipline or go in as they are, depending on the mode the guest has  *)
(* set by then; an attached `wk attach` puts its bytes straight in; the       *)
(* emulator answers queries the same way; and the guest's reads park on a     *)
(* waker in another thread.                                                   *)
(*                                                                            *)
(* A key is "ch" (anything printable), "ret", "bs", "intr" (^C), "eof" (^D)   *)
(* or "csi" (an arrow).  Echo and what the screen shows are left out: the     *)
(* grid is its size.                                                          *)
EXTENDS Naturals, Sequences

CONSTANTS
    Sizes,    \* grid sizes
    MaxKeys   \* keys typed and bytes put in, all together

VARIABLES
    guest,      \* "runs", "parked" (in a read) or "ended"
    woken,      \* its waker has been called
    canonical,  \* TtyMode
    buf, waker, closed,   \* InpState
    line,       \* the line being edited
    batch, raw, \* the keys of this frame still to handle, and the mode sampled for them
    fit, grid, size, \* the size last asked for, the emulator's grid and TermIo.size
    keys
termVars == <<guest, woken, canonical, buf, waker, closed, line, batch, raw, fit, grid, size, keys>>

TermKeys == {"ch", "ret", "bs", "intr", "eof", "csi"}

\* Whoever changes what a read waits for takes the waker and calls it.
Wake == /\ waker' = FALSE
        /\ woken' = (woken \/ waker)
feed_in(bytes) ==
    /\ buf' = buf \o bytes
    /\ Wake
    /\ UNCHANGED closed
close_silently ==
    /\ closed' = TRUE
    /\ UNCHANGED <<buf, waker, woken>>
close ==
    /\ closed' = TRUE
    /\ Wake
    /\ UNCHANGED buf
Quiet == UNCHANGED <<buf, waker, woken, closed>>
-----------------------------------------------------------------------------
(* The compositor's thread: one frame's keys at a time.                       *)

KeyFrame(ks) ==
    /\ batch = << >> /\ keys + Len(ks) <= MaxKeys
    /\ batch' = ks /\ raw' = ~canonical
    /\ keys' = keys + Len(ks)
    /\ UNCHANGED <<guest, woken, canonical, buf, waker, closed, line, fit, grid, size>>

\* The cooked line discipline, on one key.
key_input(k) ==
    \/ k = "ret" /\ line' = << >> /\ feed_in(Append(line, "ret"))
    \/ k = "bs"  /\ line' = (IF line = << >> THEN line ELSE SubSeq(line, 1, Len(line) - 1)) /\ Quiet
    \/ k = "intr" /\ line' = << >> /\ Quiet
    \/ k = "eof" /\ line' = line /\ (IF line = << >> THEN close ELSE Quiet)
    \/ k = "csi" /\ line' = line /\ Quiet
    \/ k = "ch"  /\ line' = Append(line, "ch") /\ Quiet

HandleKey ==
    /\ batch # << >>
    /\ batch' = Tail(batch)
    /\ IF raw THEN feed_in(<<Head(batch)>>) /\ UNCHANGED line ELSE key_input(Head(batch))
    /\ UNCHANGED <<guest, canonical, raw, fit, grid, size, keys>>

resize(s) ==
    /\ fit' = s
    /\ IF size = s THEN UNCHANGED <<grid, size>> ELSE grid' = s /\ size' = s
    /\ UNCHANGED <<guest, woken, canonical, buf, waker, closed, line, batch, raw, keys>>

\* Bytes of an attached client, or a reply of the emulator to the guest.
PutIn(k) ==
    /\ keys < MaxKeys /\ keys' = keys + 1
    /\ feed_in(<<k>>)
    /\ UNCHANGED <<guest, canonical, line, batch, raw, fit, grid, size>>
\* An attached client says how large its own terminal is.
AttachedSize(s) ==
    /\ size' = s
    /\ UNCHANGED <<guest, woken, canonical, buf, waker, closed, line, batch, raw, fit, grid, keys>>
-----------------------------------------------------------------------------
(* The guest's thread.                                                        *)

set(c) ==
    /\ guest = "runs" /\ canonical' = c
    /\ UNCHANGED <<guest, woken, buf, waker, closed, line, batch, raw, fit, grid, size, keys>>

\* A read of what is there, up to n bytes.
read(n) ==
    /\ guest = "runs" /\ buf # << >> /\ n \in 1..Len(buf)
    /\ buf' = SubSeq(buf, n + 1, Len(buf))
    /\ UNCHANGED <<guest, woken, canonical, waker, closed, line, batch, raw, fit, grid, size, keys>>
\* End of file, or any other reason to exit.
Exit ==
    /\ guest = "runs" /\ guest' = "ended"
    /\ UNCHANGED <<woken, canonical, buf, waker, closed, line, batch, raw, fit, grid, size, keys>>

\* InReady::poll, under the lock that feed_in and close take.
Park ==
    /\ guest = "runs" /\ buf = << >> /\ ~closed
    /\ guest' = "parked" /\ waker' = TRUE /\ woken' = FALSE
    /\ UNCHANGED <<canonical, buf, closed, line, batch, raw, fit, grid, size, keys>>
PollAgain ==
    /\ guest = "parked" /\ woken
    /\ IF buf # << >> \/ closed
       THEN guest' = "runs" /\ UNCHANGED <<waker, woken>>
       ELSE guest' = guest /\ waker' = TRUE /\ woken' = FALSE
    /\ UNCHANGED <<canonical, buf, closed, line, batch, raw, fit, grid, size, keys>>

\* The server stops the node, and starts it again once the guest has ended.
Stop ==
    /\ guest # "ended" /\ close
    /\ UNCHANGED <<guest, canonical, line, batch, raw, fit, grid, size, keys>>
reopen ==
    /\ guest = "ended" /\ guest' = "runs"
    /\ closed' = FALSE
    /\ UNCHANGED <<woken, canonical, buf, waker, line, batch, raw, fit, grid, size, keys>>

TermInit ==
    /\ guest = "runs" /\ woken = FALSE /\ canonical = TRUE
    /\ buf = << >> /\ waker = FALSE /\ closed = FALSE
    /\ line = << >> /\ batch = << >> /\ raw = FALSE
    /\ fit \in Sizes /\ grid = fit /\ size = fit /\ keys = 0

Batches == {<<k>> : k \in TermKeys} \cup TermKeys \X TermKeys
TermNext ==
    \/ \E ks \in Batches : KeyFrame(ks)
    \/ HandleKey
    \/ \E s \in Sizes : resize(s) \/ AttachedSize(s)
    \/ \E k \in TermKeys : PutIn(k)
    \/ \E c \in BOOLEAN : set(c)
    \/ \E n \in 1..Len(buf) : read(n)
    \/ Exit \/ Park \/ PollAgain \/ Stop \/ reopen

TermFairness == WF_termVars(PollAgain)
TermSpec == TermInit /\ [][TermNext]_termVars /\ TermFairness
-----------------------------------------------------------------------------
TermTypeOK ==
    /\ guest \in {"runs", "parked", "ended"}
    /\ woken \in BOOLEAN /\ canonical \in BOOLEAN /\ waker \in BOOLEAN
    /\ closed \in BOOLEAN /\ raw \in BOOLEAN
    /\ buf \in Seq(TermKeys) /\ line \in Seq({"ch"}) /\ batch \in Seq(TermKeys)
    /\ fit \in Sizes /\ grid \in Sizes /\ size \in Sizes
    /\ keys \in Nat

\* Whatever is typed, put in or closed while a guest goes to sleep in a read,
\* it is never left asleep over it: a guest whose waker has not been called has
\* nothing to read and an open terminal, and its waker is where the next one
\* that changes this will find it.
InputWakes ==
    guest = "parked" /\ ~woken => buf = << >> /\ ~closed /\ waker

\* NOT so (reopen: "the new one starts from a clean stream"): neither what the
\* old guest left unread nor its raw mode goes when a node is started again.
CleanStart == [][guest = "ended" /\ guest' = "runs" => buf' = << >> /\ canonical']_termVars

\* NOT so: keys reach the guest in the order they were typed.  A line begun in
\* cooked mode is held back while the guest is raw.
NothingHeldBack == raw /\ batch # << >> => line = << >>

\* NOT so: after a resize the grid has the size asked for.  It is compared with
\* the size an attached client may have set, not with the grid's.
GridFits == grid = fit
=============================================================================
