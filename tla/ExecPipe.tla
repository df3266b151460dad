------------------------------ MODULE ExecPipe ------------------------------
(***************************************************************************)
(* The pipe that a guest puts between programs it spawns: a bounded byte   *)
(* buffer with counted reading and writing ends and one waker slot for     *)
(* each side.  Every program runs on a thread and a runtime of its own, so *)
(* each critical section of the pipe's mutex is one step here.             *)
(*                                                                         *)
(* A shell spawns the programs of one pipeline, in any order.  It either   *)
(* owns both ends from the start, as libc's pipe() does, or owns none and  *)
(* only hands the pipe to spawn, as pipedemo.c does (ShellHolds).          *)
(*                                                                         *)
(* Bytes are counted, not told apart.                                      *)
(***************************************************************************)
EXTENDS Naturals, FiniteSets

CONSTANTS
  Writers,     \* programs with stdout, and perhaps stderr, on the pipe
  Readers,     \* programs with stdin on the pipe
  Shell,       \* the guest that spawns them
  NoWaker,     \* an empty waker slot
  Capacity,    \* PIPE_CAPACITY
  ShellHolds   \* does the shell own an end of each kind?

ASSUME PipeAssumption ==
  /\ Capacity \in Nat \ {0}
  /\ ShellHolds \in BOOLEAN
  /\ IsFiniteSet(Writers)
  /\ IsFiniteSet(Readers)
  /\ Writers \cap Readers = {}
  /\ Shell \notin Writers \cup Readers
  /\ NoWaker \notin Writers \cup Readers

VARIABLES
  buf,                         \* bytes in the buffer
  writers, readers,            \* the counters of ends
  writer_waker, reader_waker,  \* the waker slots
  wends, rends,                \* the ends that exist: <<owner, stream>>
  pipeline,                    \* the programs of this pipeline
  pc,                          \* what each program does
  woken,                       \* has its waker been called?
  permit                       \* what check_write allowed a writer

vars == <<buf, writers, readers, writer_waker, reader_waker, wends, rends,
          pipeline, pc, woken, permit>>

Programs == Writers \cup Readers
Streams == {"stdin", "stdout", "stderr", "fd"}
Owners == Programs \cup {Shell}

TypeOK ==
  /\ buf \in Nat
  /\ writers \in Nat
  /\ readers \in Nat
  /\ writer_waker \in Writers \cup {NoWaker}
  /\ reader_waker \in Readers \cup {NoWaker}
  /\ wends \subseteq Owners \X Streams
  /\ rends \subseteq Owners \X Streams
  /\ pipeline \subseteq Programs
  /\ pc \in [Programs -> {"unborn", "run", "parked", "check", "write",
                          "closed", "exit", "done"}]
  /\ woken \in [Programs -> BOOLEAN]
  /\ permit \in [Writers -> Nat]

ShellEnds == IF ShellHolds THEN {<<Shell, "fd">>} ELSE {}

Init ==
  /\ buf = 0
  /\ wends = ShellEnds
  /\ rends = ShellEnds
  /\ writers = Cardinality(ShellEnds)
  /\ readers = Cardinality(ShellEnds)
  /\ writer_waker = NoWaker
  /\ reader_waker = NoWaker
  /\ pipeline \in SUBSET Programs
  /\ pc = [p \in Programs |-> IF p \in pipeline THEN "unborn" ELSE "done"]
  /\ woken = [p \in Programs |-> FALSE]
  /\ permit = [w \in Writers |-> 0]

\* Calling a stored waker empties its slot and lets the parked program poll.
Woken(slot) == [p \in Programs |-> woken[p] \/ p = slot]

-----------------------------------------------------------------------------
(* Taking and dropping ends *)

\* spawn mints the child's ends and then starts it.  A program that does not
\* compile never runs: its ends are dropped at once.
Spawn(p) ==
  /\ pc[p] = "unborn"
  /\ pc' \in {[pc EXCEPT ![p] = "run"], [pc EXCEPT ![p] = "exit"]}
  /\ \/ /\ p \in Readers
        /\ rends' = rends \cup {<<p, "stdin">>}
        /\ readers' = readers + 1
        /\ UNCHANGED <<wends, writers>>
     \/ /\ p \in Writers
        /\ \E piped \in {{"stdout"}, {"stdout", "stderr"}} :
             /\ wends' = wends \cup {<<p, s>> : s \in piped}
             /\ writers' = writers + Cardinality(piped)
        /\ UNCHANGED <<rends, readers>>
  /\ UNCHANGED <<buf, writer_waker, reader_waker, pipeline, woken, permit>>

\* saturating_sub
OneLess(n) == IF n = 0 THEN 0 ELSE n - 1

\* PipeWriter::drop: the last writing end to go wakes the reader.
DropWriterSilently(e) ==  \* mutant: the reader is not told of the end
  /\ wends' = wends \ {e}
  /\ writers' = OneLess(writers)
  /\ UNCHANGED <<buf, readers, writer_waker, reader_waker, rends, pipeline,
                 woken, permit>>

DropWriter(e) ==
  /\ wends' = wends \ {e}
  /\ writers' = OneLess(writers)
  /\ IF writers <= 1
     THEN reader_waker' = NoWaker /\ woken' = Woken(reader_waker)
     ELSE UNCHANGED <<reader_waker, woken>>
  /\ UNCHANGED <<buf, readers, writer_waker, rends, pipeline, permit>>

\* PipeReader::drop: a writer waiting for room has to find out.
DropFirstReader(e) ==  \* mutant: broken as soon as one reader leaves
  /\ rends' = rends \ {e}
  /\ readers' = 0
  /\ writer_waker' = NoWaker
  /\ woken' = Woken(writer_waker)
  /\ UNCHANGED <<buf, writers, reader_waker, wends, pipeline, permit>>

DropReader(e) ==
  /\ rends' = rends \ {e}
  /\ readers' = OneLess(readers)
  /\ writer_waker' = NoWaker
  /\ woken' = Woken(writer_waker)
  /\ UNCHANGED <<buf, writers, reader_waker, wends, pipeline, permit>>

\* The shell closes each of its descriptors once the programs that need that
\* side of the pipe have theirs.
ShellClose ==
  /\ \/ /\ \A w \in Writers : pc[w] # "unborn"
        /\ \E e \in wends : e[1] = Shell /\ DropWriter(e)
     \/ /\ \A r \in Readers : pc[r] # "unborn"
        /\ \E e \in rends : e[1] = Shell /\ DropReader(e)
  /\ UNCHANGED pc

\* A program returns or traps; its store is dropped and the ends with it, one
\* at a time.
Exit(p) ==
  /\ pc[p] \in {"run", "closed"}
  /\ pc' = [pc EXCEPT ![p] = "exit"]
  /\ UNCHANGED <<buf, writers, readers, writer_waker, reader_waker, wends,
                 rends, pipeline, woken, permit>>

DropEnd(p) ==
  /\ pc[p] = "exit"
  /\ \/ \E e \in wends :
          /\ e[1] = p
          /\ DropWriter(e)
          /\ pc' = [pc EXCEPT ![p] = IF \E d \in wends \ {e} : d[1] = p
                                     THEN @ ELSE "done"]
     \/ \E e \in rends :
          /\ e[1] = p
          /\ DropReader(e)
          /\ pc' = [pc EXCEPT ![p] = "done"]

-----------------------------------------------------------------------------
(* The reading side *)

\* Readable::poll
PollRead(r) ==
  /\ pc[r] = "run" \/ (pc[r] = "parked" /\ woken[r])
  /\ woken' = [woken EXCEPT ![r] = FALSE]
  /\ IF buf > 0 \/ writers = 0
     THEN /\ pc' = [pc EXCEPT ![r] = "check"]
          /\ UNCHANGED reader_waker
     ELSE /\ pc' = [pc EXCEPT ![r] = "parked"]
          /\ reader_waker' = r
  /\ UNCHANGED <<buf, writers, readers, writer_waker, wends, rends, pipeline,
                 permit>>

\* ReadEnd::read.  End-of-file is "drained and closed".
ReadClosedFirst(r) ==  \* mutant: the tail is lost when the writers are gone
  /\ pc[r] = "check"
  /\ IF writers = 0
     THEN /\ pc' = [pc EXCEPT ![r] = "closed"]
          /\ UNCHANGED <<buf, writer_waker, woken>>
     ELSE /\ pc' = [pc EXCEPT ![r] = "run"]
          /\ buf' \in 0..(IF buf = 0 THEN 0 ELSE buf - 1)
          /\ writer_waker' = NoWaker
          /\ woken' = Woken(writer_waker)
  /\ UNCHANGED <<writers, readers, reader_waker, wends, rends, pipeline, permit>>

Read(r) ==
  /\ pc[r] = "check"
  /\ IF buf = 0
     THEN /\ pc' = [pc EXCEPT ![r] = IF writers = 0 THEN "closed" ELSE "run"]
          /\ UNCHANGED <<buf, writer_waker, woken>>
     ELSE /\ pc' = [pc EXCEPT ![r] = "run"]
          /\ buf' \in 0..(buf - 1)
          /\ writer_waker' = NoWaker
          /\ woken' = Woken(writer_waker)
  /\ UNCHANGED <<writers, readers, reader_waker, wends, rends, pipeline, permit>>

-----------------------------------------------------------------------------
(* The writing side *)

\* Writable::poll
PollWrite(w) ==
  /\ pc[w] = "run" \/ (pc[w] = "parked" /\ woken[w])
  /\ woken' = [woken EXCEPT ![w] = FALSE]
  /\ IF buf < Capacity \/ readers = 0
     THEN /\ pc' = [pc EXCEPT ![w] = "check"]
          /\ UNCHANGED writer_waker
     ELSE /\ pc' = [pc EXCEPT ![w] = "parked"]
          /\ writer_waker' = w
  /\ UNCHANGED <<buf, writers, readers, reader_waker, wends, rends, pipeline,
                 permit>>

Room == IF buf < Capacity THEN Capacity - buf ELSE 0

\* WriteEnd::check_write.  The wasi:io layer writes no more than was allowed
\* and polls again when nothing was.
CheckWrite(w) ==
  /\ pc[w] = "check"
  /\ permit' = [permit EXCEPT ![w] = IF readers = 0 THEN 0 ELSE Room]
  /\ pc' = [pc EXCEPT ![w] = IF readers = 0 THEN "closed"
                             ELSE IF Room = 0 THEN "run" ELSE "write"]
  /\ UNCHANGED <<buf, writers, readers, writer_waker, reader_waker, wends,
                 rends, pipeline, woken>>

\* WriteEnd::write.  The lock was released since check_write.
WriteSilently(w) ==  \* mutant: the parked reader is not told
  /\ pc[w] = "write"
  /\ IF readers = 0
     THEN /\ pc' = [pc EXCEPT ![w] = "closed"]
          /\ UNCHANGED buf
     ELSE /\ pc' = [pc EXCEPT ![w] = "run"]
          /\ \E n \in 1..permit[w] : buf' = buf + n
  /\ permit' = [permit EXCEPT ![w] = 0]
  /\ UNCHANGED <<writers, readers, writer_waker, reader_waker, wends, rends,
                 pipeline, woken>>

Write(w) ==
  /\ pc[w] = "write"
  /\ IF readers = 0
     THEN /\ pc' = [pc EXCEPT ![w] = "closed"]
          /\ UNCHANGED <<buf, reader_waker, woken>>
     ELSE /\ pc' = [pc EXCEPT ![w] = "run"]
          /\ \E n \in 1..permit[w] : buf' = buf + n
          /\ reader_waker' = NoWaker
          /\ woken' = Woken(reader_waker)
  /\ permit' = [permit EXCEPT ![w] = 0]
  /\ UNCHANGED <<writers, readers, writer_waker, wends, rends, pipeline>>

-----------------------------------------------------------------------------
Next ==
  \/ \E p \in Programs : Spawn(p) \/ Exit(p) \/ DropEnd(p)
  \/ \E r \in Readers : PollRead(r) \/ Read(r)
  \/ \E w \in Writers : PollWrite(w) \/ CheckWrite(w) \/ Write(w)
  \/ ShellClose

Spec == Init /\ [][Next]_vars

\* A runtime polls a task whose waker was called, and a store that is being
\* dropped is dropped to the end.  What the programs do is their own affair.
Fairness ==
  /\ \A p \in Programs : WF_vars(DropEnd(p))
  /\ \A r \in Readers : WF_vars(pc[r] = "parked" /\ PollRead(r))
  /\ \A w \in Writers : WF_vars(pc[w] = "parked" /\ PollWrite(w))
FairSpec == Spec /\ Fairness

-----------------------------------------------------------------------------
(* Properties *)

\* A reader is told end-of-file only when nothing is left to read and no
\* program has, or is still to be given, a writing end: neither the tail of a
\* producer that has exited (read, execpipe.rs:220-228) nor the output of a
\* second writer on the same pipe (`2>&1`) is lost.
EofIsFinal ==
  \A r \in Readers : pc[r] = "closed" =>
    /\ buf = 0
    /\ wends = {}
    /\ \A w \in Writers : pc[w] # "unborn"

\* A writer is told that the pipe is broken only when nobody has, or is still
\* to be given, a reading end: a producer never dies of a consumer that is
\* about to be spawned (check_write and write, execpipe.rs:248-260).
BrokenPipeIsFinal ==
  \A w \in Writers : pc[w] = "closed" =>
    /\ rends = {}
    /\ \A r \in Readers : pc[r] # "unborn"

\* However many programs write at once, each holding a permit that was right
\* when check_write gave it, the buffer never exceeds one capacity per writer.
BoundedBuffer == buf <= Capacity * Cardinality(pipeline \cap Writers)

Sole(side) == \A p, q \in pipeline \cap side : p = q

ReaderStranded(r) == pc[r] = "parked" /\ (buf > 0 \/ writers = 0) /\ ~woken[r]
WriterStranded(w) == pc[w] = "parked" /\ (buf < Capacity \/ readers = 0) /\ ~woken[w]

\* In a pipeline with one program on a side, that program never sleeps through
\* its wake-up: if it is parked and could go on, its waker has been called,
\* whatever the other side and the dropping ends did in between.
NoLostWakeup ==
  /\ Sole(Readers) => \A r \in Readers : ~ReaderStranded(r)
  /\ Sole(Writers) => \A w \in Writers : ~WriterStranded(w)

\* The same with any number of writers, as the pipe is documented: "Room
\* freed: a writer waiting on a full pipe can go again" and "A writer blocked
\* for room will never get it now; let it fail" (execpipe.rs:231, 102).
EveryWriterWoken == \A w \in Writers : ~WriterStranded(w)

Leaving(ends) == \A e \in ends : e[1] # Shell /\ pc[e[1]] = "exit"

\* Once everybody on the other side is leaving, a parked program does not stay
\* parked: the reader gets to its end-of-file, the writer to its broken pipe.
ClosureIsNoticed ==
  /\ \A r \in Readers :
       (Sole(Readers) /\ pc[r] = "parked" /\ Leaving(wends)) ~> pc[r] # "parked"
  /\ \A w \in Writers :
       (Sole(Writers) /\ pc[w] = "parked" /\ Leaving(rends)) ~> pc[w] # "parked"
=============================================================================
