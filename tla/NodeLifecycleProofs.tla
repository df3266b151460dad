------------------------ MODULE NodeLifecycleProofs -------------------------
(* Proofs about a node: the terminal its guest reads, its lifecycle, and the  *)
(* window client its user types into.                                         *)
EXTENDS NodeLifecycle, Terminal, Client, SequenceTheorems, TLAPS

(* That no read sleeps over its input, for any grid sizes and any number of   *)
(* keys.  The invariant is inductive with the types: whoever fills the buffer *)
(* or closes the terminal takes the waker in the same step, and the guest     *)
(* looks and leaves its waker in one step too.                                *)

LEMMA KeysInSeq ==
    ASSUME NEW s \in Seq(TermKeys), NEW t \in Seq(TermKeys)
    PROVE  s \o t \in Seq(TermKeys)
BY ConcatProperties

LEMMA KeysAsBytes ==
    /\ << >> \in Seq(TermKeys) /\ << >> \in Seq({"ch"})
    /\ \A k \in TermKeys : <<k>> \in Seq(TermKeys)
    /\ \A k, j \in TermKeys : <<k, j>> \in Seq(TermKeys)
OBVIOUS

LEMMA WakeTypes ==
    ASSUME TermTypeOK, Wake
    PROVE  waker' \in BOOLEAN /\ woken' \in BOOLEAN
BY DEF TermTypeOK, Wake

\* The line under edit, ended by a return, is input.
LEMMA LineIsInput ==
    ASSUME NEW l \in Seq({"ch"})
    PROVE  Append(l, "ret") \in Seq(TermKeys)
<1>1. l \in Seq(TermKeys)
    BY DEF TermKeys
<1> QED
    BY <1>1, AppendProperties DEF TermKeys

LEMMA ShorterLine ==
    ASSUME NEW l \in Seq({"ch"}), l # << >>
    PROVE  SubSeq(l, 1, Len(l) - 1) \in Seq({"ch"})
BY SubSeqProperties

\* One key through the line discipline: what may come into the buffer.
LEMMA KeyInputTypes ==
    ASSUME TermTypeOK, NEW k \in TermKeys, key_input(k)
    PROVE  /\ line' \in Seq({"ch"}) /\ buf' \in Seq(TermKeys)
           /\ waker' \in BOOLEAN /\ woken' \in BOOLEAN /\ closed' \in BOOLEAN
<1> USE DEF TermTypeOK
<1>1. CASE k = "ret"
    <2>1. line' = << >> /\ buf' = buf \o Append(line, "ret")
        BY <1>1 DEF key_input, feed_in
    <2>2. buf' \in Seq(TermKeys)
        BY <2>1, LineIsInput, KeysInSeq
    <2> QED
        <3>1. Wake /\ closed' = closed
            BY <1>1 DEF key_input, feed_in
        <3> QED
            BY <2>1, <2>2, <3>1, WakeTypes, KeysAsBytes
<1>2. CASE k = "bs"
    BY <1>2, ShorterLine DEF key_input, Quiet
<1>3. CASE k = "intr"
    BY <1>3 DEF key_input, Quiet
<1>4. CASE k = "eof"
    BY <1>4 DEF key_input, Quiet, close, Wake
<1>5. CASE k = "csi"
    BY <1>5 DEF key_input, Quiet
<1>6. CASE k = "ch"
    BY <1>6, AppendProperties DEF key_input, Quiet
<1> QED
    BY <1>1, <1>2, <1>3, <1>4, <1>5, <1>6 DEF TermKeys

LEMMA BatchesAreKeys ==
    ASSUME NEW ks \in Batches
    PROVE  ks \in Seq(TermKeys)
<1>1. CASE \E k \in TermKeys : ks = <<k>>
    BY <1>1, KeysAsBytes
<1>2. CASE ks \in TermKeys \X TermKeys
    <2>1. ks[1] \in TermKeys /\ ks[2] \in TermKeys /\ ks = <<ks[1], ks[2]>>
        BY <1>2
    <2>2. <<ks[1], ks[2]>> \in Seq(TermKeys)
        BY <2>1, KeysAsBytes
    <2> QED
        BY <2>1, <2>2, Zenon
<1> QED
    BY <1>1, <1>2 DEF Batches

LEMMA InitTypes ==
    ASSUME TermInit
    PROVE  TermTypeOK
<1>1. /\ buf \in Seq(TermKeys) /\ line \in Seq({"ch"}) /\ batch \in Seq(TermKeys)
    BY KeysAsBytes DEF TermInit
<1>2. /\ guest \in {"runs", "parked", "ended"} /\ keys \in Nat
      /\ woken \in BOOLEAN /\ canonical \in BOOLEAN /\ waker \in BOOLEAN
      /\ closed \in BOOLEAN /\ raw \in BOOLEAN
    BY DEF TermInit
<1>3. fit \in Sizes /\ grid \in Sizes /\ size \in Sizes
    BY DEF TermInit
<1> QED
    BY <1>1, <1>2, <1>3 DEF TermTypeOK

LEMMA TermTypeStep ==
    ASSUME TermTypeOK, [TermNext]_termVars
    PROVE  TermTypeOK'
<1> USE DEF TermTypeOK
<1>1. ASSUME NEW ks \in Batches, KeyFrame(ks)
      PROVE  TermTypeOK'
    BY <1>1, BatchesAreKeys DEF KeyFrame
<1>2. ASSUME HandleKey
      PROVE  TermTypeOK'
    <2>1. Head(batch) \in TermKeys /\ Tail(batch) \in Seq(TermKeys)
        BY <1>2, HeadTailProperties DEF HandleKey
    <2>2. CASE raw
        <3>1. buf' \in Seq(TermKeys)
            BY <1>2, <2>1, <2>2, KeysInSeq, KeysAsBytes DEF HandleKey, feed_in
        <3> QED
            BY <1>2, <2>1, <2>2, <3>1 DEF HandleKey, feed_in, Wake
    <2>3. CASE ~raw
        <3>1. key_input(Head(batch))
            BY <1>2, <2>3 DEF HandleKey
        <3> QED
            BY <1>2, <2>1, <3>1, KeyInputTypes DEF HandleKey
    <2> QED
        BY <2>2, <2>3
<1>3. ASSUME NEW s \in Sizes, resize(s) \/ AttachedSize(s)
      PROVE  TermTypeOK'
    BY <1>3 DEF resize, AttachedSize
<1>4. ASSUME NEW k \in TermKeys, PutIn(k)
      PROVE  TermTypeOK'
    <2>1. buf' = buf \o <<k>> /\ Wake /\ closed' = closed
        BY <1>4 DEF PutIn, feed_in
    <2>2. buf' \in Seq(TermKeys)
        BY <2>1, KeysInSeq, KeysAsBytes
    <2> QED
        BY <1>4, <2>1, <2>2, WakeTypes DEF PutIn
<1>5. ASSUME NEW c \in BOOLEAN, set(c)
      PROVE  TermTypeOK'
    BY <1>5 DEF set
<1>6. ASSUME NEW n \in 1..Len(buf), read(n)
      PROVE  TermTypeOK'
    <2>1. SubSeq(buf, n + 1, Len(buf)) \in Seq(TermKeys)
        BY SubSeqProperties
    <2> QED
        BY <1>6, <2>1 DEF read
<1>7. ASSUME Exit \/ Park \/ PollAgain
      PROVE  TermTypeOK'
    BY <1>7 DEF Exit, Park, PollAgain
<1>8. ASSUME Stop \/ reopen
      PROVE  TermTypeOK'
    BY <1>8 DEF Stop, reopen, close, Wake
<1>9. CASE UNCHANGED termVars
    BY <1>9 DEF termVars
<1> QED
    BY <1>1, <1>2, <1>3, <1>4, <1>5, <1>6, <1>7, <1>8, <1>9 DEF TermNext

\* Whoever puts something in, or closes, has called the waker that was there.
LEMMA WakeStep ==
    ASSUME TermTypeOK, InputWakes, guest' = guest, Wake
    PROVE  InputWakes'
BY DEF TermTypeOK, InputWakes, Wake

LEMMA InputStep ==
    ASSUME TermTypeOK, InputWakes, [TermNext]_termVars
    PROVE  InputWakes'
<1> USE DEF InputWakes
<1>1. ASSUME HandleKey
      PROVE  InputWakes'
    <2>1. guest' = guest
        BY <1>1 DEF HandleKey
    <2>2. Wake \/ Quiet
        BY <1>1 DEF HandleKey, key_input, feed_in, close
    <2> QED
        BY <2>1, <2>2, WakeStep DEF Quiet
<1>2. ASSUME NEW k \in TermKeys, PutIn(k)
      PROVE  InputWakes'
    BY <1>2, WakeStep DEF PutIn, feed_in
<1>3. ASSUME Stop
      PROVE  InputWakes'
    BY <1>3, WakeStep DEF Stop, close
<1>4. ASSUME Park \/ PollAgain \/ Exit \/ reopen
      PROVE  InputWakes'
    BY <1>4 DEF Park, PollAgain, Exit, reopen, TermTypeOK
<1>5. ASSUME NEW n \in 1..Len(buf), read(n)
      PROVE  InputWakes'
    BY <1>5 DEF read
<1>6. ASSUME NEW ks \in Batches, KeyFrame(ks)
      PROVE  InputWakes'
    BY <1>6 DEF KeyFrame
<1>7. ASSUME NEW s \in Sizes, resize(s) \/ AttachedSize(s)
      PROVE  InputWakes'
    BY <1>7 DEF resize, AttachedSize
<1>8. ASSUME NEW c \in BOOLEAN, set(c)
      PROVE  InputWakes'
    BY <1>8 DEF set
<1>9. CASE UNCHANGED termVars
    BY <1>9 DEF termVars
<1> QED
    BY <1>1, <1>2, <1>3, <1>4, <1>5, <1>6, <1>7, <1>8, <1>9 DEF TermNext

-----------------------------------------------------------------------------
\* TermIo, TtyMode and the line discipline keep their types, for any sizes and
\* any number of keys: nothing but printable keys is ever held in the line.
THEOREM TerminalTypeCorrect == TermSpec => []TermTypeOK
<1>1. TermInit => TermTypeOK
    BY InitTypes
<1>2. TermTypeOK /\ [TermNext]_termVars => TermTypeOK'
    BY TermTypeStep
<1> QED
    BY <1>1, <1>2, PTL DEF TermSpec

\* InReady::poll against feed_in and close: a guest parked in a read, its waker
\* not called, has nothing to read, an open terminal, and its waker in place.
THEOREM NeverSleepsOverInput == TermSpec => []InputWakes
<1>1. TermInit => TermTypeOK /\ InputWakes
    BY InitTypes DEF TermInit, InputWakes
<1>2. TermTypeOK /\ InputWakes /\ [TermNext]_termVars => (TermTypeOK /\ InputWakes)'
    BY TermTypeStep, InputStep
<1> QED
    BY <1>1, <1>2, PTL DEF TermSpec

-----------------------------------------------------------------------------
(* Proofs about the life of app nodes, for any set of nodes and threads.    *)

(* Who may be where: the facts about the threads' positions that the        *)
(* invariants rest on.                                                      *)
Positions ==
  /\ rpc[Server] # "idle" => ~closing
  /\ closing => todo = {}
  /\ rpc[Server] # "idle" \/ closing => srvNode \in registered
  /\ \A g \in Guests : gpc[g] # "idle" => gnode[g] \in Nodes
  /\ \A n \in Nodes : rpc[n] # "idle" => cpc[n] = "done" /\ setup[n] = "plain"
  /\ \A n \in Nodes : cpc[n] \in {"unborn", "load", "publish"} => Loading(n)
  /\ \A n \in Nodes : cpc[n] \in {"check", "abort"} => ~Loading(n)

(* Where a node's stack can be, and what a closed node that is still        *)
(* compiling still has to see.                                              *)
StackInv ==
  /\ \A n \in Nodes : cpc[n] \in {"unborn", "load"} => stack[n] = "none"
  /\ \A n \in Nodes : cpc[n] = "done" /\ Loading(n) => stack[n] = "none"
  /\ \A n \in Nodes : n \notin registered /\ cpc[n] \in {"load", "publish", "check"}
                        => kill[n]
  /\ closing /\ cpc[srvNode] \in {"load", "publish", "check"} => kill[srvNode]
  /\ NoLeakedStack

Inv == TypeOK /\ Positions /\ OneGuest /\ ServesWhileGuestRuns /\ StackInv

USE LifecycleAssumption DEF Threads, Target, Loading, Running, Parked, Kinds,
      compileVars, serverVars, guestVars

(* The lifecycle starts in the inductive invariant.                         *)
LEMMA InitInv == Init => Inv
<1> SUFFICES ASSUME Init PROVE Inv
  OBVIOUS
<1> USE DEF Init
<1>1. TypeOK
  BY DEF TypeOK
<1>2. Positions
  BY DEF Positions
<1>3. OneGuest
  BY DEF OneGuest, Starting, Occupies
<1>4. ServesWhileGuestRuns
  BY DEF ServesWhileGuestRuns, Serves
<1>5. StackInv
  BY DEF StackInv, NoLeakedStack
<1>6. QED
  BY <1>1, <1>2, <1>3, <1>4, <1>5 DEF Inv

(* Every step of every thread keeps the variables in their types.           *)
LEMMA TypeStep == TypeOK /\ Positions /\ [Next]_vars => TypeOK'
<1> SUFFICES ASSUME TypeOK, Positions, [Next]_vars PROVE TypeOK'
  OBVIOUS
<1> USE DEF TypeOK, Positions
<1>1. ASSUME NEW n \in Nodes, CompileLoad(n) PROVE TypeOK'
  <2>1. stack' \in [Nodes -> {"none", "attached", "detached"}]
    BY <1>1 DEF CompileLoad
  <2>2. cpc' \in [Nodes -> {"unborn", "load", "publish", "check", "abort", "done"}]
    BY <1>1 DEF CompileLoad
  <2>3. finished' \in [Nodes -> BOOLEAN]
    <3>1. finished' = finished \/ finished' = [finished EXCEPT ![n] = TRUE]
      BY <1>1 DEF CompileLoad
    <3>2. CASE finished' = finished
      BY <3>2
    <3>3. CASE finished' = [finished EXCEPT ![n] = TRUE]
      BY <3>3
    <3>4. QED
      BY <3>1, <3>2, <3>3
  <2>4. QED
    BY <1>1, <2>1, <2>2, <2>3 DEF CompileLoad
<1>2. ASSUME NEW n \in Nodes, CompilePublish(n) PROVE TypeOK'
  BY <1>2 DEF CompilePublish
<1>3. ASSUME NEW n \in Nodes, CompileCheck(n) PROVE TypeOK'
  BY <1>3 DEF CompileCheck
<1>4. ASSUME NEW n \in Nodes, CompileAbort(n) PROVE TypeOK'
  BY <1>4 DEF CompileAbort
<1>5. ASSUME NEW n \in Nodes, Spawn(n) PROVE TypeOK'
  BY <1>5 DEF Spawn
<1>6. ASSUME NEW n \in Nodes, RunCommand(n) PROVE TypeOK'
  BY <1>6 DEF RunCommand, ServerRun
<1>7. ASSUME NEW n \in Nodes, StopCommand(n) PROVE TypeOK'
  BY <1>7 DEF StopCommand, HaltGuest
<1>8. ASSUME NEW n \in Nodes, CloseCommand(n) PROVE TypeOK'
  BY <1>8 DEF CloseCommand, HaltGuest
<1>9. ASSUME NEW n \in Nodes, DrainPendingRun(n) PROVE TypeOK'
  BY <1>9 DEF DrainPendingRun, ServerRun
<1>10. ASSUME NEW t \in Threads, RunSwap(t) PROVE TypeOK'
  BY <1>10 DEF RunSwap
<1>11. ASSUME NEW t \in Threads, RunReset(t) PROVE TypeOK'
  BY <1>11 DEF RunReset
<1>12. ASSUME NEW t \in Threads, RunReopen(t) PROVE TypeOK'
  BY <1>12 DEF RunReopen
<1>13. ASSUME NEW t \in Threads, RunStart(t) PROVE TypeOK'
  <2>1. serving' \in [Nodes -> BOOLEAN]
    <3>1. CASE Target(t) \in Providers
      <4>1. serving' = [serving EXCEPT ![Target(t)] = TRUE]
        BY <1>13, <3>1 DEF RunStart
      <4>2. QED
        BY <4>1
    <3>2. CASE Target(t) \notin Providers
      BY <1>13, <3>2 DEF RunStart
    <3>3. QED
      BY <3>1, <3>2
  <2>2. /\ gpc' \in [Guests -> Running \cup {"idle", "unserve", "clear"}]
        /\ gnode' \in [Guests -> Threads]
    BY <1>13 DEF RunStart
  <2>3. QED
    BY <1>13, <2>1, <2>2 DEF RunStart
<1>14. ASSUME NEW g \in Guests, GuestPark(g) PROVE TypeOK'
  BY <1>14 DEF GuestPark
<1>15. ASSUME NEW g \in Guests, GuestInput(g) PROVE TypeOK'
  BY <1>15 DEF GuestInput
<1>16. ASSUME NEW g \in Guests, GuestWoken(g) PROVE TypeOK'
  BY <1>16 DEF GuestWoken
<1>17. ASSUME NEW g \in Guests, GuestExit(g) PROVE TypeOK'
  BY <1>17 DEF GuestExit
<1>18. ASSUME NEW g \in Guests, GuestEndServing(g) PROVE TypeOK'
  BY <1>18 DEF GuestEndServing
<1>19. ASSUME NEW g \in Guests, GuestClear(g) PROVE TypeOK'
  BY <1>19 DEF GuestClear
<1>20. CASE CloseTeardown
  BY <1>20 DEF CloseTeardown
<1>21. CASE Tick
  BY <1>21 DEF Tick
<1>22. CASE UNCHANGED vars
  BY <1>22 DEF vars
<1>23. QED
  BY <1>1, <1>2, <1>3, <1>4, <1>5, <1>6, <1>7, <1>8, <1>9, <1>10, <1>11, <1>12,
     <1>13, <1>14, <1>15, <1>16, <1>17, <1>18, <1>19, <1>20, <1>21, <1>22
     DEF Next, CompileStep, RunStep, GuestStep, GuestEnd

(* The threads' positions stay consistent.                                  *)
LEMMA PositionsStep == TypeOK /\ Positions /\ [Next]_vars => Positions'
<1> SUFFICES ASSUME TypeOK, Positions, [Next]_vars PROVE Positions'
  OBVIOUS
<1> USE DEF TypeOK, Positions, ServerFree
<1>1. ASSUME NEW n \in Nodes, CompileLoad(n) PROVE Positions'
  BY <1>1 DEF CompileLoad
<1>2. ASSUME NEW n \in Nodes, CompilePublish(n) PROVE Positions'
  BY <1>2 DEF CompilePublish
<1>3. ASSUME NEW n \in Nodes, CompileCheck(n) PROVE Positions'
  BY <1>3 DEF CompileCheck
<1>4. ASSUME NEW n \in Nodes, CompileAbort(n) PROVE Positions'
  BY <1>4 DEF CompileAbort
<1>5. ASSUME NEW n \in Nodes, Spawn(n) PROVE Positions'
  BY <1>5 DEF Spawn
<1>6. ASSUME NEW n \in Nodes, RunCommand(n) PROVE Positions'
  BY <1>6 DEF RunCommand, ServerRun
<1>7. ASSUME NEW n \in Nodes, StopCommand(n) PROVE Positions'
  BY <1>7 DEF StopCommand, HaltGuest
<1>8. ASSUME NEW n \in Nodes, CloseCommand(n) PROVE Positions'
  BY <1>8 DEF CloseCommand, HaltGuest
<1>9. ASSUME NEW n \in Nodes, DrainPendingRun(n) PROVE Positions'
  BY <1>9 DEF DrainPendingRun, ServerRun
<1>10. ASSUME NEW t \in Threads, RunSwap(t) PROVE Positions'
  BY <1>10 DEF RunSwap
<1>11. ASSUME NEW t \in Threads, RunReset(t) PROVE Positions'
  BY <1>11 DEF RunReset
<1>12. ASSUME NEW t \in Threads, RunReopen(t) PROVE Positions'
  BY <1>12 DEF RunReopen
<1>13. ASSUME NEW t \in Threads, RunStart(t) PROVE Positions'
  BY <1>13 DEF RunStart
<1>14. ASSUME NEW g \in Guests, GuestPark(g) PROVE Positions'
  BY <1>14 DEF GuestPark
<1>15. ASSUME NEW g \in Guests, GuestInput(g) PROVE Positions'
  BY <1>15 DEF GuestInput
<1>16. ASSUME NEW g \in Guests, GuestWoken(g) PROVE Positions'
  BY <1>16 DEF GuestWoken
<1>17. ASSUME NEW g \in Guests, GuestExit(g) PROVE Positions'
  BY <1>17 DEF GuestExit
<1>18. ASSUME NEW g \in Guests, GuestEndServing(g) PROVE Positions'
  BY <1>18 DEF GuestEndServing
<1>19. ASSUME NEW g \in Guests, GuestClear(g) PROVE Positions'
  BY <1>19 DEF GuestClear
<1>20. CASE CloseTeardown
  BY <1>20 DEF CloseTeardown
<1>21. CASE Tick
  BY <1>21 DEF Tick
<1>22. CASE UNCHANGED vars
  BY <1>22 DEF vars
<1>23. QED
  BY <1>1, <1>2, <1>3, <1>4, <1>5, <1>6, <1>7, <1>8, <1>9, <1>10, <1>11, <1>12,
     <1>13, <1>14, <1>15, <1>16, <1>17, <1>18, <1>19, <1>20, <1>21, <1>22
     DEF Next, CompileStep, RunStep, GuestStep, GuestEnd

(* What OneGuest is about: who starts the node, who occupies it, and the    *)
(* flag.  A step that changes none of them keeps it.                        *)
SameHolders ==
  /\ \A t \in Threads, n \in Nodes : Starting(t, n)' <=> Starting(t, n)
  /\ \A g \in Guests, n \in Nodes : Occupies(g, n)' <=> Occupies(g, n)
  /\ UNCHANGED running

(* A step that moves neither holders nor the flag keeps the exclusion.      *)
LEMMA OneGuestFrame == OneGuest /\ SameHolders => OneGuest'
BY DEF OneGuest, SameHolders

(* The running flag is handed from starter to guest and back, to one at a   *)
(* time.                                                                    *)
LEMMA OneGuestStep == TypeOK /\ Positions /\ OneGuest /\ [Next]_vars => OneGuest'
<1> SUFFICES ASSUME TypeOK, Positions, OneGuest, [Next]_vars PROVE OneGuest'
  OBVIOUS
<1> USE DEF TypeOK, Positions, Starting, Occupies
<1>1. ASSUME NEW n \in Nodes, CompileLoad(n) \/ CompilePublish(n) \/ CompileAbort(n)
      PROVE SameHolders
  BY <1>1 DEF SameHolders, CompileLoad, CompilePublish, CompileAbort
<1>2. ASSUME NEW n \in Nodes, CompileCheck(n) PROVE SameHolders
  BY <1>2 DEF SameHolders, CompileCheck
<1>3. ASSUME NEW n \in Nodes, Spawn(n) \/ StopCommand(n) PROVE SameHolders
  BY <1>3 DEF SameHolders, Spawn, StopCommand, HaltGuest
<1>4. ASSUME NEW n \in Nodes, RunCommand(n) PROVE SameHolders
  BY <1>4 DEF SameHolders, RunCommand, ServerRun, ServerFree
<1>5. ASSUME NEW n \in Nodes, CloseCommand(n) PROVE SameHolders
  BY <1>5 DEF SameHolders, CloseCommand, HaltGuest, ServerFree
<1>6. ASSUME NEW n \in Nodes, DrainPendingRun(n) PROVE SameHolders
  BY <1>6 DEF SameHolders, DrainPendingRun, ServerRun
<1>7. ASSUME NEW t \in Threads, RunReset(t) \/ RunReopen(t) PROVE SameHolders
  BY <1>7 DEF SameHolders, RunReset, RunReopen
<1>8. ASSUME NEW g \in Guests, GuestPark(g) \/ GuestInput(g) PROVE SameHolders
  BY <1>8 DEF SameHolders, GuestPark, GuestInput
<1>9. ASSUME NEW g \in Guests, GuestWoken(g) PROVE SameHolders
  BY <1>9 DEF SameHolders, GuestWoken
<1>10. ASSUME NEW g \in Guests, GuestExit(g) \/ GuestEndServing(g) PROVE SameHolders
  BY <1>10 DEF SameHolders, GuestExit, GuestEndServing
<1>11. CASE CloseTeardown \/ Tick
  <2>1. SameHolders
    BY <1>11 DEF SameHolders, CloseTeardown, Tick
  <2>2. QED
    BY <2>1, OneGuestFrame
<1>12. CASE UNCHANGED vars
  <2>1. SameHolders
    BY <1>12 DEF SameHolders, vars
  <2>2. QED
    BY <2>1, OneGuestFrame
<1>13. ASSUME NEW t \in Threads, RunSwap(t) PROVE OneGuest'
  <2> DEFINE n == Target(t)
  <2>1. n \in Nodes
    BY <1>13 DEF RunSwap
  <2>2. CASE ~(Runnable(n) /\ ~running[n])
    <3>1. SameHolders
      BY <1>13, <2>1, <2>2 DEF SameHolders, RunSwap
    <3>2. QED
      BY <3>1, OneGuestFrame
  <2>3. CASE Runnable(n) /\ ~running[n]
    <3>1. /\ \A u \in Threads, m \in Nodes :
               Starting(u, m)' <=> Starting(u, m) \/ (u = t /\ m = n)
          /\ \A g \in Guests, m \in Nodes : Occupies(g, m)' <=> Occupies(g, m)
          /\ \A m \in Nodes : running'[m] <=> running[m] \/ m = n
      BY <1>13, <2>1, <2>3 DEF RunSwap
    <3>2. /\ \A u \in Threads : ~Starting(u, n)
          /\ \A g \in Guests : ~Occupies(g, n)
      BY <2>1, <2>3 DEF OneGuest
    <3> HIDE DEF n
    <3>3. QED
      BY <2>1, <3>1, <3>2 DEF OneGuest
  <2>4. QED
    BY <2>2, <2>3
<1>14. ASSUME NEW t \in Threads, RunStart(t) PROVE OneGuest'
  <2> DEFINE n == Target(t)
  <2>1. n \in Nodes /\ Starting(t, n)
    BY <1>14 DEF RunStart
  <2>2. PICK g \in Guests : /\ gpc[g] = "idle"
                            /\ gpc' = [gpc EXCEPT ![g] = "run"]
                            /\ gnode' = [gnode EXCEPT ![g] = n]
    BY <1>14 DEF RunStart
  <2>3. /\ \A u \in Threads, m \in Nodes :
             Starting(u, m)' <=> Starting(u, m) /\ u # t
        /\ UNCHANGED running
    BY <1>14, <2>1 DEF RunStart
  <2>4. \A h \in Guests, m \in Nodes :
          Occupies(h, m)' <=> Occupies(h, m) \/ (h = g /\ m = n)
    BY <2>1, <2>2
  <2>5. /\ \A u \in Threads : Starting(u, n) => u = t
        /\ \A h \in Guests : ~Occupies(h, n)
        /\ running[n]
        /\ \A m \in Nodes : Starting(t, m) => m = n
    BY <2>1 DEF OneGuest
  <2> HIDE DEF n
  <2>6. ASSUME NEW m \in Nodes
        PROVE  /\ \A f, h \in Guests : Occupies(f, m)' /\ Occupies(h, m)' => f = h
               /\ \A u, v \in Threads : Starting(u, m)' /\ Starting(v, m)' => u = v
               /\ \A u \in Threads, h \in Guests : ~(Starting(u, m)' /\ Occupies(h, m)')
               /\ running[m]' <=> \/ \E h \in Guests : Occupies(h, m)'
                                 \/ \E u \in Threads : Starting(u, m)'
    <3>1. CASE m = n
      <4>1. \A u \in Threads : ~Starting(u, m)'
        BY <2>3, <2>5, <3>1
      <4>2. \A h \in Guests : Occupies(h, m)' <=> h = g
        BY <2>1, <2>4, <2>5, <3>1
      <4>3. running[m]'
        BY <2>3, <2>5, <3>1
      <4> QED
        BY <4>1, <4>2, <4>3
    <3>2. CASE m # n
      <4>1. \A u \in Threads : Starting(u, m)' <=> Starting(u, m)
        BY <2>3, <2>5, <3>2
      <4>2. \A h \in Guests : Occupies(h, m)' <=> Occupies(h, m)
        BY <2>4, <3>2
      <4> QED
        BY <2>3, <4>1, <4>2 DEF OneGuest
    <3> QED
      BY <3>1, <3>2
  <2> QED
    BY <2>6 DEF OneGuest
<1>15. ASSUME NEW g \in Guests, GuestClear(g) PROVE OneGuest'
  <2> DEFINE n == gnode[g]
  <2>1. n \in Nodes /\ Occupies(g, n)
    BY <1>15 DEF GuestClear
  <2>2. /\ \A u \in Threads, m \in Nodes : Starting(u, m)' <=> Starting(u, m)
        /\ \A h \in Guests, m \in Nodes : Occupies(h, m)' <=> Occupies(h, m) /\ h # g
        /\ \A m \in Nodes : running'[m] <=> running[m] /\ m # n
    BY <1>15, <2>1 DEF GuestClear
  <2>3. /\ \A u \in Threads : ~Starting(u, n)
        /\ \A h \in Guests : Occupies(h, n) => h = g
        /\ \A m \in Nodes : Occupies(g, m) => m = n
    BY <2>1 DEF OneGuest
  <2> HIDE DEF n, Starting, Occupies
  <2>4. ASSUME NEW m \in Nodes
        PROVE /\ \A h, k \in Guests : Occupies(h, m)' /\ Occupies(k, m)' => h = k
              /\ \A t, u \in Threads : Starting(t, m)' /\ Starting(u, m)' => t = u
              /\ \A t \in Threads, h \in Guests : ~(Starting(t, m)' /\ Occupies(h, m)')
    BY <2>2 DEF OneGuest
  <2>5. ASSUME NEW m \in Nodes
        PROVE running'[m] <=> \/ \E h \in Guests : Occupies(h, m)'
                              \/ \E t \in Threads : Starting(t, m)'
    <3>1. CASE m = n
      BY <2>1, <2>2, <2>3, <3>1
    <3>2. CASE m # n
      <4>1. running'[m] <=> running[m]
        BY <2>2, <3>2
      <4>2. \A h \in Guests : Occupies(h, m)' <=> Occupies(h, m)
        BY <2>2, <2>3, <3>2
      <4>3. QED
        BY <2>2, <4>1, <4>2 DEF OneGuest
    <3>3. QED
      BY <3>1, <3>2
  <2>6. QED
    BY <2>4, <2>5 DEF OneGuest
<1>16. QED
  BY <1>1, <1>2, <1>3, <1>4, <1>5, <1>6, <1>7, <1>8, <1>9, <1>10, <1>11, <1>12,
     <1>13, <1>14, <1>15, OneGuestFrame
     DEF Next, CompileStep, RunStep, GuestStep, GuestEnd

(* The conduit opens with its guest and closes before the node is handed on. *)
SameServing ==
  /\ \A g \in Guests, n \in Nodes : Serves(g, n)' <=> Serves(g, n)
  /\ UNCHANGED serving

(* A step that moves neither serving guests nor conduits keeps the match.   *)
LEMMA ServesFrame == ServesWhileGuestRuns /\ SameServing => ServesWhileGuestRuns'
BY DEF ServesWhileGuestRuns, SameServing

(* The conduit is opened and closed together with the guest that serves it. *)
LEMMA ServesStep ==
  TypeOK /\ Positions /\ OneGuest /\ ServesWhileGuestRuns /\ [Next]_vars
    => ServesWhileGuestRuns'
<1> SUFFICES ASSUME TypeOK, Positions, OneGuest, ServesWhileGuestRuns, [Next]_vars
             PROVE ServesWhileGuestRuns'
  OBVIOUS
<1> USE DEF TypeOK, Positions, Serves
<1>1. ASSUME NEW n \in Nodes, CompileStep(n) PROVE SameServing
  BY <1>1 DEF SameServing, CompileStep, CompileLoad, CompilePublish, CompileCheck,
              CompileAbort
<1>2. ASSUME NEW n \in Nodes,
             \/ Spawn(n) \/ RunCommand(n) \/ StopCommand(n)
             \/ CloseCommand(n) \/ DrainPendingRun(n)
      PROVE SameServing
  BY <1>2 DEF SameServing, Spawn, RunCommand, StopCommand, CloseCommand,
              HaltGuest, DrainPendingRun
<1>3. ASSUME NEW t \in Threads, RunSwap(t) \/ RunReset(t) \/ RunReopen(t)
      PROVE SameServing
  BY <1>3 DEF SameServing, RunSwap, RunReset, RunReopen
<1>4. ASSUME NEW g \in Guests, GuestPark(g) \/ GuestInput(g) PROVE SameServing
  BY <1>4 DEF SameServing, GuestPark, GuestInput
<1>5. ASSUME NEW g \in Guests, GuestWoken(g) PROVE SameServing
  BY <1>5 DEF SameServing, GuestWoken
<1>6. ASSUME NEW g \in Guests, GuestExit(g) \/ GuestClear(g) PROVE SameServing
  BY <1>6 DEF SameServing, GuestExit, GuestClear
<1>7. CASE CloseTeardown \/ Tick \/ UNCHANGED vars
  <2>1. SameServing
    BY <1>7 DEF SameServing, CloseTeardown, Tick, vars
  <2>2. QED
    BY <2>1, ServesFrame
<1>8. ASSUME NEW t \in Threads, RunStart(t) PROVE ServesWhileGuestRuns'
  <2> DEFINE n == Target(t)
  <2>1. n \in Nodes
    BY <1>8 DEF RunStart
  <2>2. PICK g \in Guests : /\ gpc[g] = "idle"
                            /\ gpc' = [gpc EXCEPT ![g] = "run"]
                            /\ gnode' = [gnode EXCEPT ![g] = n]
    BY <1>8 DEF RunStart
  <2>3. \A h \in Guests, m \in Nodes : Serves(h, m)' <=> Serves(h, m) \/ (h = g /\ m = n)
    BY <2>1, <2>2
  <2>4. /\ \A m \in Nodes : m # n => serving'[m] = serving[m]
        /\ n \in Providers => serving'[n]
    BY <1>8, <2>1 DEF RunStart
  <2> HIDE DEF n, Serves
  <2>5. ASSUME NEW m \in Providers
        PROVE serving'[m] <=> \E h \in Guests : Serves(h, m)'
    <3>1. CASE m = n
      BY <2>1, <2>3, <2>4, <3>1
    <3>2. CASE m # n
      BY <2>3, <2>4, <3>2 DEF ServesWhileGuestRuns
    <3>3. QED
      BY <3>1, <3>2
  <2>6. QED
    BY <2>5 DEF ServesWhileGuestRuns
<1>9. ASSUME NEW g \in Guests, GuestEndServing(g) PROVE ServesWhileGuestRuns'
  <2> DEFINE n == gnode[g]
  <2>1. n \in Nodes
    BY <1>9 DEF GuestEndServing
  <2>2. \A h \in Guests, m \in Nodes : Serves(h, m)' <=> Serves(h, m) /\ h # g
    BY <1>9 DEF GuestEndServing
  <2>3. \A h \in Guests : Serves(h, n) => h = g
    BY <1>9, <2>1 DEF OneGuest, Occupies, GuestEndServing
  <2>4. serving' = [serving EXCEPT ![n] = FALSE]
    BY <1>9 DEF GuestEndServing
  <2>5. \A m \in Nodes : Serves(g, m) => m = n
    OBVIOUS
  <2> HIDE DEF n, Serves
  <2>6. ASSUME NEW m \in Providers
        PROVE serving'[m] <=> \E h \in Guests : Serves(h, m)'
    BY <2>1, <2>2, <2>3, <2>4, <2>5 DEF ServesWhileGuestRuns
  <2>7. QED
    BY <2>6 DEF ServesWhileGuestRuns
<1>10. QED
  BY <1>1, <1>2, <1>3, <1>4, <1>5, <1>6, <1>7, <1>8, <1>9, ServesFrame
     DEF Next, RunStep, GuestStep, GuestEnd

(* A closed node's stack is always somebody's to detach.                    *)
LEMMA StackStep == TypeOK /\ Positions /\ StackInv /\ [Next]_vars => StackInv'
<1> SUFFICES ASSUME TypeOK, Positions, StackInv, [Next]_vars PROVE StackInv'
  OBVIOUS
<1> USE DEF TypeOK, Positions, StackInv, NoLeakedStack, ServerFree
<1>1. ASSUME NEW n \in Nodes, CompileLoad(n) PROVE StackInv'
  BY <1>1 DEF CompileLoad
<1>2. ASSUME NEW n \in Nodes, CompilePublish(n) PROVE StackInv'
  BY <1>2 DEF CompilePublish
<1>3. ASSUME NEW n \in Nodes, CompileCheck(n) PROVE StackInv'
  BY <1>3 DEF CompileCheck
<1>4. ASSUME NEW n \in Nodes, CompileAbort(n) PROVE StackInv'
  BY <1>4 DEF CompileAbort
<1>5. ASSUME NEW n \in Nodes, Spawn(n) PROVE StackInv'
  BY <1>5 DEF Spawn
<1>6. ASSUME NEW n \in Nodes, RunCommand(n) PROVE StackInv'
  BY <1>6 DEF RunCommand, ServerRun
<1>7. ASSUME NEW n \in Nodes, StopCommand(n) PROVE StackInv'
  BY <1>7 DEF StopCommand, HaltGuest
<1>8. ASSUME NEW n \in Nodes, CloseCommand(n) PROVE StackInv'
  BY <1>8 DEF CloseCommand, HaltGuest
<1>9. ASSUME NEW n \in Nodes, DrainPendingRun(n) PROVE StackInv'
  BY <1>9 DEF DrainPendingRun, ServerRun
<1>10. ASSUME NEW t \in Threads, RunSwap(t) PROVE StackInv'
  BY <1>10 DEF RunSwap
<1>11. ASSUME NEW t \in Threads, RunReset(t) PROVE StackInv'
  BY <1>11 DEF RunReset
<1>12. ASSUME NEW t \in Threads, RunReopen(t) PROVE StackInv'
  BY <1>12 DEF RunReopen
<1>13. ASSUME NEW t \in Threads, RunStart(t) PROVE StackInv'
  BY <1>13 DEF RunStart
<1>14. ASSUME NEW g \in Guests, GuestPark(g) PROVE StackInv'
  BY <1>14 DEF GuestPark
<1>15. ASSUME NEW g \in Guests, GuestInput(g) PROVE StackInv'
  BY <1>15 DEF GuestInput
<1>16. ASSUME NEW g \in Guests, GuestWoken(g) PROVE StackInv'
  BY <1>16 DEF GuestWoken
<1>17. ASSUME NEW g \in Guests, GuestExit(g) PROVE StackInv'
  BY <1>17 DEF GuestExit
<1>18. ASSUME NEW g \in Guests, GuestEndServing(g) PROVE StackInv'
  BY <1>18 DEF GuestEndServing
<1>19. ASSUME NEW g \in Guests, GuestClear(g) PROVE StackInv'
  BY <1>19 DEF GuestClear
<1>20. CASE CloseTeardown
  BY <1>20 DEF CloseTeardown
<1>21. CASE Tick
  BY <1>21 DEF Tick
<1>22. CASE UNCHANGED vars
  BY <1>22 DEF vars
<1>23. QED
  BY <1>1, <1>2, <1>3, <1>4, <1>5, <1>6, <1>7, <1>8, <1>9, <1>10, <1>11, <1>12,
     <1>13, <1>14, <1>15, <1>16, <1>17, <1>18, <1>19, <1>20, <1>21, <1>22
     DEF Next, CompileStep, RunStep, GuestStep, GuestEnd

(* The inductive invariant holds in every reachable state.                  *)
LEMMA Invariance == Spec => []Inv
<1>1. Inv /\ [Next]_vars => Inv'
  BY TypeStep, PositionsStep, OneGuestStep, ServesStep, StackStep DEF Inv
<1>2. QED
  BY InitInv, <1>1, PTL DEF Spec

(* The node's atomics, threads and tables keep their types.                 *)
THEOREM TypeCorrect == Spec => []TypeOK
<1>1. Inv => TypeOK
  BY DEF Inv
<1>2. QED
  BY Invariance, <1>1, PTL

(* However the compile thread, the server and the guests interleave, no     *)
(* node has two guests, and running is up exactly while somebody owns it.   *)
THEOREM AtMostOneGuest == Spec => []OneGuest
<1>1. Inv => OneGuest
  BY DEF Inv
<1>2. QED
  BY Invariance, <1>1, PTL

(* A provider's conduit is open exactly while its guest is there to serve.  *)
THEOREM ServesExactly == Spec => []ServesWhileGuestRuns
<1>1. Inv => ServesWhileGuestRuns
  BY DEF Inv
<1>2. QED
  BY Invariance, <1>1, PTL

(* A node closed during or after its compilation leaves no stack behind.    *)
THEOREM StacksAreDetached == Spec => []NoLeakedStack
<1>1. Inv => NoLeakedStack
  BY DEF Inv, StackInv
<1>2. QED
  BY Invariance, <1>1, PTL

-----------------------------------------------------------------------------
(***************************************************************************)
(* That the window client never types into something the last frame did    *)
(* not show, for any tabs, nodes, wires and clients.                       *)
(*                                                                         *)
(* A frame first takes the new view and then drops what pointed outside    *)
(* it; a click only ever points at what that view shows, and keys only let *)
(* go.  What has to be known besides is that both ends of a wire of the    *)
(* document are nodes of it, so that a wire the view shows is drawn, and   *)
(* that every command on its way is one the server knows.                  *)
(***************************************************************************)

Ops == {"new_ws", "del_ws", "del_node", "new_wire", "del_wire"}
Commands(q) == \E S : q \in Seq(S) /\ \A c \in S : c.op \in Ops

DocOk(d) ==
  /\ {"ws", "live", "wires", "attached", "view_mode"} \subseteq DOMAIN d
  /\ d.live \subseteq Node
  /\ \A w \in d.wires : {w[1], w[2]} \subseteq d.live

\* The fields of the client the argument is about.
UiFields == {"view", "kbd_focus", "editing_args", "editing_note", "editing_wire",
             "wire_sel", "late", "palette_run", "out"}

UiOk(u) ==
  /\ UiFields \subseteq DOMAIN u
  /\ u.view.nodes \subseteq Node
  /\ \A w \in u.view.wires : {w[1], w[2]} \subseteq u.view.nodes
  /\ u.palette_run \in PaletteCmds \union {None}
  /\ Commands(u.out)

\* NoDeadEditor of one client.
Shows(u) ==
  /\ {u.kbd_focus, u.editing_args, u.editing_note} \subseteq u.view.nodes \union {None}
  /\ u.editing_wire \notin u.view.wires \union {None} =>
       u.editing_wire = u.late /\ Drawn(u, u.editing_wire)

Fine(u) == UiOk(u) /\ Shows(u)

ClientInv == DocOk(doc) /\ Commands(inbox) /\ Fine(ui)

LEMMA NoCommands == Commands(<<>>)
<1> DEFINE S == {}
<1>1. <<>> \in Seq(S) /\ \A c \in S : c.op \in Ops
  OBVIOUS
<1> HIDE DEF S
<1> QED
  BY <1>1 DEF Commands

LEMMA MoreCommands ==
  ASSUME NEW p, NEW q, Commands(p), Commands(q)
  PROVE  Commands(p \o q)
<1>1. PICK S : p \in Seq(S) /\ \A c \in S : c.op \in Ops
  BY DEF Commands
<1>2. PICK T : q \in Seq(T) /\ \A c \in T : c.op \in Ops
  BY DEF Commands
<1> DEFINE R == S \union T
<1>3. p \in Seq(R) /\ q \in Seq(R) /\ \A c \in R : c.op \in Ops
  BY <1>1, <1>2
<1> HIDE DEF R
<1>4. p \o q \in Seq(R)
  BY <1>3
<1> QED
  BY <1>3, <1>4 DEF Commands

LEMMA OneMore ==
  ASSUME NEW q, Commands(q), NEW c, c.op \in Ops
  PROVE  Commands(Append(q, c))
<1>1. PICK S : q \in Seq(S) /\ \A d \in S : d.op \in Ops
  BY DEF Commands
<1> DEFINE R == S \union {c}
<1>2. q \in Seq(R) /\ c \in R /\ \A d \in R : d.op \in Ops
  BY <1>1
<1> HIDE DEF R
<1>3. Append(q, c) \in Seq(R)
  BY <1>2
<1> QED
  BY <1>2, <1>3 DEF Commands

\* What a step leaves alone: the view and the editors; it may let go of some.
LetsGo(u, t) ==
  /\ UiFields \subseteq DOMAIN t
  /\ t.view = u.view /\ t.late = u.late
  /\ t.kbd_focus \in {u.kbd_focus, None} /\ t.editing_args \in {u.editing_args, None}
  /\ t.editing_note \in {u.editing_note, None} /\ t.editing_wire \in {u.editing_wire, None}
  /\ t.palette_run \in PaletteCmds \union {None, u.palette_run}
  /\ Commands(u.out) => Commands(t.out)

LEMMA LetsGoFine == ASSUME NEW u, NEW t, Fine(u), LetsGo(u, t) PROVE Fine(t)
BY DEF Fine, UiOk, Shows, LetsGo, Drawn

LEMMA LetsGoTrans == ASSUME NEW u, NEW v, NEW t, LetsGo(u, v), LetsGo(v, t) PROVE LetsGo(u, t)
BY DEF LetsGo

LEMMA LetsGoSelf == ASSUME NEW u, Fine(u) PROVE LetsGo(u, u)
BY DEF LetsGo, Fine, UiOk

LEMMA SendLetsGo == ASSUME NEW u, Fine(u), NEW op \in Ops, NEW x PROVE LetsGo(u, send(u, Op(op, x)))
<1> DEFINE q == Append(u.out, Op(op, x))
           t == [u EXCEPT !.out = q]
<1>1. Commands(q)
  BY OneMore DEF Fine, UiOk, Op
<1> HIDE DEF q
<1>2. LetsGo(u, t)
  BY <1>1 DEF LetsGo, Fine, UiOk, UiFields
<1> QED
  BY <1>2 DEF send, q

LEMMA NewWorkspaceLetsGo == ASSUME NEW u, Fine(u), NEW id PROVE LetsGo(u, new_workspace(u, id))
<1> DEFINE v == send(u, Op("new_ws", id))
           pend == [id |-> id, left |-> PENDING_WS_FRAMES]
           mint == v.minted \union {id}
           t == [v EXCEPT !.active = id, !.pending = pend, !.minted = mint, !.waited = 0]
<1>1. LetsGo(u, v)
  BY SendLetsGo DEF Ops
<1> HIDE DEF v, pend, mint
<1>2. LetsGo(v, t)
  BY <1>1 DEF LetsGo, UiFields
<1>3. new_workspace(u, id) = t
  BY DEF new_workspace, v, pend, mint
<1> QED
  BY <1>1, <1>2, <1>3, LetsGoTrans

LEMMA CloseWorkspaceLetsGo == ASSUME NEW u, Fine(u), NEW id PROVE LetsGo(u, close_workspace(u, id))
<1> DEFINE v == send(u, Op("del_ws", id))
           i == Position(u.tabs, id)
           act == IF v.active # id THEN v.active ELSE IF i > 1 THEN u.tabs[i - 1] ELSE u.tabs[2]
           rest == SelectSeq(v.tabs, LAMBDA x : x # id)
           t == [v EXCEPT !.active = act, !.tabs = rest]
<1>1. LetsGo(u, v)
  BY SendLetsGo DEF Ops
<1>2. close_workspace(u, id) = IF Len(u.tabs) <= 1 THEN u ELSE t
  BY DEF close_workspace
<1> HIDE DEF v, act, rest
<1>3. LetsGo(v, t)
  BY <1>1 DEF LetsGo, UiFields
<1>4. LetsGo(u, t)
  BY <1>1, <1>3, LetsGoTrans
<1> HIDE DEF t
<1> QED
  BY <1>2, <1>4, LetsGoSelf

LEMMA FinishWireLetsGo ==
  ASSUME NEW u, Fine(u), NEW a, NEW b PROVE LetsGo(u, finish_wire_drag(u, a, b))
BY SendLetsGo DEF finish_wire_drag, Ops

LEMMA RunNodeLetsGo == ASSUME NEW u, Fine(u), NEW id PROVE LetsGo(u, run_node(u, id))
BY DEF run_node, LetsGo, Fine, UiOk, UiFields

-----------------------------------------------------------------------------
(* The keyboard: keys move the client and let go of editors. *)

LEMMA PaletteKeyLetsGo ==
  ASSUME NEW u, Fine(u), NEW k, NEW c \in PaletteCmds \union {None}
  PROVE  LetsGo(u, palette_key(u, k, c))
<1>1. LetsGo(u, [u EXCEPT !.palette_open = FALSE])
  BY DEF LetsGo, Fine, UiOk, UiFields
<1>2. LetsGo(u, [u EXCEPT !.palette_open = FALSE, !.palette_run = c])
  BY DEF LetsGo, Fine, UiOk, UiFields
<1>3. palette_key(u, k, c) \in {[u EXCEPT !.palette_open = FALSE],
                                [u EXCEPT !.palette_open = FALSE, !.palette_run = c], u}
  BY DEF palette_key
<1> QED
  BY <1>1, <1>2, <1>3, LetsGoSelf

LEMMA TogglePaletteLetsGo == ASSUME NEW u, Fine(u) PROVE LetsGo(u, TogglePalette(u))
<1> DEFINE p == ~u.palette_open
           t == [u EXCEPT !.palette_open = p]
<1> HIDE DEF p
<1>1. LetsGo(u, t)
  BY DEF LetsGo, Fine, UiOk, UiFields
<1> QED
  BY <1>1 DEF TogglePalette, p

LEMMA Key3dLetsGo ==
  ASSUME NEW u, Fine(u), NEW k, NEW c \in PaletteCmds \union {None}, NEW look
  PROVE  LetsGo(u, Key3d(u, k, c, look))
<1>1. LetsGo(u, [u EXCEPT !.mode_3d = FALSE])
  BY DEF LetsGo, Fine, UiOk, UiFields
<1>2. Key3d(u, k, c, look) \in {TogglePalette(u), palette_key(u, k, c),
                                [u EXCEPT !.mode_3d = FALSE], u}
  BY DEF Key3d
<1> QED
  BY <1>1, <1>2, PaletteKeyLetsGo, TogglePaletteLetsGo, LetsGoSelf

LEMMA FieldKeyLetsGo ==
  ASSUME NEW u, Fine(u), NEW k, Typist(u) # None PROVE LetsGo(u, FieldKey(u, k))
<1>1. /\ LetsGo(u, [u EXCEPT !.editing_args = None])
      /\ LetsGo(u, [u EXCEPT !.editing_note = None])
      /\ LetsGo(u, [u EXCEPT !.editing_wire = None])
  BY DEF LetsGo, Fine, UiOk, UiFields
<1>2. Typist(u) \in {"args", "note", "wire"}
  BY DEF Typist
<1>3. FieldKey(u, k) \in {[u EXCEPT !.editing_args = None], [u EXCEPT !.editing_note = None],
                          [u EXCEPT !.editing_wire = None], run_node(u, u.editing_args), u}
  BY <1>2 DEF FieldKey, commit_note
<1> QED
  BY <1>1, <1>3, RunNodeLetsGo, LetsGoSelf

LEMMA CycleLetsGo == ASSUME NEW u, Fine(u), NEW forward PROVE LetsGo(u, cycle_tab(u, forward))
<1>1. \A x : LetsGo(u, [u EXCEPT !.active = x])
  BY DEF LetsGo, Fine, UiOk, UiFields
<1> QED
  BY <1>1, LetsGoSelf DEF cycle_tab

LEMMA Key2dLetsGo ==
  ASSUME NEW u, Fine(u), NEW k, NEW c \in PaletteCmds \union {None}, NEW fresh
  PROVE  LetsGo(u, Key2d(u, k, c, fresh))
<1>1. \A x : LetsGo(u, [u EXCEPT !.panel = x])
  BY DEF LetsGo, Fine, UiOk, UiFields
<1> DEFINE r == IF k = "Escape" /\ u.kbd_focus = None THEN FALSE ELSE u.run
           d == u.del_wire \/ (k = "Delete" /\ u.wire_sel # None /\ u.kbd_focus = None)
           open == k # "Escape"
<1>3. CASE k = "Cmd+K"
  BY <1>3, TogglePaletteLetsGo DEF Key2d
<1>4. CASE k = "Cmd+T"
  BY <1>4, NewWorkspaceLetsGo, LetsGoSelf DEF Key2d
<1>5. CASE k = "Ctrl+Tab"
  BY <1>5, CycleLetsGo DEF Key2d
<1>6. CASE k = "Cmd+W"
  BY <1>6, CloseWorkspaceLetsGo DEF Key2d
<1>7. CASE k \notin {"Cmd+K", "Cmd+T", "Ctrl+Tab", "Cmd+W"}
  <2>1. Key2d(u, k, c, fresh) =
          IF u.panel THEN [u EXCEPT !.panel = open]
          ELSE IF u.palette_open THEN palette_key(u, k, c)
          ELSE IF Typist(u) # None THEN FieldKey(u, k)
          ELSE [u EXCEPT !.run = r, !.del_wire = d]
    BY <1>7 DEF Key2d
  <2> HIDE DEF r, d, open
  <2>2. CASE u.panel
    BY <1>1, <2>1, <2>2
  <2>3. CASE ~u.panel /\ u.palette_open
    BY <2>1, <2>3, PaletteKeyLetsGo
  <2>4. CASE ~u.panel /\ ~u.palette_open /\ Typist(u) # None
    BY <2>1, <2>4, FieldKeyLetsGo
  <2> DEFINE t == [u EXCEPT !.run = r, !.del_wire = d]
  <2>6. LetsGo(u, t)
    BY DEF LetsGo, Fine, UiOk, UiFields
  <2>5. CASE ~u.panel /\ ~u.palette_open /\ Typist(u) = None
    <3>1. Key2d(u, k, c, fresh) = t
      BY <2>1, <2>5
    <3> HIDE DEF t
    <3> QED
      BY <3>1, <2>6
  <2> QED
    BY <2>2, <2>3, <2>4, <2>5
<1> QED
  BY <1>3, <1>4, <1>5, <1>6, <1>7

-----------------------------------------------------------------------------
(* The frame: a new view, and editors that point into it. *)

LEMMA RefreshOk ==
  ASSUME NEW u, NEW d, UiOk(u), DocOk(d)
  PROVE  UiOk(Refresh(u, d))
<1> DEFINE tabbed == [u EXCEPT !.tabs = d.ws]
           rec == reconcile_active_ws(tabbed, d.ws)
           v == apply_view_request(rec, d.view_mode)
           view == IF v.mode_3d THEN View(d) ELSE for_workspace(View(d), v.active)
<1> DEFINE Kept(t) == /\ UiFields \subseteq DOMAIN t /\ t.palette_run = u.palette_run
                      /\ t.out = u.out
<1>1. Kept(tabbed)
  BY DEF UiOk, UiFields
<1>2. Kept(rec)
  <2> HIDE DEF tabbed
  <2>1. \A x, y : Kept([tabbed EXCEPT !.active = x, !.pending = y]) /\ Kept([tabbed EXCEPT !.pending = y])
    BY <1>1 DEF UiFields
  <2> HIDE DEF Kept
  <2> QED
    BY <2>1 DEF reconcile_active_ws
<1>3. Kept(v)
  <2> HIDE DEF rec
  <2>1. \A x, y : Kept([rec EXCEPT !.view_mode_seq = x, !.mode_3d = y])
    BY <1>2 DEF UiFields
  <2> HIDE DEF Kept
  <2> QED
    BY <1>2, <2>1 DEF apply_view_request
<1>4. Refresh(u, d) = [v EXCEPT !.view = view]
  BY DEF Refresh
<1>5. view.nodes \subseteq Node /\ \A w \in view.wires : {w[1], w[2]} \subseteq view.nodes
  <2> HIDE DEF v
  <2>1. View(d).nodes = d.live /\ View(d).wires = d.wires
    BY DEF View
  <2>2. CASE v.mode_3d
    BY <2>1, <2>2 DEF DocOk
  <2>3. CASE ~v.mode_3d
    <3>1. /\ view.nodes = {n \in d.live : HomeTab[n] = v.active}
          /\ view.wires = {w \in d.wires : HomeTab[w[1]] = v.active /\ HomeTab[w[2]] = v.active}
      BY <2>1, <2>3 DEF for_workspace
    <3> HIDE DEF view
    <3> QED
      BY <3>1 DEF DocOk
  <2> QED
    BY <2>2, <2>3
<1> HIDE DEF v, view
<1>6. LET t == [v EXCEPT !.view = view]
      IN  UiFields \subseteq DOMAIN t /\ t.view = view /\ t.palette_run = u.palette_run /\ t.out = u.out
  BY <1>3 DEF UiFields
<1> QED
  BY <1>4, <1>5, <1>6 DEF UiOk

LEMMA DropUnseenFine == ASSUME NEW u, UiOk(u) PROVE Fine(DropUnseen(u))
<1> DEFINE keep(x) == IF x \in u.view.nodes THEN x ELSE None
           ea == keep(u.editing_args)
           en == keep(u.editing_note)
           ew == IF u.editing_wire \in u.view.wires THEN u.editing_wire ELSE None
           kf == keep(u.kbd_focus)
           t == [u EXCEPT !.editing_args = ea, !.editing_note = en, !.editing_wire = ew, !.kbd_focus = kf]
<1>1. DropUnseen(u) = t
  BY DEF DropUnseen
<1>2. {kf, ea, en} \subseteq u.view.nodes \union {None}
      /\ ew \in u.view.wires \union {None}
  OBVIOUS
<1> HIDE DEF ea, en, ew, kf
<1>3. /\ UiFields \subseteq DOMAIN t /\ t.view = u.view /\ t.palette_run = u.palette_run /\ t.out = u.out
      /\ t.editing_args = ea /\ t.editing_note = en /\ t.editing_wire = ew /\ t.kbd_focus = kf
  BY DEF UiOk, UiFields
<1> HIDE DEF t
<1> QED
  BY <1>1, <1>2, <1>3 DEF Fine, UiOk, Shows

LEMMA ContinueDragLetsGo ==
  ASSUME NEW u, Fine(u), NEW lmb, NEW over
  PROVE  LetsGo(u, ContinueDrag(u, lmb, over)) /\ ContinueDrag(u, lmb, over).wire_sel = u.wire_sel
<1> DEFINE v == [u EXCEPT !.drag = None]
<1>1. LetsGo(u, v) /\ v.wire_sel = u.wire_sel
  BY DEF LetsGo, Fine, UiOk, UiFields
<1> HIDE DEF v
<1>2. Fine(v)
  BY <1>1, LetsGoFine
<1>3. \A a, b : LetsGo(v, finish_wire_drag(v, a, b))
  BY <1>2, FinishWireLetsGo
<1>4. \A a, b : finish_wire_drag(v, a, b).wire_sel = v.wire_sel
  <2>1. \A c : send(v, c).wire_sel = v.wire_sel
    BY <1>2 DEF send, Fine, UiOk, UiFields
  <2> QED
    BY <2>1 DEF finish_wire_drag
<1>5. ContinueDrag(u, lmb, over) \in {u, v, finish_wire_drag(v, u.drag.id, over)}
  BY DEF ContinueDrag, v
<1> QED
  BY <1>1, <1>3, <1>4, <1>5, LetsGoSelf, LetsGoTrans

LEMMA RunPaletteLetsGo == ASSUME NEW u, Fine(u), NEW fresh PROVE LetsGo(u, run_palette(u, fresh))
<1> DEFINE v == [u EXCEPT !.palette_run = None]
<1>1. LetsGo(u, v)
  BY DEF LetsGo, Fine, UiOk, UiFields
<1> HIDE DEF v
<1>2. Fine(v)
  BY <1>1, LetsGoFine
<1> DEFINE m == ~v.mode_3d
           a == [v EXCEPT !.mode_3d = m]
           b == [v EXCEPT !.run = FALSE]
<1>3. u.palette_run \in PaletteCmds \union {None}
  BY DEF Fine, UiOk
<1>4. run_palette(u, fresh) \in {u, v, new_workspace(v, fresh), close_workspace(v, v.active), a, b}
  BY <1>3 DEF run_palette, PaletteCmds, v
<1> HIDE DEF m
<1>5. LetsGo(v, a) /\ LetsGo(v, b)
  BY <1>2 DEF LetsGo, Fine, UiOk, UiFields
<1> HIDE DEF a, b
<1>6. LetsGo(v, new_workspace(v, fresh)) /\ LetsGo(v, close_workspace(v, v.active))
  BY <1>2, NewWorkspaceLetsGo, CloseWorkspaceLetsGo
<1> QED
  BY <1>1, <1>4, <1>5, <1>6, LetsGoSelf, LetsGoTrans

LEMMA DeleteWireLetsGo == ASSUME NEW u, Fine(u) PROVE LetsGo(u, DeleteWire(u))
<1> DEFINE v == [u EXCEPT !.del_wire = FALSE]
           s == send(v, Op("del_wire", u.wire_sel))
           w == IF u.del_wire /\ u.wire_sel # None THEN [s EXCEPT !.wire_sel = None] ELSE v
           sel == IF w.wire_sel \in w.view.wires THEN w.wire_sel ELSE None
<1>1. LetsGo(u, v)
  BY DEF LetsGo, Fine, UiOk, UiFields
<1>2. DeleteWire(u) = [w EXCEPT !.wire_sel = sel]
  BY DEF DeleteWire
<1> HIDE DEF v, sel
<1>3. Fine(v)
  BY <1>1, LetsGoFine
<1>4. LetsGo(v, s)
  BY <1>3, SendLetsGo DEF Ops
<1> HIDE DEF s
<1>5. LetsGo(s, [s EXCEPT !.wire_sel = None])
  BY <1>4 DEF LetsGo, UiFields
<1>6. LetsGo(u, [s EXCEPT !.wire_sel = None])
  BY <1>1, <1>4, <1>5, LetsGoTrans
<1>7. LetsGo(u, w)
  BY <1>1, <1>6
<1> HIDE DEF w
<1>8. LetsGo(w, [w EXCEPT !.wire_sel = sel])
  BY <1>7 DEF LetsGo, UiFields
<1> QED
  BY <1>2, <1>7, <1>8, LetsGoTrans

\* What the cursor is on belongs to the view it was drawn from.
NodeParts == {"close", "grab", "body", "files", "run", "args"}
HitOk(u, h) ==
  /\ h.at = "label" => Drawn(u, u.wire_sel)
  /\ h.at \in NodeParts \union {"port"} => h.of \in u.view.nodes
  /\ h.at = "row" => h.of \in PaletteCmds

LEMMA HitsOk == ASSUME NEW u, UiOk(u), NEW h \in Hits(u) PROVE HitOk(u, h)
<1>1. CASE h \in {[at |-> "label", of |-> w] : w \in {x \in {u.wire_sel} : Drawn(u, x)}}
  BY <1>1 DEF HitOk, NodeParts
<1>2. CASE h \in {[at |-> x, of |-> None] : x \in {"inside", "empty", "menu", "plus"}}
  BY <1>2 DEF HitOk, NodeParts
<1>3. CASE h \in {[at |-> "row", of |-> c] : c \in PaletteCmds}
  BY <1>3 DEF HitOk, NodeParts
<1>4. CASE h \in {[at |-> x, of |-> t] : x \in {"tab", "tab_close"}, t \in Range(u.tabs)}
  BY <1>4 DEF HitOk, NodeParts
<1>5. CASE h \in {[at |-> "wire", of |-> w] : w \in u.view.wires}
  BY <1>5 DEF HitOk, NodeParts
<1>6. CASE h \in {[at |-> "port", of |-> n] : n \in {m \in u.view.nodes : \E w \in Wireable : w[1] = m}}
  BY <1>6 DEF HitOk, NodeParts
<1>7. CASE h \in UNION {{[at |-> x, of |-> n] : x \in Parts(n)} : n \in u.view.nodes}
  <2>1. PICK n \in u.view.nodes : h \in {[at |-> x, of |-> n] : x \in Parts(n)}
    BY <1>7
  <2>2. KindOf[n] \in {"app", "note", "file", "uplink"}
    BY ClientAssumption DEF UiOk
  <2>3. Parts(n) \subseteq NodeParts
    BY <2>2 DEF Parts, NodeParts
  <2> QED
    BY <2>1, <2>3 DEF HitOk, NodeParts
<1> QED
  BY <1>1, <1>2, <1>3, <1>4, <1>5, <1>6, <1>7 DEF Hits

LEMMA ClickFieldsFine ==
  ASSUME NEW u, Fine(u), NEW h, HitOk(u, h)
  PROVE  Fine(ClickFields(u, h)) /\ ClickFields(u, h).view = u.view
<1> DEFINE c == [u EXCEPT !.editing_note = None]
           v == IF h.at = "body" /\ h.of = u.editing_note THEN u ELSE c
           a == [v EXCEPT !.editing_wire = v.wire_sel, !.late = v.wire_sel]
           b == [v EXCEPT !.editing_wire = None, !.wire_sel = None]
<1>1. ClickFields(u, h) = IF h.at = "label" THEN a ELSE b
  BY DEF ClickFields, commit_note
<1>2. LetsGo(u, c) /\ c.wire_sel = u.wire_sel
  BY DEF LetsGo, Fine, UiOk, UiFields
<1> HIDE DEF c
<1>3. LetsGo(u, v) /\ v.wire_sel = u.wire_sel
  BY <1>2, LetsGoSelf
<1> HIDE DEF v
<1>4. Fine(v) /\ v.view = u.view
  BY <1>3, LetsGoFine DEF LetsGo
<1>5. LetsGo(v, b)
  BY <1>4 DEF LetsGo, Fine, UiOk, UiFields
<1>6. CASE h.at = "label"
  <2>1. /\ UiFields \subseteq DOMAIN a /\ a.view = v.view /\ a.palette_run = v.palette_run /\ a.out = v.out
        /\ a.editing_args = v.editing_args /\ a.editing_note = v.editing_note
        /\ a.kbd_focus = v.kbd_focus /\ a.editing_wire = u.wire_sel /\ a.late = u.wire_sel
    BY <1>3, <1>4 DEF Fine, UiOk, UiFields
  <2> HIDE DEF a
  <2> QED
    BY <1>1, <1>4, <1>6, <2>1 DEF Fine, UiOk, Shows, Drawn, HitOk
<1>7. CASE h.at # "label"
  <2>1. Fine(b) /\ b.view = v.view
    BY <1>4, <1>5, LetsGoFine DEF LetsGo
  <2> HIDE DEF b
  <2> QED
    BY <1>1, <1>4, <1>7, <2>1
<1> QED
  BY <1>6, <1>7

\* The editor a click opens is of a node the view shows.
LEMMA OpenFine ==
  ASSUME NEW u, Fine(u), NEW n \in u.view.nodes
  PROVE  /\ Fine([u EXCEPT !.kbd_focus = n])
         /\ Fine([u EXCEPT !.editing_note = n])
         /\ Fine([u EXCEPT !.editing_args = n])
<1>1. ASSUME NEW t, UiFields \subseteq DOMAIN t, t.view = u.view, t.palette_run = u.palette_run,
             t.out = u.out, t.editing_wire = u.editing_wire, t.late = u.late,
             t.kbd_focus \in {u.kbd_focus, n}, t.editing_note \in {u.editing_note, n},
             t.editing_args \in {u.editing_args, n}
      PROVE  Fine(t)
  BY <1>1 DEF Fine, UiOk, Shows, Drawn
<1> DEFINE a == [u EXCEPT !.kbd_focus = n]
           b == [u EXCEPT !.editing_note = n]
           c == [u EXCEPT !.editing_args = n]
           Same(t) == /\ UiFields \subseteq DOMAIN t /\ t.view = u.view /\ t.palette_run = u.palette_run
                      /\ t.out = u.out /\ t.editing_wire = u.editing_wire /\ t.late = u.late
<1>2. Same(a) /\ a.kbd_focus = n /\ a.editing_note = u.editing_note /\ a.editing_args = u.editing_args
  BY DEF Fine, UiOk, UiFields
<1>3. Same(b) /\ b.kbd_focus = u.kbd_focus /\ b.editing_note = n /\ b.editing_args = u.editing_args
  BY DEF Fine, UiOk, UiFields
<1>4. Same(c) /\ c.kbd_focus = u.kbd_focus /\ c.editing_note = u.editing_note /\ c.editing_args = n
  BY DEF Fine, UiOk, UiFields
<1> HIDE DEF a, b, c
<1>5. Fine(a) /\ Fine(b) /\ Fine(c)
  BY <1>1, <1>2, <1>3, <1>4
<1> QED
  BY <1>5 DEF a, b, c

LEMMA ClickNodeFine ==
  ASSUME NEW u, Fine(u), NEW n \in u.view.nodes, NEW p \in NodeParts
  PROVE  Fine(ClickNode(u, n, p))
<1> DEFINE f == IF KindOf[n] = "app" THEN [u EXCEPT !.kbd_focus = n] ELSE u
           s == send(f, Op("del_node", n))
           ea == IF s.editing_args = n THEN None ELSE s.editing_args
           shut == [s EXCEPT !.kbd_focus = None, !.editing_args = ea]
           move == [id |-> n, mode |-> "Move"]
           x == [f EXCEPT !.editing_args = None]
           g1 == [x EXCEPT !.drag = move]
           g2 == [f EXCEPT !.drag = move]
           pan == [f EXCEPT !.panel = TRUE]
<1>1. ClickNode(u, n, p) \in {shut, s, g1, g2, [f EXCEPT !.editing_note = n], pan,
                              run_node(f, n), [f EXCEPT !.editing_args = n], f}
  BY DEF ClickNode, NodeParts
<1>2. Fine(f) /\ n \in f.view.nodes
  <2>1. [u EXCEPT !.kbd_focus = n].view = u.view
    BY DEF Fine, UiOk, UiFields
  <2> QED
    BY <2>1, OpenFine
<1> HIDE DEF f, ea, move
<1>3. LetsGo(f, s)
  BY <1>2, SendLetsGo DEF Ops
<1> HIDE DEF s
<1>4. Fine(s)
  BY <1>2, <1>3, LetsGoFine
<1>5. LetsGo(s, shut)
  BY <1>4 DEF LetsGo, Fine, UiOk, UiFields, ea
<1>6. LetsGo(f, x) /\ LetsGo(f, g2) /\ LetsGo(f, pan)
  BY <1>2 DEF LetsGo, Fine, UiOk, UiFields
<1> HIDE DEF x, g2, pan, shut
<1>7. LetsGo(x, g1)
  BY <1>6 DEF LetsGo, UiFields
<1> HIDE DEF g1
<1>8. Fine(x)
  BY <1>2, <1>6, LetsGoFine
<1>9. Fine(shut) /\ Fine(g1) /\ Fine(g2) /\ Fine(pan)
  BY <1>2, <1>4, <1>5, <1>6, <1>7, <1>8, LetsGoFine
<1>10. Fine(run_node(f, n))
  BY <1>2, RunNodeLetsGo, LetsGoFine
<1> DEFINE note == [f EXCEPT !.editing_note = n]
           args == [f EXCEPT !.editing_args = n]
<1>11. Fine(note) /\ Fine(args)
  BY <1>2, OpenFine
<1> HIDE DEF note, args
<1>12. ClickNode(u, n, p) \in {shut, s, g1, g2, note, pan, run_node(f, n), args, f}
  BY <1>1 DEF note, args
<1> QED
  BY <1>12, <1>2, <1>4, <1>9, <1>10, <1>11

LEMMA ClickFine ==
  ASSUME NEW u, Fine(u), NEW h, HitOk(u, h), NEW fresh
  PROVE  Fine(Click(u, h, fresh))
<1> DEFINE v == ClickFields(u, h)
           inside == h.at = "inside"
           run == IF h.at = "row" THEN h.of ELSE v.palette_run
           conn == [id |-> h.of, mode |-> "Connect"]
           sel == IF h.at = "wire" THEN h.of ELSE None
           a == [v EXCEPT !.panel = inside]
           b == [v EXCEPT !.palette_run = run, !.palette_open = FALSE]
           c == [v EXCEPT !.palette_open = TRUE]
           d == [v EXCEPT !.active = h.of]
           e == [v EXCEPT !.drag = conn]
           f == [v EXCEPT !.kbd_focus = None, !.editing_args = None, !.wire_sel = sel]
<1>1. Fine(v) /\ v.view = u.view
  BY ClickFieldsFine
<1>2. \/ Click(u, h, fresh) \in {a, v, b, c, d, e, f, new_workspace(v, fresh), close_workspace(v, h.of)}
      \/ h.at \in NodeParts /\ Click(u, h, fresh) = ClickNode(v, h.of, h.at)
  <2> HIDE DEF v
  <2>1. CASE v.panel
    BY <2>1 DEF Click, v
  <2>2. CASE ~v.panel /\ h.at = "label"
    BY <2>2 DEF Click, v
  <2>3. CASE ~v.panel /\ h.at # "label" /\ v.palette_open
    BY <2>3 DEF Click, v
  <2>4. CASE ~v.panel /\ h.at # "label" /\ ~v.palette_open
    <3>1. Click(u, h, fresh) =
            CASE h.at = "menu" -> c
              [] h.at = "plus" /\ Len(v.tabs) > 1 /\ fresh # None -> new_workspace(v, fresh)
              [] h.at = "tab_close" /\ Len(v.tabs) > 1 -> close_workspace(v, h.of)
              [] h.at = "tab" /\ Len(v.tabs) > 1 -> d
              [] h.at = "port" -> e
              [] h.at \in {"close", "grab", "body", "files", "run", "args"} -> ClickNode(v, h.of, h.at)
              [] OTHER -> f
      BY <2>4 DEF Click, v
    <3> HIDE DEF c, d, e, f
    <3> QED
      BY <3>1 DEF NodeParts
  <2> QED
    BY <2>1, <2>2, <2>3, <2>4
<1> HIDE DEF v, inside, conn, sel
<1>3. LetsGo(v, a) /\ LetsGo(v, c) /\ LetsGo(v, d)
  BY <1>1 DEF LetsGo, Fine, UiOk, UiFields
<1>4. LetsGo(v, b)
  BY <1>1 DEF LetsGo, Fine, UiOk, UiFields, HitOk
<1>5. LetsGo(v, e) /\ LetsGo(v, f)
  BY <1>1 DEF LetsGo, Fine, UiOk, UiFields
<1> HIDE DEF a, b, c, d, e, f
<1>6. LetsGo(v, new_workspace(v, fresh)) /\ LetsGo(v, close_workspace(v, h.of))
  BY <1>1, NewWorkspaceLetsGo, CloseWorkspaceLetsGo
<1>7. h.at \in NodeParts => Fine(ClickNode(v, h.of, h.at))
  BY <1>1, ClickNodeFine DEF HitOk
<1> QED
  BY <1>1, <1>2, <1>3, <1>4, <1>5, <1>6, <1>7, LetsGoFine

LEMMA Mouse3dFine ==
  ASSUME NEW u, Fine(u), NEW h, HitOk(u, h), NEW lmb, NEW down, NEW over
  PROVE  Fine(Mouse3d(u, lmb, down, h, over))
<1> DEFINE run == IF h.at = "row" THEN h.of ELSE u.palette_run
           a == [u EXCEPT !.palette_open = FALSE, !.palette_run = run]
           v == [u EXCEPT !.wire3d = None]
           b == [u EXCEPT !.wire3d = h.of]
           c == [u EXCEPT !.kbd_focus = None]
           d == [u EXCEPT !.kbd_focus = h.of]
           fin == finish_wire_drag(v, u.wire3d, over)
<1>1. \/ Mouse3d(u, lmb, down, h, over) \in {a, v, u, fin, b, c}
      \/ h.at = "body" /\ Mouse3d(u, lmb, down, h, over) = d
  <2>1. CASE u.palette_open
    BY <2>1 DEF Mouse3d
  <2>2. CASE ~u.palette_open /\ u.wire3d # None
    BY <2>2 DEF Mouse3d
  <2>3. CASE ~u.palette_open /\ u.wire3d = None
    <3>1. Mouse3d(u, lmb, down, h, over) =
            IF ~down THEN u
            ELSE CASE h.at = "port" -> b [] h.at = "body" -> d [] OTHER -> c
      BY <2>3 DEF Mouse3d
    <3> HIDE DEF b, c, d
    <3> QED
      BY <3>1
  <2> QED
    BY <2>1, <2>2, <2>3
<1>2. LetsGo(u, a)
  BY DEF LetsGo, Fine, UiOk, UiFields, HitOk
<1>3. LetsGo(u, v) /\ LetsGo(u, b) /\ LetsGo(u, c)
  BY DEF LetsGo, Fine, UiOk, UiFields
<1> HIDE DEF v
<1>4. Fine(v)
  BY <1>3, LetsGoFine
<1>5. Fine(fin)
  BY <1>4, FinishWireLetsGo, LetsGoFine
<1>6. h.at = "body" => Fine(d)
  BY OpenFine DEF HitOk, NodeParts
<1> HIDE DEF a, b, c, d, fin
<1> QED
  BY <1>1, <1>2, <1>3, <1>4, <1>5, <1>6, LetsGoFine

LEMMA FrameFine ==
  ASSUME NEW u, UiOk(u), NEW d, DocOk(d), NEW lmb, NEW down, NEW over, NEW fresh, NEW h,
         HitOk(DropUnseen(Refresh(u, d)), h)
  PROVE  Fine(frame(u, d, lmb, down, h, over, fresh))
<1> DEFINE v == DropUnseen(Refresh(u, d))
           m == Mouse3d(v, lmb, down, h, over)
           w == ContinueDrag(v, lmb, over)
           c == IF down /\ w.drag = None THEN Click(w, h, fresh) ELSE w
<1>1. Fine(v)
  BY RefreshOk, DropUnseenFine
<1>2. frame(u, d, lmb, down, h, over, fresh) =
        IF v.mode_3d THEN run_palette(m, fresh) ELSE DeleteWire(run_palette(c, fresh))
  BY DEF frame
<1> HIDE DEF v
<1>3. HitOk(v, h)
  BY DEF v
<1>4. Fine(m)
  BY <1>1, <1>3, Mouse3dFine
<1>5. LetsGo(v, w) /\ w.wire_sel = v.wire_sel
  BY <1>1, ContinueDragLetsGo
<1> HIDE DEF m, w
<1>6. Fine(w) /\ HitOk(w, h)
  BY <1>1, <1>3, <1>5, LetsGoFine DEF LetsGo, HitOk, Drawn
<1>7. Fine(c)
  BY <1>6, ClickFine
<1> HIDE DEF c
<1>8. Fine(run_palette(m, fresh)) /\ Fine(run_palette(c, fresh))
  BY <1>4, <1>7, RunPaletteLetsGo, LetsGoFine
<1>9. Fine(DeleteWire(run_palette(c, fresh)))
  BY <1>8, DeleteWireLetsGo, LetsGoFine
<1> QED
  BY <1>2, <1>8, <1>9

-----------------------------------------------------------------------------
(* The document, under this client's commands and the others'. *)

LEMMA WithoutOk == ASSUME NEW d, DocOk(d), NEW gone PROVE DocOk(Without(d, gone))
<1> DEFINE live == d.live \ gone
           attached == d.attached \ gone
           wires == {w \in d.wires : w[1] \notin gone /\ w[2] \notin gone}
           e == [d EXCEPT !.live = live, !.attached = attached, !.wires = wires]
<1>1. live \subseteq Node /\ \A w \in wires : {w[1], w[2]} \subseteq live
  BY DEF DocOk
<1>2. Without(d, gone) = e
  BY DEF Without
<1> HIDE DEF live, attached, wires
<1>3. DocOk(e)
  BY <1>1 DEF DocOk
<1> QED
  BY <1>2, <1>3

LEMMA ApplyOk == ASSUME NEW d, DocOk(d), NEW c, c.op \in Ops PROVE DocOk(apply(d, c))
<1> DEFINE more == Append(d.ws, c.on)
           Left(s) == SelectSeq(s, LAMBDA t : t # c.on)
           fewer == Without(d, {n \in d.live : HomeTab[n] = c.on})
           wider == d.wires \union {c.on}
           cut == d.wires \ {c.on}
           opened == [d EXCEPT !.ws = more]
           shut == [fewer EXCEPT !.ws = Left(@)]
           wired == [d EXCEPT !.wires = wider]
           unwired == [d EXCEPT !.wires = cut]
<1>1. \/ apply(d, c) \in {d, opened, shut, Without(d, {c.on}), unwired}
      \/ {c.on[1], c.on[2]} \subseteq d.live /\ apply(d, c) = wired
  BY DEF apply, Ops
<1>2. DocOk(fewer) /\ DocOk(Without(d, {c.on}))
  BY WithoutOk
<1> HIDE DEF more, Left, fewer
<1>3. DocOk(opened)
  BY DEF DocOk
<1>4. DocOk(shut)
  BY <1>2 DEF DocOk
<1>5. DocOk(unwired)
  BY DEF DocOk
<1>6. {c.on[1], c.on[2]} \subseteq d.live => DocOk(wired)
  BY DEF DocOk
<1> HIDE DEF opened, shut, wired, unwired
<1> QED
  BY <1>1, <1>2, <1>3, <1>4, <1>5, <1>6

\* The server's loop over its queue.
ApplyOne(cmds, allowed, x, n) ==
  IF allowed \/ cmds[n].op # "new_ws" THEN apply(x, cmds[n]) ELSE x
Queue == INSTANCE Recursion WITH step <- ApplyOne

LEMMA AppliedOk ==
  ASSUME NEW d, DocOk(d), NEW cmds, Commands(cmds), NEW allowed
  PROVE  DocOk(Applied(d, cmds, allowed))
<1> DEFINE done[n \in Nat] ==
             IF n = 0 THEN d
             ELSE IF allowed \/ cmds[n].op # "new_ws" THEN apply(done[n - 1], cmds[n])
             ELSE done[n - 1]
           IsDone(f) == f = [n \in Nat |->
             IF n = 0 THEN d
             ELSE IF allowed \/ cmds[n].op # "new_ws" THEN apply(f[n - 1], cmds[n])
             ELSE f[n - 1]]
<1>1. Applied(d, cmds, allowed) = done[Len(cmds)]
  BY DEF Applied
<1>2. IsDone(done)
  <2>1. PICK q : Queue!IsRun(cmds, allowed, d, q)
    BY Queue!RunExists
  <2> QED
    BY <2>1 DEF Queue!IsRun, ApplyOne
<1> HIDE DEF done
<1>3. done[0] = d
  BY <1>2
<1>4. \A n \in Nat : done[n + 1] = IF allowed \/ cmds[n + 1].op # "new_ws"
                                   THEN apply(done[n], cmds[n + 1]) ELSE done[n]
  BY <1>2
<1> HIDE DEF IsDone
<1>5. Len(cmds) \in Nat /\ \A n \in 1..Len(cmds) : cmds[n].op \in Ops
  BY DEF Commands
<1> DEFINE T == {n \in Nat : n <= Len(cmds) => DocOk(done[n])}
<1>6. 0 \in T
  BY <1>3
<1>7. ASSUME NEW n \in Nat, n \in T PROVE n + 1 \in T
  <2> SUFFICES ASSUME n + 1 <= Len(cmds) PROVE DocOk(done[n + 1])
    OBVIOUS
  <2>1. n <= Len(cmds) /\ n + 1 \in 1..Len(cmds)
    BY <1>5
  <2>2. DocOk(done[n]) /\ cmds[n + 1].op \in Ops
    BY <2>1, <1>5, <1>7
  <2>3. DocOk(apply(done[n], cmds[n + 1]))
    BY <2>2, ApplyOk
  <2> QED
    BY <2>2, <2>3, <1>4
<1> HIDE DEF T
<1>8. \A n \in Nat : n \in T
  BY <1>6, <1>7, Queue!SetInduction
<1> QED
  BY <1>1, <1>5, <1>8 DEF T

LEMMA OthersOk == ASSUME DocOk(doc), NEW d \in OtherEdits PROVE DocOk(d)
<1>1. ASSUME NEW op \in Ops, NEW x PROVE DocOk(apply(doc, Op(op, x)))
  BY ApplyOk DEF Op
<1>2. ASSUME NEW n PROVE DocOk([doc EXCEPT !.attached = @ \union {n}])
  BY DEF DocOk
<1>3. ASSUME NEW b \in BOOLEAN
      PROVE  DocOk([doc EXCEPT !.view_mode = [seq |-> @.seq + 1, want_3d |-> b]])
  BY DEF DocOk
<1>4. \/ \E op \in Ops : \E x : d = apply(doc, Op(op, x))
      \/ \E n : d = [doc EXCEPT !.attached = @ \union {n}]
      \/ \E b \in BOOLEAN : d = [doc EXCEPT !.view_mode = [seq |-> @.seq + 1, want_3d |-> b]]
  BY DEF OtherEdits, Ops
<1> QED
  BY <1>1, <1>2, <1>3, <1>4

-----------------------------------------------------------------------------
(* The steps. *)

LEMMA StepFine ==
  ASSUME ClientInv, NEW u, Fine(u), Step(u), UNCHANGED doc
  PROVE  ClientInv'
<1> DEFINE t == [u EXCEPT !.out = <<>>]
<1>1. Commands(inbox')
  BY MoreCommands DEF ClientInv, Step, Fine, UiOk
<1>2. Fine(t)
  <2>1. LetsGo(u, t)
    BY NoCommands DEF LetsGo, Fine, UiOk, UiFields
  <2> QED
    BY <2>1, LetsGoFine
<1>3. Fine(ui')
  BY <1>2 DEF Step
<1>4. Fine(ui)'
  BY <1>3
<1> QED
  BY <1>1, <1>4 DEF ClientInv

LEMMA ClientInitInv == ClientInit => ClientInv
<1> SUFFICES ASSUME ClientInit PROVE ClientInv
  OBVIOUS
<1>1. DocOk(InitDoc)
  BY DEF DocOk, InitDoc, FirstNodes
<1> DEFINE view == for_workspace(View(InitDoc), FirstTabs[1])
<1>2. view.nodes \subseteq Node /\ view.wires = {}
  BY DEF for_workspace, View, InitDoc, FirstNodes
<1>3. Fine(InitUi)
  <2>1. InitUi.view = view
    BY DEF InitUi
  <2> HIDE DEF view
  <2> QED
    BY <1>2, <2>1, NoCommands DEF Fine, UiOk, UiFields, Shows, InitUi
<1> QED
  BY <1>1, <1>3, NoCommands DEF ClientInit, ClientInv

LEMMA FrameKeeps == ASSUME ClientInv, Frame PROVE ClientInv'
<1> DEFINE waited == IF ui.waited < PENDING_WS_FRAMES THEN ui.waited + 1 ELSE ui.waited
           u == [ui EXCEPT !.waited = waited, !.late = None]
           seen == DropUnseen(Refresh(u, doc))
           dragging == seen.drag # None \/ seen.wire3d # None
           Go(h, over) == frame(u, doc, buttons.lmb, Down, h, over, Fresh)
<1>1. PICK h \in IF Down THEN Hits(seen) ELSE {[at |-> "empty", of |-> None]},
           over \in IF dragging /\ ~buttons.lmb THEN seen.view.nodes \union {None} ELSE {None} :
        Step(Go(h, over))
  BY DEF Frame
<1>2. UNCHANGED doc
  BY DEF Frame
<1> HIDE DEF waited
<1>3. UiOk(u)
  BY DEF ClientInv, Fine, UiOk, UiFields
<1> HIDE DEF u
<1>4. Fine(seen)
  BY <1>3, RefreshOk, DropUnseenFine DEF ClientInv
<1> HIDE DEF seen
<1>5. HitOk(seen, h)
  <2>1. CASE Down
    BY <1>1, <1>4, <2>1, HitsOk DEF Fine
  <2>2. CASE ~Down
    BY <1>1, <2>2 DEF HitOk, NodeParts
  <2> QED
    BY <2>1, <2>2
<1>6. Fine(Go(h, over))
  BY <1>3, <1>5, FrameFine DEF ClientInv, seen
<1> HIDE DEF Go
<1> QED
  BY <1>1, <1>2, <1>6, StepFine

LEMMA KeyKeeps == ASSUME ClientInv, NEW k, Key(k) PROVE ClientInv'
<1> DEFINE Go(c, look) == IF ui.mode_3d THEN Key3d(ui, k, c, look) ELSE Key2d(ui, k, c, Fresh)
<1>1. PICK c \in PaletteCmds \union {None}, look \in BOOLEAN : Step(Go(c, look))
  BY DEF Key
<1>2. Fine(ui)
  BY DEF ClientInv
<1>3. Fine(Go(c, look))
  BY <1>2, Key3dLetsGo, Key2dLetsGo, LetsGoFine
<1> HIDE DEF Go
<1> QED
  BY <1>1, <1>3, StepFine DEF Key

LEMMA ClientStep == ASSUME ClientInv, [ClientNext]_clientVars PROVE ClientInv'
<1>1. CASE MouseButton
  BY <1>1 DEF MouseButton, ClientInv
<1>2. CASE \E k \in Keys : Key(k)
  BY <1>2, KeyKeeps
<1>3. CASE Frame
  BY <1>3, FrameKeeps
<1>4. CASE ServerTick
  <2>1. PICK allowed \in BOOLEAN : doc' = Applied(doc, inbox, allowed)
    BY <1>4 DEF ServerTick
  <2>2. DocOk(doc')
    BY <2>1, AppliedOk DEF ClientInv
  <2>3. Commands(inbox') /\ ui' = ui
    BY <1>4, NoCommands DEF ServerTick
  <2> QED
    BY <2>2, <2>3 DEF ClientInv
<1>5. CASE OtherClient
  <2>1. DocOk(doc')
    BY <1>5, OthersOk DEF OtherClient, ClientInv
  <2>2. UNCHANGED <<inbox, ui>>
    BY <1>5 DEF OtherClient
  <2> QED
    BY <2>1, <2>2 DEF ClientInv
<1>6. CASE UNCHANGED clientVars
  BY <1>6 DEF clientVars, ClientInv
<1> QED
  BY <1>1, <1>2, <1>3, <1>4, <1>5, <1>6 DEF ClientNext

LEMMA ClientInvariance == ClientSpec => []ClientInv
BY ClientInitInv, ClientStep, PTL DEF ClientSpec

\* The frame() of compositor.rs drops the keyboard focus and every edit that
\* points outside the slice it has just taken, before it handles the mouse,
\* and nothing between two frames points one at something else: whatever the
\* server and its other clients do, a key never reaches an unseen node's
\* editor, and reaches an unseen wire's only between the frame whose click on
\* the stale label opened it and the next.
THEOREM EditorsAreShown == ClientSpec => []NoDeadEditor
<1>1. ClientInv => NoDeadEditor
  BY DEF ClientInv, Fine, Shows, NoDeadEditor
<1> QED
  BY <1>1, ClientInvariance, PTL
=============================================================================
