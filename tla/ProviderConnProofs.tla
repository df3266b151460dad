------------------------- MODULE ProviderConnProofs -------------------------
(* The conduit's safety and its refinement of FsService, for any number of    *)
(* consumers, any queue length and any number of calls and restarts.          *)
(*                                                                            *)
(* The argument follows a call's id.  A call that is waited for and not yet   *)
(* answered is owed a reply, or reply has taken it and is about to fill its   *)
(* slot; only one consumer ever has an id; and whatever is owed a reply was   *)
(* accepted by the loop that is attached, unless that loop is just failing    *)
(* what it leaves.  What the queue holds plays no part in this.               *)
EXTENDS ProviderConn, TLAPS

\* The types of everything but the queue.
StateTypes ==
  /\ outstanding \subseteq Ids
  /\ nextId \in 1..(MaxCalls + 1)
  /\ serving \in BOOLEAN
  /\ generation \in Loops
  /\ slot \in [Ids -> {Empty, Dead} \cup {Answered(l) : l \in Loops}]
  /\ ppc \in {"down", "serve", "fill", "ending"}
  /\ filling \in Ids \cup {NoCall}
  /\ pc \in [Consumers -> {"idle", "enqueue", "release", "wait", "withdraw"}]
  /\ call \in [Consumers -> [id : Ids \cup {NoCall}, loop : Loops]]
  /\ seen \in [Consumers -> Loops]
  /\ opening \in [Consumers -> BOOLEAN]
  /\ desc \in [Consumers -> [open : BOOLEAN, generation : Loops, mintedBy : Loops]]

\* The provider's thread and the conduit's flags agree.
ThreadAgrees ==
  /\ serving <=> ppc \in {"serve", "fill"}
  /\ filling # NoCall <=> ppc = "fill"
  /\ serving => generation < MaxLoops
  /\ ppc = "down" => outstanding = {}

\* Ids are given out in order: none is owed or answered before it is.
IdsAreFresh ==
  /\ \A i \in outstanding : i < nextId
  /\ filling < nextId
  /\ \A i \in Ids : i >= nextId => slot[i] = Empty
  /\ \A c \in Consumers : Waiting(c) => call[c].id \in Ids /\ call[c].id < nextId

OneCallerPerId ==
  \A c, d \in Consumers :
    Waiting(c) /\ Waiting(d) /\ call[c].id = call[d].id => c = d

\* What is owed a reply, or about to be given it, has none yet.
OwedIsEmpty ==
  /\ \A i \in outstanding : slot[i] = Empty /\ i # filling
  /\ filling # NoCall => slot[filling] = Empty

Owed(i) == i \in outstanding \/ i = filling

\* Nobody waits for what will not come.
WaiterIsOwed ==
  \A c \in Consumers :
    Waiting(c) /\ slot[call[c].id].tag = "empty" => Owed(call[c].id)

\* Whatever is owed was accepted by the loop that is there.
OwedByThisLoop ==
  ppc # "ending" =>
    \A c \in Consumers : Waiting(c) /\ Owed(call[c].id) => call[c].loop = generation

AnsweredByItsLoop ==
  \A c \in Consumers :
    Waiting(c) /\ slot[call[c].id].tag = "ok" => slot[call[c].id].loop = call[c].loop

\* The generation a consumer goes by is never later than the loop that minted
\* its handle, and that one never later than the one attached.
ReadBeforeOpened ==
  /\ \A c \in Consumers : seen[c] <= generation /\ call[c].loop <= generation
  /\ \A c \in Consumers : Waiting(c) /\ opening[c] => seen[c] <= call[c].loop
  /\ \A c \in Consumers : desc[c].open =>
        desc[c].generation <= desc[c].mintedBy /\ desc[c].mintedBy <= generation

ConnInv ==
  /\ StateTypes /\ ThreadAgrees /\ IdsAreFresh /\ OneCallerPerId
  /\ OwedIsEmpty /\ WaiterIsOwed /\ OwedByThisLoop /\ AnsweredByItsLoop
  /\ NoOrphanRequest /\ ReadBeforeOpened
-----------------------------------------------------------------------------
(* Steps *)

LEMMA Constants ==
  /\ MaxCalls \in Nat /\ MaxLoops \in Nat /\ Ids \subseteq Nat /\ NoCall \notin Ids
  /\ Loops \subseteq Nat /\ NoCall = 0
BY ProviderAssumption DEF Ids, Loops, NoCall

SlotValues == {Empty, Dead} \cup {Answered(l) : l \in Loops}

\* What a slot can say.
LEMMA SlotTags ==
  /\ Empty \in SlotValues /\ Dead \in SlotValues
  /\ \A l \in Loops : Answered(l) \in SlotValues
  /\ \A l : Answered(l).tag = "ok" /\ Answered(l).loop = l
  /\ Empty.tag = "empty" /\ Dead.tag = "dead"
  /\ \A v \in SlotValues :
        /\ v.tag \in {"empty", "dead", "ok"}
        /\ v.tag = "empty" <=> v = Empty
        /\ v.tag = "ok" => v.loop \in Loops
<1> USE DEF SlotValues, Empty, Dead, Answered
<1>1. Empty \in SlotValues /\ Dead \in SlotValues /\ \A l \in Loops : Answered(l) \in SlotValues
  OBVIOUS
<1>2. /\ \A l : Answered(l).tag = "ok" /\ Answered(l).loop = l
      /\ Empty.tag = "empty" /\ Dead.tag = "dead"
  OBVIOUS
<1>3. \A v \in SlotValues :
        /\ v.tag \in {"empty", "dead", "ok"}
        /\ v.tag = "empty" <=> v = Empty
        /\ v.tag = "ok" => v.loop \in Loops
  <2> TAKE v \in SlotValues
  <2>1. CASE v \in {Empty, Dead}
    BY <2>1
  <2>2. CASE \E l \in Loops : v = Answered(l)
    BY <2>2
  <2> QED
    BY <2>1, <2>2
<1> QED
  BY <1>1, <1>2, <1>3

LEMMA NoDescIsShut ==
  NoDesc \in [open : BOOLEAN, generation : Loops, mintedBy : Loops] /\ ~NoDesc.open
BY ProviderAssumption DEF NoDesc, Loops

LEMMA InitConn ==
  ASSUME Init
  PROVE  ConnInv
<1>1. StateTypes
  <2>1. /\ slot \in [Ids -> SlotValues] /\ nextId \in 1..(MaxCalls + 1)
        /\ generation \in Loops /\ seen \in [Consumers -> Loops]
    BY SlotTags, ProviderAssumption DEF Init, Loops
  <2>2. call \in [Consumers -> [id : Ids \cup {NoCall}, loop : Loops]]
    BY ProviderAssumption DEF Init, Loops
  <2>3. desc \in [Consumers -> [open : BOOLEAN, generation : Loops, mintedBy : Loops]]
    BY ProviderAssumption DEF Init, Loops, NoDesc
  <2>4. /\ ppc \in {"down", "serve", "fill", "ending"} /\ serving \in BOOLEAN
        /\ outstanding \subseteq Ids /\ filling \in Ids \cup {NoCall}
    BY DEF Init
  <2>5. pc \in [Consumers -> {"idle", "enqueue", "release", "wait", "withdraw"}]
    BY DEF Init
  <2>6. opening \in [Consumers -> BOOLEAN]
    BY DEF Init
  <2> QED
    BY <2>1, <2>2, <2>3, <2>4, <2>5, <2>6 DEF StateTypes, SlotValues
<1>2. ThreadAgrees /\ OwedIsEmpty
  BY ProviderAssumption DEF Init, ThreadAgrees, OwedIsEmpty
<1>3. IdsAreFresh /\ OneCallerPerId /\ WaiterIsOwed
  BY Constants DEF Init, IdsAreFresh, OneCallerPerId, WaiterIsOwed, Waiting
<1>4. OwedByThisLoop /\ AnsweredByItsLoop /\ NoOrphanRequest
  BY DEF Init, OwedByThisLoop, AnsweredByItsLoop, NoOrphanRequest, Waiting
<1>5. ReadBeforeOpened
  BY DEF Init, ReadBeforeOpened, Waiting, NoDesc
<1> QED
  BY <1>1, <1>2, <1>3, <1>4, <1>5 DEF ConnInv


LEMMA OpenStep ==
  ASSUME ConnInv, NEW c \in Consumers, Open(c)
  PROVE  ConnInv'
<1> USE DEF ConnInv
<1>1. /\ pc[c] = "idle"
      /\ seen' = [seen EXCEPT ![c] = generation]
      /\ opening' = [opening EXCEPT ![c] = TRUE]
      /\ pc' = [pc EXCEPT ![c] = "enqueue"]
      /\ outstanding' = outstanding /\ nextId' = nextId /\ serving' = serving /\ generation' = generation
      /\ slot' = slot /\ ppc' = ppc /\ filling' = filling
      /\ call' = call /\ desc' = desc
  BY DEF Open, innerVars
<1>3. StateTypes'
  BY <1>1, Constants DEF StateTypes
<1>4. ThreadAgrees'
  BY <1>1, <1>3, Constants DEF ThreadAgrees, StateTypes
<1>5. IdsAreFresh'
  BY <1>1, <1>3, Constants DEF IdsAreFresh, Waiting, StateTypes
<1>6. OneCallerPerId'
  BY <1>1, <1>3, Constants DEF OneCallerPerId, Waiting, StateTypes
<1>7. OwedIsEmpty'
  BY <1>1, <1>3, Constants DEF OwedIsEmpty, StateTypes
<1>8. WaiterIsOwed'
  BY <1>1, <1>3, Constants DEF WaiterIsOwed, Waiting, Owed, StateTypes
<1>9. OwedByThisLoop'
  BY <1>1, <1>3, Constants DEF OwedByThisLoop, Waiting, Owed, StateTypes
<1>10. AnsweredByItsLoop'
  BY <1>1, <1>3, Constants DEF AnsweredByItsLoop, Waiting, StateTypes
<1>11. NoOrphanRequest'
  BY <1>1, <1>3, Constants DEF NoOrphanRequest, Waiting, StateTypes
<1>12. ReadBeforeOpened'
  BY <1>1, <1>3, Constants DEF ReadBeforeOpened, Waiting, StateTypes
<1> QED
  BY <1>3, <1>4, <1>5, <1>6, <1>7, <1>8, <1>9, <1>10, <1>11, <1>12 DEF ConnInv

LEMMA UseStep ==
  ASSUME ConnInv, NEW c \in Consumers, Use(c)
  PROVE  ConnInv'
<1> USE DEF ConnInv
<1>1. /\ pc[c] = "idle"
      /\ opening' = [opening EXCEPT ![c] = FALSE]
      /\ pc' = [pc EXCEPT ![c] = "enqueue"]
      /\ outstanding' = outstanding /\ nextId' = nextId /\ serving' = serving /\ generation' = generation
      /\ slot' = slot /\ ppc' = ppc /\ filling' = filling
      /\ call' = call /\ desc' = desc /\ seen' = seen
  BY DEF Use, innerVars
<1>3. StateTypes'
  BY <1>1, Constants DEF StateTypes
<1>4. ThreadAgrees'
  BY <1>1, <1>3, Constants DEF ThreadAgrees, StateTypes
<1>5. IdsAreFresh'
  BY <1>1, <1>3, Constants DEF IdsAreFresh, Waiting, StateTypes
<1>6. OneCallerPerId'
  BY <1>1, <1>3, Constants DEF OneCallerPerId, Waiting, StateTypes
<1>7. OwedIsEmpty'
  BY <1>1, <1>3, Constants DEF OwedIsEmpty, StateTypes
<1>8. WaiterIsOwed'
  BY <1>1, <1>3, Constants DEF WaiterIsOwed, Waiting, Owed, StateTypes
<1>9. OwedByThisLoop'
  BY <1>1, <1>3, Constants DEF OwedByThisLoop, Waiting, Owed, StateTypes
<1>10. AnsweredByItsLoop'
  BY <1>1, <1>3, Constants DEF AnsweredByItsLoop, Waiting, StateTypes
<1>11. NoOrphanRequest'
  BY <1>1, <1>3, Constants DEF NoOrphanRequest, Waiting, StateTypes
<1>12. ReadBeforeOpened'
  BY <1>1, <1>3, Constants DEF ReadBeforeOpened, Waiting, StateTypes
<1> QED
  BY <1>3, <1>4, <1>5, <1>6, <1>7, <1>8, <1>9, <1>10, <1>11, <1>12 DEF ConnInv

LEMMA DropStep ==
  ASSUME ConnInv, NEW c \in Consumers, Drop(c)
  PROVE  ConnInv'
<1> USE DEF ConnInv
<1>1. /\ pc[c] = "idle"
      /\ \/ pc' = [pc EXCEPT ![c] = "release"] /\ desc' = desc
         \/ desc' = [desc EXCEPT ![c] = NoDesc] /\ pc' = pc
      /\ outstanding' = outstanding /\ nextId' = nextId /\ serving' = serving /\ generation' = generation
      /\ slot' = slot /\ ppc' = ppc /\ filling' = filling
      /\ call' = call /\ opening' = opening /\ seen' = seen
  BY DEF Drop, innerVars
<1>3. StateTypes'
  <2>1. NoDesc \in [open : BOOLEAN, generation : Loops, mintedBy : Loops] /\ ~NoDesc.open
    BY ProviderAssumption DEF NoDesc, Loops
  <2> QED
    BY <1>1, <2>1 DEF StateTypes
<1>4. ThreadAgrees'
  BY <1>1, <1>3, Constants DEF ThreadAgrees, StateTypes
<1>5. IdsAreFresh'
  BY <1>1, <1>3, Constants DEF IdsAreFresh, Waiting, StateTypes
<1>6. OneCallerPerId'
  BY <1>1, <1>3, Constants DEF OneCallerPerId, Waiting, StateTypes
<1>7. OwedIsEmpty'
  BY <1>1, <1>3, Constants DEF OwedIsEmpty, StateTypes
<1>8. WaiterIsOwed'
  BY <1>1, <1>3, Constants DEF WaiterIsOwed, Waiting, Owed, StateTypes
<1>9. OwedByThisLoop'
  BY <1>1, <1>3, Constants DEF OwedByThisLoop, Waiting, Owed, StateTypes
<1>10. AnsweredByItsLoop'
  BY <1>1, <1>3, Constants DEF AnsweredByItsLoop, Waiting, StateTypes
<1>11. NoOrphanRequest'
  BY <1>1, <1>3, Constants DEF NoOrphanRequest, Waiting, StateTypes
<1>12. ReadBeforeOpened'
  BY <1>1, <1>3, NoDescIsShut, Constants DEF ReadBeforeOpened, Waiting, StateTypes
<1> QED
  BY <1>3, <1>4, <1>5, <1>6, <1>7, <1>8, <1>9, <1>10, <1>11, <1>12 DEF ConnInv

LEMMA CallFailsStep ==
  ASSUME ConnInv, NEW c \in Consumers, Call(c), ~serving \/ Len(queue) >= MaxQueue
  PROVE  ConnInv'
<1> USE DEF ConnInv
<1>1. /\ pc[c] = "enqueue"
      /\ pc' = [pc EXCEPT ![c] = "idle"]
      /\ outstanding' = outstanding /\ nextId' = nextId /\ serving' = serving /\ generation' = generation
      /\ slot' = slot /\ ppc' = ppc /\ filling' = filling
      /\ call' = call /\ opening' = opening /\ seen' = seen /\ desc' = desc
  BY DEF Call, innerVars
<1>3. StateTypes'
  BY <1>1, Constants DEF StateTypes
<1>4. ThreadAgrees'
  BY <1>1, <1>3, Constants DEF ThreadAgrees, StateTypes
<1>5. IdsAreFresh'
  BY <1>1, <1>3, Constants DEF IdsAreFresh, Waiting, StateTypes
<1>6. OneCallerPerId'
  BY <1>1, <1>3, Constants DEF OneCallerPerId, Waiting, StateTypes
<1>7. OwedIsEmpty'
  BY <1>1, <1>3, Constants DEF OwedIsEmpty, StateTypes
<1>8. WaiterIsOwed'
  BY <1>1, <1>3, Constants DEF WaiterIsOwed, Waiting, Owed, StateTypes
<1>9. OwedByThisLoop'
  BY <1>1, <1>3, Constants DEF OwedByThisLoop, Waiting, Owed, StateTypes
<1>10. AnsweredByItsLoop'
  BY <1>1, <1>3, Constants DEF AnsweredByItsLoop, Waiting, StateTypes
<1>11. NoOrphanRequest'
  BY <1>1, <1>3, Constants DEF NoOrphanRequest, Waiting, StateTypes
<1>12. ReadBeforeOpened'
  BY <1>1, <1>3, Constants DEF ReadBeforeOpened, Waiting, StateTypes
<1> QED
  BY <1>3, <1>4, <1>5, <1>6, <1>7, <1>8, <1>9, <1>10, <1>11, <1>12 DEF ConnInv

\* The call gets an id nobody has had, from the loop that is attached.
LEMMA CallStep ==
  ASSUME ConnInv, NEW c \in Consumers, Call(c), ~(~serving \/ Len(queue) >= MaxQueue)
  PROVE  ConnInv'
<1> USE DEF ConnInv
<1>1. /\ pc[c] = "enqueue" /\ ppc # "ending" /\ serving
      /\ nextId <= MaxCalls /\ nextId' = nextId + 1
      /\ outstanding' = outstanding \cup {nextId}
      /\ call' = [call EXCEPT ![c] = [id |-> nextId, loop |-> generation]]
      /\ pc' = [pc EXCEPT ![c] = "wait"]
      /\ serving' = serving /\ generation' = generation
      /\ slot' = slot /\ ppc' = ppc /\ filling' = filling
      /\ opening' = opening /\ seen' = seen /\ desc' = desc
  BY DEF Call, InnerFree
<1>2. nextId \in Ids /\ nextId + 1 \in 1..(MaxCalls + 1) /\ nextId \in Nat
  BY <1>1, ProviderAssumption DEF StateTypes, Ids
<1>a. /\ nextId \notin outstanding /\ nextId # filling /\ slot[nextId] = Empty /\ Empty.tag = "empty"
      /\ \A d \in Consumers : Waiting(d) => call[d].id # nextId
  BY <1>2, SlotTags DEF IdsAreFresh, StateTypes
<1>3. StateTypes'
  BY <1>1, <1>2 DEF StateTypes
<1>4. ThreadAgrees'
  BY <1>1, <1>3, <1>2, <1>a, Constants DEF ThreadAgrees, StateTypes
<1>5. IdsAreFresh'
  <2>1. \A i \in outstanding' : i < nextId'
    BY <1>1, <1>2, Constants DEF IdsAreFresh, StateTypes
  <2>2. filling' < nextId'
    BY <1>1, <1>2, Constants DEF IdsAreFresh, StateTypes
  <2>3. \A i \in Ids : i >= nextId' => slot'[i] = Empty
    BY <1>1, <1>2, Constants DEF IdsAreFresh, StateTypes
  <2>4. \A d \in Consumers : Waiting(d)' => call'[d].id \in Ids /\ call'[d].id < nextId'
    <3> TAKE d \in Consumers
    <3>1. CASE d = c
      BY <1>1, <1>2, <3>1 DEF StateTypes
    <3>2. CASE d # c
      <4>1. pc'[d] = pc[d] /\ call'[d] = call[d] /\ call[d].id \in Ids \cup {NoCall}
        BY <1>1, <3>2 DEF StateTypes
      <4>2. \A n \in Ids : n < nextId => n < nextId + 1
        BY <1>2, Constants
      <4> QED
        BY <1>1, <4>1, <4>2 DEF IdsAreFresh, Waiting
    <3> QED
      BY <3>1, <3>2
  <2> QED
    BY <2>1, <2>2, <2>3, <2>4 DEF IdsAreFresh
<1>6. OneCallerPerId'
  BY <1>1, <1>3, <1>2, <1>a, Constants DEF OneCallerPerId, Waiting, StateTypes
<1>7. OwedIsEmpty'
  BY <1>1, <1>3, <1>2, <1>a, Constants DEF OwedIsEmpty, StateTypes
<1>8. WaiterIsOwed'
  BY <1>1, <1>3, <1>2, <1>a, Constants DEF WaiterIsOwed, Waiting, Owed, StateTypes
<1>9. OwedByThisLoop'
  BY <1>1, <1>3, <1>2, <1>a, Constants DEF OwedByThisLoop, Waiting, Owed, StateTypes
<1>10. AnsweredByItsLoop'
  BY <1>1, <1>3, <1>2, <1>a, Constants DEF AnsweredByItsLoop, Waiting, StateTypes
<1>11. NoOrphanRequest'
  BY <1>1, <1>3, <1>2, <1>a, Constants DEF NoOrphanRequest, Waiting, StateTypes
<1>12. ReadBeforeOpened'
  BY <1>1, <1>3, <1>2, <1>a, Constants DEF ReadBeforeOpened, Waiting, StateTypes
<1> QED
  BY <1>3, <1>4, <1>5, <1>6, <1>7, <1>8, <1>9, <1>10, <1>11, <1>12 DEF ConnInv

\* The waiter leaves with its answer: nobody else had its id.
LEMMA TakeReplyStep ==
  ASSUME ConnInv, NEW c \in Consumers, TakeReply(c)
  PROVE  ConnInv'
<1> USE DEF ConnInv
<1>1. /\ pc[c] = "wait" /\ slot[call[c].id].tag # "empty"
      /\ \/ desc' = desc
         \/ /\ opening[c] /\ slot[call[c].id].tag = "ok"
            /\ desc' = [desc EXCEPT ![c] = [open |-> TRUE, generation |-> seen[c],
                                             mintedBy |-> slot[call[c].id].loop]]
      /\ slot' = [slot EXCEPT ![call[c].id] = Empty]
      /\ pc' = [pc EXCEPT ![c] = "idle"] \/ pc' = [pc EXCEPT ![c] = "release"]
      /\ call' = [call EXCEPT ![c].id = NoCall]
      /\ outstanding' = outstanding /\ nextId' = nextId /\ serving' = serving /\ generation' = generation
      /\ ppc' = ppc /\ filling' = filling /\ seen' = seen /\ opening' = opening
  BY DEF TakeReply, Leave, innerVars, StateTypes
<1>2. /\ call[c].id \in Ids /\ call[c].loop \in Loops /\ Empty \in SlotValues
      /\ slot[call[c].id] # Empty /\ slot[call[c].id] \in SlotValues
  BY <1>1, SlotTags DEF IdsAreFresh, StateTypes, Waiting, SlotValues
<1>a. /\ call[c].id \notin outstanding /\ call[c].id # filling
      /\ \A d \in Consumers : Waiting(d) /\ d # c => call[d].id # call[c].id
  BY <1>1, <1>2 DEF OwedIsEmpty, OneCallerPerId, Waiting, NoCall, Ids
<1>b. \A d \in Consumers : Waiting(d)' =>
        /\ Waiting(d) /\ d # c /\ call'[d] = call[d]
        /\ call[d].id \in Ids /\ slot'[call[d].id] = slot[call[d].id]
  BY <1>1, <1>2, <1>a DEF Waiting, StateTypes, IdsAreFresh
<1>3. StateTypes'
  <2>1. slot' \in [Ids -> SlotValues]
    BY <1>1, <1>2 DEF StateTypes, SlotValues
  <2>2. call' \in [Consumers -> [id : Ids \cup {NoCall}, loop : Loops]]
    BY <1>1 DEF StateTypes
  <2>3. desc' \in [Consumers -> [open : BOOLEAN, generation : Loops, mintedBy : Loops]]
    <3>1. slot[call[c].id].tag = "ok" => slot[call[c].id].loop \in Loops
      BY <1>2, SlotTags
    <3>2. CASE desc' = desc
      BY <3>2 DEF StateTypes
    <3>3. CASE slot[call[c].id].tag = "ok" /\ desc' # desc
      <4> DEFINE new == [open |-> TRUE, generation |-> seen[c], mintedBy |-> slot[call[c].id].loop]
      <4>1. new \in [open : BOOLEAN, generation : Loops, mintedBy : Loops]
        BY <3>1, <3>3 DEF StateTypes
      <4>2. desc' = [desc EXCEPT ![c] = new]
        BY <1>1, <3>3
      <4> HIDE DEF new
      <4> QED
        BY <4>1, <4>2 DEF StateTypes
    <3> QED
      BY <1>1, <3>2, <3>3
  <2> QED
    BY <1>1, <2>1, <2>2, <2>3 DEF StateTypes, SlotValues
<1>4. ThreadAgrees'
  BY <1>1, <1>3, <1>2, <1>a, <1>b, Constants DEF ThreadAgrees, StateTypes
<1>5. IdsAreFresh'
  BY <1>1, <1>3, <1>2, <1>a, <1>b, Constants DEF IdsAreFresh, Waiting, StateTypes
<1>6. OneCallerPerId'
  BY <1>1, <1>3, <1>2, <1>a, <1>b, Constants DEF OneCallerPerId, Waiting, StateTypes
<1>7. OwedIsEmpty'
  BY <1>1, <1>3, <1>2, <1>a, <1>b, Constants DEF OwedIsEmpty, StateTypes
<1>8. WaiterIsOwed'
  BY <1>1, <1>3, <1>2, <1>a, <1>b, Constants DEF WaiterIsOwed, Waiting, Owed, StateTypes
<1>9. OwedByThisLoop'
  BY <1>1, <1>3, <1>2, <1>a, <1>b, Constants DEF OwedByThisLoop, Waiting, Owed, StateTypes
<1>10. AnsweredByItsLoop'
  BY <1>1, <1>3, <1>2, <1>a, <1>b, Constants DEF AnsweredByItsLoop, Waiting, StateTypes
<1>11. NoOrphanRequest'
  <2> SUFFICES ASSUME NEW i \in outstanding
               PROVE  \E d \in Consumers : Waiting(d)' /\ call'[d].id = i
    BY <1>1 DEF NoOrphanRequest
  <2>1. PICK d \in Consumers : Waiting(d) /\ call[d].id = i
    BY DEF NoOrphanRequest
  <2>2. d # c
    BY <1>a, <2>1
  <2> QED
    BY <1>1, <2>1, <2>2 DEF Waiting, StateTypes
<1>12. ReadBeforeOpened'
  <2>1. \A d \in Consumers : seen'[d] <= generation' /\ call'[d].loop <= generation'
    BY <1>1 DEF ReadBeforeOpened, StateTypes
  <2>2. \A d \in Consumers : Waiting(d)' /\ opening'[d] => seen'[d] <= call'[d].loop
    BY <1>1, <1>b DEF ReadBeforeOpened
  <2>3. /\ opening[c] => seen[c] <= call[c].loop
        /\ slot[call[c].id].tag = "ok" => slot[call[c].id].loop = call[c].loop
        /\ call[c].loop <= generation
    BY <1>1 DEF ReadBeforeOpened, AnsweredByItsLoop, Waiting
  <2>4. \A d \in Consumers : desc'[d].open =>
          desc'[d].generation <= desc'[d].mintedBy /\ desc'[d].mintedBy <= generation'
    BY <1>1, <2>3 DEF ReadBeforeOpened, StateTypes
  <2> QED
    BY <2>1, <2>2, <2>4 DEF ReadBeforeOpened
<1> QED
  BY <1>3, <1>4, <1>5, <1>6, <1>7, <1>8, <1>9, <1>10, <1>11, <1>12 DEF ConnInv

LEMMA TimeOutStep ==
  ASSUME ConnInv, NEW c \in Consumers, TimeOut(c)
  PROVE  ConnInv'
<1> USE DEF ConnInv
<1>1. /\ pc[c] = "wait"
      /\ pc' = [pc EXCEPT ![c] = "withdraw"]
      /\ outstanding' = outstanding /\ nextId' = nextId /\ serving' = serving /\ generation' = generation
      /\ slot' = slot /\ ppc' = ppc /\ filling' = filling
      /\ call' = call /\ opening' = opening /\ seen' = seen /\ desc' = desc
  BY DEF TimeOut, innerVars
<1>3. StateTypes'
  BY <1>1, Constants DEF StateTypes
<1>4. ThreadAgrees'
  BY <1>1, <1>3, Constants DEF ThreadAgrees, StateTypes
<1>5. IdsAreFresh'
  BY <1>1, <1>3, Constants DEF IdsAreFresh, Waiting, StateTypes
<1>6. OneCallerPerId'
  BY <1>1, <1>3, Constants DEF OneCallerPerId, Waiting, StateTypes
<1>7. OwedIsEmpty'
  BY <1>1, <1>3, Constants DEF OwedIsEmpty, StateTypes
<1>8. WaiterIsOwed'
  BY <1>1, <1>3, Constants DEF WaiterIsOwed, Waiting, Owed, StateTypes
<1>9. OwedByThisLoop'
  BY <1>1, <1>3, Constants DEF OwedByThisLoop, Waiting, Owed, StateTypes
<1>10. AnsweredByItsLoop'
  BY <1>1, <1>3, Constants DEF AnsweredByItsLoop, Waiting, StateTypes
<1>11. NoOrphanRequest'
  BY <1>1, <1>3, Constants DEF NoOrphanRequest, Waiting, StateTypes
<1>12. ReadBeforeOpened'
  BY <1>1, <1>3, Constants DEF ReadBeforeOpened, Waiting, StateTypes
<1> QED
  BY <1>3, <1>4, <1>5, <1>6, <1>7, <1>8, <1>9, <1>10, <1>11, <1>12 DEF ConnInv

\* The request goes with its caller.
LEMMA WithdrawStep ==
  ASSUME ConnInv, NEW c \in Consumers, Withdraw(c)
  PROVE  ConnInv'
<1> USE DEF ConnInv
<1>1. /\ pc[c] = "withdraw"
      /\ outstanding' = outstanding \ {call[c].id}
      /\ pc' = [pc EXCEPT ![c] = "idle"]
      /\ call' = [call EXCEPT ![c].id = NoCall]
      /\ nextId' = nextId /\ serving' = serving /\ generation' = generation
      /\ slot' = slot /\ ppc' = ppc /\ filling' = filling
      /\ opening' = opening /\ seen' = seen /\ desc' = desc
  BY DEF Withdraw, Leave
<1>3. StateTypes'
  BY <1>1, Constants DEF StateTypes
<1>4. ThreadAgrees'
  BY <1>1, <1>3, Constants DEF ThreadAgrees, StateTypes
<1>5. IdsAreFresh'
  BY <1>1, <1>3, Constants DEF IdsAreFresh, Waiting, StateTypes
<1>6. OneCallerPerId'
  BY <1>1, <1>3, Constants DEF OneCallerPerId, Waiting, StateTypes
<1>7. OwedIsEmpty'
  BY <1>1, <1>3, Constants DEF OwedIsEmpty, StateTypes
<1>8. WaiterIsOwed'
  <2> SUFFICES ASSUME NEW d \in Consumers, Waiting(d)', slot[call'[d].id].tag = "empty"
               PROVE  call'[d].id \in outstanding' \/ call'[d].id = filling
    BY <1>1 DEF WaiterIsOwed, Owed
  <2>1. Waiting(d) /\ d # c /\ call'[d] = call[d]
    BY <1>1 DEF Waiting, StateTypes
  <2>2. call[d].id # call[c].id
    BY <1>1, <2>1 DEF OneCallerPerId, Waiting
  <2>3. Owed(call[d].id)
    BY <1>1, <2>1 DEF WaiterIsOwed
  <2> QED
    BY <1>1, <2>1, <2>2, <2>3 DEF Owed, StateTypes
<1>9. OwedByThisLoop'
  BY <1>1, <1>3, Constants DEF OwedByThisLoop, Waiting, Owed, StateTypes
<1>10. AnsweredByItsLoop'
  BY <1>1, <1>3, Constants DEF AnsweredByItsLoop, Waiting, StateTypes
<1>11. NoOrphanRequest'
  BY <1>1, <1>3, Constants DEF NoOrphanRequest, Waiting, StateTypes
<1>12. ReadBeforeOpened'
  BY <1>1, <1>3, Constants DEF ReadBeforeOpened, Waiting, StateTypes
<1> QED
  BY <1>3, <1>4, <1>5, <1>6, <1>7, <1>8, <1>9, <1>10, <1>11, <1>12 DEF ConnInv

LEMMA CastStep ==
  ASSUME ConnInv, NEW c \in Consumers, Cast(c)
  PROVE  ConnInv'
<1> USE DEF ConnInv
<1>1. /\ pc[c] = "release"
      /\ \/ nextId' = nextId
         \/ nextId <= MaxCalls /\ nextId' = nextId + 1
      /\ desc' = [desc EXCEPT ![c] = NoDesc]
      /\ pc' = [pc EXCEPT ![c] = "idle"]
      /\ outstanding' = outstanding /\ serving' = serving /\ generation' = generation
      /\ slot' = slot /\ ppc' = ppc /\ filling' = filling
      /\ call' = call /\ opening' = opening /\ seen' = seen
  BY DEF Cast
<1>3. StateTypes'
  <2>1. nextId' \in 1..(MaxCalls + 1)
    BY <1>1, ProviderAssumption DEF StateTypes
  <2> QED
    BY <1>1, <2>1, NoDescIsShut DEF StateTypes
<1>4. ThreadAgrees'
  BY <1>1, <1>3, Constants DEF ThreadAgrees, StateTypes
<1>5. IdsAreFresh'
  <2>1. \A i \in outstanding' : i < nextId'
    BY <1>1, Constants DEF IdsAreFresh, StateTypes
  <2>2. filling' < nextId'
    BY <1>1, Constants DEF IdsAreFresh, StateTypes
  <2>3. \A i \in Ids : i >= nextId' => slot'[i] = Empty
    BY <1>1, Constants DEF IdsAreFresh, StateTypes
  <2>4. \A d \in Consumers : Waiting(d)' => call'[d].id \in Ids /\ call'[d].id < nextId'
    <3> SUFFICES ASSUME NEW d \in Consumers, Waiting(d)'
                 PROVE  call[d].id \in Ids /\ call[d].id < nextId'
      BY <1>1
    <3>1. Waiting(d)
      BY <1>1 DEF StateTypes, Waiting
    <3>2. call[d].id \in Ids /\ call[d].id < nextId
      BY <3>1 DEF IdsAreFresh
    <3>3. nextId \in Nat
      BY DEF StateTypes
    <3>5. call[d].id \in Nat
      BY <3>2, Constants, Zenon
    <3>4. nextId' = nextId \/ nextId' = nextId + 1
      BY <1>1
    <3> QED
      BY <3>2, <3>3, <3>4, <3>5
  <2> QED
    BY <2>1, <2>2, <2>3, <2>4 DEF IdsAreFresh
<1>6. OneCallerPerId'
  BY <1>1, <1>3, Constants DEF OneCallerPerId, Waiting, StateTypes
<1>7. OwedIsEmpty'
  BY <1>1, <1>3, Constants DEF OwedIsEmpty, StateTypes
<1>8. WaiterIsOwed'
  BY <1>1, <1>3, Constants DEF WaiterIsOwed, Waiting, Owed, StateTypes
<1>9. OwedByThisLoop'
  BY <1>1, <1>3, Constants DEF OwedByThisLoop, Waiting, Owed, StateTypes
<1>10. AnsweredByItsLoop'
  BY <1>1, <1>3, Constants DEF AnsweredByItsLoop, Waiting, StateTypes
<1>11. NoOrphanRequest'
  BY <1>1, <1>3, Constants DEF NoOrphanRequest, Waiting, StateTypes
<1>12. ReadBeforeOpened'
  BY <1>1, <1>3, NoDescIsShut, Constants DEF ReadBeforeOpened, Waiting, StateTypes
<1> QED
  BY <1>3, <1>4, <1>5, <1>6, <1>7, <1>8, <1>9, <1>10, <1>11, <1>12 DEF ConnInv

LEMMA BeginStep ==
  ASSUME ConnInv, BeginServing
  PROVE  ConnInv'
<1> USE DEF ConnInv
<1>1. /\ ppc = "down" /\ generation < MaxLoops /\ ppc' = "serve" /\ serving' = TRUE
      /\ outstanding' = outstanding /\ nextId' = nextId /\ generation' = generation
      /\ slot' = slot /\ filling' = filling
      /\ pc' = pc /\ call' = call /\ seen' = seen /\ opening' = opening /\ desc' = desc
  BY DEF BeginServing, consumerVars
<1>3. StateTypes'
  BY <1>1, Constants DEF StateTypes
<1>4. ThreadAgrees'
  BY <1>1, <1>3, Constants DEF ThreadAgrees, StateTypes
<1>5. IdsAreFresh'
  BY <1>1, <1>3, Constants DEF IdsAreFresh, Waiting, StateTypes
<1>6. OneCallerPerId'
  BY <1>1, <1>3, Constants DEF OneCallerPerId, Waiting, StateTypes
<1>7. OwedIsEmpty'
  BY <1>1, <1>3, Constants DEF OwedIsEmpty, StateTypes
<1>8. WaiterIsOwed'
  BY <1>1, <1>3, Constants DEF WaiterIsOwed, Waiting, Owed, StateTypes
<1>9. OwedByThisLoop'
  BY <1>1, <1>3, Constants DEF OwedByThisLoop, Waiting, Owed, StateTypes
<1>10. AnsweredByItsLoop'
  BY <1>1, <1>3, Constants DEF AnsweredByItsLoop, Waiting, StateTypes
<1>11. NoOrphanRequest'
  BY <1>1, <1>3, Constants DEF NoOrphanRequest, Waiting, StateTypes
<1>12. ReadBeforeOpened'
  BY <1>1, <1>3, Constants DEF ReadBeforeOpened, Waiting, StateTypes
<1> QED
  BY <1>3, <1>4, <1>5, <1>6, <1>7, <1>8, <1>9, <1>10, <1>11, <1>12 DEF ConnInv

LEMMA NextRequestStep ==
  ASSUME ConnInv, NextRequest
  PROVE  ConnInv'
<1> USE DEF ConnInv
<1>1. /\ outstanding' = outstanding /\ nextId' = nextId /\ serving' = serving /\ generation' = generation
      /\ slot' = slot /\ ppc' = ppc /\ filling' = filling
      /\ pc' = pc /\ call' = call /\ seen' = seen /\ opening' = opening /\ desc' = desc
  BY DEF NextRequest, consumerVars
<1>3. StateTypes'
  BY <1>1, Constants DEF StateTypes
<1>4. ThreadAgrees'
  BY <1>1, <1>3, Constants DEF ThreadAgrees, StateTypes
<1>5. IdsAreFresh'
  BY <1>1, <1>3, Constants DEF IdsAreFresh, Waiting, StateTypes
<1>6. OneCallerPerId'
  BY <1>1, <1>3, Constants DEF OneCallerPerId, Waiting, StateTypes
<1>7. OwedIsEmpty'
  BY <1>1, <1>3, Constants DEF OwedIsEmpty, StateTypes
<1>8. WaiterIsOwed'
  BY <1>1, <1>3, Constants DEF WaiterIsOwed, Waiting, Owed, StateTypes
<1>9. OwedByThisLoop'
  BY <1>1, <1>3, Constants DEF OwedByThisLoop, Waiting, Owed, StateTypes
<1>10. AnsweredByItsLoop'
  BY <1>1, <1>3, Constants DEF AnsweredByItsLoop, Waiting, StateTypes
<1>11. NoOrphanRequest'
  BY <1>1, <1>3, Constants DEF NoOrphanRequest, Waiting, StateTypes
<1>12. ReadBeforeOpened'
  BY <1>1, <1>3, Constants DEF ReadBeforeOpened, Waiting, StateTypes
<1> QED
  BY <1>3, <1>4, <1>5, <1>6, <1>7, <1>8, <1>9, <1>10, <1>11, <1>12 DEF ConnInv

LEMMA ReplyTakeStep ==
  ASSUME ConnInv, NEW i \in Ids, ReplyTake(i)
  PROVE  ConnInv'
<1> USE DEF ConnInv
<1>1. /\ ppc = "serve" /\ i \in outstanding
      /\ outstanding' = outstanding \ {i} /\ filling' = i
      /\ ppc' = "fill"
      /\ nextId' = nextId /\ serving' = serving /\ generation' = generation /\ slot' = slot
      /\ pc' = pc /\ call' = call /\ seen' = seen /\ opening' = opening /\ desc' = desc
  BY DEF ReplyTake, consumerVars
<1>3. StateTypes'
  BY <1>1, Constants DEF StateTypes
<1>4. ThreadAgrees'
  BY <1>1, <1>3, Constants DEF ThreadAgrees, StateTypes
<1>5. IdsAreFresh'
  BY <1>1, <1>3, Constants DEF IdsAreFresh, Waiting, StateTypes
<1>6. OneCallerPerId'
  BY <1>1, <1>3, Constants DEF OneCallerPerId, Waiting, StateTypes
<1>7. OwedIsEmpty'
  BY <1>1, <1>3, Constants DEF OwedIsEmpty, StateTypes
<1>8. WaiterIsOwed'
  BY <1>1, Constants DEF WaiterIsOwed, Waiting, Owed, StateTypes, ThreadAgrees, IdsAreFresh
<1>9. OwedByThisLoop'
  BY <1>1, <1>3, Constants DEF OwedByThisLoop, Waiting, Owed, StateTypes
<1>10. AnsweredByItsLoop'
  BY <1>1, <1>3, Constants DEF AnsweredByItsLoop, Waiting, StateTypes
<1>11. NoOrphanRequest'
  BY <1>1, <1>3, Constants DEF NoOrphanRequest, Waiting, StateTypes
<1>12. ReadBeforeOpened'
  BY <1>1, <1>3, Constants DEF ReadBeforeOpened, Waiting, StateTypes
<1> QED
  BY <1>3, <1>4, <1>5, <1>6, <1>7, <1>8, <1>9, <1>10, <1>11, <1>12 DEF ConnInv

\* The answer: its caller, if there still is one, was accepted by this loop.
LEMMA ReplyFillStep ==
  ASSUME ConnInv, ReplyFill
  PROVE  ConnInv'
<1> USE DEF ConnInv
<1>1. /\ ppc = "fill"
      /\ slot' = [slot EXCEPT ![filling] = Answered(generation)]
      /\ ppc' = "serve" /\ filling' = NoCall
      /\ outstanding' = outstanding /\ nextId' = nextId /\ serving' = serving /\ generation' = generation
      /\ pc' = pc /\ call' = call /\ seen' = seen /\ opening' = opening /\ desc' = desc
  BY DEF ReplyFill, innerVars, consumerVars
<1>2. filling \in Ids /\ filling \notin outstanding
  BY <1>1 DEF ThreadAgrees, StateTypes, OwedIsEmpty
<1>a. Answered(generation) \in SlotValues /\ Answered(generation).tag = "ok" /\ Answered(generation).loop = generation
  BY SlotTags DEF StateTypes
<1>3. StateTypes'
  BY <1>1, <1>2, <1>a DEF StateTypes, SlotValues, NoCall
<1>4. ThreadAgrees'
  BY <1>1, <1>3, <1>2, <1>a, Constants DEF ThreadAgrees, StateTypes
<1>5. IdsAreFresh'
  BY <1>1, <1>3, <1>2, <1>a, Constants DEF IdsAreFresh, Waiting, StateTypes
<1>6. OneCallerPerId'
  BY <1>1, <1>3, <1>2, <1>a, Constants DEF OneCallerPerId, Waiting, StateTypes
<1>7. OwedIsEmpty'
  BY <1>1, <1>3, <1>2, <1>a, Constants DEF OwedIsEmpty, StateTypes
<1>8. WaiterIsOwed'
  BY <1>1, <1>3, <1>2, <1>a, Constants DEF WaiterIsOwed, Waiting, Owed, StateTypes
<1>9. OwedByThisLoop'
  BY <1>1, <1>2, Constants DEF OwedByThisLoop, Waiting, Owed, StateTypes, IdsAreFresh
<1>10. AnsweredByItsLoop'
  <2> SUFFICES ASSUME NEW d \in Consumers, Waiting(d), slot'[call[d].id].tag = "ok"
               PROVE  slot'[call[d].id].loop = call[d].loop
    BY <1>1 DEF AnsweredByItsLoop, Waiting
  <2>1. call[d].id \in Ids
    BY DEF IdsAreFresh
  <2>2. CASE call[d].id = filling
    BY <1>1, <1>2, <1>a, <2>1, <2>2 DEF OwedByThisLoop, Owed, StateTypes
  <2>3. CASE call[d].id # filling
    BY <1>1, <2>1, <2>3 DEF AnsweredByItsLoop, StateTypes
  <2> QED
    BY <2>2, <2>3
<1>11. NoOrphanRequest'
  BY <1>1, <1>3, <1>2, <1>a, Constants DEF NoOrphanRequest, Waiting, StateTypes
<1>12. ReadBeforeOpened'
  BY <1>1, <1>3, <1>2, <1>a, Constants DEF ReadBeforeOpened, Waiting, StateTypes
<1> QED
  BY <1>3, <1>4, <1>5, <1>6, <1>7, <1>8, <1>9, <1>10, <1>11, <1>12 DEF ConnInv

LEMMA EndServingStep ==
  ASSUME ConnInv, EndServing
  PROVE  ConnInv'
<1> USE DEF ConnInv
<1>1. /\ ppc = "serve" /\ ppc' = "ending" /\ serving' = FALSE /\ generation' = generation + 1
      /\ outstanding' = outstanding /\ nextId' = nextId
      /\ slot' = slot /\ filling' = filling
      /\ pc' = pc /\ call' = call /\ seen' = seen /\ opening' = opening /\ desc' = desc
  BY DEF EndServing, consumerVars
<1>3. StateTypes'
  <2>1. generation + 1 \in Loops
    BY <1>1, Constants DEF ThreadAgrees, StateTypes, Loops
  <2> QED
    BY <1>1, <2>1 DEF StateTypes
<1>4. ThreadAgrees'
  BY <1>1, <1>3, Constants DEF ThreadAgrees, StateTypes
<1>5. IdsAreFresh'
  BY <1>1, <1>3, Constants DEF IdsAreFresh, Waiting, StateTypes
<1>6. OneCallerPerId'
  BY <1>1, <1>3, Constants DEF OneCallerPerId, Waiting, StateTypes
<1>7. OwedIsEmpty'
  BY <1>1, <1>3, Constants DEF OwedIsEmpty, StateTypes
<1>8. WaiterIsOwed'
  BY <1>1, <1>3, Constants DEF WaiterIsOwed, Waiting, Owed, StateTypes
<1>9. OwedByThisLoop'
  BY <1>1, <1>3, Constants DEF OwedByThisLoop, Waiting, Owed, StateTypes
<1>10. AnsweredByItsLoop'
  BY <1>1, <1>3, Constants DEF AnsweredByItsLoop, Waiting, StateTypes
<1>11. NoOrphanRequest'
  BY <1>1, <1>3, Constants DEF NoOrphanRequest, Waiting, StateTypes
<1>12. ReadBeforeOpened'
  <2>1. \A n \in Loops : n <= generation => n <= generation + 1
    BY Constants DEF StateTypes
  <2>2. \A d \in Consumers : seen[d] \in Loops /\ call[d].loop \in Loops /\ desc[d].mintedBy \in Loops
    BY DEF StateTypes
  <2> QED
    BY <1>1, <2>1, <2>2 DEF ReadBeforeOpened, Waiting
<1> QED
  BY <1>3, <1>4, <1>5, <1>6, <1>7, <1>8, <1>9, <1>10, <1>11, <1>12 DEF ConnInv

LEMMA EndFailStep ==
  ASSUME ConnInv, NEW i \in Ids, EndFail(i)
  PROVE  ConnInv'
<1> USE DEF ConnInv
<1>1. /\ ppc = "ending" /\ i \in outstanding /\ SlotFree(i)
      /\ outstanding' = outstanding \ {i}
      /\ slot' = [slot EXCEPT ![i] = Dead]
      /\ nextId' = nextId /\ serving' = serving /\ generation' = generation /\ ppc' = ppc /\ filling' = filling
      /\ pc' = pc /\ call' = call /\ seen' = seen /\ opening' = opening /\ desc' = desc
  BY DEF EndFail, consumerVars
<1>3. StateTypes'
  BY <1>1 DEF StateTypes
<1>4. ThreadAgrees'
  BY <1>1, <1>3, Constants DEF ThreadAgrees, StateTypes
<1>5. IdsAreFresh'
  BY <1>1, <1>3, Constants DEF IdsAreFresh, Waiting, StateTypes
<1>6. OneCallerPerId'
  BY <1>1, <1>3, Constants DEF OneCallerPerId, Waiting, StateTypes
<1>7. OwedIsEmpty'
  BY <1>1, <1>3, SlotTags, Constants DEF OwedIsEmpty, StateTypes
<1>8. WaiterIsOwed'
  BY <1>1, <1>3, SlotTags, Constants DEF WaiterIsOwed, Waiting, Owed, StateTypes
<1>9. OwedByThisLoop'
  BY <1>1, <1>3, Constants DEF OwedByThisLoop, Waiting, Owed, StateTypes
<1>10. AnsweredByItsLoop'
  BY <1>1, <1>3, SlotTags, Constants DEF AnsweredByItsLoop, Waiting, StateTypes
<1>11. NoOrphanRequest'
  BY <1>1, <1>3, Constants DEF NoOrphanRequest, Waiting, StateTypes
<1>12. ReadBeforeOpened'
  BY <1>1, <1>3, Constants DEF ReadBeforeOpened, Waiting, StateTypes
<1> QED
  BY <1>3, <1>4, <1>5, <1>6, <1>7, <1>8, <1>9, <1>10, <1>11, <1>12 DEF ConnInv

LEMMA EndDoneStep ==
  ASSUME ConnInv, EndDone
  PROVE  ConnInv'
<1> USE DEF ConnInv
<1>1. /\ ppc = "ending" /\ outstanding = {} /\ ppc' = "down"
      /\ outstanding' = outstanding /\ nextId' = nextId /\ serving' = serving /\ generation' = generation
      /\ slot' = slot /\ filling' = filling
      /\ pc' = pc /\ call' = call /\ seen' = seen /\ opening' = opening /\ desc' = desc
  BY DEF EndDone, innerVars, consumerVars
<1>3. StateTypes'
  BY <1>1, Constants DEF StateTypes
<1>4. ThreadAgrees'
  BY <1>1, <1>3, Constants DEF ThreadAgrees, StateTypes
<1>5. IdsAreFresh'
  BY <1>1, <1>3, Constants DEF IdsAreFresh, Waiting, StateTypes
<1>6. OneCallerPerId'
  BY <1>1, <1>3, Constants DEF OneCallerPerId, Waiting, StateTypes
<1>7. OwedIsEmpty'
  BY <1>1, <1>3, Constants DEF OwedIsEmpty, StateTypes
<1>8. WaiterIsOwed'
  BY <1>1, <1>3, Constants DEF WaiterIsOwed, Waiting, Owed, StateTypes
<1>9. OwedByThisLoop'
  BY <1>1, Constants DEF OwedByThisLoop, Waiting, Owed, StateTypes, ThreadAgrees, IdsAreFresh
<1>10. AnsweredByItsLoop'
  BY <1>1, <1>3, Constants DEF AnsweredByItsLoop, Waiting, StateTypes
<1>11. NoOrphanRequest'
  BY <1>1, <1>3, Constants DEF NoOrphanRequest, Waiting, StateTypes
<1>12. ReadBeforeOpened'
  BY <1>1, <1>3, Constants DEF ReadBeforeOpened, Waiting, StateTypes
<1> QED
  BY <1>3, <1>4, <1>5, <1>6, <1>7, <1>8, <1>9, <1>10, <1>11, <1>12 DEF ConnInv
LEMMA ConnStep ==
  ASSUME ConnInv, [Next]_vars
  PROVE  ConnInv'
<1>1. ASSUME NEW c \in Consumers, Call(c)
      PROVE  ConnInv'
  BY <1>1, CallStep, CallFailsStep
<1>2. ASSUME NEW c \in Consumers, ConsumerStep(c)
      PROVE  ConnInv'
  BY <1>1, <1>2, OpenStep, UseStep, DropStep, TakeReplyStep, TimeOutStep, WithdrawStep, CastStep
     DEF ConsumerStep
<1>3. ASSUME ProviderStep
      PROVE  ConnInv'
  BY <1>3, BeginStep, NextRequestStep, ReplyTakeStep, ReplyFillStep, EndServingStep,
     EndFailStep, EndDoneStep DEF ProviderStep
<1>4. CASE UNCHANGED vars
  BY <1>4 DEF vars, ConnInv, StateTypes, ThreadAgrees, IdsAreFresh, OneCallerPerId, OwedIsEmpty,
     WaiterIsOwed, OwedByThisLoop, AnsweredByItsLoop, NoOrphanRequest, ReadBeforeOpened, Waiting, Owed
<1> QED
  BY <1>2, <1>3, <1>4 DEF Next

LEMMA ConnInvariant == Spec => []ConnInv
<1>1. Init => ConnInv
  BY InitConn
<1>2. ConnInv /\ [Next]_vars => ConnInv'
  BY ConnStep
<1> QED
  BY <1>1, <1>2, PTL DEF Spec
-----------------------------------------------------------------------------
(* What follows of it *)

\* ProviderConn::call against end_serving: once the serve loop has detached,
\* whoever waits has been answered or failed, and nobody got in behind it.
THEOREM DownNeverHangs == Spec => []DownFailsFast
<1>1. ConnInv => DownFailsFast
  <2> SUFFICES ASSUME ConnInv, ppc = "down", NEW c \in Consumers, pc[c] = "wait",
                      slot[call[c].id].tag = "empty"
               PROVE  FALSE
    BY DEF DownFailsFast
  <2>1. Waiting(c) /\ Owed(call[c].id)
    BY DEF ConnInv, WaiterIsOwed, Waiting
  <2>2. outstanding = {} /\ filling = NoCall
    BY DEF ConnInv, ThreadAgrees
  <2>3. call[c].id \in Ids
    BY <2>1 DEF ConnInv, IdsAreFresh
  <2> QED
    BY <2>1, <2>2, <2>3, Constants DEF Owed
<1> QED
  BY <1>1, ConnInvariant, PTL

\* A request that timed out is withdrawn: whatever is owed a reply has a caller
\* that still waits for it, or is just about to withdraw it.
THEOREM NoRequestOrphaned == Spec => []NoOrphanRequest
<1>1. ConnInv => NoOrphanRequest
  BY DEF ConnInv
<1> QED
  BY <1>1, ConnInvariant, PTL

\* RemoteDesc::live: a descriptor that passes the generation test carries a
\* handle of the loop that is attached, however its open raced with restarts.
THEOREM LiveHandleIsOwn == Spec => []LiveHandleIsOurs
<1>1. ConnInv => LiveHandleIsOurs
  <2> SUFFICES ASSUME ConnInv, NEW c \in Consumers, desc[c].open, desc[c].generation = generation
               PROVE  desc[c].mintedBy = generation
    BY DEF LiveHandleIsOurs
  <2>1. desc[c].mintedBy \in Loops /\ generation \in Loops
    BY DEF ConnInv, StateTypes
  <2>2. generation <= desc[c].mintedBy /\ desc[c].mintedBy <= generation
    BY DEF ConnInv, ReadBeforeOpened
  <2> QED
    BY <2>1, <2>2, Constants DEF Loops
<1> QED
  BY <1>1, ConnInvariant, PTL

-----------------------------------------------------------------------------
(* The conduit implements the service, step by step. *)

Status == [c \in Consumers |-> CallStatus(c)]
Issued == [c \in Consumers |-> call[c].loop]

\* What a call's status says.
LEMMA StatusOf ==
  ASSUME ConnInv, NEW c \in Consumers
  PROVE  /\ pc[c] = "withdraw" => CallStatus(c) = "failed"
         /\ pc[c] \notin {"wait", "withdraw"} => CallStatus(c) = "none"
         /\ pc[c] = "wait" =>
              /\ call[c].id \in Ids /\ slot[call[c].id] \in SlotValues
              /\ slot[call[c].id].tag = "empty" => CallStatus(c) = "waiting"
              /\ slot[call[c].id].tag = "dead" => CallStatus(c) = "failed"
              /\ slot[call[c].id].tag = "ok" => CallStatus(c) = "answered"
<1>1. pc[c] = "wait" => call[c].id \in Ids /\ slot[call[c].id] \in SlotValues
  BY DEF ConnInv, IdsAreFresh, Waiting, StateTypes, SlotValues
<1> QED
  BY <1>1 DEF CallStatus

\* A consumer whose thread and call stay, and whose slot does, keeps its status.
LEMMA StatusKept ==
  ASSUME NEW c \in Consumers, pc'[c] = pc[c], call'[c] = call[c],
         pc[c] = "wait" => slot'[call[c].id] = slot[call[c].id]
  PROVE  CallStatus(c)' = CallStatus(c)
BY DEF CallStatus

\* Two ways for a step to change one consumer's status only, and none's.
LEMMA OthersKept ==
  ASSUME NEW c \in Consumers,
         \A d \in Consumers \ {c} : CallStatus(d)' = CallStatus(d)
  PROVE  Status' = [Status EXCEPT ![c] = CallStatus(c)']
BY DEF Status

LEMMA AllKept ==
  ASSUME \A d \in Consumers : CallStatus(d)' = CallStatus(d)
  PROVE  Status' = Status
BY DEF Status

LEMMA InitService ==
  ASSUME Init
  PROVE  Service!Init
<1>1. \A c \in Consumers : CallStatus(c) = "none"
  BY DEF Init, CallStatus
<1>2. \A c \in Consumers : call[c].loop = 0
  BY DEF Init
<1> QED
  BY <1>1, <1>2 DEF Init, Service!Init

ServiceStep == Service!Next \/ UNCHANGED <<serving, generation, Status, Issued>>

\* Steps that a caller does not see.
LEMMA UnseenStep ==
  ASSUME serving' = serving, generation' = generation,
         \A d \in Consumers : CallStatus(d)' = CallStatus(d) /\ call'[d].loop = call[d].loop
  PROVE  ServiceStep
BY AllKept DEF ServiceStep, Issued

LEMMA IssueStep ==
  ASSUME ConnInv, NEW c \in Consumers, Call(c), ~(~serving \/ Len(queue) >= MaxQueue)
  PROVE  Service!Issue(c)
<1>1. /\ pc[c] = "enqueue" /\ serving /\ nextId <= MaxCalls
      /\ call' = [call EXCEPT ![c] = [id |-> nextId, loop |-> generation]]
      /\ pc' = [pc EXCEPT ![c] = "wait"]
      /\ slot' = slot /\ serving' = serving /\ generation' = generation
  BY DEF Call
<1>2. slot[nextId].tag = "empty" /\ nextId \in Ids
  BY <1>1, SlotTags, ProviderAssumption DEF ConnInv, IdsAreFresh, StateTypes, Ids
<1>3. CallStatus(c) = "none" /\ CallStatus(c)' = "waiting"
  BY <1>1, <1>2 DEF CallStatus, ConnInv, StateTypes
<1>4. \A d \in Consumers \ {c} : CallStatus(d)' = CallStatus(d)
  BY <1>1, StatusKept DEF ConnInv, StateTypes
<1>5. Issued' = [Issued EXCEPT ![c] = generation]
  BY <1>1 DEF Issued, ConnInv, StateTypes
<1>6. Status' = [Status EXCEPT ![c] = "waiting"]
  BY <1>3, <1>4, OthersKept
<1> QED
  BY <1>1, <1>3, <1>5, <1>6 DEF Service!Issue, Status, Issued
LEMMA TakeReplyReturns ==
  ASSUME ConnInv, NEW c \in Consumers, TakeReply(c)
  PROVE  Service!Return(c)
<1>1. /\ pc[c] = "wait" /\ slot[call[c].id].tag # "empty"
      /\ slot' = [slot EXCEPT ![call[c].id] = Empty]
      /\ pc' = [pc EXCEPT ![c] = "idle"] \/ pc' = [pc EXCEPT ![c] = "release"]
      /\ call' = [call EXCEPT ![c].id = NoCall]
      /\ serving' = serving /\ generation' = generation
  BY DEF TakeReply, Leave, innerVars
<1>2. CallStatus(c) \in {"answered", "failed"}
  BY <1>1 DEF CallStatus
<1>3. CallStatus(c)' = "none"
  BY <1>1 DEF CallStatus, ConnInv, StateTypes
<1>4. \A d \in Consumers \ {c} : CallStatus(d)' = CallStatus(d)
  <2> TAKE d \in Consumers \ {c}
  <2>1. pc'[d] = pc[d] /\ call'[d] = call[d]
    BY <1>1 DEF ConnInv, StateTypes
  <2>2. pc[d] = "wait" => call[d].id # call[c].id /\ call[d].id \in Ids
    BY <1>1 DEF ConnInv, OneCallerPerId, IdsAreFresh, Waiting
  <2>3. pc[d] = "wait" => slot'[call[d].id] = slot[call[d].id]
    BY <1>1, <2>2 DEF ConnInv, StateTypes
  <2> QED
    BY <2>1, <2>3, StatusKept
<1>5. Issued' = Issued
  BY <1>1 DEF Issued, ConnInv, StateTypes
<1>6. Status' = [Status EXCEPT ![c] = "none"]
  BY <1>3, <1>4, OthersKept
<1> QED
  BY <1>1, <1>2, <1>5, <1>6 DEF Service!Return, Status, Issued

LEMMA WithdrawReturns ==
  ASSUME ConnInv, NEW c \in Consumers, Withdraw(c)
  PROVE  Service!Return(c)
<1>1. /\ pc[c] = "withdraw" /\ slot' = slot
      /\ pc' = [pc EXCEPT ![c] = "idle"]
      /\ call' = [call EXCEPT ![c].id = NoCall]
      /\ serving' = serving /\ generation' = generation
  BY DEF Withdraw, Leave
<1>2. CallStatus(c) = "failed" /\ CallStatus(c)' = "none"
  BY <1>1 DEF CallStatus, ConnInv, StateTypes
<1>3. \A d \in Consumers \ {c} : CallStatus(d)' = CallStatus(d)
  BY <1>1, StatusKept DEF ConnInv, StateTypes
<1>4. Issued' = Issued
  BY <1>1 DEF Issued, ConnInv, StateTypes
<1>5. Status' = [Status EXCEPT ![c] = "none"]
  BY <1>2, <1>3, OthersKept
<1> QED
  BY <1>1, <1>2, <1>4, <1>5 DEF Service!Return, Status, Issued

LEMMA TimeOutFails ==
  ASSUME ConnInv, NEW c \in Consumers, TimeOut(c)
  PROVE  Service!Fail(c)
<1>1. /\ pc[c] = "wait" /\ slot[call[c].id].tag = "empty"
      /\ pc' = [pc EXCEPT ![c] = "withdraw"]
      /\ slot' = slot /\ call' = call /\ serving' = serving /\ generation' = generation
  BY DEF TimeOut, innerVars
<1>2. CallStatus(c) = "waiting" /\ CallStatus(c)' = "failed"
  BY <1>1 DEF CallStatus, ConnInv, StateTypes
<1>3. \A d \in Consumers \ {c} : CallStatus(d)' = CallStatus(d)
  BY <1>1, StatusKept DEF ConnInv, StateTypes
<1>4. Status' = [Status EXCEPT ![c] = "failed"] /\ Issued' = Issued
  BY <1>1, <1>2, <1>3, OthersKept DEF Issued
<1> QED
  BY <1>1, <1>2, <1>4 DEF Service!Fail, Status, Issued

\* A slot is filled: whoever waits for it sees that, and nobody else.
LEMMA FillStep ==
  ASSUME ConnInv, NEW i \in Ids, NEW v \in SlotValues, v # Empty, slot[i] = Empty, SlotFree(i),
         slot' = [slot EXCEPT ![i] = v], pc' = pc, call' = call
  PROVE  /\ Issued' = Issued
         /\ \/ Status' = Status
            \/ \E c \in Consumers :
                 /\ Waiting(c) /\ call[c].id = i
                 /\ Status[c] = "waiting"
                 /\ Status' = [Status EXCEPT ![c] = IF v.tag = "dead" THEN "failed" ELSE "answered"]
<1>1. Issued' = Issued
  BY DEF Issued
<1>2. slot[i].tag = "empty" /\ v.tag # "empty"
  BY SlotTags
<1>3. \A d \in Consumers : ~(pc[d] = "wait" /\ call[d].id = i) => CallStatus(d)' = CallStatus(d)
  <2> SUFFICES ASSUME NEW d \in Consumers, ~(pc[d] = "wait" /\ call[d].id = i)
               PROVE  CallStatus(d)' = CallStatus(d)
    OBVIOUS
  <2>1. pc[d] = "wait" => slot'[call[d].id] = slot[call[d].id]
    BY DEF ConnInv, StateTypes, IdsAreFresh, Waiting
  <2> QED
    BY <2>1, StatusKept
<1>4. CASE \E c \in Consumers : pc[c] = "wait" /\ call[c].id = i
  <2>1. PICK c \in Consumers : pc[c] = "wait" /\ call[c].id = i
    BY <1>4
  <2>2. \A d \in Consumers \ {c} : ~(pc[d] = "wait" /\ call[d].id = i)
    BY <2>1 DEF ConnInv, OneCallerPerId, Waiting
  <2>3. slot'[call'[c].id] = v
    BY <2>1 DEF ConnInv, StateTypes
  <2>4. CallStatus(c) = "waiting" /\ CallStatus(c)' = IF v.tag = "dead" THEN "failed" ELSE "answered"
    BY <1>2, <2>1, <2>3 DEF CallStatus
  <2>5. Status' = [Status EXCEPT ![c] = CallStatus(c)']
    BY <1>3, <2>2, OthersKept
  <2>6. Waiting(c) /\ Status[c] = "waiting"
    BY <2>1, <2>4 DEF Waiting, Status
  <2> QED
    BY <1>1, <2>1, <2>4, <2>5, <2>6
<1>5. CASE ~ \E c \in Consumers : pc[c] = "wait" /\ call[c].id = i
  BY <1>1, <1>3, <1>5, AllKept
<1> QED
  BY <1>4, <1>5

\* The loop that answers is the one that accepted the call, and it is attached.
LEMMA ReplyAnswers ==
  ASSUME ConnInv, ReplyFill
  PROVE  ServiceStep
<1>1. /\ ppc = "fill" /\ SlotFree(filling)
      /\ slot' = [slot EXCEPT ![filling] = Answered(generation)]
      /\ serving' = serving /\ generation' = generation /\ pc' = pc /\ call' = call
  BY DEF ReplyFill, innerVars, consumerVars
<1>2. /\ filling \in Ids /\ slot[filling] = Empty /\ serving
      /\ Answered(generation) \in SlotValues /\ Answered(generation).tag = "ok"
      /\ Answered(generation) # Empty
  BY <1>1, SlotTags DEF ConnInv, ThreadAgrees, OwedIsEmpty, StateTypes
<1>3. CASE Status' = Status
  BY <1>1, <1>2, <1>3, FillStep DEF ServiceStep
<1>4. CASE Status' # Status
  <2>0. \E c \in Consumers :
          /\ Waiting(c) /\ call[c].id = filling
          /\ Status[c] = "waiting"
          /\ Status' = [Status EXCEPT ![c] = IF Answered(generation).tag = "dead"
                                            THEN "failed" ELSE "answered"]
    BY <1>1, <1>2, <1>4, FillStep
  <2>1. PICK c \in Consumers : /\ Waiting(c) /\ call[c].id = filling /\ Status[c] = "waiting"
                               /\ Status' = [Status EXCEPT ![c] = "answered"]
    BY <1>2, <2>0
  <2>2. call[c].loop = generation
    BY <1>1, <2>1 DEF ConnInv, OwedByThisLoop, Owed
  <2>3. Issued' = Issued /\ Issued[c] = generation
    BY <1>1, <1>2, <2>2, FillStep DEF Issued
  <2>4. Service!Answer(c)
    BY <1>1, <1>2, <2>1, <2>3 DEF Service!Answer, Status, Issued
  <2> QED
    BY <2>4 DEF ServiceStep, Service!Next
<1> QED
  BY <1>3, <1>4

LEMMA EndFails ==
  ASSUME ConnInv, NEW i \in Ids, EndFail(i)
  PROVE  ServiceStep
<1>1. /\ i \in outstanding /\ SlotFree(i) /\ slot' = [slot EXCEPT ![i] = Dead]
      /\ serving' = serving /\ generation' = generation /\ pc' = pc /\ call' = call
  BY DEF EndFail, consumerVars
<1>2. slot[i] = Empty /\ Dead \in SlotValues /\ Dead.tag = "dead" /\ Dead # Empty
  BY <1>1, SlotTags DEF ConnInv, OwedIsEmpty
<1>3. CASE Status' = Status
  BY <1>1, <1>2, <1>3, FillStep DEF ServiceStep
<1>4. CASE Status' # Status
  <2>0. \E c \in Consumers :
          /\ Waiting(c) /\ call[c].id = i
          /\ Status[c] = "waiting"
          /\ Status' = [Status EXCEPT ![c] = IF Dead.tag = "dead" THEN "failed" ELSE "answered"]
    BY <1>1, <1>2, <1>4, FillStep
  <2>1. PICK c \in Consumers : Status[c] = "waiting" /\ Status' = [Status EXCEPT ![c] = "failed"]
    BY <1>2, <2>0
  <2>2. Issued' = Issued
    BY <1>1, <1>2, FillStep
  <2>3. Service!Fail(c)
    BY <1>1, <2>1, <2>2 DEF Service!Fail, Status, Issued
  <2> QED
    BY <2>3 DEF ServiceStep, Service!Next
<1> QED
  BY <1>3, <1>4

LEMMA LoopComesAndGoes ==
  ASSUME ConnInv, BeginServing \/ EndServing
  PROVE  ServiceStep
<1>1. Status' = Status /\ Issued' = Issued
  <2>1. pc' = pc /\ call' = call /\ slot' = slot
    BY DEF BeginServing, EndServing, consumerVars
  <2> QED
    BY <2>1, StatusKept, AllKept DEF Issued
<1>2. CASE BeginServing
  <2>1. ppc = "down" /\ serving' = TRUE /\ generation' = generation
    BY <1>2 DEF BeginServing
  <2>2. ~serving
    BY <2>1 DEF ConnInv, ThreadAgrees
  <2> QED
    BY <1>1, <2>1, <2>2 DEF ServiceStep, Service!Next, Service!Attach, Status, Issued
<1>3. CASE EndServing
  <2>1. serving /\ serving' = FALSE /\ generation' = generation + 1
    BY <1>3 DEF EndServing, ConnInv, ThreadAgrees
  <2> QED
    BY <1>1, <2>1 DEF ServiceStep, Service!Next, Service!Detach, Status, Issued
<1> QED
  BY <1>2, <1>3

\* What a consumer does between calls.
LEMMA BetweenCalls ==
  ASSUME ConnInv, NEW c \in Consumers,
         \/ Open(c) \/ Use(c) \/ Drop(c) \/ Cast(c)
         \/ Call(c) /\ (~serving \/ Len(queue) >= MaxQueue)
  PROVE  ServiceStep
<1>1. /\ pc[c] \notin {"wait", "withdraw"} /\ pc'[c] \notin {"wait", "withdraw"}
      /\ \A d \in Consumers \ {c} : pc'[d] = pc[d]
      /\ call' = call /\ slot' = slot /\ serving' = serving /\ generation' = generation
  BY DEF ConnInv, StateTypes, Open, Use, Drop, Cast, Call, innerVars
<1>2. \A d \in Consumers : CallStatus(d)' = CallStatus(d)
  <2>1. CallStatus(c)' = CallStatus(c)
    BY <1>1 DEF CallStatus
  <2> QED
    BY <1>1, <2>1, StatusKept
<1> QED
  BY <1>1, <1>2, UnseenStep

Issuing(c) == Call(c) /\ ~(~serving \/ Len(queue) >= MaxQueue)

LEMMA RefinementStep ==
  ASSUME ConnInv, [Next]_vars
  PROVE  ServiceStep
<1>1. ASSUME NEW c \in Consumers, ConsumerStep(c)
      PROVE  ServiceStep
  <2>1. CASE Issuing(c)
    BY <2>1, IssueStep DEF Issuing, ServiceStep, Service!Next
  <2>2. CASE TakeReply(c) \/ TimeOut(c) \/ Withdraw(c)
    BY <2>2, TakeReplyReturns, TimeOutFails, WithdrawReturns DEF ServiceStep, Service!Next
  <2> QED
    BY <1>1, <2>1, <2>2, BetweenCalls DEF ConsumerStep, Issuing
<1>2. ASSUME NextRequest \/ EndDone \/ UNCHANGED vars
      PROVE  ServiceStep
  <2>1. pc' = pc /\ call' = call /\ slot' = slot /\ serving' = serving /\ generation' = generation
    BY <1>2 DEF NextRequest, EndDone, vars, consumerVars, innerVars
  <2> QED
    BY <2>1, StatusKept, UnseenStep
<1>3. ASSUME NEW i \in Ids, ReplyTake(i)
      PROVE  ServiceStep
  <2>1. pc' = pc /\ call' = call /\ slot' = slot /\ serving' = serving /\ generation' = generation
    BY <1>3 DEF ReplyTake, consumerVars
  <2> QED
    BY <2>1, StatusKept, UnseenStep
<1> QED
  BY <1>1, <1>2, <1>3, ReplyAnswers, EndFails, LoopComesAndGoes DEF Next, ProviderStep

\* ProviderConn implements the service of a mount: a call is accepted by a loop
\* that is up, answered, if at all, by that same loop before it detaches, and
\* otherwise fails; whatever the queue, the deadlines and the restarts do.
THEOREM ConduitImplementsService == Spec => ImplementsService
<1>1. Init => Service!Init
  BY InitService
<1>2. ConnInv /\ [Next]_vars => [Service!Next]_(Service!vars)
  BY RefinementStep DEF ServiceStep, Service!vars, Status, Issued
<1> QED
  BY <1>1, <1>2, ConnInvariant, PTL DEF Spec, ImplementsService, Service!Spec
=============================================================================
