---------------------------- MODULE ProviderConn ----------------------------
(***************************************************************************)
(* The conduit between consumer nodes and a node that serves a filesystem: *)
(* ProviderConn, the descriptors that hold handles across it, and the      *)
(* serve loop on the provider's guest thread.                              *)
(*                                                                         *)
(* Two kinds of lock matter.  The conduit's own lock is held for one step  *)
(* by everybody but end_serving, which keeps it while it fails the calls   *)
(* in flight one by one.  A call's slot lock is held for one step too,     *)
(* except by a caller that timed out, which keeps it while it waits for    *)
(* the conduit's lock to withdraw its request.                             *)
(***************************************************************************)
EXTENDS Naturals, Sequences, FiniteSets

CONSTANTS
  Consumers,  \* consumer threads
  MaxQueue,   \* MAX_QUEUE: queued requests the conduit accepts
  MaxCalls,   \* bound: requests ever issued
  MaxLoops    \* bound: serve loops ever detached

ASSUME ProviderAssumption ==
  /\ MaxQueue \in Nat \ {0}
  /\ MaxCalls \in Nat \ {0}
  /\ MaxLoops \in Nat

VARIABLES
  queue,        \* requests not yet claimed: their ids and the handles they carry
  outstanding,  \* ids still owed a reply
  nextId,
  serving,
  generation,   \* serve loops that have detached
  slot,         \* reply slot of each call
  ppc,          \* the provider's thread
  filling,      \* the slot reply has taken and not filled yet
  pc,           \* consumer threads
  call,         \* the call a consumer is in: its id and the loop that accepted it
  seen,         \* the generation a consumer read before opening
  opening,      \* is the call an open?
  desc          \* the descriptor a consumer holds

vars == <<queue, outstanding, nextId, serving, generation, slot, ppc, filling,
          pc, call, seen, opening, desc>>

innerVars == <<queue, outstanding, nextId, serving, generation>>
consumerVars == <<pc, call, seen, opening, desc>>

Ids == 1..MaxCalls
NoCall == 0
Loops == 0..MaxLoops

Empty == [tag |-> "empty", loop |-> 0]
Dead  == [tag |-> "dead", loop |-> 0]
Answered(l) == [tag |-> "ok", loop |-> l]

NoDesc == [open |-> FALSE, generation |-> 0, mintedBy |-> 0]

\* A handle in a request, named by the loop that minted it; NoHandle in an
\* open or a path operation.
NoHandle == MaxLoops + 1

TypeOK ==
  /\ queue \in Seq([id : Ids, handle : 0..NoHandle])
  /\ outstanding \subseteq Ids
  /\ nextId \in 1..(MaxCalls + 1)
  /\ serving \in BOOLEAN
  /\ generation \in Loops
  /\ slot \in [Ids -> {Empty, Dead} \cup {Answered(l) : l \in Loops}]
  /\ ppc \in {"down", "serve", "fill", "ending"}
  /\ filling \in Ids \cup {NoCall}
  /\ pc \in [Consumers -> {"idle", "enqueue", "release", "wait", "withdraw"}]
  /\ call \in [Consumers -> [id : Ids \cup {NoCall}, loop : Loops]]
  /\ seen \in [Consumers -> Loops]
  /\ opening \in [Consumers -> BOOLEAN]
  /\ desc \in [Consumers -> [open : BOOLEAN, generation : Loops, mintedBy : Loops]]

Init ==
  /\ queue = <<>>
  /\ outstanding = {}
  /\ nextId = 1
  /\ serving = FALSE
  /\ generation = 0
  /\ slot = [i \in Ids |-> Empty]
  /\ ppc = "down"
  /\ filling = NoCall
  /\ pc = [c \in Consumers |-> "idle"]
  /\ call = [c \in Consumers |-> [id |-> NoCall, loop |-> 0]]
  /\ seen = [c \in Consumers |-> 0]
  /\ opening = [c \in Consumers |-> FALSE]
  /\ desc = [c \in Consumers |-> NoDesc]

InnerFree == ppc # "ending"
SlotFree(i) == \A c \in Consumers : ~(pc[c] = "withdraw" /\ call[c].id = i)

-----------------------------------------------------------------------------
(* Consumer c *)

\* remote_open reads the generation and then calls.
Open(c) ==
  /\ InnerFree
  /\ pc[c] = "idle"
  /\ ~desc[c].open
  /\ seen' = [seen EXCEPT ![c] = generation]
  /\ opening' = [opening EXCEPT ![c] = TRUE]
  /\ pc' = [pc EXCEPT ![c] = "enqueue"]
  /\ UNCHANGED <<innerVars, slot, ppc, filling, call, desc>>

\* A read, write or resize through a handle of a loop that is gone fails at
\* once; any other one calls.
Use(c) ==
  /\ InnerFree
  /\ pc[c] = "idle"
  /\ desc[c].open
  /\ desc[c].generation = generation
  /\ opening' = [opening EXCEPT ![c] = FALSE]
  /\ pc' = [pc EXCEPT ![c] = "enqueue"]
  /\ UNCHANGED <<innerVars, slot, ppc, filling, call, seen, desc>>

\* Dropping a descriptor releases its handle if the loop that minted it is there.
Drop(c) ==
  /\ InnerFree
  /\ pc[c] = "idle"
  /\ desc[c].open
  /\ IF desc[c].generation = generation
       THEN pc' = [pc EXCEPT ![c] = "release"] /\ UNCHANGED desc
       ELSE desc' = [desc EXCEPT ![c] = NoDesc] /\ UNCHANGED pc
  /\ UNCHANGED <<innerVars, slot, ppc, filling, call, seen, opening>>

Request(c, i) ==
  [id |-> i, handle |-> IF opening[c] THEN NoHandle ELSE desc[c].mintedBy]

\* ProviderConn::call up to the wait.
CallUnchecked(c) ==  \* mutant: serving is not looked at
  /\ InnerFree
  /\ pc[c] = "enqueue"
  /\ Len(queue) < MaxQueue
  /\ nextId <= MaxCalls
  /\ nextId' = nextId + 1
  /\ queue' = Append(queue, Request(c, nextId))
  /\ outstanding' = outstanding \cup {nextId}
  /\ call' = [call EXCEPT ![c] = [id |-> nextId, loop |-> generation]]
  /\ pc' = [pc EXCEPT ![c] = "wait"]
  /\ UNCHANGED <<serving, generation, slot, ppc, filling, seen, opening, desc>>

Call(c) ==
  /\ InnerFree
  /\ pc[c] = "enqueue"
  /\ IF ~serving \/ Len(queue) >= MaxQueue
       THEN /\ pc' = [pc EXCEPT ![c] = "idle"]
            /\ UNCHANGED <<innerVars, call>>
       ELSE /\ nextId <= MaxCalls
            /\ nextId' = nextId + 1
            /\ queue' = Append(queue, Request(c, nextId))
            /\ outstanding' = outstanding \cup {nextId}
            /\ call' = [call EXCEPT ![c] = [id |-> nextId, loop |-> generation]]
            /\ pc' = [pc EXCEPT ![c] = "wait"]
            /\ UNCHANGED <<serving, generation>>
  /\ UNCHANGED <<slot, ppc, filling, seen, opening, desc>>

\* The call is over; the waiter is done with its slot.
Leave(c, to) ==
  /\ pc' = [pc EXCEPT ![c] = to]
  /\ call' = [call EXCEPT ![c].id = NoCall]

\* The waiter finds its slot filled.  A successful open mints a descriptor, or
\* releases the handle at once when the entry is not the directory asked for.
TakeReplyReadsLate(c) ==  \* mutant: the generation is read after the answer
  LET i == call[c].id IN
  /\ InnerFree
  /\ pc[c] = "wait"
  /\ slot[i].tag # "empty"
  /\ desc' = [desc EXCEPT ![c] =
                IF opening[c] /\ slot[i].tag = "ok"
                THEN [open |-> TRUE, generation |-> generation, mintedBy |-> slot[i].loop]
                ELSE @]
  /\ slot' = [slot EXCEPT ![i] = Empty]
  /\ Leave(c, "idle")
  /\ UNCHANGED <<innerVars, ppc, filling, seen, opening>>

TakeReply(c) ==
  LET i == call[c].id
      opened == opening[c] /\ slot[i].tag = "ok"
  IN /\ pc[c] = "wait"
     /\ slot[i].tag # "empty"
     /\ desc' = [desc EXCEPT ![c] =
                   IF opened
                   THEN [open |-> TRUE, generation |-> seen[c], mintedBy |-> slot[i].loop]
                   ELSE @]
     /\ slot' = [slot EXCEPT ![i] = Empty]
     /\ Leave(c, "idle") \/ (opened /\ Leave(c, "release"))
     /\ UNCHANGED <<innerVars, ppc, filling, seen, opening>>

\* The deadline passes on an empty slot; the slot's lock is kept.
TimeOut(c) ==
  /\ pc[c] = "wait"
  /\ slot[call[c].id].tag = "empty"
  /\ pc' = [pc EXCEPT ![c] = "withdraw"]
  /\ UNCHANGED <<innerVars, slot, ppc, filling, call, seen, opening, desc>>

WithdrawNothing(c) ==  \* mutant: the request stays where it is
  /\ InnerFree
  /\ pc[c] = "withdraw"
  /\ Leave(c, "idle")
  /\ UNCHANGED <<innerVars, slot, ppc, filling, seen, opening, desc>>

Withdraw(c) ==
  /\ InnerFree
  /\ pc[c] = "withdraw"
  /\ outstanding' = outstanding \ {call[c].id}
  /\ queue' = SelectSeq(queue, LAMBDA r : r.id # call[c].id)
  /\ Leave(c, "idle")
  /\ UNCHANGED <<nextId, serving, generation, slot, ppc, filling, seen, opening, desc>>

\* ProviderConn::cast of the release.
Cast(c) ==
  /\ InnerFree
  /\ pc[c] = "release"
  /\ IF ~serving \/ Len(queue) >= MaxQueue
       THEN UNCHANGED <<queue, nextId>>
       ELSE /\ nextId <= MaxCalls
            /\ nextId' = nextId + 1
            /\ queue' = Append(queue, [id |-> nextId, handle |-> desc[c].mintedBy])
  /\ desc' = [desc EXCEPT ![c] = NoDesc]
  /\ pc' = [pc EXCEPT ![c] = "idle"]
  /\ UNCHANGED <<outstanding, serving, generation, slot, ppc, filling, call, seen, opening>>

-----------------------------------------------------------------------------
(* The provider's guest thread *)

BeginServing ==
  /\ ppc = "down"
  /\ generation < MaxLoops
  /\ ppc' = "serve"
  /\ serving' = TRUE
  /\ UNCHANGED <<queue, outstanding, nextId, generation, slot, filling, consumerVars>>

NextRequest ==
  /\ ppc = "serve"
  /\ queue # <<>>
  /\ queue' = Tail(queue)
  /\ UNCHANGED <<outstanding, nextId, serving, generation, slot, ppc, filling, consumerVars>>

\* The guest answers a request, claimed or not; an id nobody waits for is dropped.
ReplyTake(i) ==
  /\ ppc = "serve"
  /\ i \in outstanding
  /\ outstanding' = outstanding \ {i}
  /\ filling' = i
  /\ ppc' = "fill"
  /\ UNCHANGED <<queue, nextId, serving, generation, slot, consumerVars>>

ReplyFill ==
  /\ ppc = "fill"
  /\ SlotFree(filling)
  /\ slot' = [slot EXCEPT ![filling] = Answered(generation)]
  /\ ppc' = "serve"
  /\ filling' = NoCall
  /\ UNCHANGED <<innerVars, consumerVars>>

\* end_serving: everything under the conduit's lock, then slot by slot.
EndServing ==
  /\ ppc = "serve"
  /\ ppc' = "ending"
  /\ serving' = FALSE
  /\ generation' = generation + 1
  /\ queue' = <<>>
  /\ UNCHANGED <<outstanding, nextId, slot, filling, consumerVars>>

EndFail(i) ==
  /\ ppc = "ending"
  /\ i \in outstanding
  /\ SlotFree(i)
  /\ outstanding' = outstanding \ {i}
  /\ slot' = [slot EXCEPT ![i] = Dead]
  /\ UNCHANGED <<queue, nextId, serving, generation, ppc, filling, consumerVars>>

EndDoneEarly ==  \* mutant: calls in flight are not failed
  /\ ppc = "ending"
  /\ ppc' = "down"
  /\ UNCHANGED <<innerVars, slot, filling, consumerVars>>

EndDone ==
  /\ ppc = "ending"
  /\ outstanding = {}
  /\ ppc' = "down"
  /\ UNCHANGED <<innerVars, slot, filling, consumerVars>>

-----------------------------------------------------------------------------
ConsumerStep(c) ==
  \/ Open(c) \/ Use(c) \/ Drop(c) \/ Call(c)
  \/ TakeReply(c) \/ TimeOut(c) \/ Withdraw(c) \/ Cast(c)

ProviderStep ==
  \/ BeginServing \/ NextRequest \/ ReplyFill \/ EndServing \/ EndDone
  \/ \E i \in Ids : ReplyTake(i) \/ EndFail(i)

Next == ProviderStep \/ \E c \in Consumers : ConsumerStep(c)

(***************************************************************************)
(* Threads that can run do run, and a deadline passes.  No guest has to    *)
(* open, use, answer or exit.                                              *)
(***************************************************************************)
Fairness ==
  /\ WF_vars(ReplyFill)
  /\ WF_vars(EndDone \/ \E i \in Ids : EndFail(i))
  /\ \A c \in Consumers :
       WF_vars(Call(c) \/ TakeReply(c) \/ TimeOut(c) \/ Withdraw(c) \/ Cast(c))

Spec == Init /\ [][Next]_vars
FairSpec == Spec /\ Fairness

-----------------------------------------------------------------------------
(* Properties *)

Waiting(c) == pc[c] \in {"wait", "withdraw"}

(* A provider that is down answers nobody and keeps nobody: once the serve  *)
(* loop has detached, every call in flight has been failed, and none gets   *)
(* in behind it.                                                            *)
DownFailsFast ==
  ppc = "down" => \A c \in Consumers : pc[c] = "wait" => slot[call[c].id].tag # "empty"

(* "Withdraw the request so a later answer is dropped instead of filling a  *)
(* slot nobody waits on": whatever is owed a reply has a caller, and so has *)
(* every queued request that is owed one.                                   *)
NoOrphanRequest ==
  \A i \in outstanding : \E c \in Consumers : Waiting(c) /\ call[c].id = i

(* A descriptor passes the liveness test only while the loop that minted    *)
(* its handle is the one attached, however the open raced with a restart:   *)
(* the generation is read before the open is sent, so a race can only make  *)
(* the descriptor look stale, never fresh.                                  *)
LiveHandleIsOurs ==
  \A c \in Consumers :
    desc[c].open /\ desc[c].generation = generation => desc[c].mintedBy = generation

(* A handle is only ever sent to the loop that minted it: stale handles are *)
(* "refused (EIO), never replayed against the new incarnation" (RemoteDesc). *)
NoStaleHandle ==
  \A k \in DOMAIN queue : queue[k].handle \in {NoHandle, generation}

(* Every call ends: "Failure is EIO, never a hang" (provider.rs).           *)
EveryCallReturns ==
  \A c \in Consumers : pc[c] = "wait" ~> pc[c] # "wait" /\ pc[c] # "withdraw"

-----------------------------------------------------------------------------
(* The conduit implements the service a mount promises. *)

CallStatus(c) ==
  IF pc[c] = "withdraw" THEN "failed"
  ELSE IF pc[c] # "wait" THEN "none"
  ELSE IF slot[call[c].id].tag = "empty" THEN "waiting"
  ELSE IF slot[call[c].id].tag = "dead" THEN "failed"
  ELSE "answered"

Service == INSTANCE FsService WITH
  up <- serving,
  loop <- generation,
  status <- [c \in Consumers |-> CallStatus(c)],
  issued <- [c \in Consumers |-> call[c].loop]

(* A call is accepted by a loop that is up and answered, if at all, by that *)
(* same loop before it detaches.                                            *)
ImplementsService == Service!Spec
=============================================================================
