----------------------------- MODULE FsService -----------------------------
(***************************************************************************)
(* What a provider mount promises its consumers, without queues, slots or  *)
(* locks: a call is accepted only by a serve loop that is up, is answered  *)
(* only by that same loop while it is still up, and can fail at any time.  *)
(***************************************************************************)
EXTENDS Naturals

CONSTANT Consumers

VARIABLES up,      \* is a serve loop attached?
          loop,    \* which one: how many have detached before it
          status,  \* of each consumer's call
          issued   \* the loop each consumer's call was accepted by

vars == <<up, loop, status, issued>>

Init ==
  /\ up = FALSE
  /\ loop = 0
  /\ status = [c \in Consumers |-> "none"]
  /\ issued = [c \in Consumers |-> 0]

Attach ==
  /\ ~up
  /\ up' = TRUE
  /\ UNCHANGED <<loop, status, issued>>

Detach ==
  /\ up
  /\ up' = FALSE
  /\ loop' = loop + 1
  /\ UNCHANGED <<status, issued>>

Issue(c) ==
  /\ up
  /\ status[c] = "none"
  /\ status' = [status EXCEPT ![c] = "waiting"]
  /\ issued' = [issued EXCEPT ![c] = loop]
  /\ UNCHANGED <<up, loop>>

Answer(c) ==
  /\ up
  /\ status[c] = "waiting"
  /\ issued[c] = loop
  /\ status' = [status EXCEPT ![c] = "answered"]
  /\ UNCHANGED <<up, loop, issued>>

Fail(c) ==
  /\ status[c] = "waiting"
  /\ status' = [status EXCEPT ![c] = "failed"]
  /\ UNCHANGED <<up, loop, issued>>

Return(c) ==
  /\ status[c] \in {"answered", "failed"}
  /\ status' = [status EXCEPT ![c] = "none"]
  /\ UNCHANGED <<up, loop, issued>>

Next ==
  \/ Attach
  \/ Detach
  \/ \E c \in Consumers : Issue(c) \/ Answer(c) \/ Fail(c) \/ Return(c)

Spec == Init /\ [][Next]_vars
=============================================================================
