------------------------------ MODULE MCClient ------------------------------
(* What a person at the screen works with: the window client, or (part) the  *)
(* terminal of one node.  They share no state here.                          *)
(*                                                                           *)
(* Two tabs and one that can be created; an app, a volume that can be wired  *)
(* to it and a note on the first tab, an uplink on the second.               *)
EXTENDS Client, Terminal

CONSTANTS t1, t2, t3, a, b, vol, note

MCTabs == <<t1, t2>>
MCKindOf == [x \in Node |-> CASE x = vol -> "file" [] x = b -> "uplink" [] x = note -> "note" [] OTHER -> "app"]
MCHomeTab == [x \in Node |-> IF x = b THEN t2 ELSE t1]
MCWireable == {<<vol, a>>}
-----------------------------------------------------------------------------
VARIABLE part

MCInit == /\ part \in {"client", "terminal"} /\ ClientInit /\ TermInit
          /\ part = "client" => fit = 1
MCNext ==
  \/ part = "client" /\ ClientNext /\ UNCHANGED <<part, termVars>>
  \/ part = "terminal" /\ TermNext /\ UNCHANGED <<part, clientVars>>
MCSpec == MCInit /\ [][MCNext]_<<part, clientVars, termVars>>
=============================================================================
