--------------------------- MODULE MCProviderConn ---------------------------
(* Two consumers share a provider that is restarted once.  Or (part) a guest  *)
(* that paints its surface, and is stopped and run again.  The two share no   *)
(* state.  What is checked of the provider is safety; fairness is asked for   *)
(* the surface.                                                               *)
EXTENDS ProviderConn

VARIABLES part, run, guest, dims, surf, registry, kill, win_size, views, resizes
sfVars == <<run, guest, dims, surf, registry, kill, win_size, views, resizes>>
Sf == INSTANCE Surface WITH
        Sizes <- {1, 2}, DefaultSize <- 1, Headless <- FALSE, MaxRuns <- 2, MaxResizes <- 2

MCInit == /\ part \in {"provider", "surface"} /\ Init /\ Sf!Init
          /\ part = "provider" => win_size = 1
MCNext == \/ part = "provider" /\ Next /\ UNCHANGED <<part, sfVars>>
          \/ part = "surface" /\ Sf!Next /\ UNCHANGED <<part, vars>>
MCSpec == MCInit /\ [][MCNext]_<<part, vars, sfVars>> /\ Sf!Fairness

\* In the end the window shows a frame painted for its own size.
ScreenFollowsWindow == Sf!ScreenFollowsWindow
\* A guest that is halted ends, whenever it made its surface.
HaltedGuestEnds == Sf!HaltedGuestEnds
=============================================================================
