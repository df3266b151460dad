------------------------------ MODULE Surface ------------------------------
(* A graphical guest and its surface: wasi:surface and wasi:frame-buffer of   *)
(* plugin.rs, the compositor's drive_surfaces, and halt_guest.  The guest's   *)
(* loop is the one of every graphical plugin: wait for a frame, get it, read  *)
(* the size, paint, set the pixels.  A surface is kept in a registry shared   *)
(* by server and compositor until somebody takes it out.                      *)
EXTENDS Naturals, FiniteSets

CONSTANTS
    Sizes,          \* the sizes windows have and guests ask for
    DefaultSize,
    Headless,       \* does the server run without a window?
    MaxRuns,        \* times the node is run
    MaxResizes      \* times the user or the guest changes a size

VARIABLES
    run,        \* how often the node was run; a run has at most one surface
    guest,      \* where the guest of the current run is
    dims,       \* the size it read for the frame it is painting
    surf,       \* per run: the VirtualSurface
    registry,   \* the runs whose surface is registered
    kill,       \* the node's kill switch
    win_size,   \* the window's content size, 0 while its tab is not shown
    views,      \* per run: the texture the compositor draws
    resizes

vars == <<run, guest, dims, surf, registry, kill, win_size, views, resizes>>

Runs == 1..MaxRuns
Blank == 0
NoTexture == [size |-> 0, shows |-> Blank]
\* pixels: the size they were painted for; blank: is it the cleared buffer?
NewSurface == [size |-> DefaultSize, pixels |-> DefaultSize, blank |-> TRUE, resize |-> FALSE,
               frame_ready |-> FALSE, closed |-> FALSE, parked |-> FALSE]

Init == /\ run = 1 /\ guest = "start" /\ dims = 0
        /\ surf = [r \in Runs |-> NewSurface]
        /\ registry = {} /\ kill = FALSE
        /\ win_size \in Sizes
        /\ views = [r \in Runs |-> NoTexture]
        /\ resizes = 0

-----------------------------------------------------------------------------
(* The guest.                                                                 *)

\* HostSurface::new
New == /\ guest = "start"
       /\ registry' = registry \union {run}
       /\ guest' = "poll"
       /\ UNCHANGED <<run, dims, surf, kill, win_size, views, resizes>>

\* Mutant: a waker is not kept when the frame is not ready.
poll_unparked ==
    /\ guest = "poll"
    /\ LET ready == surf[run].frame_ready \/ surf[run].closed
       IN  /\ guest' = IF ready THEN "frame" ELSE "parked"
           /\ surf' = [surf EXCEPT ![run].frame_ready = @ /\ ~ready]
    /\ UNCHANGED <<run, dims, registry, kill, win_size, views, resizes>>

\* WaitCondition::poll of a frame pollable: a frame is taken once.
poll ==
    /\ guest = "poll"
    /\ LET ready == surf[run].frame_ready \/ surf[run].closed
       IN  /\ guest' = IF ready THEN "frame" ELSE "parked"
           /\ surf' = [surf EXCEPT ![run].frame_ready = @ /\ ~ready, ![run].parked = ~ready]
    /\ UNCHANGED <<run, dims, registry, kill, win_size, views, resizes>>

\* VirtualSurface::wake: the task of a parked guest is polled again.
GuestWoken(r) == IF r = run /\ surf[r].parked THEN "poll" ELSE guest

\* get_frame traps on a closed surface; the guest's thread then ends, and the
\* surface is in the registry unless the server took it out.
get_frame ==
    /\ guest = "frame"
    /\ guest' = IF surf[run].closed THEN "ended" ELSE "paint"
    /\ dims' = surf[run].size
    /\ UNCHANGED <<run, surf, registry, kill, win_size, views, resizes>>

\* HostBuffer::set: whatever the size has become meanwhile.
set == /\ guest = "paint"
       /\ surf' = [surf EXCEPT ![run].pixels = dims, ![run].blank = FALSE]
       /\ guest' = "poll"
       /\ UNCHANGED <<run, dims, registry, kill, win_size, views, resizes>>

request_set_size(sz) ==
    /\ guest = "paint"
    /\ resizes < MaxResizes /\ resizes' = resizes + 1
    /\ surf' = [surf EXCEPT ![run].size = sz, ![run].pixels = sz, ![run].blank = TRUE]
    /\ UNCHANGED <<run, guest, dims, registry, kill, win_size, views>>

\* The event the guest may ask for; the plugins read the size instead.
get_resize ==
    /\ guest = "paint" /\ surf[run].resize
    /\ surf' = [surf EXCEPT ![run].resize = FALSE]
    /\ UNCHANGED <<run, guest, dims, registry, kill, win_size, views, resizes>>

\* HostSurface::drop, by a guest that returns in good order.
drop ==
    /\ guest = "paint"
    /\ surf' = [surf EXCEPT ![run].closed = TRUE]
    /\ registry' = registry \ {run}
    /\ guest' = "ended"
    /\ UNCHANGED <<run, dims, kill, win_size, views, resizes>>

\* The guest traps by itself: nothing takes its surface out of the registry.
Trap ==
    /\ guest = "paint"
    /\ guest' = "ended"
    /\ UNCHANGED <<run, dims, surf, registry, kill, win_size, views, resizes>>

\* The epoch callback interrupts a guest that was killed, while it executes.
Interrupt ==
    /\ kill /\ guest \in {"start", "poll", "frame", "paint"}
    /\ guest' = "ended"
    /\ UNCHANGED <<run, dims, surf, registry, kill, win_size, views, resizes>>

-----------------------------------------------------------------------------
(* The server and the compositor.                                             *)

\* Mutant: a guest that waits is not woken.
halt_guest_quiet ==
    /\ ~kill
    /\ kill' = TRUE
    /\ surf' = [r \in Runs |-> [surf[r] EXCEPT !.closed = @ \/ r \in registry]]
    /\ registry' = {}
    /\ UNCHANGED <<run, guest, dims, win_size, views, resizes>>

\* halt_guest closes and takes out the surfaces there are.
halt_guest ==
    /\ ~kill
    /\ kill' = TRUE
    /\ surf' = [r \in Runs |-> IF r \in registry THEN [surf[r] EXCEPT !.closed = TRUE, !.parked = FALSE]
                               ELSE surf[r]]
    /\ guest' = IF run \in registry THEN GuestWoken(run) ELSE guest
    /\ registry' = {}
    /\ UNCHANGED <<run, dims, win_size, views, resizes>>

Run == /\ guest = "ended" /\ run < MaxRuns
       /\ run' = run + 1
       /\ guest' = "start"
       /\ kill' = FALSE
       /\ UNCHANGED <<dims, surf, registry, win_size, views, resizes>>

\* The window is resized, or its tab left and shown again.
ResizeWindow(sz) ==
    /\ sz # win_size
    /\ resizes < MaxResizes /\ resizes' = resizes + 1
    /\ win_size' = sz
    /\ UNCHANGED <<run, guest, dims, surf, registry, kill, views>>

Fitted(s) ==
    IF win_size = 0 \/ s.size = win_size THEN s
    ELSE [s EXCEPT !.size = win_size, !.pixels = win_size, !.blank = TRUE, !.resize = TRUE]
\* The pixels are taken if they have the surface's size; a texture of another
\* size is replaced.
Drawn(tex, s) ==
    LET shows == IF s.pixels # s.size \/ s.blank THEN Blank ELSE s.pixels
    IN  IF tex.size # s.size THEN [size |-> s.size, shows |-> shows]
        ELSE IF s.pixels = s.size THEN [tex EXCEPT !.shows = shows] ELSE tex

\* One frame of the compositor: textures of surfaces that are gone are freed;
\* every surface is fitted to its window, drawn, and its guest told to paint.
drive_surfaces ==
    /\ ~Headless
    /\ surf' = [r \in Runs |-> IF r \in registry
                               THEN [Fitted(surf[r]) EXCEPT !.frame_ready = TRUE, !.parked = FALSE]
                               ELSE surf[r]]
    /\ views' = [r \in Runs |-> IF r \in registry THEN Drawn(views[r], Fitted(surf[r])) ELSE NoTexture]
    /\ guest' = IF run \in registry THEN GuestWoken(run) ELSE guest
    /\ UNCHANGED <<run, dims, registry, kill, win_size, resizes>>

Next ==
    \/ New \/ poll \/ get_frame \/ set \/ get_resize \/ drop \/ Trap \/ Interrupt
    \/ \E sz \in Sizes : request_set_size(sz)
    \/ halt_guest \/ Run
    \/ \E sz \in Sizes \union {0} : ResizeWindow(sz)
    \/ drive_surfaces

\* The guest runs and the window draws frame after frame.  The epoch ticks by
\* itself: a deadline passed while the guest waited is met at its next step, so
\* a guest that executes again and again is interrupted.
Fairness == /\ WF_vars(New) /\ WF_vars(poll) /\ WF_vars(get_frame) /\ WF_vars(set)
            /\ WF_vars(drive_surfaces)
            /\ SF_vars(Interrupt)
Spec == Init /\ [][Next]_vars /\ Fairness

-----------------------------------------------------------------------------
(* Properties.                                                                *)

TypeOK == /\ guest \in {"start", "poll", "parked", "frame", "paint", "ended"}
          /\ registry \subseteq Runs
          /\ \A r \in Runs : surf[r].size \in Sizes /\ views[r].size \in Sizes \union {0}

\* Once sizes no longer change and the guest keeps running, the window shows a
\* frame painted for its own size: a frame painted for a size the window just
\* left, or for one the guest asked for, is skipped and never the last one
\* (drive_surfaces, WaitCondition, HostBuffer::set).
ScreenFollowsWindow ==
    \A sz \in Sizes :
        <>[](win_size = sz /\ guest \notin {"start", "ended"} /\ ~kill)
            => <>[](views[run] = [size |-> sz, shows |-> sz])

\* A guest that is halted ends, also one waiting for a frame, and one that made
\* its surface only after halt_guest had closed the surfaces there were.
HaltedGuestEnds == kill ~> guest = "ended"

(* What does not hold.                                                        *)

\* server.rs, halt_guest: "closes+removes any surface it owns ... (and no stale
\* surface lingers)".  A surface made after the halt, and that of a guest that
\* trapped, stay in the registry.
NoStaleSurface == guest = "ended" => run \notin registry
=============================================================================
