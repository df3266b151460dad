----------------------------- MODULE Sequencer -----------------------------
(* The sequencer node (plugins/sequencer): the piano roll's edits with undo,  *)
(* recording from MIDI, the transport that runs ahead of the clock (Scheduler *)
(* of wk-sequence), and its two documents, the node's options and the MIDI    *)
(* file wired to it.  Time is counted in units of 25 ms.  The keys and clicks *)
(* of a frame are actions of their own; EndFrame is the rest of the frame:    *)
(* queue the music, look at the file, store the options.                      *)
EXTENDS Song

CONSTANTS
    UNDO_LIMIT,
    Channels,      \* the channels tracks are put on
    Pitches,       \* the rows the player clicks and the keys it plays
    PlayChannel,   \* the channel of the player's keyboard
    OldOptions,    \* what the options may hold when the node first starts
    OtherFiles,    \* what another program may write into the file
    Sessions,      \* which kinds of things are done together
    MaxActs,       \* how many clicks, keys and outside changes there are
    MaxClock       \* how long it plays

ASSUME SequencerAssumption == UNDO_LIMIT \in Nat

VARIABLES
    song,
    sched,      \* Scheduler: [us, origin, next, running, on]
    transport,  \* "stopped", "playing" or "recording"
    pattern, track, song_mode, selected,
    undo, redo,
    pending,    \* notes being recorded: pitch -> [pattern, idx, abs, track]
    drag,       \* the mouse edit under way: [kind, idx, doff, poff]
    file,       \* has a MIDI file been adopted as the document?
    unsaved,    \* does the song differ from what the file holds?
    dirty,      \* must the options be stored again?
    options,    \* what wk:options holds for the node
    disk,       \* the file wired to the node: [kind, bytes]
    stale,      \* was it changed since the sequencer read or wrote it?
    base,       \* the song when last started, loaded, adopted or saved
    clock,
    final,      \* per (channel, pitch), and the transport, its last message in time
    earlier,    \* history: `final` when the guest was last run again
    held,       \* the keys the player holds down
    trapped,    \* has the guest trapped?
    session,    \* the kinds of things done in this behaviour
    acts

doc == <<song, selected, undo, redo>>
view == <<pattern, track, song_mode>>
files == <<file, disk, stale, base>>
play == <<sched, transport, final, earlier, clock>>
vars == <<song, sched, transport, pattern, track, song_mode, selected, undo, redo, pending, drag,
          file, unsaved, dirty, options, disk, stale, base, clock, final, earlier, held, trapped, session, acts>>

NoKeys == [p \in {} |-> 0]
NoDrag == [kind |-> "none", idx |-> 0, doff |-> 0, poff |-> 0]
NoFile == [kind |-> "none", bytes |-> NotAFile]
CutShort == [kind |-> "empty", bytes |-> NotAFile]
Keys == Channels \X Pitches
\* The row of Start and Stop messages in `final`.
Transport == <<-1, 0>>
Steps == song.patterns[pattern].steps
Playback == IF song_mode THEN song.chain ELSE <<pattern>>

-----------------------------------------------------------------------------
(* The transport.                                                             *)

LOOKAHEAD == 3   \* 60 ms, rounded up to whole units
MAX_STEPS_PER_PUMP == 256
step_micros(bpm) == bpm \div 100
step_instant(s, i) == s.origin + i * s.us
NewScheduler(bpm) == [us |-> step_micros(bpm), origin |-> 0, next |-> 0,
                      running |-> FALSE, on |-> {}]

\* The nearest step to an instant.
step_of(s, instant) == Round(instant - s.origin, s.us)

\* A new tempo holds from the next boundary still to be queued, which stays put.
set_bpm(s, bpm) ==
    LET pivot == step_instant(s, s.next)
    IN  [s EXCEPT !.us = step_micros(bpm), !.origin = pivot - s.next * step_micros(bpm)]

\* What a receiver that orders messages by their instant is left with.
Silence == [time |-> 0, on |-> FALSE]
Send(f, keys, on, time) ==
    [k \in DOMAIN f |-> IF k \in keys /\ time >= f[k].time THEN [time |-> time, on |-> on] ELSE f[k]]

Wanted(s, order, suppress, abs) ==
    LET pos == locate(s, order, abs)
        p == s.patterns[pos.pattern]
    IN  IF pos = Nowhere THEN {}
        ELSE UNION {{<<s.tracks[t].channel, p.notes[t][i].pitch>> :
                        i \in {j \in DOMAIN p.notes[t] : Covers(p.notes[t][j], pos.step, p.steps)}}
                    : t \in {u \in Tracks : ~s.tracks[u].muted}} \ suppress

\* schedule_step: release what should no longer sound, then start what should.
schedule_step(st, abs, s, order, suppress) ==
    LET want == Wanted(s, order, suppress, abs)
        at == AtLeast(step_instant(st.sched, abs), 0)
        offs == Send(st.final, st.sched.on \ want, FALSE, at)
    IN  [sched |-> [st.sched EXCEPT !.on = want, !.next = abs + 1],
         final |-> Send(offs, want \ st.sched.on, TRUE, at)]

\* Every boundary inside the look-ahead window.
pump(now, suppress) ==
    LET last == (now + LOOKAHEAD - 1 - sched.origin) \div sched.us
        due == AtMost(last - sched.next + 1, MAX_STEPS_PER_PUMP)
        steps == [k \in 1..due |-> sched.next + k - 1]
    IN  IF ~sched.running THEN [sched |-> sched, final |-> final]
        ELSE FoldLeft(LAMBDA st, abs : schedule_step(st, abs, song, Playback, suppress),
                      [sched |-> sched, final |-> final], steps)

\* Mutant: the releases are stamped with now, before notes already queued.
stop_now ==
    /\ sched' = [sched EXCEPT !.on = {}, !.running = FALSE]
    /\ final' = Send(Send(final, sched.on, FALSE, clock), {Transport}, FALSE, clock)
    /\ transport' = "stopped"
    /\ pending' = NoKeys

\* Releases are stamped with the end of what is queued, never with now.
stop ==
    LET at == AtLeast(step_instant(sched, sched.next), 0)
    IN  /\ sched' = [sched EXCEPT !.on = {}, !.running = FALSE]
        /\ final' = Send(Send(final, sched.on, FALSE, at), {Transport}, FALSE, at)
        /\ transport' = "stopped"
        /\ pending' = NoKeys

\* A button stops its own mode, and switches from the other one without
\* disturbing the clock; from rest the music starts at the top.
PressTransport(mode) ==
    /\ IF transport = mode THEN stop
       ELSE /\ transport' = mode
            /\ IF transport = "stopped"
               THEN /\ sched' = [sched EXCEPT !.origin = clock, !.next = 0, !.on = {},
                                              !.running = TRUE]
                    /\ final' = Send(final, {Transport}, TRUE, clock)
               ELSE UNCHANGED <<sched, final>>
            /\ UNCHANGED pending
    /\ UNCHANGED <<doc, view, files, clock, earlier, drag, unsaved, dirty, options, held, trapped>>

-----------------------------------------------------------------------------
(* Editing.                                                                   *)

Checkpointed == IF Len(undo) = UNDO_LIMIT THEN Append(Tail(undo), song) ELSE Append(undo, song)
checkpoint == undo' = Checkpointed /\ redo' = <<>>
\* Mutant: the song is marked for the options only.
touched_dirty == dirty' = TRUE /\ UNCHANGED unsaved
touched == dirty' = TRUE /\ unsaved' = TRUE

Idle == UNCHANGED <<view, files, play, pending, options, held, trapped>>

\* A click in the roll grabs the topmost note under it, by its right edge or by
\* its body, or draws a note one step long and grabs its edge.
roll_click(step, pitch, edge) ==
    LET idx == note_at(song.patterns[pattern], track, step, pitch)
        n == song.patterns[pattern].notes[track][idx]
        drawn == add_note(song.patterns[pattern], track, NoteOf(step, pitch, 1, DEFAULT_VEL))
    IN  /\ step < Steps
        /\ checkpoint
        /\ IF idx # 0
           THEN /\ edge => step = n.step + n.len - 1
                /\ selected' = idx
                /\ drag' = IF edge THEN [NoDrag EXCEPT !.kind = "resize", !.idx = idx]
                           ELSE [kind |-> "move", idx |-> idx, doff |-> n.step - step,
                                 poff |-> n.pitch - pitch]
                /\ UNCHANGED <<song, dirty, unsaved>>
           ELSE /\ ~edge
                /\ song' = [song EXCEPT !.patterns[pattern] = drawn]
                /\ selected' = Len(drawn.notes[track])
                /\ drag' = [NoDrag EXCEPT !.kind = "resize", !.idx = Len(drawn.notes[track])]
                /\ touched
        /\ Idle

WithNote(idx, n) == [song EXCEPT !.patterns[pattern].notes[track][idx] = n]
Changed(new) == /\ song' = new
                /\ IF new = song THEN UNCHANGED <<dirty, unsaved>> ELSE touched

\* The pointer moves to a cell while a note is grabbed.  The index is looked up
\* in the pattern and track now being edited.  A resize clamps to a range that
\* is empty when that note starts past the end of the pattern: the guest traps.
drag_note(step, pitch) ==
    LET notes == song.patterns[pattern].notes[track]
        n == notes[drag.idx]
        moved == [n EXCEPT !.step = AtMost(AtLeast(step + drag.doff, 0), AtLeast(Steps - n.len, 0)),
                           !.pitch = Clamp(pitch + drag.poff, 0, 127)]
        sized == [n EXCEPT !.len = Clamp(step - n.step + 1, 1, Steps - n.step)]
    IN  /\ drag.kind \in {"move", "resize"}
        /\ drag.idx \in DOMAIN notes
        /\ IF drag.kind = "resize" /\ Steps - n.step < 1
           THEN trapped' = TRUE /\ UNCHANGED <<song, dirty, unsaved>>
           ELSE /\ Changed(WithNote(drag.idx, IF drag.kind = "move" THEN moved ELSE sized))
                /\ UNCHANGED trapped
        /\ UNCHANGED <<view, files, play, pending, options, held, drag, selected, undo, redo>>

\* The velocity lane: every note that starts in the column.
Painted(step, vel) ==
    [song EXCEPT !.patterns[pattern].notes[track] =
        [i \in DOMAIN @ |-> IF @[i].step = step THEN [@[i] EXCEPT !.vel = vel] ELSE @[i]]]
paint_velocity(step, vel) ==
    /\ step < Steps
    /\ \/ /\ drag' = [NoDrag EXCEPT !.kind = "velocity"]
          /\ checkpoint
       \/ /\ drag.kind = "velocity"
          /\ UNCHANGED <<drag, undo, redo>>
    /\ Changed(Painted(step, vel))
    /\ UNCHANGED selected
    /\ Idle

\* A field of the transport bar is turned by dragging; it keeps no undo step.
GrabField(which) ==
    /\ drag' = [NoDrag EXCEPT !.kind = which]
    /\ UNCHANGED <<doc, dirty, unsaved>>
    /\ Idle
TurnTempo(bpm) ==
    /\ drag.kind = "tempo"
    /\ bpm # song.bpm
    /\ song' = [song EXCEPT !.bpm = bpm]
    /\ sched' = set_bpm(sched, bpm)
    /\ touched
    /\ UNCHANGED <<view, files, transport, final, earlier, clock, pending, options, held, trapped, drag,
                   selected, undo, redo>>
set_steps(steps) ==
    /\ drag.kind = "length"
    /\ Changed([song EXCEPT !.patterns[pattern].steps = steps])
    /\ UNCHANGED <<drag, selected, undo, redo>>
    /\ Idle
set_channel(c) ==
    /\ drag.kind = "channel"
    /\ Changed([song EXCEPT !.tracks[track].channel = c])
    /\ UNCHANGED <<drag, selected, undo, redo>>
    /\ Idle

PointerUp ==
    /\ drag # NoDrag
    /\ drag' = NoDrag
    /\ UNCHANGED <<doc, dirty, unsaved>>
    /\ Idle

\* Mutant: a deletion leaves the notes being recorded as they are.
delete_selected_recording ==
    /\ selected # 0
    /\ checkpoint
    /\ song' = IF selected \in DOMAIN song.patterns[pattern].notes[track]
               THEN [song EXCEPT !.patterns[pattern].notes[track] = RemoveAt(@, selected)]
               ELSE song
    /\ selected' = 0
    /\ drag' = NoDrag
    /\ touched
    /\ UNCHANGED <<pending, view, files, play, options, held, trapped>>

delete_selected ==
    /\ selected # 0
    /\ checkpoint
    /\ song' = IF selected \in DOMAIN song.patterns[pattern].notes[track]
               THEN [song EXCEPT !.patterns[pattern].notes[track] = RemoveAt(@, selected)]
               ELSE song
    /\ selected' = 0
    /\ pending' = NoKeys
    /\ drag' = NoDrag
    /\ touched
    /\ UNCHANGED <<view, files, play, options, held, trapped>>

\* An arrow key; nothing changed leaves no undo step, but the redo list is gone.
nudge_selected(delta) ==
    LET notes == song.patterns[pattern].notes[track]
        n == notes[selected]
    IN  /\ selected # 0
        /\ redo' = <<>>
        /\ IF selected \in DOMAIN notes
           THEN /\ undo' = Checkpointed
                /\ song' = WithNote(selected, [n EXCEPT !.step =
                               Clamp(n.step + delta, 0, AtLeast(Steps - n.len, 0))])
                /\ touched
           ELSE /\ undo' = Front(Checkpointed)
                /\ UNCHANGED <<song, dirty, unsaved>>
        /\ UNCHANGED <<drag, selected>>
        /\ Idle

\* Neither the selection nor a recording under way survives a new song.
after_replace(new) ==
    /\ song' = new
    /\ selected' = 0
    /\ pending' = NoKeys
    /\ pattern' = AtMost(pattern, Len(new.patterns))
    /\ sched' = set_bpm(sched, new.bpm)
    /\ touched
    /\ UNCHANGED <<track, song_mode, files, transport, final, earlier, clock, options, held, trapped, drag>>
undo_edit ==
    /\ undo # <<>>
    /\ undo' = Front(undo)
    /\ redo' = Append(redo, song)
    /\ after_replace(Last(undo))
redo_edit ==
    /\ redo # <<>>
    /\ redo' = Front(redo)
    /\ undo' = Append(undo, song)
    /\ after_replace(Last(redo))

-----------------------------------------------------------------------------
(* Tracks, patterns, the chain.                                               *)

KeepPlaying == UNCHANGED <<files, play, pending, options, held, trapped, drag>>

select_track(t) ==
    /\ track' = t
    /\ selected' = 0
    /\ UNCHANGED <<song, undo, redo, dirty, unsaved, pattern, song_mode>>
    /\ KeepPlaying
toggle_mute(t) ==
    /\ checkpoint
    /\ song' = [song EXCEPT !.tracks[t].muted = ~@]
    /\ touched
    /\ UNCHANGED <<selected, view>>
    /\ KeepPlaying

\* A pattern is selected; the slot after the last makes a new one.
select_pattern(i) ==
    /\ selected' = 0
    /\ pattern' = i
    /\ \/ /\ i \in DOMAIN song.patterns
          /\ UNCHANGED <<song, undo, redo, dirty, unsaved>>
       \/ /\ i = Len(song.patterns) + 1 /\ i <= MAX_PATTERNS
          /\ checkpoint
          /\ song' = add_pattern(song, pattern)
          /\ touched
    /\ UNCHANGED <<track, song_mode>>
    /\ KeepPlaying
duplicate_pattern ==
    LET new == clone_pattern(song, pattern)
    IN  /\ checkpoint
        /\ song' = new
        /\ IF new = song THEN UNCHANGED <<pattern, selected, dirty, unsaved>>
           ELSE pattern' = Len(new.patterns) /\ selected' = 0 /\ touched
        /\ UNCHANGED <<track, song_mode>>
        /\ KeepPlaying

append_to_chain(i) ==
    /\ i \in DOMAIN song.patterns /\ Len(song.chain) < MAX_CHAIN
    /\ checkpoint
    /\ song' = [song EXCEPT !.chain = Append(@, i)]
    /\ touched
    /\ UNCHANGED <<selected, view>>
    /\ KeepPlaying
remove_from_chain(at) ==
    /\ at \in DOMAIN song.chain
    /\ checkpoint
    /\ song' = [song EXCEPT !.chain = RemoveAt(@, at)]
    /\ song_mode' = (song_mode /\ Len(song.chain) > 1)
    /\ touched
    /\ UNCHANGED <<selected, pattern, track>>
    /\ KeepPlaying
toggle_song_mode ==
    /\ song_mode' = (~song_mode /\ song.chain # <<>>)
    /\ song_mode' # song_mode
    /\ UNCHANGED <<doc, dirty, unsaved, pattern, track>>
    /\ KeepPlaying

-----------------------------------------------------------------------------
(* Recording: every message also goes straight through to the output.         *)

record_on(p) ==
    LET abs == step_of(sched, clock)
        pos == locate(song, Playback, abs)
        new == add_note(song.patterns[pos.pattern], track, NoteOf(pos.step, p, 1, DEFAULT_VEL))
    IN  IF transport # "recording" \/ p \in DOMAIN pending \/ pos = Nowhere
        THEN UNCHANGED <<song, undo, redo, pending, dirty, unsaved>>
        ELSE /\ IF pending = NoKeys THEN checkpoint ELSE UNCHANGED <<undo, redo>>
             /\ song' = [song EXCEPT !.patterns[pos.pattern] = new]
             /\ pending' = (p :> [pattern |-> pos.pattern, idx |-> Len(new.notes[track]),
                                  abs |-> abs, track |-> track]) @@ pending
             /\ touched
PlayerPresses(p) ==
    /\ p \notin held
    /\ held' = held \union {p}
    /\ record_on(p)
    /\ final' = Send(final, {<<PlayChannel, p>>}, TRUE, clock)
    /\ UNCHANGED <<selected, view, files, sched, transport, earlier, clock, drag, options, trapped>>

\* The length is written to the note with that index in the track edited now.
record_off(p) ==
    LET r == pending[p]
        notes == song.patterns[r.pattern].notes[track]
        n == notes[r.idx]
        len == Clamp(AtLeast(step_of(sched, clock) - r.abs, 1), 1,
                     AtLeast(song.patterns[r.pattern].steps - n.step, 1))
    IN  IF transport # "recording" \/ p \notin DOMAIN pending
        THEN UNCHANGED <<song, pending, dirty, unsaved, trapped>>
        ELSE IF r.pattern \notin DOMAIN song.patterns
        THEN trapped' = TRUE /\ UNCHANGED <<song, pending, dirty, unsaved>>
        ELSE /\ pending' = [q \in DOMAIN pending \ {p} |-> pending[q]]
             /\ IF r.idx \in DOMAIN notes
                THEN /\ song' = [song EXCEPT !.patterns[r.pattern].notes[track][r.idx].len = len]
                     /\ touched
                ELSE UNCHANGED <<song, dirty, unsaved>>
             /\ UNCHANGED trapped
PlayerReleases(p) ==
    /\ p \in held
    /\ held' = held \ {p}
    /\ record_off(p)
    /\ final' = Send(final, {<<PlayChannel, p>>}, FALSE, clock)
    /\ UNCHANGED <<selected, undo, redo, view, files, sched, transport, earlier, clock, drag, options>>

-----------------------------------------------------------------------------
(* The file, the options and the frame.                                       *)

\* The chain in song mode, else the pattern being looped.
export_order == IF song_mode /\ song.chain # <<>> THEN song.chain ELSE <<pattern>>

\* A write that fails leaves the song unsaved, and the file as it was or cut
\* short, which cannot be read.
save_file ==
    /\ file
    /\ \/ /\ disk' = [kind |-> "midi", bytes |-> write(to_midi_file(song, export_order))]
          /\ stale' = FALSE
          /\ unsaved' = FALSE
          /\ base' = song
       \/ /\ disk' \in {disk, CutShort}
          /\ stale' = (stale \/ disk' # disk)
          /\ UNCHANGED <<unsaved, base>>
    /\ UNCHANGED <<doc, view, play, file, pending, drag, dirty, options, held, trapped>>

Parsed == IF disk.kind = "midi" THEN parse(disk.bytes) ELSE NotAFile
\* What the frame's look at the file leaves of the document.
Kept(adopted) == [song |-> song, pattern |-> pattern, track |-> track, song_mode |-> song_mode,
                  selected |-> selected, pending |-> pending, unsaved |-> unsaved,
                  dirty |-> dirty, file |-> adopted]

\* open_file: the file becomes the document; with unsaved work, or nothing
\* readable in it, only as the place to save to.
open_file(read) ==
    LET Adopted(new) ==
            [song |-> new, pattern |-> 1, track |-> 1, song_mode |-> new.chain # <<>>,
             selected |-> 0, pending |-> pending, unsaved |-> FALSE, dirty |-> TRUE, file |-> TRUE]
    IN  IF disk.kind = "none" THEN Kept(FALSE)
        ELSE IF unsaved \/ read = NotAFile THEN Kept(TRUE)
        ELSE Adopted(from_midi_file(read, Steps))

\* reload_if_changed: never over unsaved work, never while it plays.
reload_if_changed(read) ==
    LET Reloaded(new) ==
            [song |-> new, pattern |-> AtMost(pattern, Len(new.patterns)), track |-> track,
             song_mode |-> song_mode, selected |-> 0, pending |-> NoKeys, unsaved |-> FALSE,
             dirty |-> TRUE, file |-> TRUE]
    IN  IF unsaved \/ transport # "stopped" \/ ~stale \/ read = NotAFile THEN Kept(TRUE)
        ELSE Reloaded(from_midi_file(read, Steps))

\* The file was read, so its timestamp is remembered.
FileRead == \/ ~file /\ disk.kind # "none" /\ ~unsaved
            \/ file /\ ~unsaved /\ transport = "stopped" /\ stale

\* options: nothing while a file is the document.
StoredOptions(d) == IF d.file THEN <<>> ELSE to_options(d.song)

EndFrame(units, look) ==
    LET suppress == {<<song.tracks[track].channel, p>> : p \in DOMAIN pending}
        Seen(read) == IF file THEN reload_if_changed(read) ELSE open_file(read)
    IN  \E pumped \in {pump(clock, suppress)},
          d \in {IF look THEN Seen(Parsed) ELSE Kept(file)} :
        /\ final' = pumped.final
        /\ sched' = IF d.song = song THEN pumped.sched ELSE set_bpm(pumped.sched, d.song.bpm)
        /\ song' = d.song /\ pattern' = d.pattern /\ track' = d.track
        /\ song_mode' = d.song_mode /\ selected' = d.selected /\ pending' = d.pending
        /\ unsaved' = d.unsaved /\ file' = d.file
        /\ stale' = (stale /\ ~(look /\ FileRead))
        /\ base' = IF d.song # song \/ (d.file /\ ~file) THEN d.song ELSE base
        /\ options' = IF d.dirty THEN StoredOptions(d) ELSE options
        /\ dirty' = FALSE
        /\ clock' = clock + units
        /\ UNCHANGED <<undo, redo, drag, disk, transport, earlier, held, trapped>>

-----------------------------------------------------------------------------
(* Outside the node.                                                          *)

\* A file is wired to the node, or another program writes the one that is.
OtherProgramWrites(d) ==
    /\ disk # d
    /\ disk' = d
    /\ stale' = TRUE
    /\ UNCHANGED <<doc, view, play, file, base, pending, drag, unsaved, dirty, options, held, trapped>>

Start(opts, d) ==
    /\ song = from_options(opts)
    /\ sched = NewScheduler(song.bpm)
    /\ transport = "stopped" /\ pattern = 1 /\ track = 1
    /\ song_mode = (song.chain # <<>>) /\ selected = 0
    /\ undo = <<>> /\ redo = <<>> /\ pending = NoKeys /\ drag = NoDrag
    /\ file = FALSE /\ unsaved = FALSE /\ dirty = FALSE
    /\ options = opts /\ disk = d /\ stale = TRUE /\ base = song
    /\ final = [k \in Keys \union {Transport} |-> Silence] /\ earlier = final
    /\ trapped = FALSE

\* The node is stopped, or its guest trapped, and run again: all it has is its
\* options and its file (which the first frame opens).  Nobody releases what it
\* was playing: a link sends its releases when it is cut, not when the guest at
\* its end goes away.  Keys may come up meanwhile, unheard.
Restart ==
    /\ song' = from_options(options)
    /\ sched' = NewScheduler(song'.bpm)
    /\ transport' = "stopped" /\ pattern' = 1 /\ track' = 1
    /\ song_mode' = (song'.chain # <<>>) /\ selected' = 0
    /\ undo' = <<>> /\ redo' = <<>> /\ pending' = NoKeys /\ drag' = NoDrag
    /\ file' = FALSE /\ unsaved' = FALSE /\ dirty' = FALSE /\ stale' = TRUE /\ base' = song'
    /\ earlier' = final
    /\ trapped' = FALSE /\ held' \in SUBSET held
    /\ UNCHANGED <<options, disk, clock, final>>

Init == /\ \E opts \in OldOptions : Start(opts, NoFile)
        /\ clock = 0 /\ held = {} /\ acts = 0 /\ session \in Sessions

Roll ==
    \/ \E step \in 0..(MAX_STEPS - 1), p \in Pitches : \/ \E edge \in BOOLEAN : roll_click(step, p, edge)
                                                       \/ drag_note(step, p)
    \/ \E step \in 0..(MAX_STEPS - 1) : paint_velocity(step, 1)
    \/ PointerUp \/ delete_selected
    \/ \E d \in {-1, 1} : nudge_selected(d)
Fields ==
    \/ \E which \in {"tempo", "length", "channel"} : GrabField(which)
    \/ \E bpm \in Bpms : TurnTempo(bpm)
    \/ \E steps \in 1..MAX_STEPS : set_steps(steps)
    \/ \E c \in Channels : set_channel(c)
Arrangement ==
    \/ \E t \in Tracks : toggle_mute(t) \/ select_track(t)
    \/ \E i \in 1..MAX_PATTERNS : select_pattern(i) \/ append_to_chain(i)
    \/ \E i \in 1..MAX_CHAIN : remove_from_chain(i)
    \/ toggle_song_mode \/ duplicate_pattern
History == undo_edit \/ redo_edit
Buttons == \E mode \in {"playing", "recording"} : PressTransport(mode)
Player == \E p \in Pitches : PlayerPresses(p) \/ PlayerReleases(p)
Files == save_file \/ (\E d \in OtherFiles : OtherProgramWrites(d))

Act == \/ /\ ~trapped
          /\ \/ "roll" \in session /\ Roll
             \/ "fields" \in session /\ Fields
             \/ "arrangement" \in session /\ Arrangement
             \/ "history" \in session /\ History
             \/ "transport" \in session /\ Buttons
             \/ "player" \in session /\ Player
             \/ "files" \in session /\ Files
       \/ "reruns" \in session /\ Restart

Next == \/ acts < MaxActs /\ acts' = acts + 1 /\ UNCHANGED session /\ Act
        \/ /\ ~trapped /\ UNCHANGED <<acts, session>>
           /\ \E units \in {1, 3}, look \in {FALSE, "files" \in session} :
                  /\ clock + units <= MaxClock
                  /\ EndFrame(units, look)

Spec == Init /\ [][Next]_vars

-----------------------------------------------------------------------------
(* Properties.                                                                *)

TypeOK == /\ transport \in {"stopped", "playing", "recording"}
          /\ pattern \in DOMAIN song.patterns /\ track \in Tracks
          /\ DOMAIN pending \subseteq Pitches /\ held \subseteq Pitches
          /\ file \in BOOLEAN /\ unsaved \in BOOLEAN /\ dirty \in BOOLEAN
          /\ \A i \in DOMAIN song.chain : song.chain[i] \in DOMAIN song.patterns

\* Once the transport is stopped and the player has let go, a receiver that
\* plays messages at their instants is left with no note on that this run of
\* the guest started, whatever was edited, muted, moved to another channel,
\* undone or slowed down while notes were already queued ahead of the clock
\* (Scheduler::stop, set_bpm, schedule_step): a note still on is the last word
\* of an earlier run, stopped with its notes down.
SilentWhenStopped ==
    transport = "stopped" /\ held = {} => \A k \in Keys : final[k].on => final[k] = earlier[k]

\* A note being recorded is where record_off will look for it, in the pattern
\* and at the index kept in `pending`, through deletion, undo, redo and the
\* file's song replacing this one.
RecordedNoteExists ==
    \A p \in DOMAIN pending :
        /\ pending[p].pattern \in DOMAIN song.patterns
        /\ pending[p].idx \in DOMAIN song.patterns[pending[p].pattern].notes[pending[p].track]

\* No note starts past the end of its pattern.
NothingHidden(s) ==
    \A i \in DOMAIN s.patterns : \A t \in Tracks : \A j \in DOMAIN s.patterns[i].notes[t] :
        s.patterns[i].notes[t][j].step + s.patterns[i].notes[t][j].len <= s.patterns[i].steps

\* Without a file, the song on screen is the one a restart of the node brings
\* back from its options, every track, mute, pattern and note of it, as soon as
\* the frame has ended.
RestartKeepsTheSong ==
    ~dirty /\ ~file /\ NothingHidden(song) => from_options(options) = song

\* The steps at which each (channel, pitch) of an order sounds, muted tracks
\* left out as the scheduler does.
SoundOf(s, order) ==
    LET starts == Starts(s, order)
        heard == {t \in Tracks : ~s.tracks[t].muted}
    IN  UNION {UNION {UNION {{<<starts[k - 1] + x, s.tracks[t].channel, n.pitch>> :
                                x \in n.step..(NoteEnd(n, s.patterns[order[k]].steps) - 1)} :
                             n \in ToSet(s.patterns[order[k]].notes[t])} : t \in heard} :
               k \in DOMAIN order}
Unmuted(s) == [s EXCEPT !.tracks = [t \in Tracks |-> [@[t] EXCEPT !.muted = FALSE]]]
\* No two notes of a pattern sound one (channel, pitch) at one step.
NothingOverlaps(s) ==
    \A i \in DOMAIN s.patterns : LET p == s.patterns[i] IN
        \A t, u \in Tracks : \A j \in DOMAIN p.notes[t], k \in DOMAIN p.notes[u] :
            (<<t, j>> # <<u, k>> /\ s.tracks[t].channel = s.tracks[u].channel
                /\ p.notes[t][j].pitch = p.notes[u][k].pitch)
            => \/ p.notes[t][j].step + p.notes[t][j].len <= p.notes[u][k].step
               \/ p.notes[u][k].step + p.notes[u][k].len <= p.notes[t][j].step

\* The song that opening the file just saved gives back (the formula is
\* about the step of save_file that writes it).
Reopened == from_midi_file(parse(disk'.bytes), Steps)
Exported == /\ disk' # disk /\ ~stale' /\ NothingHidden(song) /\ NothingOverlaps(song)
            /\ Starts(song, export_order)[Len(export_order)] <= MAX_PATTERNS * Steps

\* A song saved to a file and opened again sounds, step by step, as it did with
\* none of its tracks muted, as long as no two of its notes overlap, none is
\* cut off by its pattern's end, and it is no longer than the patterns an
\* import makes (to_midi_file, write, parse and from_midi_file together).
ExportSoundsTheSame ==
    [][Exported => LET back == Reopened
                   IN  SoundOf(back, back.chain) = SoundOf(Unmuted(song), export_order)]_vars

\* The look at the file replaces the song only by one it has not been edited
\* away from: an edit is never thrown away by a file that changed.
EditsAreKept ==
    [][(song' # song /\ clock' # clock) => song = base]_vars

(* What does not hold.                                                        *)

\* A node stopped while it plays and run again is silent until it is played:
\* halt_guest releases nothing, so a note that was down stays down.
SilentAfterRerun ==
    transport = "stopped" /\ held = {} => \A k \in Keys : ~final[k].on

\* A saved song sounds the same, mutes and all: a muted track is exported with
\* the others and comes back heard.
ExportKeepsMutes ==
    [][Exported => LET back == Reopened
                   IN  SoundOf(back, back.chain) = SoundOf(song, export_order)]_vars

\* plugins/sequencer/src/lib.rs: the index of a drag is looked up in the track
\* now edited, so a resize can meet a note that starts past the pattern's end.
NeverTraps == ~trapped

\* Scheduler::start at `now` after a stop stamped for the end of the queue: the
\* older Stop, and releases, come after the new Start and notes.
RestartIsHeard == transport # "stopped" => final[Transport].on

\* A song that is only in the options is replaced by a file wired to the node.
NotReplacedByAWire == [][(song' # song /\ clock' # clock) => (file \/ song = NewSong)]_vars

\* Once a file is adopted the options are stored empty, saved to it or not.
WorkspaceKeepsTheSong ==
    ~dirty /\ NothingHidden(song) /\ disk.kind # "midi" => from_options(options) = song

\* A note hidden by shortening the pattern stays hidden across a restart.
HiddenStaysHidden ==
    ~dirty /\ ~file => SoundOf(from_options(options), <<1>>) = SoundOf(song, <<1>>)
=============================================================================
