---------------------------- MODULE Instruments ----------------------------
(* Three instruments on one cable: a piano played with the mouse and the      *)
(* computer keyboard (plugins/piano), optionally an arpeggiator (plugins/arp) *)
(* and a synthesizer (plugins/synth).  Each is a guest with its own frame     *)
(* loop; the compositor puts the player's input into queues of the piano's    *)
(* surface, and the host's MIDI queues are between the instruments.  Nothing  *)
(* is wired to the piano's MIDI input here, so that its thru (pump_input)     *)
(* forwards nothing.  Time is counted in units of 20 ms.                      *)
EXTENDS Integers, Sequences, FiniteSets, SequencesExt, TLC

CONSTANTS
    KeyRange,   \* the piano keys that are played, as offsets from the base note
    MinBase, MaxBase,   \* how far the octave buttons go (24 and 96)
    Settings,   \* of the arpeggiator's knobs: [step, gate, mode, oct], the first
                \* two what RATE and GATE make of them, in units of time
    RelUnits,   \* the synthesizer's release time
    Chans,      \* the positions of its CHAN knob; 0 is every channel
    Chains,     \* "direct" and "arp": what the piano is wired to
    MaxActs, MaxClock

VARIABLES
    chain,
    button, fingers,   \* what the player holds down: the mouse button, keys
    kbd_focus,         \* is the piano the node that gets the keyboard?
    pointer_down, pointer_up, key_down, key_up,   \* queues of its surface
    held, key_held, mouse_note, base,             \* the piano
    astray,            \* did a release go somewhere else than to the piano?
    to_arp, to_synth,  \* MIDI messages under way: [kind, note, time]
    arp,               \* [held, idx, dir, next_at, sounding, restart, step, gate, mode, oct]
    voices,            \* the synth's voices: note -> release_end
    chan,              \* its CHAN knob
    missed,            \* notes whose note-off the knob kept out
    clock, acts

desk == <<button, fingers, kbd_focus, astray>>
queues == <<pointer_down, pointer_up, key_down, key_up>>
piano == <<held, key_held, mouse_note, base>>
synth == <<voices, chan, missed>>
vars == <<chain, desk, queues, piano, to_arp, to_synth, arp, synth, clock, acts>>

None == -1
NoNote == [note |-> None, off_at |-> 0]
AtLeast(a, b) == IF a > b THEN a ELSE b
AtMost(a, b) == IF a < b THEN a ELSE b

-----------------------------------------------------------------------------
(* The piano.  A state k = [held, out, base] of its keyboard.                 *)

midi_note(b, key) == AtLeast(0, AtMost(127, b + key))
Message(kind, note) == [kind |-> kind, note |-> note, time |-> 0]

press(k, key) ==
    [k EXCEPT !.held[key] = @ + 1,
              !.out = IF k.held[key] = 0 THEN Append(@, Message("on", midi_note(k.base, key))) ELSE @]
release(k, key) ==
    IF k.held[key] = 0 THEN k
    ELSE [k EXCEPT !.held[key] = @ - 1,
                   !.out = IF k.held[key] = 1 THEN Append(@, Message("off", midi_note(k.base, key))) ELSE @]
all_off(k) ==
    LET down == SetToSortSeq({key \in KeyRange : k.held[key] > 0}, <)
    IN  [k EXCEPT !.held = [key \in KeyRange |-> 0],
                  !.out = @ \o [i \in DOMAIN down |-> Message("off", midi_note(k.base, down[i]))]]

shift_octave(k, delta) ==
    LET new == AtLeast(MinBase, AtMost(MaxBase, k.base + delta * 12))
    IN  IF new = k.base THEN k ELSE [all_off(k) EXCEPT !.base = new]

\* Pointer-down events: the strip of octave buttons (the mouse then holds no key)
\* or a key.
\* s = [k, mouse].
\* Mutant: the key under the mouse is forgotten, not released.
LiftMouse_forgets(s) == [s EXCEPT !.mouse = None]
LiftMouse(s) == [k |-> IF s.mouse = None THEN s.k ELSE release(s.k, s.mouse), mouse |-> None]
PointerDowns(s, places) ==
    FoldLeft(LAMBDA t, place :
                 IF place.at # "key"
                 THEN LiftMouse([t EXCEPT !.k = CASE place.at = "lower" -> shift_octave(@, -1)
                                                  [] place.at = "higher" -> shift_octave(@, 1)
                                                  [] OTHER -> @])
                 ELSE IF place.key = t.mouse THEN t
                 ELSE LET u == LiftMouse(t) IN [k |-> press(u.k, place.key), mouse |-> place.key],
             s, places)
PointerUps(s, n) == IF n = 0 THEN s ELSE LiftMouse(s)

\* Key events; auto-repeat sends key-down again while a key is held.
\* s = [k, down].
KeyDowns(s, keys) ==
    FoldLeft(LAMBDA t, key : IF key \in t.down THEN t
                             ELSE [k |-> press(t.k, key), down |-> t.down \union {key}], s, keys)
KeyUps(s, keys) ==
    FoldLeft(LAMBDA t, key : IF key \notin t.down THEN t
                             ELSE [k |-> release(t.k, key), down |-> t.down \ {key}], s, keys)

\* One frame: all pointer-downs, then all ups, then keys down, then keys up.
PianoFrame ==
    LET k0 == [held |-> held, out |-> <<>>, base |-> base]
        m == PointerUps(PointerDowns([k |-> k0, mouse |-> mouse_note], pointer_down), pointer_up)
        s == KeyUps(KeyDowns([k |-> m.k, down |-> key_held], key_down), key_up)
    IN  /\ <<pointer_down, pointer_up, key_down, key_up>> # <<<<>>, 0, <<>>, <<>>>>
        /\ pointer_down' = <<>> /\ pointer_up' = 0 /\ key_down' = <<>> /\ key_up' = <<>>
        /\ held' = s.k.held /\ base' = s.k.base
        /\ mouse_note' = m.mouse /\ key_held' = s.down
        /\ IF chain = "arp" THEN to_arp' = to_arp \o s.k.out /\ UNCHANGED to_synth
                            ELSE to_synth' = to_synth \o s.k.out /\ UNCHANGED to_arp
        /\ UNCHANGED <<chain, desk, arp, synth, clock>>

-----------------------------------------------------------------------------
(* The desk: input goes to the surface under the pointer, keys to the node    *)
(* that was clicked last.                                                     *)

Places == [at : {"key"}, key : KeyRange] \union [at : {"lower", "higher", "strip"}, key : {None}]
Elsewhere == [at |-> "elsewhere", key |-> None]
MouseDown(place) ==
    /\ ~button
    /\ button' = TRUE
    /\ pointer_down' = IF place = Elsewhere THEN pointer_down ELSE Append(pointer_down, place)
    /\ kbd_focus' = (place # Elsewhere)
    /\ UNCHANGED <<chain, fingers, astray, pointer_up, key_down, key_up, piano, to_arp, to_synth,
                   arp, synth, clock>>
MouseUp(over) ==
    /\ button
    /\ button' = FALSE
    /\ pointer_up' = IF over THEN pointer_up + 1 ELSE pointer_up
    /\ astray' = (astray \/ ~over)
    /\ UNCHANGED <<chain, fingers, kbd_focus, pointer_down, key_down, key_up, piano, to_arp,
                   to_synth, arp, synth, clock>>
KeyDown(key) ==
    /\ fingers' = fingers \union {key}
    /\ key_down' = IF kbd_focus THEN Append(key_down, key) ELSE key_down
    /\ UNCHANGED <<chain, button, kbd_focus, astray, pointer_down, pointer_up, key_up, piano,
                   to_arp, to_synth, arp, synth, clock>>
KeyUp(key) ==
    /\ key \in fingers
    /\ fingers' = fingers \ {key}
    /\ key_up' = IF kbd_focus THEN Append(key_up, key) ELSE key_up
    /\ astray' = (astray \/ ~kbd_focus)
    /\ UNCHANGED <<chain, button, kbd_focus, pointer_down, pointer_up, key_down, piano, to_arp,
                   to_synth, arp, synth, clock>>

-----------------------------------------------------------------------------
(* The arpeggiator.  A state a = arp with the messages it sends.              *)

LOOKAHEAD == 1
MAX_STEPS_PER_TICK == 64

Heard(a, msg) ==
    CASE msg.kind = "on" -> [a EXCEPT !.held = @ \union {msg.note}]
      [] msg.kind = "off" -> [a EXCEPT !.held = @ \ {msg.note}]
      [] OTHER -> [a EXCEPT !.held = {}]

\* The held notes upwards, octave by octave.
rebuild_seq(a) ==
    LET notes == SetToSortSeq(a.held, <)
        octave(o) == SelectSeq([i \in DOMAIN notes |-> notes[i] + 12 * o], LAMBDA n : n <= 127)
    IN  FlattenSeq([o \in 1..a.oct |-> octave(o - 1)])
Clipped(a, seq) == IF seq # <<>> /\ a.idx > Len(seq) THEN [a EXCEPT !.idx = Len(seq)] ELSE a

\* s = [a, out]: release the sounding note at its gate's end or at a limit.
release_before(s, limit) ==
    IF s.a.sounding = NoNote THEN s
    ELSE [a |-> [s.a EXCEPT !.sounding = NoNote],
          out |-> Append(s.out, [kind |-> "off", note |-> s.a.sounding.note,
                                 time |-> AtMost(s.a.sounding.off_at, limit)])]

\* Where the pattern goes next: up, down, or bouncing between the ends.
NextStep(a, len) ==
    LET i == a.idx + a.dir
    IN  CASE a.restart -> [a EXCEPT !.idx = IF a.mode = 1 THEN len ELSE 1, !.dir = 1, !.restart = FALSE]
          [] ~a.restart /\ len = 1 -> [a EXCEPT !.idx = 1]
          [] ~a.restart /\ len > 1 /\ a.mode = 0 -> [a EXCEPT !.idx = (@ % len) + 1]
          [] ~a.restart /\ len > 1 /\ a.mode = 1 -> [a EXCEPT !.idx = IF @ = 1 THEN len ELSE @ - 1]
          [] OTHER -> IF i >= len THEN [a EXCEPT !.idx = len, !.dir = -1]
                      ELSE IF i <= 1 THEN [a EXCEPT !.idx = 1, !.dir = 1]
                      ELSE [a EXCEPT !.idx = i]
fire_step(s, seq, at) ==
    LET a == NextStep(s.a, Len(seq))
        note == seq[AtMost(a.idx, Len(seq))]
    IN  IF seq = <<>> THEN s
        ELSE [a |-> [a EXCEPT !.sounding = [note |-> note, off_at |-> at + a.gate]],
              out |-> Append(s.out, [kind |-> "on", note |-> note, time |-> at])]

\* tick: nothing held releases the note and resets; else every boundary inside
\* the look-ahead window is queued.
tick(a, seq) ==
    LET from == IF a.next_at = None THEN clock ELSE a.next_at
        due == AtLeast(0, AtMost((clock + LOOKAHEAD - 1 - from) \div a.step + 1, MAX_STEPS_PER_TICK))
        steps == [i \in 1..due |-> from + (i - 1) * a.step]
        idle == release_before([a |-> a, out |-> <<>>], a.sounding.off_at)
        run == FoldLeft(LAMBDA s, at : fire_step(release_before(s, at), seq, at),
                        [a |-> a, out |-> <<>>], steps)
    IN  IF a.held = {}
        THEN [idle EXCEPT !.a.next_at = None, !.a.restart = TRUE, !.a.dir = 1]
        ELSE [run EXCEPT !.a.next_at = from + due * a.step]

ArpFrame ==
    LET a == FoldLeft(Heard, arp, to_arp)
        seq == rebuild_seq(a)
        s == tick(Clipped(a, seq), seq)
    IN  /\ chain = "arp"
        /\ to_arp' = <<>>
        /\ arp' = s.a
        /\ to_synth' = to_synth \o s.out
        /\ <<to_arp', arp', to_synth'>> # <<to_arp, arp, to_synth>>
        /\ UNCHANGED <<chain, desk, queues, piano, synth, clock>>

TurnArpKnobs(k) ==
    /\ chain = "arp"
    /\ arp' = k @@ arp
    /\ arp' # arp
    /\ UNCHANGED <<chain, desk, queues, piano, to_arp, to_synth, synth, clock>>

-----------------------------------------------------------------------------
(* The synthesizer.  s = [voices, missed].                                    *)

\* All the instruments of this chain send on channel 1.
listens_to == chan \in {0, 1}

note_on(vs, note) == [n \in DOMAIN vs \union {note} |-> IF n = note THEN None ELSE vs[n]]
note_off(vs, note, at) ==
    IF note \in DOMAIN vs THEN [vs EXCEPT ![note] = at + RelUnits] ELSE vs
all_notes_off(vs, at) == [n \in DOMAIN vs |-> at + RelUnits]
reap(vs) == [n \in {m \in DOMAIN vs : vs[m] = None \/ clock < vs[m]} |-> vs[n]]

\* Messages are taken in the order they come; each for its own instant.
Play(s, msg) ==
    LET at == IF msg.time = 0 THEN clock ELSE msg.time
    IN  IF ~listens_to
        THEN IF msg.kind = "on" THEN s
             ELSE [s EXCEPT !.missed = @ \union {n \in DOMAIN s.voices : msg.note \in {n, None}}]
        ELSE [voices |-> CASE msg.kind = "on" -> note_on(s.voices, msg.note)
                           [] msg.kind = "off" -> note_off(s.voices, msg.note, at)
                           [] OTHER -> all_notes_off(s.voices, at),
              missed |-> s.missed \ {n \in s.missed : msg.note \in {n, None}}]
SynthFrame ==
    LET s == FoldLeft(Play, [voices |-> reap(voices), missed |-> missed], to_synth)
    IN  /\ to_synth' = <<>>
        /\ voices' = s.voices
        /\ missed' = s.missed
        /\ <<to_synth', voices'>> # <<to_synth, voices>>
        /\ UNCHANGED <<chain, desk, queues, piano, to_arp, arp, chan, clock>>

TurnChanKnob(c) ==
    /\ chan' = c /\ c # chan
    /\ UNCHANGED <<chain, desk, queues, piano, to_arp, to_synth, arp, voices, missed, clock>>

-----------------------------------------------------------------------------
\* A cable is unplugged and plugged in again: the host tells the receiver that
\* every note is off.
AllNotesOff == [kind |-> "all", note |-> None, time |-> 0]
Unplug ==
    /\ \/ chain = "arp" /\ to_arp' = Append(to_arp, AllNotesOff) /\ UNCHANGED to_synth
       \/ to_synth' = Append(to_synth, AllNotesOff) /\ UNCHANGED to_arp
    /\ UNCHANGED <<chain, desk, queues, piano, arp, synth, clock>>

Tick == /\ clock < MaxClock
        /\ clock' = clock + 1
        /\ UNCHANGED <<chain, desk, queues, piano, to_arp, to_synth, arp, synth>>

Init ==
    /\ chain \in Chains
    /\ button = FALSE /\ fingers = {} /\ kbd_focus = FALSE /\ astray = FALSE
    /\ pointer_down = <<>> /\ pointer_up = 0 /\ key_down = <<>> /\ key_up = <<>>
    /\ held = [key \in KeyRange |-> 0] /\ key_held = {} /\ mouse_note = None /\ base = MinBase
    /\ to_arp = <<>> /\ to_synth = <<>>
    /\ \E k \in Settings : arp = k @@ [held |-> {}, idx |-> 1, dir |-> 1, next_at |-> None,
                                        sounding |-> NoNote, restart |-> TRUE]
    /\ voices = <<>> /\ chan = 0 /\ missed = {}
    /\ clock = 1 /\ acts = 0

Act ==
    \/ \E place \in Places \union {Elsewhere} : MouseDown(place)
    \/ \E over \in BOOLEAN : MouseUp(over)
    \/ \E key \in KeyRange : KeyDown(key) \/ KeyUp(key)
    \/ \E k \in Settings : TurnArpKnobs(k)
    \/ \E c \in Chans : TurnChanKnob(c)
    \/ Unplug
Next == \/ acts < MaxActs /\ acts' = acts + 1 /\ Act
        \/ UNCHANGED acts /\ (PianoFrame \/ ArpFrame \/ SynthFrame \/ Tick)
Spec == Init /\ [][Next]_vars

-----------------------------------------------------------------------------
(* Properties.                                                                *)

\* Nobody plays, every instrument has taken its input, and the arpeggiator has
\* seen that nothing is held.
AtRest == /\ ~button /\ fingers = {}
          /\ <<pointer_down, pointer_up, key_down, key_up>> = <<<<>>, 0, <<>>, <<>>>>
          /\ to_arp = <<>> /\ to_synth = <<>>
          /\ arp.held = {} => arp.sounding = NoNote

\* When the player has let go of everything, each voice of the synthesizer is
\* on its way out: presses that overlap, several of them in one frame, octave
\* shifts with keys held, notes gated ahead of the clock and knobs turned in
\* between leave none behind.  Left aside: a release that went to another
\* window, and a note-off that the CHAN knob kept out.
SilentWhenReleased ==
    AtRest /\ ~astray => \A n \in DOMAIN voices \ missed : voices[n] # None

(* What does not hold.                                                        *)

\* The compositor gives the release of a button to the surface it is released
\* over, and of a key to the node focused by then (compositor.rs): the piano
\* never hears of it.
EveryReleaseArrives == AtRest => \A n \in DOMAIN voices \ missed : voices[n] # None

\* The CHAN knob keeps note-offs out as well.
NoStuckVoice == AtRest /\ ~astray => \A n \in DOMAIN voices : voices[n] # None

\* plugins/piano: "so overlapping presses don't send a spurious note-off".  An
\* octave shift forgets the key held down, and its release is then taken for
\* the release of the mouse's press of it.
HeldByMouseIsHeld == mouse_note # None => held[mouse_note] > 0
=============================================================================
