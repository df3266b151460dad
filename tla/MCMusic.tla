------------------------------ MODULE MCMusic ------------------------------
(* A sequencer node, or (part) a piano, an arpeggiator and a synthesizer on    *)
(* one cable.  The two share no state; a behaviour is one of the one or of     *)
(* the other, and what stands still is in its initial state.                   *)
EXTENDS Sequencer

MCSessions == {{"roll", "fields", "history"}, {"transport", "fields", "arrangement"},
               {"transport", "player", "roll", "history"}, {"arrangement", "files", "reruns"},
               {"transport", "player", "reruns"}}

\* Two notes of one pitch, the second drawn before the first; the one-track
\* layouts of earlier versions; two patterns and a chain.
Plain(steps, n) == [NewSong EXCEPT !.bpm = 200, !.patterns = <<add_note(EmptyPattern(steps), 1, n)>>]
Repeated == LET s == Plain(3, NoteOf(1, 60, 2, 100))
            IN  [s EXCEPT !.patterns[1] = add_note(@, 1, NoteOf(0, 60, 1, 100))]
MCOptions == {to_options(Repeated), <<1, 60, 1>>, <<-1, 1, 300, 3, 0, 60, 2, 90>>,
              to_options([add_pattern(Plain(2, NoteOf(1, 60, 1, 100)), 1) EXCEPT !.chain = <<1, 2>>])}
\* A file with running status, a note-on of velocity 0 and a note never ended.
Foreign == [kind |-> "midi", bytes |-> [ppq |-> 48, tracks |->
               <<<<0, 144, 60, 80, 12, 60, 0, 0, 60, 70, 13, 192, 5, 0, 255, 47, 0>>>>]]
Garbage == [kind |-> "midi", bytes |-> [ppq |-> 96, tracks |-> <<<<0, 60>>>>]]
MCFiles == {CutShort, Foreign, Garbage}

VARIABLES part, chain, button, fingers, kbd_focus, astray, pointer_down, pointer_up, key_down,
          key_up, pressed, key_held, mouse_note, base_note, to_arp, to_synth, arp, voices, chan,
          missed, time, done
inVars == <<chain, button, fingers, kbd_focus, astray, pointer_down, pointer_up, key_down, key_up,
            pressed, key_held, mouse_note, base_note, to_arp, to_synth, arp, voices, chan, missed,
            time, done>>

\* Two keys an octave apart, which the octave buttons bring onto one pitch; the
\* arpeggiator going up in short notes, and both ways over two octaves in notes
\* that touch.
In == INSTANCE Instruments WITH
        held <- pressed, base <- base_note, clock <- time, acts <- done,
        KeyRange <- {0, 12}, MinBase <- 60, MaxBase <- 72, RelUnits <- 1,
        Settings <- {[step |-> 3, gate |-> 1, mode |-> 0, oct |-> 1], [step |-> 2, gate |-> 3, mode |-> 2, oct |-> 2]},
        Chans <- {0, 2}, Chains <- {"direct", "arp"}, MaxActs <- 4, MaxClock <- 4

MCInit == /\ part \in {"sequencer", "instruments"} /\ Init /\ In!Init
          /\ part = "instruments" => options = to_options(Repeated) /\ session = {"arrangement", "files", "reruns"}
          /\ part = "sequencer" => chain = "direct" /\ arp.mode = 0
MCNext == \/ part = "sequencer" /\ Next /\ UNCHANGED <<part, inVars>>
          \/ part = "instruments" /\ In!Next /\ UNCHANGED <<part, vars>>
MCSpec == MCInit /\ [][MCNext]_<<part, vars, inVars>>

\* When the player has let go, the synthesizer's voices are on their way out.
SilentWhenReleased == In!SilentWhenReleased
=============================================================================
