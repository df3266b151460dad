------------------------------- MODULE MCMidi -------------------------------
(* A sequencer app and a keyboard port, both wired to a synth app, and a      *)
(* hardware output the sequencer can be wired to; one note, two channels.     *)
EXTENDS Midi

MCWires == {<<"seq", "synth">>, <<"keys", "synth">>, <<"seq", "out">>}
MCStatuses == {144, 240, 243, 247, 248}
MCDatas == {60}
On(c) == <<144 + c, 60, 60>>
Off(c) == <<128 + c, 60, 0>>
MCMessages == {On(0), On(1), Off(0)}

\* The instance has no channel-mode messages, as the proof that notes end asks.
ASSUME MCNotesOnly == NotesOnly
=============================================================================
