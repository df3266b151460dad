-------------------------------- MODULE Song --------------------------------
(* The music a step sequencer holds (crate wk-sequence), the flat list of     *)
(* numbers it is kept as in the node's options, and the Standard MIDI File    *)
(* (crate wk-midifile) it is exported to and imported from.  Tracks, patterns *)
(* and notes are numbered from 1; steps, pitches and channels keep the code's *)
(* numbers.  The chunk headers of a file are left out: a file is the sequence *)
(* of its tracks' bytes, with its ticks per quarter note.                     *)
EXTENDS SequencesExt, Integers

CONSTANTS
    MAX_TRACKS, MAX_PATTERNS, MAX_STEPS, MAX_CHAIN,
    Bpms        \* the tempi in use, as microseconds per quarter note \div 1000

ASSUME SongAssumption == MAX_TRACKS \in Nat \ {0} /\ MAX_PATTERNS \in Nat \ {0}
                         /\ MAX_STEPS \in Nat \ {0} /\ MAX_CHAIN \in Nat /\ Bpms \subseteq 1..16777

Tracks == 1..MAX_TRACKS
DEFAULT_BPM == 500
\* MAX_BPM and MIN_BPM, 300 and 20 beats a minute.
FASTEST == 200
SLOWEST == 3000
DEFAULT_VEL == 100
Clamp(x, low, high) == IF x < low THEN low ELSE IF x > high THEN high ELSE x
AtMost(a, b) == IF a < b THEN a ELSE b
AtLeast(a, b) == IF a > b THEN a ELSE b

\* f64::round: to the nearest, halves away from zero.
Round(n, d) == IF n >= 0 THEN (2 * n + d) \div (2 * d) ELSE -((d - 2 * n) \div (2 * d))

-----------------------------------------------------------------------------
(* Notes, patterns, songs.                                                    *)

NoteOf(step, pitch, len, vel) == [step |-> step, pitch |-> pitch, len |-> len, vel |-> vel]

\* Where a note stops: a note over the end of a shortened pattern is cut off.
NoteEnd(n, steps) == AtMost(n.step + n.len, steps)
Covers(n, p, steps) == n.step <= p /\ p < NoteEnd(n, steps)

EmptyPattern(steps) == [steps |-> Clamp(steps, 1, MAX_STEPS), notes |-> [t \in Tracks |-> <<>>]]

\* The topmost note of a track under (step, pitch); 0 is none.
note_at(p, t, step, pitch) ==
    LET under == {i \in DOMAIN p.notes[t] : /\ p.notes[t][i].pitch = pitch
                                            /\ Covers(p.notes[t][i], step, p.steps)}
    IN  IF under = {} THEN 0 ELSE Max(under)

\* A note is pulled inside the pattern as it is added.
add_note(p, t, n) ==
    LET step == Clamp(n.step, 0, p.steps - 1)
    IN  [p EXCEPT !.notes[t] = Append(@,
            NoteOf(step, Clamp(n.pitch, 0, 127),
                   Clamp(n.len, 1, AtLeast(p.steps - step, 1)), AtLeast(n.vel, 1)))]

NewSong == [bpm |-> DEFAULT_BPM,
            tracks |-> [t \in Tracks |-> [channel |-> t - 1, muted |-> FALSE]],
            patterns |-> <<EmptyPattern(AtMost(16, MAX_STEPS))>>,
            chain |-> <<>>]

add_pattern(s, like) ==
    IF Len(s.patterns) >= MAX_PATTERNS THEN s
    ELSE [s EXCEPT !.patterns = Append(@, EmptyPattern(s.patterns[like].steps))]
clone_pattern(s, index) ==
    IF Len(s.patterns) >= MAX_PATTERNS THEN s
    ELSE [s EXCEPT !.patterns = Append(@, s.patterns[index])]

\* Where each pattern of an order starts, in steps, and the length of it all.
Starts(s, order) ==
    LET at[k \in 0..Len(order)] == IF k = 0 THEN 0 ELSE at[k - 1] + s.patterns[order[k]].steps
    IN  at

\* The pattern and step an absolute step falls on: one pattern over and over,
\* or the chain without the entries whose pattern is gone.
Nowhere == [pattern |-> 0, step |-> 0]
locate(s, order, abs) ==
    LET entries == SelectSeq(order, LAMBDA i : i \in DOMAIN s.patterns)
        starts  == Starts(s, entries)
        total   == starts[Len(entries)]
        pos     == abs % total
        k       == Max({j \in 1..Len(entries) : starts[j - 1] <= pos})
    IN  IF total <= 0 THEN Nowhere
        ELSE [pattern |-> entries[k], step |-> pos - starts[k - 1]]

-----------------------------------------------------------------------------
(* The options a node is saved with: a flat list of numbers.                  *)

NoteNumbers(t, n) == <<t - 1, n.step, n.pitch, n.len, n.vel>>
PatternNumbers(p) ==
    LET all == FlattenSeq([t \in Tracks |-> [i \in DOMAIN p.notes[t] |->
                                                NoteNumbers(t, p.notes[t][i])]])
    IN  <<p.steps, Len(all)>> \o FlattenSeq(all)

\* Mutant: the chain is stored with patterns counted from one.
to_options_from_one(s) ==
    <<-1, 2, s.bpm, MAX_TRACKS, Len(s.patterns), Len(s.chain)>>
    \o FlattenSeq([t \in Tracks |-> <<s.tracks[t].channel, IF s.tracks[t].muted THEN 1 ELSE 0>>])
    \o s.chain
    \o FlattenSeq([i \in DOMAIN s.patterns |-> PatternNumbers(s.patterns[i])])
to_options(s) ==
    <<-1, 2, s.bpm, MAX_TRACKS, Len(s.patterns), Len(s.chain)>>
    \o FlattenSeq([t \in Tracks |-> <<s.tracks[t].channel, IF s.tracks[t].muted THEN 1 ELSE 0>>])
    \o [i \in DOMAIN s.chain |-> s.chain[i] - 1]
    \o FlattenSeq([i \in DOMAIN s.patterns |-> PatternNumbers(s.patterns[i])])

\* The one-track layouts that came before: notes of three or four numbers.
from_flat_notes(bpm, steps, body, stride) ==
    LET n == Len(body) \div stride
        at(k, j) == body[(k - 1) * stride + j]
        Add(p, k) == add_note(p, 1, NoteOf(at(k, 1), at(k, 2), at(k, 3),
                                           IF stride = 4 THEN Clamp(at(k, 4), 1, 127)
                                           ELSE DEFAULT_VEL))
    IN  [NewSong EXCEPT !.bpm = Clamp(bpm, FASTEST, SLOWEST),
             !.patterns = <<FoldLeft(Add, EmptyPattern(steps), [k \in 1..n |-> k])>>]

\* The layout of to_options, its counts capped and its notes clamped; a list
\* that ends too early is no song at all.
from_options_v2(v) ==
    LET nt == AtMost(v[4], MAX_TRACKS)
        np == AtLeast(1, AtMost(v[5], MAX_PATTERNS))
        nc == AtMost(v[6], MAX_CHAIN)
        chainAt == 6 + 2 * nt
        start == chainAt + nc + 1
        \* at[k] is where pattern k + 1 begins
        at[k \in 0..np] == IF k = 0 THEN start
                           ELSE IF at[k - 1] + 1 > Len(v) THEN Len(v) + 2
                           ELSE at[k - 1] + 2 + 5 * v[at[k - 1] + 1]
        Pattern(k) == LET b == at[k - 1]
                          Add(p, j) == LET c == b + 2 + 5 * (j - 1)
                                       IN  add_note(p, AtMost(v[c] + 1, MAX_TRACKS),
                                                    NoteOf(v[c + 1], v[c + 2], v[c + 3],
                                                           Clamp(v[c + 4], 1, 127)))
                      IN  FoldLeft(Add, EmptyPattern(v[b]), [j \in 1..v[b + 1] |-> j])
    IN  IF at[np] > Len(v) + 1 THEN NewSong
        ELSE [bpm |-> Clamp(v[3], FASTEST, SLOWEST),
              tracks |-> [t \in Tracks |->
                  IF t > nt THEN NewSong.tracks[t]
                  ELSE [channel |-> AtMost(v[5 + 2 * t], 15), muted |-> v[6 + 2 * t] # 0]],
              patterns |-> [k \in 1..np |-> Pattern(k)],
              chain |-> SelectSeq([i \in 1..nc |-> v[chainAt + i] + 1],
                                  LAMBDA i : i <= np)]

from_options(v) ==
    IF Len(v) >= 2 /\ v[1] = -1 /\ v[2] >= 2
    THEN IF Len(v) < 6 THEN NewSong ELSE from_options_v2(v)
    ELSE IF Len(v) >= 4 /\ v[1] = -1 /\ v[2] >= 1
         THEN from_flat_notes(v[3], v[4], SubSeq(v, 5, Len(v)), 4)
    ELSE from_flat_notes(DEFAULT_BPM, 16, v, 3)

-----------------------------------------------------------------------------
(* Standard MIDI File tracks.  An event is [delta, kind, data]: a channel     *)
(* message's bytes, or a meta event's type followed by its payload.           *)

TEMPO == 81
END_OF_TRACK == 47
TICKS_PER_QUARTER == 96
TICKS_PER_STEP == TICKS_PER_QUARTER \div 4

Event(delta, kind, data) == [delta |-> delta, kind |-> kind, data |-> data]
TempoEvent(bpm) == Event(0, "meta", <<TEMPO, (bpm * 1000) \div 65536,
                                      ((bpm * 1000) \div 256) % 256, (bpm * 1000) % 256>>)
is_end_of_track(e) == e.kind = "meta" /\ e.data[1] = END_OF_TRACK

\* Seven bits a byte, the high bit on every byte but the last.
write_vlq(value) ==
    LET size == CHOOSE n \in 1..5 : value < 128 ^ n /\ (n = 1 \/ value >= 128 ^ (n - 1))
    IN  [i \in 1..size |-> ((value \div 128 ^ (size - i)) % 128) + (IF i < size THEN 128 ELSE 0)]

EventBytes(e) ==
    write_vlq(e.delta) \o
    IF e.kind = "midi" THEN e.data
    ELSE <<255, e.data[1]>> \o write_vlq(Len(e.data) - 1) \o Tail(e.data)

\* No running status, and an end of track whatever the caller handed over.
write_track(events) ==
    FlattenSeq([i \in DOMAIN events |-> EventBytes(events[i])])
    \o (IF events # <<>> /\ is_end_of_track(Last(events)) THEN <<>> ELSE <<0, 255, END_OF_TRACK, 0>>)

\* Reader.vlq from position i: its value and the position after it; at most
\* four bytes.
vlq(b, i) ==
    LET last == {k \in i..AtMost(Len(b), i + 3) : b[k] < 128}
        e == Min(last)
        val[k \in (i - 1)..e] == IF k = i - 1 THEN 0 ELSE val[k - 1] * 128 + (b[k] % 128)
    IN  IF last = {} THEN [ok |-> FALSE, value |-> 0, next |-> i]
        ELSE [ok |-> TRUE, value |-> val[e], next |-> e + 1]

channel_data_len(status) == IF status \div 16 \in {12, 13} THEN 1 ELSE 2

\* One event of a track: a meta event, a system-exclusive dump (kept as the
\* meta event of type 0 here), a message with its status, or one that runs on
\* the status before it.
ReadEvent(r, b) ==
    LET d == vlq(b, r.pos)
        byte == b[d.next]
        own == byte >= 128
        status == IF own THEN byte ELSE r.running
        from == IF own THEN d.next + 1 ELSE d.next
        until == from + channel_data_len(status)
        dump == byte \in {240, 247}
        head == IF dump THEN d.next + 1 ELSE d.next + 2
        len == vlq(b, head)
        end == len.next + len.value
    IN  IF ~d.ok \/ d.next > Len(b) THEN [r EXCEPT !.ok = FALSE]
        ELSE IF byte = 255 \/ dump
        THEN IF head > Len(b) \/ ~len.ok \/ end > Len(b) + 1 THEN [r EXCEPT !.ok = FALSE]
             ELSE LET e == Event(d.value, "meta", <<IF dump THEN 0 ELSE b[head - 1]>>
                                                  \o SubSeq(b, len.next, end - 1))
                  IN  [r EXCEPT !.pos = end, !.running = 0, !.events = Append(@, e),
                                !.ended = is_end_of_track(e)]
        ELSE IF status = 0 \/ until > Len(b) + 1 THEN [r EXCEPT !.ok = FALSE]
        ELSE [r EXCEPT !.pos = until, !.running = status,
                       !.events = Append(@, Event(d.value, "midi",
                                                  <<status>> \o SubSeq(b, from, until - 1)))]

\* An event takes at least two bytes, its delta and its data.
parse_track(b) ==
    LET Step(r, i) == IF ~r.ok \/ r.ended \/ r.pos > Len(b) THEN r ELSE ReadEvent(r, b)
    IN  FoldLeft(Step, [pos |-> 1, running |-> 0, events |-> <<>>, ok |-> TRUE, ended |-> FALSE],
                 [i \in 1..((Len(b) + 1) \div 2) |-> i])

-----------------------------------------------------------------------------
(* A song as a file, and a file as a song.                                    *)

\* Mutant: by their ticks alone.
Earlier_tick(a, b) == a.tick < b.tick
\* Offs before ons at one tick, so that a repeated note is released first.
Earlier(a, b) == a.tick < b.tick \/ (a.tick = b.tick /\ a.on < b.on)

\* The note-ons and note-offs of one track, each with its tick, laid end to
\* end along the order.
TrackEvents(s, order, t) ==
    LET starts == Starts(s, order)
        Timed(k) ==
            LET p == s.patterns[order[k]]
            IN  FlattenSeq([i \in DOMAIN p.notes[t] |->
                    LET n == p.notes[t][i]
                    IN  << [tick |-> (starts[k - 1] + n.step) * TICKS_PER_STEP, on |-> 1,
                            msg |-> <<144 + s.tracks[t].channel, n.pitch, n.vel>>],
                           [tick |-> (starts[k - 1] + NoteEnd(n, p.steps)) * TICKS_PER_STEP,
                            on |-> 0, msg |-> <<128 + s.tracks[t].channel, n.pitch, 0>>] >>])
        timed == FlattenSeq([k \in DOMAIN order |-> Timed(k)])
        Before(i, j) == Earlier(timed[i], timed[j]) \/ (~Earlier(timed[j], timed[i]) /\ i < j)
        Nth(k) == CHOOSE i \in DOMAIN timed :
                      Cardinality({j \in DOMAIN timed : Before(j, i)}) = k - 1
    IN  [k \in DOMAIN timed |-> timed[Nth(k)]]

WithDeltas(timed, end) ==
    LET Prev(k) == IF k = 1 THEN 0 ELSE timed[k - 1].tick
    IN  Append([k \in DOMAIN timed |-> Event(timed[k].tick - Prev(k), "midi", timed[k].msg)],
               Event(AtLeast(end - timed[Len(timed)].tick, 0), "meta", <<END_OF_TRACK>>))

\* A tempo track, then a track for every part that is not silent.
to_midi_file(s, asked) ==
    LET order == SelectSeq(asked, LAMBDA i : i \in DOMAIN s.patterns)
        end == Starts(s, order)[Len(order)] * TICKS_PER_STEP
        parts == SelectSeq([t \in Tracks |-> TrackEvents(s, order, t)], LAMBDA e : e # <<>>)
    IN  [ppq |-> TICKS_PER_QUARTER,
         tracks |-> << <<TempoEvent(s.bpm), Event(0, "meta", <<END_OF_TRACK>>)>> >>
                    \o [i \in DOMAIN parts |-> WithDeltas(parts[i], end)]]

write(file) == [ppq |-> file.ppq,
                tracks |-> [i \in DOMAIN file.tracks |-> write_track(file.tracks[i])]]

NotAFile == [ppq |-> 0, tracks |-> <<>>]
parse(bytes) ==
    LET File(read) ==
            IF bytes.ppq <= 0 \/ \E i \in DOMAIN read : ~read[i].ok THEN NotAFile
            ELSE [ppq |-> bytes.ppq, tracks |-> [i \in DOMAIN read |-> read[i].events]]
    IN  File([i \in DOMAIN bytes.tracks |-> parse_track(bytes.tracks[i])])

\* The first tempo event of any track, 500 without one.
tempo(file) ==
    LET all == SelectSeq(FlattenSeq(file.tracks),
                         LAMBDA e : e.kind = "meta" /\ e.data[1] = TEMPO /\ Len(e.data) = 4)
        d == all[1].data
    IN  IF all = <<>> THEN DEFAULT_BPM ELSE (d[2] * 65536 + d[3] * 256 + d[4]) \div 1000

\* close: the open note of (track, pitch) becomes a note of at least one step.
close(st, track, pitch, step) ==
    LET at == SelectInSeq(st.open, LAMBDA o : o.track = track /\ o.pitch = pitch)
        o == st.open[at]
    IN  IF at = 0 THEN st
        ELSE [st EXCEPT !.open = RemoveAt(@, at),
                        !.notes = Append(@, [track |-> track, start |-> o.start, pitch |-> pitch,
                                             len |-> AtLeast(step - o.start, 1), vel |-> o.vel])]

\* track_for: the track a channel is given, in the order they are heard; 0 when
\* there are more parts than tracks.
track_for(channels, c) ==
    IF Contains(channels, c) THEN SelectInSeq(channels, LAMBDA d : d = c)
    ELSE IF Len(channels) >= MAX_TRACKS THEN 0 ELSE Len(channels) + 1

\* One event of an imported track: ticks pulled to the grid of sixteenths.
ImportEvent(st, e, ppq) ==
    LET tick == st.tick + e.delta
        now == [st EXCEPT !.tick = tick]
        family == e.data[1] \div 16
        channel == e.data[1] % 16
        isOn == family = 9 /\ e.data[3] > 0
        isOff == family = 8 \/ (family = 9 /\ e.data[3] = 0)
        Heard(track) == IF track > Len(st.channels)
                        THEN [now EXCEPT !.channels = Append(@, channel)] ELSE now
        Opened(closed, track, step) ==
            IF isOn THEN [closed EXCEPT !.open = Append(@,
                 [track |-> track, pitch |-> e.data[2], start |-> step, vel |-> e.data[3]])]
            ELSE closed
        Played(track, step) ==
            IF ~(isOn \/ isOff) \/ track = 0 THEN now
            ELSE Opened(close(Heard(track), track, e.data[2], step), track, step)
    IN  IF e.kind # "midi" \/ Len(e.data) < 3 THEN now
        ELSE Played(track_for(st.channels, channel), Round(4 * tick, ppq))

\* A whole track: what it never releases ends where the track does.
ImportTrack(st, events, ppq) ==
    LET Ended(read) == FoldLeft(LAMBDA a, o : close(a, o.track, o.pitch, Round(4 * read.tick, ppq)),
                                read, read.open)
    IN  Ended(FoldLeft(LAMBDA a, e : ImportEvent(a, e, ppq), [st EXCEPT !.tick = 0], events))

\* A note split over the patterns it crosses; what is past the last is dropped.
Place(patterns, n, len) ==
    LET first == n.start \div len
        last == (n.start + n.len - 1) \div len
        Piece(k) == LET from == AtLeast(n.start, k * len)
                        to == AtMost(n.start + n.len, (k + 1) * len)
                    IN  NoteOf(from - k * len, n.pitch, to - from, n.vel)
    IN  [k \in DOMAIN patterns |-> IF k - 1 \in first..last
                                   THEN add_note(patterns[k], n.track, Piece(k - 1))
                                   ELSE patterns[k]]

from_midi_file(file, steps) ==
    LET len == Clamp(steps, 1, MAX_STEPS)
        base == [NewSong EXCEPT !.bpm = Clamp(tempo(file), FASTEST, SLOWEST)]
        Count(end) == AtMost(AtLeast((end + len - 1) \div len, 1), MAX_PATTERNS)
        Filled(st, count) ==
            [base EXCEPT
                !.tracks = [t \in Tracks |-> IF t <= Len(st.channels)
                                             THEN [channel |-> st.channels[t], muted |-> FALSE]
                                             ELSE @[t]],
                !.patterns = FoldLeft(LAMBDA ps, n : Place(ps, n, len),
                                      [k \in 1..count |-> EmptyPattern(len)], st.notes),
                !.chain = [k \in 1..count |-> k]]
        Sung(st) ==
            IF st.notes = <<>> THEN base
            ELSE Filled(st, Count(Max({st.notes[i].start + st.notes[i].len : i \in DOMAIN st.notes})))
    IN  Sung(FoldLeft(LAMBDA a, events : ImportTrack(a, events, file.ppq),
                      [tick |-> 0, channels |-> <<>>, open |-> <<>>, notes |-> <<>>], file.tracks))
=============================================================================
