-------------------------------- MODULE Midi --------------------------------
(* MIDI between nodes: the router of wk-server midi.rs with the queue of each *)
(* destination, the reconciler sync_midi of server.rs, the byte-stream        *)
(* decoder of midi/stream.rs and the hardware ports of midihw.rs.  A message  *)
(* is the sequence of its bytes.  What a synth does with a message, and the   *)
(* hardware behind a port, are external: they sound the notes they are told.  *)
EXTENDS SequencesExt

CONSTANTS
    Apps, Ins, Outs,  \* app nodes, hardware input nodes, hardware output nodes
    Wires,            \* the (source, destination) pairs that may be drawn
    Statuses,         \* the status bytes a keyboard's port produces
    Datas,            \* the data bytes it produces
    GuestMessages,    \* the messages app nodes send
    Channels,         \* the channels a wire may be narrowed to, 1 to 16
    BACKLOG,          \* messages a queue holds
    SYSEX_LIMIT,      \* bytes of a system-exclusive dump
    MaxOpens,         \* how often an output node's device is opened
    MaxEvents         \* how many commands, messages and bytes there are

ASSUME MidiAssumption ==
    /\ BACKLOG \in Nat \ {0} /\ SYSEX_LIMIT \in Nat /\ MaxOpens \in Nat \ {0}
    /\ IsFiniteSet(Wires) /\ Wires \subseteq (Apps \union Ins) \X (Apps \union Outs)
    /\ Apps \intersect (Ins \union Outs) = {}
    /\ GuestMessages \subseteq Seq(0..255) /\ Statuses \union Datas \subseteq 0..255

VARIABLES
    placed,        \* the nodes of the canvas
    midi_links,    \* the wires drawn
    midi_channels, \* the one channel of the wires narrowed to one
    denied,        \* the wires some endpoint's token does not allow
    routed,        \* the wires sync_midi has given the router
    links,         \* Routes.links: [inbox, channel, held] of each live wire
    queue,         \* the messages waiting in each inbox: [data, ahead]
    out_inbox,     \* the inbox of each output node's open device, or NoInbox
    pump,          \* the pump thread of each device inbox: "none", "up", "halted"
    decoder,       \* per input node: its port's decoder, or NoDecoder
    sounding,      \* (channel, note)s each destination sounds
    scheduled,     \* messages a destination holds until their instant
    lost,          \* note-offs that could not do their work (see Push)
    events         \* commands, messages and bytes so far

midiVars == <<placed, midi_links, midi_channels, denied, routed, links, queue, out_inbox,
              pump, decoder, sounding, scheduled, lost, events>>

router == <<links, queue, lost>>
canvas == <<placed, midi_links, denied>>
dests == <<sounding, scheduled>>
ports == <<out_inbox, pump, decoder>>

Dests == Apps \union Outs
\* An app's inbox lives as long as its node; a device's as long as it is open.
NoInbox == <<"none", 0>>
Inboxes == (Apps \X {0}) \union (Outs \X (1..MaxOpens))
Owner(i) == i[1]

-----------------------------------------------------------------------------
(* Bytes and messages.                                                        *)

NoteOff == 128
NoteOn == 144
Control == 176
Family(status) == status - (status % 16)
Channel(status) == status % 16

is_note_off(data) ==
    /\ Len(data) = 3
    /\ \/ Family(data[1]) = NoteOff
       \/ Family(data[1]) = NoteOn /\ data[3] = 0
IsNoteOn(data) == Len(data) = 3 /\ Family(data[1]) = NoteOn /\ data[3] > 0
IsAllOff(data, controls) == Len(data) = 3 /\ Family(data[1]) = Control /\ data[2] \in controls
Key(data) == <<Channel(data[1]), data[2]>>

Now(data) == [data |-> data, ahead |-> FALSE]

\* What a synth sounds after a message (plugins/synth: controllers 120 and 123
\* silence it, 121 does nothing).  External.
Sound(notes, data) ==
    IF IsNoteOn(data) THEN notes \union {Key(data)}
    ELSE IF is_note_off(data) THEN notes \ {Key(data)}
    ELSE IF IsAllOff(data, {120, 123})
         THEN {k \in notes : k[1] # Channel(data[1])}
    ELSE notes

-----------------------------------------------------------------------------
(* Inbox: a queue that sheds when full, and what a shed or early note-off     *)
(* leaves behind.                                                             *)

push(q, e) ==
    LET spare == {i \in DOMAIN q : ~is_note_off(q[i].data)}
    IN  Append(IF Len(q) < BACKLOG THEN q
               ELSE IF spare # {} THEN RemoveAt(q, Min(spare))
               ELSE Tail(q), e)

\* The notes whose note-on waits for its instant at the destination of inbox i.
NotYet(i, qs) ==
    {Key(e.data) : e \in {x \in Range(qs[i]) \union Range(scheduled[Owner(i)]) :
                             x.ahead /\ IsNoteOn(x.data)}}

\* A router state r = [queue, lost] after e is pushed into inbox i.  lost takes
\* the notes of a note-off shed from a queue of nothing but note-offs, and of a
\* release for now that overtakes a note-on still waiting for its instant; a
\* new note-on makes the note an ordinary one again.
Push(r, i, e) ==
    LET shed == IF Len(r.queue[i]) >= BACKLOG /\ \A x \in Range(r.queue[i]) : is_note_off(x.data)
                THEN {Key(Head(r.queue[i]).data)} ELSE {}
        overtaken == IF e.ahead THEN {}
                     ELSE {k \in NotYet(i, r.queue) : k \notin Sound({k}, e.data)}
        again == IF IsNoteOn(e.data) THEN {Key(e.data)} ELSE {}
    IN  [queue |-> [r.queue EXCEPT ![i] = push(@, e)],
         lost |-> [r.lost EXCEPT ![Owner(i)] = (@ \ again) \union shed \union overtaken]]

-----------------------------------------------------------------------------
(* Link and Routes.                                                           *)

carries(link, data) ==
    \/ link.channel = 0
    \/ data[1] >= 240
    \/ Channel(data[1]) + 1 = link.channel

observe(held, data) ==
    IF IsNoteOn(data) THEN held \union {Key(data)}
    ELSE IF is_note_off(data) THEN held \ {Key(data)}
    ELSE IF IsAllOff(data, {120, 121, 123}) THEN {k \in held : k[1] # Channel(data[1])}
    ELSE held

OffFor(k) == Now(<<NoteOff + k[1], k[2], 0>>)
AllOffFor(c) == Now(<<Control + c, 123, 0>>)
PushAll(r, i, es) ==
    LET done[n \in Nat] == IF n = 0 THEN r ELSE Push(done[n - 1], i, es[n])
    IN  done[Len(es)]

\* Link::release: a note-off for each note the wire holds, then all-notes-off
\* on their channels.  (The set is drained in hash order; one order stands for
\* all, for note-offs of different notes commute.)
release_silently(r, link) == r
release(r, link) ==
    PushAll(r, link.inbox,
            SetToSeq({OffFor(k) : k \in link.held})
            \o SetToSeq({AllOffFor(k[1]) : k \in link.held}))

\* Routes::set_channel on one wire: what it no longer carries is released.
set_channel(rs, p, c) ==
    LET link == rs.links[p]
        narrowed == [link EXCEPT !.channel = c]
        orphaned == {k \in link.held : ~carries(narrowed, <<NoteOn + k[1], k[2], 1>>)}
        r == PushAll([queue |-> rs.queue, lost |-> rs.lost], link.inbox,
                     SetToSeq({OffFor(k) : k \in orphaned}))
    IN  [links |-> [rs.links EXCEPT ![p] = [narrowed EXCEPT !.held = @ \ orphaned]],
         queue |-> r.queue, lost |-> r.lost]

\* Routes::disconnect of the wires ps.
Disconnect(rs, ps) ==
    LET cut == SetToSeq(ps)
        done[n \in Nat] == IF n = 0 THEN [queue |-> rs.queue, lost |-> rs.lost]
                           ELSE release(done[n - 1], rs.links[cut[n]])
        r == done[Len(cut)]
    IN  [links |-> [p \in DOMAIN rs.links \ ps |-> rs.links[p]],
         queue |-> r.queue, lost |-> r.lost]

Routes == [links |-> links, queue |-> queue, lost |-> lost]
RoutesBecome(rs) == links' = rs.links /\ queue' = rs.queue /\ lost' = rs.lost

\* Routes::send: down every wire from src that carries the message.
send(rs, src, e) ==
    LET down == {p \in DOMAIN rs.links : p[1] = src /\ carries(rs.links[p], e.data)}
        to == SetToSeq(down)
        done[n \in Nat] == IF n = 0 THEN [queue |-> rs.queue, lost |-> rs.lost]
                           ELSE Push(done[n - 1], rs.links[to[n]].inbox, e)
        r == done[Len(to)]
    IN  [links |-> [p \in DOMAIN rs.links |->
                       IF p \in down THEN [rs.links[p] EXCEPT !.held = observe(@, e.data)]
                       ELSE rs.links[p]],
         queue |-> r.queue, lost |-> r.lost]

-----------------------------------------------------------------------------
(* sync_midi: the router brought in line with the wires the tokens allow.     *)
(* Run after every change of a wire or a channel, and by every tick.          *)

\* The inbox a destination has now: its app's, or its open device's.
InboxOf(d, on_canvas, outs) ==
    IF d \in Outs THEN outs[d] ELSE IF d \in on_canvas THEN <<d, 0>> ELSE NoInbox

ChannelOf(p, channels) == IF p \in DOMAIN channels THEN channels[p] ELSE 0

\* The channels of the wires in live, where they differ from the document's.
Tuned(rs, live, channels) ==
    LET off == SetToSeq({p \in live : rs.links[p].channel # ChannelOf(p, channels)})
        done[n \in Nat] == IF n = 0 THEN rs
                           ELSE set_channel(done[n - 1], off[n], ChannelOf(off[n], channels))
    IN  done[Len(off)]

\* rs, active: the router and routed before; the rest is the canvas after.
Synced(rs, active, wires, channels, on_canvas) ==
    LET desired == wires \ denied
        kept == Disconnect(rs, active \ desired)
        added == {p \in desired \ active : InboxOf(p[2], on_canvas, out_inbox) # NoInbox}
        Fresh(p) == [inbox |-> InboxOf(p[2], on_canvas, out_inbox), channel |-> 0, held |-> {}]
        wired == [links |-> [p \in DOMAIN kept.links \union added |->
                                IF p \in DOMAIN kept.links THEN kept.links[p] ELSE Fresh(p)],
                  queue |-> kept.queue, lost |-> kept.lost]
        live == (active \intersect desired) \union added
    IN  [routes |-> Tuned(wired, live, channels), routed |-> live,
         channels |-> [p \in DOMAIN channels \intersect wires |-> channels[p]]]

sync_midi(rs, active, wires, channels, on_canvas) ==
    \E s \in {Synced(rs, active, wires, channels, on_canvas)} :
        /\ RoutesBecome(s.routes)
        /\ routed' = s.routed
        /\ midi_channels' = s.channels

Counted == events < MaxEvents /\ events' = events + 1

\* Server::tick.
Tick ==
    /\ sync_midi(Routes, routed, midi_links, midi_channels, placed)
    /\ UNCHANGED <<canvas, ports, dests, events>>

\* toggle_midi: draw the wire, or cut it.
ToggleMidi(p) ==
    /\ p[1] \in placed /\ p[2] \in placed
    /\ Counted
    /\ midi_links' = IF p \in midi_links THEN midi_links \ {p} ELSE midi_links \union {p}
    /\ sync_midi(Routes, routed, midi_links', midi_channels, placed)
    /\ UNCHANGED <<placed, denied, ports, dests>>

\* set_midi_channel; 0 is all sixteen.
SetMidiChannel(p, c) ==
    /\ p \in midi_links
    /\ Counted
    /\ LET channels == IF c = 0 THEN [q \in DOMAIN midi_channels \ {p} |-> midi_channels[q]]
                       ELSE (p :> c) @@ midi_channels
       IN  sync_midi(Routes, routed, midi_links, channels, placed)
    /\ UNCHANGED <<canvas, ports, dests>>

\* A new token for an endpoint, noticed by the next sync.
SetToken(p) ==
    /\ Counted
    /\ denied' = IF p \in denied THEN denied \ {p} ELSE denied \union {p}
    /\ UNCHANGED <<placed, midi_links, midi_channels, routed, router, ports, dests>>

\* close_node of an app.
CloseApp(a) ==
    /\ a \in Apps \intersect placed
    /\ Counted
    /\ placed' = placed \ {a}
    /\ midi_links' = {p \in midi_links : a \notin {p[1], p[2]}}
    /\ sync_midi(Routes, routed, midi_links', midi_channels, placed')
    /\ UNCHANGED <<denied, ports, dests>>

\* Routes::remove_node: its own wires let go of their notes, those into it are
\* dropped as they are.
remove_node(id) ==
    LET own == Disconnect(Routes, {p \in DOMAIN links : p[1] = id})
    IN  [own EXCEPT !.links = [p \in {q \in DOMAIN own.links : q[2] # id} |-> own.links[p]]]

\* remove_midi_in_node and remove_midi_out_node; the device is closed first.
RemoveDevice(id) ==
    /\ id \in (Ins \union Outs) \intersect placed
    /\ Counted
    /\ placed' = placed \ {id}
    /\ decoder' = [k \in DOMAIN decoder \ {id} |-> decoder[k]]
    /\ out_inbox' = [o \in Outs |-> IF o = id THEN NoInbox ELSE out_inbox[o]]
    /\ pump' = [i \in Inboxes |-> IF Owner(i) = id /\ pump[i] = "up" THEN "halted" ELSE pump[i]]
    /\ RoutesBecome(remove_node(id))
    /\ midi_links' = {p \in midi_links : id \notin {p[1], p[2]}}
    /\ routed' = {p \in routed : id \notin {p[1], p[2]}}
    /\ UNCHANGED <<midi_channels, denied, dests>>

-----------------------------------------------------------------------------
(* Hardware ports.                                                            *)

\* stream.rs Decoder: the status awaiting data, the data so far, the dump in
\* progress (empty: none).
NewDecoder == [pending |-> 0, data |-> << >>, sysex |-> << >>]

data_len(status) ==
    IF status < 192 \/ status \in 224..239 \/ status = 242 THEN 2
    ELSE IF status < 224 \/ status \in {241, 243} THEN 1
    ELSE 0

\* Decoder::byte: the decoder after byte b, and the messages b completes.
RealTime(d, b) == [dec |-> d, out |-> <<<<b>>>>]
EndOfSysex(d, b) ==
    [dec |-> [pending |-> 0, data |-> d.data, sysex |-> << >>],
     out |-> IF d.sysex # << >> THEN <<Append(d.sysex, b)>> ELSE << >>]
StartOfSysex(d, b) == [dec |-> [pending |-> 0, data |-> << >>, sysex |-> <<b>>], out |-> << >>]
OtherStatus_keeps_data(d, b) ==
    [dec |-> [d EXCEPT !.sysex = << >>, !.pending = b], out |-> << >>]
OtherStatus(d, b) ==
    IF data_len(b) = 0 THEN [dec |-> NewDecoder, out |-> <<<<b>>>>]
    ELSE [dec |-> [pending |-> b, data |-> << >>, sysex |-> << >>], out |-> << >>]
DataByte(d, b) ==
    IF d.sysex # << >>
    THEN [dec |-> [d EXCEPT !.sysex = IF Len(@) < SYSEX_LIMIT THEN Append(@, b) ELSE << >>],
          out |-> << >>]
    ELSE IF d.pending = 0 THEN [dec |-> d, out |-> << >>]
    ELSE IF Len(d.data) + 1 < data_len(d.pending)
         THEN [dec |-> [d EXCEPT !.data = Append(@, b)], out |-> << >>]
    ELSE [dec |-> [pending |-> IF d.pending < 240 THEN d.pending ELSE 0,
                   data |-> << >>, sysex |-> d.sysex],
          out |-> <<<<d.pending>> \o Append(d.data, b)>>]
byte(d, b) ==
    IF b >= 248 THEN RealTime(d, b)
    ELSE IF b = 247 THEN EndOfSysex(d, b)
    ELSE IF b = 240 THEN StartOfSysex(d, b)
    ELSE IF b >= 128 THEN OtherStatus(d, b)
    ELSE DataByte(d, b)

SendAll(rs, src, ms) ==
    LET done[n \in Nat] == IF n = 0 THEN rs ELSE send(done[n - 1], src, Now(ms[n]))
    IN  done[Len(ms)]

\* The input port's callback: whole messages go to the router as the node's.
KeyboardByte(k, b) ==
    /\ k \in DOMAIN decoder
    /\ Counted
    /\ LET step == byte(decoder[k], b)
       IN  /\ decoder' = [decoder EXCEPT ![k] = step.dec]
           /\ RoutesBecome(SendAll(Routes, k, step.out))
    /\ UNCHANGED <<canvas, midi_channels, routed, out_inbox, pump, dests>>

\* set_midi_device on an input node: the old port is closed, another opened (or
\* none is found).
OpenInput(k) ==
    /\ k \in Ins \intersect placed
    /\ Counted
    /\ \/ decoder' = [j \in DOMAIN decoder \union {k} |-> IF j = k THEN NewDecoder ELSE decoder[j]]
       \/ decoder' = [j \in DOMAIN decoder \ {k} |-> decoder[j]]
    /\ UNCHANGED <<canvas, midi_channels, routed, router, out_inbox, pump, dests>>

\* open_midi_out_device: the old device is told to stop, a new one with a new
\* inbox opened (or none is found), and the routes into the old one dropped.
DropRoutesInto(o) == Disconnect(Routes, {p \in routed : p[2] = o})
NextInbox(o) == CHOOSE n \in 1..MaxOpens : pump[<<o, n>>] = "none"
OpenOutput(o) ==
    /\ o \in Outs \intersect placed
    /\ Counted
    /\ \E n \in 1..MaxOpens : pump[<<o, n>>] = "none"
    /\ LET new == <<o, NextInbox(o)>>
           closed == [i \in Inboxes |-> IF Owner(i) = o /\ pump[i] = "up" THEN "halted" ELSE pump[i]]
       IN  \/ out_inbox' = [out_inbox EXCEPT ![o] = new] /\ pump' = [closed EXCEPT ![new] = "up"]
           \/ out_inbox' = [out_inbox EXCEPT ![o] = NoInbox] /\ pump' = closed
    /\ LET rs == DropRoutesInto(o)
       IN  RoutesBecome(rs) /\ routed' = DOMAIN rs.links
    /\ UNCHANGED <<canvas, midi_channels, decoder, dests>>

-----------------------------------------------------------------------------
(* Guests, pumps and what they play into.                                     *)

\* output.send and output.send-at of an app; its guest may outlive the node a
\* little, until the kill is noticed.
GuestSend(a, data, ahead) ==
    /\ \E p \in DOMAIN links : p[1] = a  \* else nobody hears it
    /\ Counted
    /\ RoutesBecome(send(Routes, a, [data |-> data, ahead |-> ahead]))
    /\ UNCHANGED <<canvas, midi_channels, routed, ports, dests>>

\* A destination takes a message: it sounds it, or holds it until its instant.
Taken(d, e) ==
    IF e.ahead THEN scheduled' = [scheduled EXCEPT ![d] = Append(@, e)] /\ UNCHANGED sounding
    ELSE sounding' = [sounding EXCEPT ![d] = Sound(@, e.data)] /\ UNCHANGED scheduled

\* input.receive-event.
Receive(a) ==
    /\ queue[<<a, 0>>] # << >>
    /\ Taken(a, Head(queue[<<a, 0>>]))
    /\ queue' = [queue EXCEPT ![<<a, 0>>] = Tail(@)]
    /\ UNCHANGED <<canvas, midi_channels, routed, links, lost, ports, events>>

\* A held message's instant comes; instants ascend in the order they were sent.
Due(d) ==
    /\ scheduled[d] # << >>
    /\ sounding' = [sounding EXCEPT ![d] = Sound(@, Head(scheduled[d]).data)]
    /\ scheduled' = [scheduled EXCEPT ![d] = Tail(@)]
    /\ UNCHANGED <<canvas, midi_channels, routed, router, ports, events>>

\* What of notes sounds after the messages of q that are for now, or ahead.
Played(notes, q, ahead) ==
    LET done[n \in Nat] == IF n = 0 THEN notes
                           ELSE IF q[n].ahead = ahead THEN Sound(done[n - 1], q[n].data)
                           ELSE done[n - 1]
    IN  done[Len(q)]

\* The pump of a device: it looks at the stop flag, then drains (a halted pump
\* may be past the look), each message played out of the port.
PumpDrain(i) ==
    /\ pump[i] \in {"up", "halted"} /\ queue[i] # << >>
    /\ LET held == SelectSeq(queue[i], LAMBDA e : e.ahead)
       IN  /\ sounding' = [sounding EXCEPT ![Owner(i)] =
                             Played(@, queue[i], FALSE)]
           /\ scheduled' = [scheduled EXCEPT ![Owner(i)] = @ \o held]
    /\ queue' = [queue EXCEPT ![i] = << >>]
    /\ pump' = [pump EXCEPT ![i] = IF @ = "halted" THEN "gone" ELSE @]
    /\ UNCHANGED <<canvas, midi_channels, routed, links, lost, out_inbox, decoder, events>>

PumpEnds(i) ==
    /\ pump[i] = "halted"
    /\ pump' = [pump EXCEPT ![i] = "gone"]
    /\ UNCHANGED <<canvas, midi_channels, routed, router, out_inbox, decoder, dests, events>>

\* The guest of a destination is stopped and run again: its voices are gone,
\* its inbox stays.
Rerun(a) ==
    /\ a \in placed /\ <<sounding[a], scheduled[a]>> # <<{}, << >>>>
    /\ Counted
    /\ sounding' = [sounding EXCEPT ![a] = {}]
    /\ scheduled' = [scheduled EXCEPT ![a] = << >>]
    /\ UNCHANGED <<canvas, midi_channels, routed, router, ports>>

-----------------------------------------------------------------------------
MidiInit ==
    /\ placed = Apps \union Ins \union Outs
    /\ midi_links \in {{}, Wires} \* a blank canvas, or what a workspace file says
    /\ midi_channels = << >> /\ denied = {}
    /\ routed = {} /\ links = << >>
    /\ queue = [i \in Inboxes |-> << >>]
    /\ out_inbox = [o \in Outs |-> <<o, 1>>]
    /\ pump = [i \in Inboxes |-> IF Owner(i) \in Outs /\ i[2] = 1 THEN "up" ELSE "none"]
    /\ decoder = [k \in Ins |-> NewDecoder]
    /\ sounding = [d \in Dests |-> {}] /\ scheduled = [d \in Dests |-> << >>]
    /\ lost = [d \in Dests |-> {}]
    /\ events = 0

MidiNext ==
    \/ Tick
    \/ \E p \in Wires :
         \/ ToggleMidi(p) \/ SetToken(p)
         \/ \E c \in Channels \union {0} : SetMidiChannel(p, c)
    \/ \E a \in Apps :
         \/ CloseApp(a) \/ Receive(a) \/ Rerun(a)
         \/ \E data \in GuestMessages, ahead \in BOOLEAN : GuestSend(a, data, ahead)
    \/ \E k \in Ins : OpenInput(k) \/ \E b \in Statuses \union Datas : KeyboardByte(k, b)
    \/ \E o \in Outs : OpenOutput(o)
    \/ \E d \in Ins \union Outs : RemoveDevice(d)
    \/ \E d \in Dests : Due(d)
    \/ \E i \in Inboxes : PumpDrain(i) \/ PumpEnds(i)

MidiSpec == MidiInit /\ [][MidiNext]_midiVars

-----------------------------------------------------------------------------
(* Properties.                                                                *)

Held(d) == UNION {links[p].held : p \in {q \in DOMAIN links : q[2] = d}}

\* What destination d sounds once everything on its way has been played.
InTheEnd(d, i) ==
    LET now == Played(sounding[d], queue[i], FALSE)
        due == Played(now, scheduled[d], TRUE)
    IN  Played(due, queue[i], TRUE)

\* No source uses the channel-mode messages 120, 121 and 123.  With them notes
\* can hang: observe takes 121 for a release and a synth does not, and a queue
\* that is full sheds 120 and 123 as it would a note-on.
NotesOnly ==
    /\ \A m \in GuestMessages : ~IsAllOff(m, {120, 121, 123})
    /\ \A b \in Statuses \union Datas : Family(b) # Control

\* No note is left sounding with nothing to turn it off: once an app has played
\* what is on its way to it, every note it sounds is held by a wire that still
\* leads to it, so that its source's note-off, or cutting the wire, ends it
\* (midi.rs, the held notes of a Link).  Excepted are only notes whose release
\* was shed from a queue full of releases, or came before their scheduled start.
NoStuckNote ==
    \A a \in Apps \intersect placed : InTheEnd(a, <<a, 0>>) \subseteq Held(a) \union lost[a]

\* The instrument behind a deleted hardware output sounds nothing once the pump
\* is done: deleting a node releases the notes played into it (midi.rs:14-16).
DeletedOutputIsSilent ==
    \A o \in Outs \ placed :
        (\A i \in Inboxes : Owner(i) = o => pump[i] \in {"none", "gone"})
            => sounding[o] = {}

\* Every message in an inbox is one whole message: a status byte and exactly
\* its data, or a dump from f0 to f7; never a fragment or two run together,
\* however the port's bytes were cut up or interrupted (stream.rs Decoder).
Whole(m) ==
    \/ /\ m[1] >= 128 /\ m[1] # 240 /\ m[1] # 247
       /\ Len(m) = 1 + data_len(m[1])
       /\ \A j \in 2..Len(m) : m[j] < 128
    \/ /\ m[1] = 240 /\ m[Len(m)] = 247
       /\ \A j \in 2..(Len(m) - 1) : m[j] < 128
WholeMessages == \A i \in Inboxes : \A e \in Range(queue[i]) : Whole(e.data)

=============================================================================
