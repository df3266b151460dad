-------------------------- MODULE WorkspaceProofs ---------------------------
(* Two promises of what a workspace holds, kept whatever is done to the graph: *)
(* its persistent volumes, and its MIDI wires.                                 *)
(*                                                                             *)
(* A save which is not cut short, and in which no write fails, keeps a sidecar *)
(* for every volume the file asks to persist, whatever became of the saves     *)
(* before it.  The file and the sidecars change in different steps, so the     *)
(* invariant says what each leaves for the next: from the writing of the       *)
(* sidecars to the writing of the file every volume that is persisted in the   *)
(* graph has one, and pruning takes none of them and none that a definition    *)
(* asks for; a failure is remembered until the next save begins.  Nothing is   *)
(* assumed of the graph: edits, undo and instancing may do to it what they     *)
(* like.                                                                       *)
(*                                                                             *)
(* No MIDI note is left sounding with nothing to turn it off.  The invariant   *)
(* says of every note of every app: a wire into the app holds it, or its       *)
(* release was lost, or every note-on of it, sounding, scheduled or queued,    *)
(* has a note-off behind it.                                                   *)
EXTENDS Workspace, Midi, SequenceTheorems, FiniteSetTheorems, TLAPS

InDefinitions == DefPersist \cap UNION {Defs[d].nodes : d \in DOMAIN Defs}

\* The steps of the save between the first sidecar and the last byte of the file.
Saving == {"prune", "truncate", "write"}

\* What a definition asks for is there at every step of every save.
DefinitionsKept == InDefinitions \subseteq DOMAIN side

\* What the file asks for is there while no save is under way.
FileKept == phase \in {"down", "up"} /\ ~torn => file.persist \subseteq DOMAIN side

\* What the graph asks for is there while a save is under way that has not failed:
\* the file to be.
GraphKept == phase \in Saving /\ ~torn => graph.persist \subseteq DOMAIN side

KeptInv == DefinitionsKept /\ FileKept /\ GraphKept

LEMMA AskedParts == ASSUME NEW doc PROVE Asked(doc) = doc.persist \cup InDefinitions
BY DEF Asked, InDefinitions

\* Pruning keeps every sidecar of the keep-set that was there.
LEMMA PrunedDomain == ASSUME NEW left PROVE DOMAIN side \cap KeepSet \subseteq DOMAIN Pruned(left)
BY DEF Pruned

\* Writing sidecars drops none, and leaves one for every volume if all succeed.
LEMMA WrittenDomain ==
    /\ \A bad, cut : DOMAIN side \subseteq DOMAIN SidesWritten(bad, cut)
    /\ graph.persist \subseteq DOMAIN SidesWritten({}, {})
BY DEF SidesWritten

\* The keep-set holds what is persisted in the graph, placed or not, and what
\* the definitions ask for.
LEMMA KeepSetHolds == graph.persist \cup InDefinitions \subseteq KeepSet
BY DEF KeepSet, Asked, InDefinitions

\* A save writes no more of the persisted volumes than there are.
LEMMA SavedPersist == Saved(graph).persist \subseteq graph.persist
BY DEF Saved

LEMMA BlankAsksNothing == ASSUME NEW t PROVE BlankDoc(t).persist = {}
BY DEF BlankDoc

LEMMA InitKept == Init => KeptInv
BY AskedParts DEF Init, KeptInv, DefinitionsKept, FileKept, GraphKept, Saving

\* A step that leaves the file and the sidecars alone, and no save under way.
Harmless == /\ UNCHANGED <<file, side, torn>>
            /\ phase \in {"down", "up"} /\ phase' \in {"down", "up"}

LEMMA HarmlessStep == ASSUME KeptInv, Harmless PROVE KeptInv'
BY DEF KeptInv, Harmless, DefinitionsKept, FileKept, GraphKept, Saving

\* Every action but those of the save, and a death during one, is harmless.
LEMMA EditsAreHarmless ==
    ASSUME Next
    PROVE  \/ Harmless \/ WriteSidecars \/ SidecarsFail \/ VolumeDirFails \/ PruneSidecars
           \/ PruneFails \/ TruncateFile \/ WriteFile \/ FileFails \/ Crash
<1>1. CASE Start
  BY <1>1 DEF Start, Harmless
<1>2. ASSUME NEW S, Install(S) PROVE Harmless
  BY <1>2 DEF Install, Harmless
<1>3. ASSUME NEW u, NEW gr, Edit(u, gr) PROVE Harmless
  BY <1>3 DEF Edit, CanEdit, Harmless
<1>4. ASSUME NEW n, NEW t, AddNode(n, t) PROVE Harmless
  BY <1>3, <1>4 DEF AddNode
<1>5. ASSUME NEW h, NEW new, DuplicateGroup(h, new) PROVE Harmless
  BY <1>3, <1>5 DEF DuplicateGroup
<1>6. ASSUME NEW u, NEW b, ToggleWire(u, b) PROVE Harmless
  BY <1>3, <1>6 DEF ToggleWire
<1>7. ASSUME NEW l, NEW on, SetBoundary(l, on) PROVE Harmless
  BY <1>3, <1>7 DEF SetBoundary
<1>8. ASSUME NEW n, DeleteNode(n) PROVE Harmless
  BY <1>3, <1>8 DEF DeleteNode
<1>9. ASSUME NEW t, AddTab(t) \/ DeleteTab(t) PROVE Harmless
  BY <1>3, <1>9 DEF AddTab, DeleteTab
<1>10. CASE Undo
  BY <1>10 DEF Undo, Harmless
<1>11. ASSUME NEW u, TogglePersist(u) PROVE Harmless
  BY <1>11 DEF TogglePersist, CanEdit, Harmless
<1>12. ASSUME NEW u, NEW b, GuestWrites(u, b) PROVE Harmless
  BY <1>12 DEF GuestWrites, CanEdit, Harmless
<1>13. ASSUME NEW w, SetMount(w) PROVE Harmless
  BY <1>13 DEF SetMount, CanEdit, Harmless
<1> QED
  BY <1>1, <1>2, <1>4, <1>5, <1>6, <1>7, <1>8, <1>9, <1>10, <1>11, <1>12, <1>13 DEF Next

LEMMA KeptStep == KeptInv /\ [Next]_vars => KeptInv'
<1> SUFFICES ASSUME KeptInv, [Next]_vars PROVE KeptInv'
  OBVIOUS
<1> USE DEF KeptInv, DefinitionsKept, FileKept, GraphKept, Saving
<1>1. CASE Harmless
  BY <1>1, HarmlessStep
<1>2. CASE WriteSidecars
  <2>1. graph.persist \cup DOMAIN side \subseteq DOMAIN side'
    BY <1>2, WrittenDomain DEF WriteSidecars
  <2> QED
    BY <1>2, <2>1 DEF WriteSidecars
<1>3. CASE PruneSidecars \/ PruneFails
  <2>1. DOMAIN side \cap KeepSet \subseteq DOMAIN side'
    BY <1>3, PrunedDomain DEF PruneSidecars, PruneFails
  <2>2. phase = "prune" /\ phase' = "truncate" /\ UNCHANGED <<graph, file, torn>>
    BY <1>3 DEF PruneSidecars, PruneFails
  <2> QED
    BY <2>1, <2>2, KeepSetHolds
<1>4. CASE TruncateFile
  BY <1>4 DEF TruncateFile
<1>5. CASE WriteFile
  BY <1>5, SavedPersist DEF WriteFile, Exit
<1>6. CASE Crash
  BY <1>6 DEF Crash, Exit
<1>8. CASE SidecarsFail
  <2>1. DOMAIN side \subseteq DOMAIN side' /\ torn'
    BY <1>8, WrittenDomain DEF SidecarsFail, Failure
  <2> QED
    BY <2>1
<1>9. CASE VolumeDirFails \/ FileFails
  BY <1>9 DEF VolumeDirFails, FileFails, Failure
<1>7. CASE UNCHANGED vars
  BY <1>7 DEF vars
<1> QED
  BY <1>1, <1>2, <1>3, <1>4, <1>5, <1>6, <1>7, <1>8, <1>9, EditsAreHarmless

\* AskedForIsKept for every document, every set of definitions and every number
\* of edits: unless the server died within the last save, or one of its writes
\* failed (save_persisted_volumes and save log an error and go on), each volume
\* that the file says to persist, in a tab or in a definition, has its sidecar,
\* though the save prunes the sidecars before it writes the file.
THEOREM PersistedAreKept == Spec => []AskedForIsKept
<1>1. KeptInv => AskedForIsKept
  BY AskedParts DEF KeptInv, DefinitionsKept, FileKept, AskedForIsKept
<1> QED
  BY InitKept, KeptStep, <1>1, PTL DEF Spec

-----------------------------------------------------------------------------
(* Bytes, messages, and one note of one destination. *)

Starts(e, k) == IsNoteOn(e.data) /\ Key(e.data) = k
Ends(e, k) == is_note_off(e.data) /\ Key(e.data) = k

LEMMA OnIsNotOff == ASSUME NEW e, NEW k PROVE ~(Starts(e, k) /\ is_note_off(e.data))
BY DEF Starts, IsNoteOn, is_note_off, NoteOn, NoteOff

\* What a message does to a note: an on adds it, an off takes it, nothing else
\* adds it.
LEMMA SoundOfOne ==
    ASSUME NEW notes, NEW e, NEW k
    PROVE  /\ Starts(e, k) => k \in Sound(notes, e.data)
           /\ Ends(e, k) => k \notin Sound(notes, e.data)
           /\ ~Starts(e, k) /\ k \notin notes => k \notin Sound(notes, e.data)
BY OnIsNotOff DEF Sound, Starts, Ends

\* Every note-on of k, sounding, scheduled or queued, has a note-off behind it:
\* a scheduled one a scheduled one, and one for now either kind.
Silent(z, sc, q, k) ==
    /\ k \in z => \/ \E m \in DOMAIN q : Ends(q[m], k)
                 \/ \E m \in DOMAIN sc : Ends(sc[m], k)
    /\ \A j \in DOMAIN sc : Starts(sc[j], k) =>
          \/ \E m \in DOMAIN sc : m > j /\ Ends(sc[m], k)
          \/ \E m \in DOMAIN q : q[m].ahead /\ Ends(q[m], k)
    /\ \A j \in DOMAIN q : Starts(q[j], k) =>
          \E m \in DOMAIN q : m > j /\ Ends(q[m], k) /\ (q[j].ahead => q[m].ahead)

Event == [data : Seq(0..255), ahead : BOOLEAN]
Scheduled == {e \in Event : e.ahead}

-----------------------------------------------------------------------------
(* What is played in the end. *)

PlayStep(c, d, x, n) == IF d[n].ahead = c THEN Sound(x, d[n].data) ELSE x
Playing == INSTANCE Recursion WITH step <- PlayStep

\* A note is over if every note-on of it has a note-off behind it.
LEMMA PlayedOut ==
    ASSUME NEW z, NEW q \in Seq(Event), NEW c, NEW k,
           k \in z => \E m \in DOMAIN q : q[m].ahead = c /\ Ends(q[m], k),
           \A j \in DOMAIN q : q[j].ahead = c /\ Starts(q[j], k) =>
               \E m \in DOMAIN q : m > j /\ q[m].ahead = c /\ Ends(q[m], k)
    PROVE  k \notin Played(z, q, c)
<1> DEFINE done[n \in Nat] == IF n = 0 THEN z
                              ELSE IF q[n].ahead = c THEN Sound(done[n - 1], q[n].data)
                              ELSE done[n - 1]
           off(m) == q[m].ahead = c /\ Ends(q[m], k)
           on(j) == q[j].ahead = c /\ Starts(q[j], k)
<1>1. Played(z, q, c) = done[Len(q)]
  BY DEF Played
<1>2. done = [n \in Nat |-> IF n = 0 THEN z
                            ELSE IF q[n].ahead = c THEN Sound(done[n - 1], q[n].data)
                            ELSE done[n - 1]]
  <2>1. PICK r : Playing!IsRun(c, q, z, r)
    BY Playing!RunExists
  <2> QED BY <2>1 DEF Playing!IsRun, PlayStep
<1> HIDE DEF done
<1>3. Len(q) \in Nat /\ DOMAIN q = 1..Len(q)
  OBVIOUS
<1> DEFINE Why(n) == \/ k \in z /\ \A m \in 1..n : ~off(m)
                     \/ \E j \in 1..n : on(j) /\ \A m \in (j + 1)..n : ~off(m)
           T == {n \in Nat : k \in done[n] => Why(n)}
<1>4. 0 \in T
  BY <1>2
<1>5. ASSUME NEW n \in Nat, n \in T PROVE n + 1 \in T
  <2>1. n + 1 # 0 /\ (n + 1) - 1 = n /\ n + 1 \in Nat
    OBVIOUS
  <2>2. done[n + 1] = IF q[n + 1].ahead = c THEN Sound(done[n], q[n + 1].data) ELSE done[n]
    BY <1>2, <2>1
  <2>3. SUFFICES ASSUME k \in done[n + 1] PROVE Why(n + 1)
    BY <2>1
  <2>4. ~off(n + 1)
    <3>1. SUFFICES ASSUME q[n + 1].ahead = c, Ends(q[n + 1], k) PROVE FALSE
      OBVIOUS
    <3>2. k \notin Sound(done[n], q[n + 1].data)
      BY <3>1, SoundOfOne
    <3> QED BY <2>2, <2>3, <3>1, <3>2
  <2>5. CASE on(n + 1)
    <3>1. n + 1 \in 1..(n + 1) /\ \A m \in ((n + 1) + 1)..(n + 1) : ~off(m)
      BY <2>1
    <3> QED BY <3>1, <2>5
  <2>6. CASE ~on(n + 1)
    <3>1. k \in done[n]
      <4>1. CASE q[n + 1].ahead = c
        <5>1. ~Starts(q[n + 1], k) /\ k \in Sound(done[n], q[n + 1].data)
          BY <2>2, <2>3, <2>6, <4>1
        <5> QED BY <5>1, SoundOfOne
      <4> QED BY <2>2, <2>3, <4>1
    <3>2. Why(n)
      BY <3>1, <1>5
    <3>3. \A m \in 1..(n + 1) : m \in 1..n \/ m = n + 1
      BY <2>1
    <3>4. \A j \in 1..n : j \in 1..(n + 1) /\ \A m \in (j + 1)..(n + 1) : m \in (j + 1)..n \/ m = n + 1
      BY <2>1
    <3> HIDE DEF on, off
    <3>5. CASE k \in z /\ \A m \in 1..n : ~off(m)
      BY <3>5, <3>3, <2>4
    <3>6. CASE \E j \in 1..n : on(j) /\ \A m \in (j + 1)..n : ~off(m)
      BY <3>6, <3>4, <2>4
    <3> QED BY <3>2, <3>5, <3>6
  <2> QED BY <2>5, <2>6
<1>6. \A n \in Nat : n \in T
  <2> HIDE DEF T
  <2> QED BY <1>4, <1>5, Playing!SetInduction
<1>7. ~Why(Len(q))
  <2>1. ~(k \in z /\ \A m \in 1..Len(q) : ~off(m))
    BY <1>3
  <2>2. ASSUME NEW j \in 1..Len(q), on(j) PROVE \E m \in (j + 1)..Len(q) : off(m)
    <3>1. PICK m \in DOMAIN q : m > j /\ off(m)
      BY <2>2, <1>3
    <3>2. m \in (j + 1)..Len(q)
      BY <3>1, <1>3
    <3> QED BY <3>1, <3>2
  <2> QED BY <2>1, <2>2
<1> QED BY <1>1, <1>3, <1>6, <1>7

\* What is silent in this sense is silent once all has been played.
LEMMA SilentInTheEnd ==
    ASSUME NEW z, NEW sc \in Seq(Scheduled), NEW q \in Seq(Event), NEW k, Silent(z, sc, q, k)
    PROVE  k \notin Played(Played(Played(z, q, FALSE), sc, TRUE), q, TRUE)
<1>1. \A m \in DOMAIN q : q[m].ahead \in BOOLEAN
  <2>1. \A m \in DOMAIN q : q[m] \in Event
    OBVIOUS
  <2> QED BY <2>1 DEF Event
<1>2. \A m \in DOMAIN sc : sc[m].ahead = TRUE
  <2>1. \A m \in DOMAIN sc : sc[m] \in Scheduled
    OBVIOUS
  <2> QED BY <2>1 DEF Scheduled, Event
<1>3. sc \in Seq(Event)
  BY DEF Scheduled
<1> DEFINE now == Played(z, q, FALSE)
           due == Played(now, sc, TRUE)
<1>4. CASE \E m \in DOMAIN q : q[m].ahead /\ Ends(q[m], k)
  <2>1. \E m \in DOMAIN q : q[m].ahead = TRUE /\ Ends(q[m], k)
    BY <1>4, <1>1
  <2>2. \A j \in DOMAIN q : q[j].ahead = TRUE /\ Starts(q[j], k) =>
               \E m \in DOMAIN q : m > j /\ q[m].ahead = TRUE /\ Ends(q[m], k)
    BY <1>1 DEF Silent
  <2> HIDE DEF due
  <2> QED BY <2>1, <2>2, PlayedOut DEF due
<1>5. CASE ~\E m \in DOMAIN q : q[m].ahead /\ Ends(q[m], k)
  <2>1. \A j \in DOMAIN q : ~(q[j].ahead = TRUE /\ Starts(q[j], k))
    BY <1>5 DEF Silent
  <2>2. SUFFICES k \notin due
    <3> HIDE DEF due
    <3> QED BY <2>1, PlayedOut DEF due
  <2>3. \A j \in DOMAIN sc : Starts(sc[j], k) => \E m \in DOMAIN sc : m > j /\ Ends(sc[m], k)
    BY <1>5 DEF Silent
  <2>4. CASE \E m \in DOMAIN sc : Ends(sc[m], k)
    <3> HIDE DEF now
    <3> QED BY <2>3, <2>4, <1>2, <1>3, PlayedOut DEF now
  <2>5. CASE ~\E m \in DOMAIN sc : Ends(sc[m], k)
    <3>1. \A j \in DOMAIN sc : ~Starts(sc[j], k)
      BY <2>3, <2>5
    <3>2. SUFFICES k \notin now
      <4> HIDE DEF now
      <4> QED BY <3>1, <1>3, PlayedOut DEF now
    <3>3. \A m \in DOMAIN q : Ends(q[m], k) => q[m].ahead = FALSE
      BY <1>1, <1>5
    <3>4. k \in z => \E m \in DOMAIN q : q[m].ahead = FALSE /\ Ends(q[m], k)
      BY <2>5, <3>3 DEF Silent
    <3>5. \A j \in DOMAIN q : q[j].ahead = FALSE /\ Starts(q[j], k) =>
               \E m \in DOMAIN q : m > j /\ q[m].ahead = FALSE /\ Ends(q[m], k)
      BY <3>3 DEF Silent
    <3> QED BY <3>4, <3>5, PlayedOut
  <2> QED BY <2>4, <2>5
<1> QED BY <1>4, <1>5

-----------------------------------------------------------------------------
(* One push. *)

\* A set of numbers that has one has a least one.
LEMMA LeastOf ==
    ASSUME NEW S \in SUBSET Nat, S # {}
    PROVE  \E y \in S : \A u \in S : y <= u
<1> DEFINE T == {n \in Nat : \A m \in 0..n : m \notin S}
<1>1. SUFFICES ASSUME \A y \in S : \E u \in S : u < y PROVE FALSE
  OBVIOUS
<1>2. 0 \in T
  BY <1>1
<1>3. ASSUME NEW n \in Nat, n \in T PROVE n + 1 \in T
  <2>1. ASSUME n + 1 \in S PROVE FALSE
    <3>1. PICK u \in S : u < n + 1
      BY <2>1, <1>1
    <3>2. u \in 0..n
      BY <3>1
    <3> QED BY <3>1, <3>2, <1>3
  <2>2. \A m \in 0..(n + 1) : m \in 0..n \/ m = n + 1
    OBVIOUS
  <2> QED BY <2>1, <2>2, <1>3
<1> HIDE DEF T
<1>4. \A n \in Nat : n \in T
  BY <1>2, <1>3, Playing!SetInduction
<1>5. \A n \in Nat : n \notin S
  BY <1>4 DEF T
<1> QED BY <1>5

\* Where the message a full queue sheds was: behind the end if none is shed.
\* It is no note-off, or it is the first of a queue of nothing else.
Sheds(q, x) ==
    x <= Len(q) => /\ Len(q) >= BACKLOG
                   /\ \/ ~is_note_off(q[x].data)
                      \/ x = 1 /\ \A i \in DOMAIN q : is_note_off(q[i].data)

LEMMA PushShape ==
    ASSUME NEW q \in Seq(Event), NEW e \in Event
    PROVE  /\ push(q, e) \in Seq(Event)
           /\ \E x \in 1..(Len(q) + 1) :
                /\ Sheds(q, x)
                /\ Len(push(q, e)) = IF x = Len(q) + 1 THEN Len(q) + 1 ELSE Len(q)
                /\ \A j \in 1..(Len(push(q, e)) - 1) :
                     push(q, e)[j] = IF j < x THEN q[j] ELSE q[j + 1]
                /\ push(q, e)[Len(push(q, e))] = e
<1> DEFINE spare == {i \in DOMAIN q : ~is_note_off(q[i].data)}
           p == push(q, e)
<1>0. Len(q) \in Nat /\ DOMAIN q = 1..Len(q) /\ BACKLOG \in Nat \ {0}
  BY MidiAssumption
<1>1. CASE Len(q) < BACKLOG
  <2>1. p = Append(q, e)
    BY <1>1 DEF push
  <2>2. p \in Seq(Event) /\ Len(p) = Len(q) + 1 /\ p[Len(p)] = e /\ \A j \in 1..Len(q) : p[j] = q[j]
    BY <2>1
  <2>3. Sheds(q, Len(q) + 1) /\ Len(q) + 1 \in 1..(Len(q) + 1)
    BY <1>0 DEF Sheds
  <2> HIDE DEF p
  <2>4. \A j \in 1..(Len(p) - 1) : j < Len(q) + 1 /\ p[j] = q[j]
    BY <1>0, <2>2
  <2> QED BY <1>0, <2>2, <2>3, <2>4 DEF p
<1>2. CASE ~(Len(q) < BACKLOG) /\ spare # {}
  <2> DEFINE x == Min(spare)
             t == RemoveAt(q, x)
  <2>1. p = Append(t, e)
    BY <1>2 DEF push
  <2>2. x \in spare
    <3>1. PICK y \in spare : \A u \in spare : y <= u
      <4>1. spare \subseteq Nat
        BY <1>0
      <4>2. \E y \in spare : y \in spare
        BY <1>2
      <4> HIDE DEF spare
      <4> QED BY <4>1, <4>2, LeastOf
    <3> QED BY <3>1 DEF Min
  <2>3. x \in 1..Len(q) /\ ~is_note_off(q[x].data)
    BY <2>2, <1>0
  <2> HIDE DEF x, spare
  <2>4. /\ t \in Seq(Event) /\ Len(t) = Len(q) - 1
        /\ \A j \in 1..Len(t) : t[j] = IF j < x THEN q[j] ELSE q[j + 1]
    <3> DEFINE f == SubSeq(q, 1, x - 1)
               g == SubSeq(q, x + 1, Len(q))
    <3>1. f \in Seq(Event) /\ Len(f) = x - 1 /\ \A j \in 1..(x - 1) : f[j] = q[j]
      BY <2>3, <1>0
    <3>2. g \in Seq(Event) /\ Len(g) = Len(q) - x /\ \A j \in 1..(Len(q) - x) : g[j] = q[x + j]
      <4>1. x + 1 \in Nat /\ x + 1 \in 1..(Len(q) + 1) /\ Len(q) \in (x + 1 - 1)..Len(q)
        BY <2>3, <1>0
      <4>2. g = [i \in 1..(Len(q) - x) |-> q[x + i]]
        BY <4>1, <2>3, <1>0
      <4>3. \A i \in 1..(Len(q) - x) : q[x + i] \in Event
        BY <2>3, <1>0
      <4>4. Len(q) - x \in Nat
        BY <2>3, <1>0
      <4> HIDE DEF g
      <4>5. g \in [1..(Len(q) - x) -> Event]
        BY <4>2, <4>3
      <4>6. g \in Seq(Event) /\ Len(g) = Len(q) - x
        BY <4>4, <4>5
      <4> QED BY <4>2, <4>6
    <3>3. t = f \o g
      BY DEF RemoveAt
    <3> HIDE DEF f, g
    <3>4. t \in Seq(Event) /\ Len(t) = Len(q) - 1
      BY <3>1, <3>2, <3>3, <2>3, <1>0
    <3>5. ASSUME NEW j \in 1..Len(t) PROVE t[j] = IF j < x THEN q[j] ELSE q[j + 1]
      <4>1. CASE j < x
        <5>1. j \in 1..Len(f)
          BY <4>1, <3>1, <2>3
        <5> QED BY <5>1, <4>1, <3>1, <3>2, <3>3
      <4>2. CASE ~(j < x)
        <5>1. j - Len(f) \in 1..Len(g) /\ x + (j - Len(f)) = j + 1 /\ j > Len(f)
          BY <4>2, <3>1, <3>2, <3>4, <2>3, <1>0
        <5>2. t[j] = g[j - Len(f)]
          BY <5>1, <3>1, <3>2, <3>3, <3>4
        <5> QED BY <5>1, <5>2, <4>2, <3>2
      <4> QED BY <4>1, <4>2
    <3> QED BY <3>4, <3>5
  <2> HIDE DEF t
  <2>5. p \in Seq(Event) /\ Len(p) = Len(q) /\ p[Len(p)] = e /\ \A j \in 1..(Len(p) - 1) : p[j] = t[j]
    BY <2>1, <2>4, <1>0, <2>3
  <2>6. Sheds(q, x) /\ x \in 1..(Len(q) + 1) /\ x # Len(q) + 1
    BY <2>3, <1>2, <1>0 DEF Sheds
  <2> HIDE DEF p
  <2>7. \A j \in 1..(Len(p) - 1) : p[j] = IF j < x THEN q[j] ELSE q[j + 1]
    BY <2>4, <2>5, <1>0
  <2> QED BY <2>5, <2>6, <2>7 DEF p
<1>3. CASE ~(Len(q) < BACKLOG) /\ spare = {}
  <2>1. p = Append(Tail(q), e)
    BY <1>3 DEF push
  <2>2. q # << >> /\ Len(q) >= 1
    BY <1>0, <1>3
  <2>3. /\ Tail(q) \in Seq(Event) /\ Len(Tail(q)) = Len(q) - 1
        /\ \A j \in 1..(Len(q) - 1) : Tail(q)[j] = q[j + 1]
    BY <2>2
  <2>4. p \in Seq(Event) /\ Len(p) = Len(q) /\ p[Len(p)] = e /\ \A j \in 1..(Len(p) - 1) : p[j] = q[j + 1]
    BY <2>1, <2>3, <2>2
  <2>5. Sheds(q, 1) /\ 1 \in 1..(Len(q) + 1) /\ 1 # Len(q) + 1
    BY <1>3, <1>0, <2>2 DEF Sheds
  <2> HIDE DEF p
  <2>6. \A j \in 1..(Len(p) - 1) : p[j] = IF j < 1 THEN q[j] ELSE q[j + 1]
    BY <2>4
  <2> QED BY <2>4, <2>5, <2>6 DEF p
<1> QED BY <1>1, <1>2, <1>3

\* A note-off makes its note silent, unless it is for now and a scheduled
\* note-on still waits.
LEMMA PushedOff ==
    ASSUME NEW z, NEW sc, NEW q \in Seq(Event), NEW e \in Event, NEW k,
           Ends(e, k),
           e.ahead \/ /\ \A j \in DOMAIN q : ~(q[j].ahead /\ Starts(q[j], k))
                      /\ \A j \in DOMAIN sc : ~Starts(sc[j], k)
    PROVE  Silent(z, sc, push(q, e), k)
<1> DEFINE p == push(q, e)
<1>1. PICK x \in 1..(Len(q) + 1) :
        /\ Len(p) = IF x = Len(q) + 1 THEN Len(q) + 1 ELSE Len(q)
        /\ \A j \in 1..(Len(p) - 1) : p[j] = IF j < x THEN q[j] ELSE q[j + 1]
        /\ p[Len(p)] = e
  BY PushShape
<1>2. p \in Seq(Event)
  BY PushShape
<1> HIDE DEF p
<1>3. Len(q) \in Nat /\ Len(p) \in Nat \ {0} /\ DOMAIN p = 1..Len(p) /\ DOMAIN q = 1..Len(q)
  BY <1>1, <1>2
<1> DEFINE l == Len(p)
<1>4. l \in DOMAIN p /\ p[l] = e /\ Ends(p[l], k) /\ ~Starts(p[l], k)
  BY <1>1, <1>3, OnIsNotOff DEF Ends
<1>5. ASSUME NEW j \in DOMAIN p, Starts(p[j], k)
      PROVE  l > j /\ (p[j].ahead => e.ahead)
  <2>1. j \in 1..(l - 1)
    BY <1>3, <1>4, <1>5
  <2>2. \E i \in DOMAIN q : p[j] = q[i]
    BY <2>1, <1>1, <1>3
  <2> QED BY <2>1, <2>2, <1>3, <1>5
<1>6. \A j \in DOMAIN sc : Starts(sc[j], k) => e.ahead
  OBVIOUS
<1> HIDE DEF l
<1> QED BY <1>4, <1>5, <1>6 DEF Silent, p

\* Any other push leaves it silent, unless it sheds a note-off of it.
LEMMA PushedOther ==
    ASSUME NEW z, NEW sc, NEW q \in Seq(Event), NEW e \in Event, NEW k,
           Silent(z, sc, q, k), ~Starts(e, k),
           Len(q) >= BACKLOG /\ (\A i \in DOMAIN q : is_note_off(q[i].data)) =>
             Key(q[1].data) # k
    PROVE  Silent(z, sc, push(q, e), k)
<1> DEFINE p == push(q, e)
<1>1. PICK x \in 1..(Len(q) + 1) :
        /\ Sheds(q, x)
        /\ Len(p) = IF x = Len(q) + 1 THEN Len(q) + 1 ELSE Len(q)
        /\ \A j \in 1..(Len(p) - 1) : p[j] = IF j < x THEN q[j] ELSE q[j + 1]
        /\ p[Len(p)] = e
  BY PushShape
<1>2. p \in Seq(Event)
  BY PushShape
<1> HIDE DEF p
<1>3. Len(q) \in Nat /\ Len(p) \in Nat \ {0} /\ DOMAIN p = 1..Len(p) /\ DOMAIN q = 1..Len(q)
  BY <1>1, <1>2
<1> DEFINE at(m) == IF m < x THEN m ELSE m - 1
<1>4. ASSUME NEW m \in DOMAIN q, Ends(q[m], k) PROVE at(m) \in DOMAIN p /\ p[at(m)] = q[m]
  <2>1. m # x
    BY <1>1, <1>3, <1>4 DEF Sheds, Ends
  <2>2. at(m) \in 1..(Len(p) - 1)
    BY <2>1, <1>1, <1>3
  <2>3. p[at(m)] = q[m]
    BY <2>1, <2>2, <1>1, <1>3
  <2> QED BY <2>2, <2>3, <1>3
<1>5. ASSUME NEW j \in DOMAIN p, Starts(p[j], k)
      PROVE  \E i \in DOMAIN q : p[j] = q[i] /\ \A m \in DOMAIN q : m > i /\ m # x => at(m) > j
  <2>1. j \in 1..(Len(p) - 1)
    BY <1>1, <1>3, <1>5
  <2> DEFINE i == IF j < x THEN j ELSE j + 1
  <2>2. i \in DOMAIN q /\ p[j] = q[i]
    BY <2>1, <1>1, <1>3
  <2>3. \A m \in DOMAIN q : m > i /\ m # x => at(m) > j
    BY <1>3, <2>1
  <2> QED BY <2>2, <2>3
<1>6. \A m \in DOMAIN q : Ends(q[m], k) => m # x
  BY <1>1, <1>3 DEF Sheds, Ends
<1> HIDE DEF at
<1>7. ASSUME NEW j \in DOMAIN p, Starts(p[j], k)
      PROVE  \E m \in DOMAIN p : m > j /\ Ends(p[m], k) /\ (p[j].ahead => p[m].ahead)
  <2>1. PICK i \in DOMAIN q : p[j] = q[i] /\ \A m \in DOMAIN q : m > i /\ m # x => at(m) > j
    BY <1>5, <1>7
  <2>2. PICK m \in DOMAIN q : m > i /\ Ends(q[m], k) /\ (q[i].ahead => q[m].ahead)
    BY <2>1, <1>7 DEF Silent
  <2>3. at(m) > j
    BY <2>1, <2>2, <1>6
  <2> QED BY <2>1, <2>2, <2>3, <1>4
<1>8. (\E m \in DOMAIN q : Ends(q[m], k)) => \E m \in DOMAIN p : Ends(p[m], k)
  BY <1>4
<1>9. (\E m \in DOMAIN q : q[m].ahead /\ Ends(q[m], k)) => \E m \in DOMAIN p : p[m].ahead /\ Ends(p[m], k)
  BY <1>4
<1> QED BY <1>7, <1>8, <1>9 DEF Silent, p

-----------------------------------------------------------------------------
(* The router's queues. *)

RouterOk(r) ==
    /\ r = [queue |-> r.queue, lost |-> r.lost]
    /\ r.queue \in [Inboxes -> Seq(Event)]
    /\ DOMAIN r.lost = Dests

\* Note k of app a has nothing to wait for, or lost it.
Ok(r, a, k) == k \in r.lost[a] \/ Silent(sounding[a], scheduled[a], r.queue[<<a, 0>>], k)

LEMMA AppInbox ==
    ASSUME NEW a \in Apps, NEW i \in Inboxes
    PROVE  <<a, 0>> \in Inboxes /\ Owner(i) \in Dests /\ a \in Dests /\ (Owner(i) = a <=> i = <<a, 0>>)
BY MidiAssumption DEF Inboxes, Owner, Dests

SchedOk == \A a \in Apps : scheduled[a] \in Seq(Scheduled)

LEMMA PushOk ==
    ASSUME SchedOk, NEW r, RouterOk(r), NEW i \in Inboxes, NEW e \in Event
    PROVE  /\ RouterOk(Push(r, i, e))
           /\ \A a \in Apps : \A k :
                \/ Ok(r, a, k) /\ ~(i = <<a, 0>> /\ Starts(e, k))
                \/ i = <<a, 0>> /\ Ends(e, k)
                => Ok(Push(r, i, e), a, k)
<1> DEFINE q == r.queue[i]
           shed == IF Len(q) >= BACKLOG /\ \A x \in Range(q) : is_note_off(x.data)
                   THEN {Key(Head(q).data)} ELSE {}
           over == IF e.ahead THEN {}
                   ELSE {k \in NotYet(i, r.queue) : k \notin Sound({k}, e.data)}
           again == IF IsNoteOn(e.data) THEN {Key(e.data)} ELSE {}
           t == Push(r, i, e)
<1>1. t = [queue |-> [r.queue EXCEPT ![i] = push(q, e)],
           lost |-> [r.lost EXCEPT ![Owner(i)] = (@ \ again) \union shed \union over]]
  BY DEF Push
<1>2. q \in Seq(Event) /\ push(q, e) \in Seq(Event)
  BY PushShape DEF RouterOk
<1>3. RouterOk(t)
  <2> HIDE DEF shed, over, again, q, t
  <2> QED BY <1>1, <1>2 DEF RouterOk
<1>4. ASSUME NEW a \in Apps, NEW k,
             \/ Ok(r, a, k) /\ ~(i = <<a, 0>> /\ Starts(e, k))
             \/ i = <<a, 0>> /\ Ends(e, k)
      PROVE  Ok(t, a, k)
  <2>0. <<a, 0>> \in Inboxes /\ a \in Dests /\ (Owner(i) = a <=> i = <<a, 0>>) /\ DOMAIN r.lost = Dests
        /\ DOMAIN r.queue = Inboxes
    BY AppInbox DEF RouterOk
  <2>1. CASE i # <<a, 0>>
    <3>1. t.lost[a] = r.lost[a] /\ t.queue[<<a, 0>>] = r.queue[<<a, 0>>]
      <4> HIDE DEF shed, over, again, q, t
      <4> QED BY <1>1, <2>0, <2>1
    <3> HIDE DEF t
    <3> QED BY <3>1, <2>1, <1>4 DEF Ok
  <2>2. CASE i = <<a, 0>>
    <3>1. t.lost[a] = (r.lost[a] \ again) \union shed \union over /\ t.queue[<<a, 0>>] = push(q, e)
      <4> HIDE DEF shed, over, again, q, t
      <4> QED BY <1>1, <2>0, <2>2
    <3>2. k \notin again
      BY <1>4, <2>2, OnIsNotOff DEF Starts, Ends
    <3>3. ASSUME ~e.ahead, Ends(e, k), k \notin over
          PROVE  /\ \A j \in DOMAIN q : ~(q[j].ahead /\ Starts(q[j], k))
                 /\ \A j \in DOMAIN scheduled[a] : ~Starts(scheduled[a][j], k)
      <4>1. k \notin Sound({k}, e.data)
        BY <3>3, SoundOfOne
      <4>2. k \notin NotYet(i, r.queue)
        BY <3>3, <4>1
      <4>3. \A x \in Range(q) \union Range(scheduled[a]) : ~(x.ahead /\ Starts(x, k))
        BY <4>2, <2>0, <2>2 DEF NotYet, Starts
      <4>4. \A j \in DOMAIN q : q[j] \in Range(q)
        BY DEF Range
      <4>5. \A j \in DOMAIN scheduled[a] : scheduled[a][j] \in Range(scheduled[a])
        BY DEF Range
      <4>6. \A j \in DOMAIN scheduled[a] : scheduled[a][j].ahead
        <5>1. \A j \in DOMAIN scheduled[a] : scheduled[a][j] \in Scheduled
          BY DEF SchedOk
        <5> QED BY <5>1 DEF Scheduled
      <4> HIDE DEF q
      <4> QED BY <4>3, <4>4, <4>5, <4>6
    <3>4. CASE Ends(e, k)
      <4>1. CASE k \in over
        <5> HIDE DEF t, over
        <5> QED BY <4>1, <3>1 DEF Ok
      <4>2. CASE k \notin over
        <5>1. Silent(sounding[a], scheduled[a], push(q, e), k)
          <6> HIDE DEF q, over
          <6> QED BY <3>3, <3>4, <4>2, <1>2, PushedOff
        <5> HIDE DEF t, q
        <5> QED BY <5>1, <3>1 DEF Ok
      <4> QED BY <4>1, <4>2
    <3>5. CASE ~Ends(e, k)
      <4>1. Ok(r, a, k) /\ ~Starts(e, k)
        BY <3>5, <1>4, <2>2
      <4>2. CASE k \in r.lost[a]
        <5> HIDE DEF t, again, shed, over
        <5> QED BY <4>2, <3>1, <3>2 DEF Ok
      <4>3. CASE k \in shed
        <5> HIDE DEF t, again, shed, over
        <5> QED BY <4>3, <3>1 DEF Ok
      <4>4. CASE k \notin r.lost[a] /\ k \notin shed
        <5>1. Silent(sounding[a], scheduled[a], q, k)
          BY <4>1, <4>4, <2>2 DEF Ok
        <5>2. Len(q) >= BACKLOG /\ (\A j \in DOMAIN q : is_note_off(q[j].data)) => Key(q[1].data) # k
          <6>1. SUFFICES ASSUME Len(q) >= BACKLOG, \A j \in DOMAIN q : is_note_off(q[j].data)
                         PROVE  Key(q[1].data) # k
            OBVIOUS
          <6>2. \A x \in Range(q) : is_note_off(x.data)
            BY <6>1 DEF Range
          <6>3. shed = {Key(Head(q).data)}
            BY <6>1, <6>2
          <6>4. Head(q) = q[1]
            BY <6>1, <1>2, MidiAssumption
          <6> QED BY <6>3, <6>4, <4>4
        <5>3. Silent(sounding[a], scheduled[a], push(q, e), k)
          <6> HIDE DEF q
          <6> QED BY <5>1, <5>2, <4>1, <1>2, PushedOther
        <5> HIDE DEF t, q
        <5> QED BY <5>3, <3>1 DEF Ok
      <4> QED BY <4>2, <4>3, <4>4
    <3> QED BY <3>4, <3>5
  <2> QED BY <2>1, <2>2
<1> HIDE DEF t
<1> QED BY <1>3, <1>4 DEF t

-----------------------------------------------------------------------------
(* What a wire releases. *)

Keys == (0..15) \X (0..255)

LEMMA KeysFinite == ASSUME NEW S \in SUBSET Keys PROVE IsFiniteSet(S)
<1>1. IsFiniteSet(0..15) /\ IsFiniteSet(0..255)
  <2>1. 0 \in Int /\ 15 \in Int /\ 255 \in Int
    OBVIOUS
  <2> QED BY <2>1, FS_Interval, Zenon
<1>2. IsFiniteSet(Keys)
  BY <1>1, FS_Product DEF Keys
<1> QED BY <1>2, FS_Subset

LEMMA SixteenChannels ==
    ASSUME NEW c \in 0..15
    PROVE  /\ Family(NoteOff + c) = NoteOff /\ Channel(NoteOff + c) = c
           /\ Family(Control + c) = Control
BY DEF Family, Channel, NoteOff, Control

LEMMA OffForIs ==
    ASSUME NEW k \in Keys
    PROVE  OffFor(k) \in Event /\ Ends(OffFor(k), k) /\ ~IsNoteOn(OffFor(k).data)
<1> DEFINE d == <<NoteOff + k[1], k[2], 0>>
<1>1. k[1] \in 0..15 /\ k[2] \in 0..255 /\ k = <<k[1], k[2]>>
  BY DEF Keys
<1>2. OffFor(k) = [data |-> d, ahead |-> FALSE]
  BY DEF OffFor, Now
<1>3. Len(d) = 3 /\ d[1] = NoteOff + k[1] /\ d[2] = k[2] /\ d[3] = 0
  OBVIOUS
<1>4. NoteOff + k[1] \in 0..255
  BY <1>1 DEF NoteOff
<1>5. d \in Seq(0..255)
  BY <1>1, <1>4
<1>6. is_note_off(d) /\ Key(d) = k
  <2> HIDE DEF d
  <2> QED BY <1>1, <1>3, SixteenChannels DEF is_note_off, Key
<1>7. ~IsNoteOn(d)
  <2> HIDE DEF d
  <2> QED BY <1>3 DEF IsNoteOn
<1> HIDE DEF d
<1> QED BY <1>2, <1>5, <1>6, <1>7 DEF Event, Ends

LEMMA AllOffForIs ==
    ASSUME NEW c \in 0..15
    PROVE  AllOffFor(c) \in Event /\ ~IsNoteOn(AllOffFor(c).data)
<1> DEFINE d == <<Control + c, 123, 0>>
<1>1. AllOffFor(c) = [data |-> d, ahead |-> FALSE]
  BY DEF AllOffFor, Now
<1>2. Control + c \in 0..255
  BY DEF Control
<1>3. d \in Seq(0..255) /\ d[3] = 0
  BY <1>2
<1>4. ~IsNoteOn(d)
  <2> HIDE DEF d
  <2> QED BY <1>3 DEF IsNoteOn
<1> HIDE DEF d
<1> QED BY <1>1, <1>3, <1>4 DEF Event

\* A finite set as a sequence has its elements.
LEMMA SetToSeqHas ==
    ASSUME NEW S, IsFiniteSet(S)
    PROVE  SetToSeq(S) \in Seq(S) /\ \A x \in S : \E n \in 1..Len(SetToSeq(S)) : SetToSeq(S)[n] = x
<1> DEFINE D == 1..Cardinality(S)
           f == SetToSeq(S)
<1>1. Cardinality(S) \in Nat /\ ExistsBijection(D, S)
  BY FS_CardinalityType
<1>2. \E g \in [D -> S] : IsInjective(g)
  BY <1>1 DEF ExistsBijection, Bijection, Injection
<1>3. f \in [D -> S] /\ IsInjective(f)
  BY <1>2 DEF SetToSeq
<1> HIDE DEF f
<1>4. f \in Injection(D, S)
  BY <1>3 DEF Injection, IsInjective
<1>5. IsFiniteSet(D) /\ Cardinality(D) = Cardinality(S)
  BY <1>1, FS_Interval, FS_CountingElements DEF ExistsBijection
<1>6. f \in Surjection(D, S)
  <2> HIDE DEF D
  <2> QED BY <1>4, <1>5, FS_Injection
<1>7. f \in Seq(S) /\ Len(f) = Cardinality(S)
  BY <1>1, <1>3
<1>8. \A x \in S : \E n \in D : f[n] = x
  BY <1>6 DEF Surjection
<1> QED BY <1>7, <1>8 DEF f

PushStep(c, d, x, n) == Push(x, c, d[n])
Pushing == INSTANCE Recursion WITH step <- PushStep

\* Pushing releases: nothing else starts, and what they release is over.
LEMMA PushAllOk ==
    ASSUME SchedOk, NEW r, RouterOk(r), NEW i \in Inboxes, NEW es \in Seq(Event),
           \A n \in 1..Len(es) : ~IsNoteOn(es[n].data)
    PROVE  /\ RouterOk(PushAll(r, i, es))
           /\ \A a \in Apps : \A k :
                \/ Ok(r, a, k)
                \/ i = <<a, 0>> /\ \E n \in 1..Len(es) : Ends(es[n], k)
                => Ok(PushAll(r, i, es), a, k)
<1> DEFINE done[n \in Nat] == IF n = 0 THEN r ELSE Push(done[n - 1], i, es[n])
<1>1. PushAll(r, i, es) = done[Len(es)]
  BY DEF PushAll
<1>2. done = [n \in Nat |-> IF n = 0 THEN r ELSE Push(done[n - 1], i, es[n])]
  <2>1. PICK q : Pushing!IsRun(i, es, r, q)
    BY Pushing!RunExists
  <2> QED BY <2>1 DEF Pushing!IsRun, PushStep
<1> HIDE DEF done
<1> DEFINE Why(n, a, k) == Ok(r, a, k) \/ (i = <<a, 0>> /\ \E m \in 1..n : Ends(es[m], k))
           T == {n \in Nat : n <= Len(es) => /\ RouterOk(done[n])
                                             /\ \A a \in Apps : \A k : Why(n, a, k) => Ok(done[n], a, k)}
<1>3. 0 \in T
  BY <1>2
<1>4. ASSUME NEW n \in Nat, n \in T PROVE n + 1 \in T
  <2>1. SUFFICES ASSUME n + 1 <= Len(es)
                 PROVE  /\ RouterOk(done[n + 1])
                        /\ \A a \in Apps : \A k : Why(n + 1, a, k) => Ok(done[n + 1], a, k)
    OBVIOUS
  <2>2. n <= Len(es) /\ n + 1 \in 1..Len(es) /\ n + 1 # 0 /\ (n + 1) - 1 = n
    BY <2>1
  <2>3. RouterOk(done[n]) /\ \A a \in Apps : \A k : Why(n, a, k) => Ok(done[n], a, k)
    BY <2>2, <1>4
  <2>4. done[n + 1] = Push(done[n], i, es[n + 1])
    BY <2>2, <1>2
  <2>5. es[n + 1] \in Event /\ ~IsNoteOn(es[n + 1].data)
    BY <2>2
  <2> HIDE DEF T
  <2>6. ASSUME NEW a \in Apps, NEW k, Why(n + 1, a, k) PROVE Ok(done[n + 1], a, k)
    <3>1. ~Starts(es[n + 1], k)
      BY <2>5 DEF Starts
    <3>2. Why(n, a, k) \/ (i = <<a, 0>> /\ Ends(es[n + 1], k))
      <4>1. \A m \in 1..(n + 1) : m \in 1..n \/ m = n + 1
        OBVIOUS
      <4> QED BY <4>1, <2>6
    <3>3. Ok(done[n], a, k) \/ (i = <<a, 0>> /\ Ends(es[n + 1], k))
      BY <3>2, <2>3
    <3> QED BY <3>1, <3>3, <2>3, <2>4, <2>5, PushOk
  <2> QED BY <2>3, <2>4, <2>5, <2>6, PushOk
<1> HIDE DEF T
<1>5. \A n \in Nat : n \in T
  BY <1>3, <1>4, Pushing!SetInduction
<1>6. Len(es) \in Nat /\ Len(es) <= Len(es) /\ Len(es) \in T
  BY <1>5
<1>7. /\ RouterOk(done[Len(es)])
      /\ \A a \in Apps : \A k : Why(Len(es), a, k) => Ok(done[Len(es)], a, k)
  BY <1>6 DEF T
<1> QED BY <1>1, <1>7

LinkOk(p, l) ==
    /\ l = [inbox |-> l.inbox, channel |-> l.channel, held |-> l.held]
    /\ l.inbox \in Inboxes /\ Owner(l.inbox) = p[2]
    /\ l.held \in SUBSET Keys

\* Events made of a set of keys.
LEMMA OffsOf ==
    ASSUME NEW H \in SUBSET Keys
    PROVE  LET es == SetToSeq({OffFor(k) : k \in H})
           IN  /\ es \in Seq(Event)
               /\ \A n \in 1..Len(es) : ~IsNoteOn(es[n].data)
               /\ \A k \in H : \E n \in 1..Len(es) : Ends(es[n], k)
<1> DEFINE S == {OffFor(k) : k \in H}
           es == SetToSeq(S)
<1>1. IsFiniteSet(S)
  <2> DEFINE g == [k \in H |-> OffFor(k)]
  <2>1. g \in Surjection(H, S)
    BY DEF Surjection
  <2> QED BY <2>1, KeysFinite, FS_Surjection
<1>2. S \subseteq Event /\ \A e \in S : ~IsNoteOn(e.data)
  BY OffForIs
<1>3. es \in Seq(S) /\ \A x \in S : \E n \in 1..Len(es) : es[n] = x
  <2> HIDE DEF S
  <2> QED BY <1>1, SetToSeqHas
<1>4. \A k \in H : OffFor(k) \in S /\ Ends(OffFor(k), k)
  BY OffForIs
<1> HIDE DEF S, es
<1>5. es \in Seq(Event) /\ \A n \in 1..Len(es) : es[n] \in S
  BY <1>2, <1>3
<1>6. /\ es \in Seq(Event)
      /\ \A n \in 1..Len(es) : ~IsNoteOn(es[n].data)
      /\ \A k \in H : \E n \in 1..Len(es) : Ends(es[n], k)
  BY <1>2, <1>3, <1>4, <1>5
<1> QED BY <1>6 DEF es, S

LEMMA ReleaseOk ==
    ASSUME SchedOk, NEW r, RouterOk(r), NEW p, NEW l, LinkOk(p, l)
    PROVE  /\ RouterOk(release(r, l))
           /\ \A a \in Apps : \A k :
                \/ Ok(r, a, k)
                \/ p[2] = a /\ k \in l.held
                => Ok(release(r, l), a, k)
<1> DEFINE S == {AllOffFor(k[1]) : k \in l.held}
           es == SetToSeq({OffFor(k) : k \in l.held})
           fs == SetToSeq(S)
           gs == es \o fs
<1>1. /\ es \in Seq(Event)
      /\ \A n \in 1..Len(es) : ~IsNoteOn(es[n].data)
      /\ \A k \in l.held : \E n \in 1..Len(es) : Ends(es[n], k)
  BY OffsOf DEF LinkOk
<1>2. IsFiniteSet(S)
  <2> DEFINE g == [k \in l.held |-> AllOffFor(k[1])]
  <2>1. IsFiniteSet(l.held)
    BY KeysFinite DEF LinkOk
  <2>2. g \in Surjection(l.held, S)
    BY DEF Surjection
  <2> QED BY <2>1, <2>2, FS_Surjection
<1>3. S \subseteq Event /\ \A e \in S : ~IsNoteOn(e.data)
  BY AllOffForIs DEF LinkOk, Keys
<1>4. fs \in Seq(S)
  <2> HIDE DEF S
  <2> QED BY <1>2, SetToSeqHas
<1>5. release(r, l) = PushAll(r, l.inbox, gs)
  BY DEF release
<1> HIDE DEF S, es, fs
<1>6. fs \in Seq(Event) /\ \A n \in 1..Len(fs) : fs[n] \in S
  BY <1>3, <1>4
<1>7. gs \in Seq(Event) /\ Len(gs) = Len(es) + Len(fs) /\ Len(es) \in Nat /\ Len(fs) \in Nat
  BY <1>1, <1>6
<1>8. \A n \in 1..Len(es) : n \in 1..Len(gs) /\ gs[n] = es[n]
  BY <1>1, <1>6, <1>7
<1>9. \A n \in 1..Len(gs) : ~IsNoteOn(gs[n].data)
  <2> SUFFICES ASSUME NEW n \in 1..Len(gs) PROVE ~IsNoteOn(gs[n].data)
    OBVIOUS
  <2>1. CASE n \in 1..Len(es)
    BY <2>1, <1>1, <1>8
  <2>2. CASE n \notin 1..Len(es)
    <3>1. n - Len(es) \in 1..Len(fs) /\ gs[n] = fs[n - Len(es)]
      BY <2>2, <1>1, <1>6, <1>7
    <3>2. fs[n - Len(es)] \in S
      BY <3>1, <1>6
    <3> QED BY <3>1, <3>2, <1>3
  <2> QED BY <2>1, <2>2
<1> HIDE DEF gs
<1>10. \A k \in l.held : \E n \in 1..Len(gs) : Ends(gs[n], k)
  BY <1>1, <1>8
<1>11. l.inbox \in Inboxes /\ \A a \in Apps : p[2] = a => l.inbox = <<a, 0>>
  BY AppInbox DEF LinkOk
<1> QED BY <1>5, <1>7, <1>9, <1>10, <1>11, PushAllOk

-----------------------------------------------------------------------------
(* The routes. *)

RoutesOk(rs) ==
    /\ rs = [links |-> rs.links, queue |-> rs.queue, lost |-> rs.lost]
    /\ RouterOk([queue |-> rs.queue, lost |-> rs.lost])
    /\ DOMAIN rs.links \subseteq Wires
    /\ \A p \in DOMAIN rs.links : LinkOk(p, rs.links[p])

HeldIn(ls, a, k) == \E p \in DOMAIN ls : p[2] = a /\ k \in ls[p].held

\* Every note of every app is held by a wire to it, or has nothing to wait for.
Covered(rs) == \A a \in Apps : \A k : HeldIn(rs.links, a, k) \/ Ok(rs, a, k)

Kept(rs) == RoutesOk(rs) /\ Covered(rs)

LEMMA SomeWires ==
    ASSUME NEW rs, RoutesOk(rs), NEW S \in SUBSET DOMAIN rs.links
    PROVE  SetToSeq(S) \in Seq(S) /\ \A x \in S : \E n \in 1..Len(SetToSeq(S)) : SetToSeq(S)[n] = x
<1>1. IsFiniteSet(S)
  BY MidiAssumption, FS_Subset DEF RoutesOk
<1> QED BY <1>1, SetToSeqHas

ReleaseStep(c, d, x, n) == release(x, c[d[n]])
Releasing == INSTANCE Recursion WITH step <- ReleaseStep

\* Cutting wires: their notes are released.
LEMMA DisconnectOk ==
    ASSUME SchedOk, NEW rs, Kept(rs), NEW ps \in SUBSET DOMAIN rs.links
    PROVE  /\ Kept(Disconnect(rs, ps))
           /\ DOMAIN Disconnect(rs, ps).links = DOMAIN rs.links \ ps
<1> DEFINE cut == SetToSeq(ps)
           r0 == [queue |-> rs.queue, lost |-> rs.lost]
           done[n \in Nat] == IF n = 0 THEN r0 ELSE release(done[n - 1], rs.links[cut[n]])
           ls == [p \in DOMAIN rs.links \ ps |-> rs.links[p]]
           r == done[Len(cut)]
           t == Disconnect(rs, ps)
<1>1. t = [links |-> ls, queue |-> r.queue, lost |-> r.lost]
  BY DEF Disconnect
<1>2. done = [n \in Nat |-> IF n = 0 THEN r0 ELSE release(done[n - 1], rs.links[cut[n]])]
  <2>1. PICK q : Releasing!IsRun(rs.links, cut, r0, q)
    BY Releasing!RunExists
  <2> QED BY <2>1 DEF Releasing!IsRun, ReleaseStep
<1>3. cut \in Seq(ps) /\ \A x \in ps : \E n \in 1..Len(cut) : cut[n] = x
  BY SomeWires DEF Kept
<1>4. RouterOk(r0) /\ \A a \in Apps : \A k : HeldIn(rs.links, a, k) \/ Ok(r0, a, k)
  BY DEF Kept, RoutesOk, Covered, Ok
<1> HIDE DEF done, cut, r0
<1> DEFINE Why(n, a, k) == Ok(r0, a, k) \/ (\E m \in 1..n : cut[m][2] = a /\ k \in rs.links[cut[m]].held)
           T == {n \in Nat : n <= Len(cut) => /\ RouterOk(done[n])
                                              /\ \A a \in Apps : \A k : Why(n, a, k) => Ok(done[n], a, k)}
<1>5. 0 \in T
  BY <1>2, <1>4
<1>6. ASSUME NEW n \in Nat, n \in T PROVE n + 1 \in T
  <2>1. SUFFICES ASSUME n + 1 <= Len(cut)
                 PROVE  /\ RouterOk(done[n + 1])
                        /\ \A a \in Apps : \A k : Why(n + 1, a, k) => Ok(done[n + 1], a, k)
    OBVIOUS
  <2>2. n <= Len(cut) /\ n + 1 \in 1..Len(cut) /\ n + 1 # 0 /\ (n + 1) - 1 = n
    BY <2>1, <1>3
  <2>3. RouterOk(done[n]) /\ \A a \in Apps : \A k : Why(n, a, k) => Ok(done[n], a, k)
    BY <2>2, <1>6
  <2> HIDE DEF T
  <2> DEFINE p == cut[n + 1]
  <2>4. done[n + 1] = release(done[n], rs.links[p])
    BY <2>2, <1>2
  <2>5. LinkOk(p, rs.links[p])
    BY <2>2, <1>3 DEF Kept, RoutesOk
  <2> HIDE DEF p
  <2>6. ASSUME NEW a \in Apps, NEW k, Why(n + 1, a, k) PROVE Ok(done[n + 1], a, k)
    <3>1. \A m \in 1..(n + 1) : m \in 1..n \/ m = n + 1
      OBVIOUS
    <3>2. Why(n, a, k) \/ (p[2] = a /\ k \in rs.links[p].held)
      BY <3>1, <2>6 DEF p
    <3> QED BY <3>2, <2>3, <2>4, <2>5, ReleaseOk
  <2> QED BY <2>3, <2>4, <2>5, <2>6, ReleaseOk
<1> HIDE DEF T
<1>7. \A n \in Nat : n \in T
  BY <1>5, <1>6, Releasing!SetInduction
<1>8. RouterOk(r) /\ \A a \in Apps : \A k : Why(Len(cut), a, k) => Ok(r, a, k)
  <2>1. Len(cut) \in Nat /\ Len(cut) <= Len(cut) /\ Len(cut) \in T
    BY <1>3, <1>7
  <2> QED BY <2>1 DEF T
<1> HIDE DEF r
<1>9. RouterOk([queue |-> r.queue, lost |-> r.lost])
  BY <1>8 DEF RouterOk
<1>10. RoutesOk(t)
  <2>1. /\ t.links = ls /\ t.queue = r.queue /\ t.lost = r.lost
        /\ t = [links |-> t.links, queue |-> t.queue, lost |-> t.lost]
    BY <1>1
  <2>2. DOMAIN ls \subseteq Wires /\ \A p \in DOMAIN ls : LinkOk(p, ls[p])
    BY DEF Kept, RoutesOk
  <2> HIDE DEF t, ls
  <2> QED BY <2>1, <2>2, <1>9 DEF RoutesOk
<1>11. Covered(t)
  <2> SUFFICES ASSUME NEW a \in Apps, NEW k PROVE HeldIn(t.links, a, k) \/ Ok(t, a, k)
    BY DEF Covered
  <2>1. Ok(r, a, k) => Ok(t, a, k)
    BY <1>1 DEF Ok
  <2>2. CASE Ok(r0, a, k)
    BY <2>1, <2>2, <1>8
  <2>3. CASE HeldIn(rs.links, a, k)
    <3>1. PICK p \in DOMAIN rs.links : p[2] = a /\ k \in rs.links[p].held
      BY <2>3 DEF HeldIn
    <3>2. CASE p \in ps
      <4>1. PICK m \in 1..Len(cut) : cut[m] = p
        BY <3>2, <1>3
      <4>2. Why(Len(cut), a, k)
        BY <4>1, <3>1
      <4> QED BY <4>2, <2>1, <1>8
    <3>3. CASE p \notin ps
      <4>1. p \in DOMAIN ls /\ ls[p] = rs.links[p]
        BY <3>3
      <4>2. t.links = ls
        BY <1>1
      <4> HIDE DEF t, ls
      <4> QED BY <4>1, <4>2, <3>1 DEF HeldIn
    <3> QED BY <3>2, <3>3
  <2> QED BY <2>2, <2>3, <1>4
<1>12. DOMAIN t.links = DOMAIN rs.links \ ps
  BY <1>1
<1> QED BY <1>10, <1>11, <1>12 DEF Kept

\* What a message does to what a wire holds.
LEMMA ObserveOf ==
    ASSUME NEW held \in SUBSET Keys, NEW e \in Event, ~IsAllOff(e.data, {120, 121, 123})
    PROVE  /\ observe(held, e.data) \in SUBSET Keys
           /\ \A k : Starts(e, k) => k \in observe(held, e.data)
           /\ \A k \in held : ~Ends(e, k) => k \in observe(held, e.data)
<1>1. IsNoteOn(e.data) => Key(e.data) \in Keys
  <2> SUFFICES ASSUME IsNoteOn(e.data) PROVE Key(e.data) \in Keys
    OBVIOUS
  <2> DEFINE d == e.data
  <2>1. d \in Seq(0..255) /\ Len(d) = 3
    BY DEF Event, IsNoteOn
  <2> HIDE DEF d
  <2>2. d[1] \in 0..255 /\ d[2] \in 0..255
    <3>1. 1 \in 1..Len(d) /\ 2 \in 1..Len(d)
      BY <2>1
    <3> QED BY <2>1, <3>1, ElementOfSeq
  <2> USE DEF d
  <2>3. e.data[1] % 16 \in 0..15
    BY <2>2
  <2> QED BY <2>2, <2>3 DEF Key, Keys, Channel
<1> QED BY <1>1 DEF observe, Starts, Ends

SendStep(c, d, x, n) == Push(x, c[1][d[n]].inbox, c[2])
Sending == INSTANCE Recursion WITH step <- SendStep

\* Sending: a note-on is held by the wires it went down, and a note-off goes
\* down the wires that forget the note.
LEMMA SendOk ==
    ASSUME SchedOk, NEW rs, Kept(rs), NEW src, NEW e \in Event, ~IsAllOff(e.data, {120, 121, 123})
    PROVE  Kept(send(rs, src, e)) /\ DOMAIN send(rs, src, e).links = DOMAIN rs.links
<1> DEFINE down == {p \in DOMAIN rs.links : p[1] = src /\ carries(rs.links[p], e.data)}
           to == SetToSeq(down)
           r0 == [queue |-> rs.queue, lost |-> rs.lost]
           done[n \in Nat] == IF n = 0 THEN r0 ELSE Push(done[n - 1], rs.links[to[n]].inbox, e)
           ls == [p \in DOMAIN rs.links |->
                    IF p \in down THEN [rs.links[p] EXCEPT !.held = observe(@, e.data)] ELSE rs.links[p]]
           r == done[Len(to)]
           t == send(rs, src, e)
<1>1. t = [links |-> ls, queue |-> r.queue, lost |-> r.lost]
  BY DEF send
<1>2. done = [n \in Nat |-> IF n = 0 THEN r0 ELSE Push(done[n - 1], rs.links[to[n]].inbox, e)]
  <2> DEFINE c == <<rs.links, e>>
  <2>1. PICK q : Sending!IsRun(c, to, r0, q)
    BY Sending!RunExists
  <2>2. c[1] = rs.links /\ c[2] = e
    OBVIOUS
  <2> HIDE DEF c
  <2> QED BY <2>1, <2>2 DEF Sending!IsRun, SendStep
<1> HIDE DEF done
<1>3. to \in Seq(down) /\ \A x \in down : \E n \in 1..Len(to) : to[n] = x
  <2>1. down \in SUBSET DOMAIN rs.links /\ RoutesOk(rs)
    BY DEF Kept
  <2> HIDE DEF down
  <2> QED BY <2>1, SomeWires
<1>4. RouterOk(r0) /\ \A a \in Apps : \A k : HeldIn(rs.links, a, k) \/ Ok(r0, a, k)
  BY DEF Kept, RoutesOk, Covered, Ok
<1>5. down \subseteq DOMAIN rs.links /\ \A p \in DOMAIN rs.links : LinkOk(p, rs.links[p])
  BY DEF Kept, RoutesOk
<1> HIDE DEF to, r0, down
<1> DEFINE Hears(n, a) == \E m \in 1..n : to[m][2] = a
           Why(n, a, k) == \/ Ok(r0, a, k) /\ ~(Starts(e, k) /\ Hears(n, a))
                           \/ Ends(e, k) /\ Hears(n, a)
           T == {n \in Nat : n <= Len(to) => /\ RouterOk(done[n])
                                             /\ \A a \in Apps : \A k : Why(n, a, k) => Ok(done[n], a, k)}
<1>6. 0 \in T
  BY <1>2, <1>4
<1>7. ASSUME NEW n \in Nat, n \in T PROVE n + 1 \in T
  <2>1. SUFFICES ASSUME n + 1 <= Len(to)
                 PROVE  /\ RouterOk(done[n + 1])
                        /\ \A a \in Apps : \A k : Why(n + 1, a, k) => Ok(done[n + 1], a, k)
    OBVIOUS
  <2>2. n <= Len(to) /\ n + 1 \in 1..Len(to) /\ n + 1 # 0 /\ (n + 1) - 1 = n
    BY <2>1, <1>3
  <2>3. RouterOk(done[n]) /\ \A a \in Apps : \A k : Why(n, a, k) => Ok(done[n], a, k)
    BY <2>2, <1>7
  <2> HIDE DEF T
  <2> DEFINE i == rs.links[to[n + 1]].inbox
  <2>4. done[n + 1] = Push(done[n], i, e)
    BY <2>2, <1>2
  <2>5. i \in Inboxes /\ Owner(i) = to[n + 1][2]
    <3>1. to[n + 1] \in down
      BY <2>2, <1>3, ElementOfSeq
    <3>2. LinkOk(to[n + 1], rs.links[to[n + 1]])
      BY <3>1, <1>5
    <3> QED BY <3>2 DEF LinkOk
  <2> HIDE DEF i
  <2>6. ASSUME NEW a \in Apps, NEW k, Why(n + 1, a, k) PROVE Ok(done[n + 1], a, k)
    <3>1. i = <<a, 0>> <=> to[n + 1][2] = a
      BY <2>5, AppInbox
    <3>2. Hears(n + 1, a) <=> (Hears(n, a) \/ i = <<a, 0>>)
      <4>1. \A m \in 1..(n + 1) : m \in 1..n \/ m = n + 1
        OBVIOUS
      <4>2. n + 1 \in 1..(n + 1) /\ \A m \in 1..n : m \in 1..(n + 1)
        OBVIOUS
      <4> QED BY <4>1, <4>2, <3>1
    <3>3. ~(Starts(e, k) /\ Ends(e, k))
      BY OnIsNotOff DEF Ends
    <3> HIDE DEF Hears
    <3>4. \/ Ok(done[n], a, k) /\ ~(i = <<a, 0>> /\ Starts(e, k))
          \/ i = <<a, 0>> /\ Ends(e, k)
      BY <3>2, <3>3, <2>3, <2>6
    <3> QED BY <3>4, <2>3, <2>4, <2>5, PushOk
  <2> QED BY <2>3, <2>4, <2>5, <2>6, PushOk
<1> HIDE DEF T
<1>8. \A n \in Nat : n \in T
  BY <1>6, <1>7, Sending!SetInduction
<1>9. RouterOk(r) /\ \A a \in Apps : \A k : Why(Len(to), a, k) => Ok(r, a, k)
  <2>1. Len(to) \in Nat /\ Len(to) <= Len(to) /\ Len(to) \in T
    BY <1>3, <1>8
  <2> QED BY <2>1 DEF T
<1>10. \A a : Hears(Len(to), a) <=> \E p \in down : p[2] = a
  <2>1. \A m \in 1..Len(to) : to[m] \in down
    BY <1>3
  <2> QED BY <2>1, <1>3
<1> HIDE DEF r, Hears
<1>11. RouterOk([queue |-> r.queue, lost |-> r.lost])
  BY <1>9 DEF RouterOk
<1>12. ASSUME NEW p \in DOMAIN rs.links
       PROVE  /\ LinkOk(p, ls[p])
              /\ p \notin down => ls[p].held = rs.links[p].held
              /\ p \in down => ls[p].held = observe(rs.links[p].held, e.data)
  <2> DEFINE l == rs.links[p]
             h == observe(l.held, e.data)
  <2>1. LinkOk(p, l)
    BY <1>5
  <2>2. l = [inbox |-> l.inbox, channel |-> l.channel, held |-> l.held] /\ l.held \in SUBSET Keys
    BY <2>1 DEF LinkOk
  <2>3. h \in SUBSET Keys
    <3> HIDE DEF l
    <3> QED BY <2>2, ObserveOf
  <2>4. ls[p] = IF p \in down THEN [l EXCEPT !.held = h] ELSE l
    OBVIOUS
  <2> HIDE DEF h, l, ls
  <2>5. [l EXCEPT !.held = h] = [inbox |-> l.inbox, channel |-> l.channel, held |-> h]
    BY <2>2
  <2>6. CASE p \in down
    BY <2>1, <2>3, <2>4, <2>5, <2>6 DEF LinkOk, h, l
  <2>7. CASE p \notin down
    BY <2>1, <2>4, <2>7 DEF l
  <2> QED BY <2>6, <2>7
<1>13. /\ t.links = ls /\ t.queue = r.queue /\ t.lost = r.lost /\ DOMAIN ls = DOMAIN rs.links
       /\ t = [links |-> t.links, queue |-> t.queue, lost |-> t.lost]
  BY <1>1
<1> HIDE DEF t, ls
<1>14. RoutesOk(t)
  BY <1>11, <1>12, <1>13 DEF RoutesOk, Kept
<1>15. Covered(t)
  <2> SUFFICES ASSUME NEW a \in Apps, NEW k PROVE HeldIn(t.links, a, k) \/ Ok(t, a, k)
    BY DEF Covered
  <2>1. Why(Len(to), a, k) => Ok(t, a, k)
    BY <1>9, <1>13 DEF Ok
  <2>2. CASE \E p \in down : p[2] = a /\ Starts(e, k)
    <3>1. PICK p \in down : p[2] = a /\ Starts(e, k)
      BY <2>2
    <3>2. k \in ls[p].held
      <4>1. p \in DOMAIN rs.links /\ rs.links[p].held \in SUBSET Keys
        BY <1>5 DEF LinkOk
      <4>2. k \in observe(rs.links[p].held, e.data)
        BY <4>1, <3>1, ObserveOf
      <4> QED BY <4>1, <4>2, <1>12
    <3> QED BY <3>1, <3>2, <1>5, <1>13 DEF HeldIn
  <2>3. CASE \E p \in down : p[2] = a /\ Ends(e, k)
    BY <2>1, <2>3, <1>10
  <2>4. CASE /\ ~\E p \in down : p[2] = a /\ (Starts(e, k) \/ Ends(e, k))
             /\ HeldIn(rs.links, a, k)
    <3>1. PICK p \in DOMAIN rs.links : p[2] = a /\ k \in rs.links[p].held
      BY <2>4 DEF HeldIn
    <3>2. k \in ls[p].held
      <4>1. CASE p \in down
        <5>1. ~Ends(e, k) /\ rs.links[p].held \in SUBSET Keys
          BY <4>1, <3>1, <2>4, <1>5 DEF LinkOk
        <5>2. k \in observe(rs.links[p].held, e.data)
          BY <5>1, <3>1, ObserveOf
        <5> QED BY <4>1, <5>2, <1>12
      <4> QED BY <4>1, <3>1, <1>12
    <3> QED BY <3>1, <3>2, <1>13 DEF HeldIn
  <2>5. CASE /\ ~\E p \in down : p[2] = a /\ (Starts(e, k) \/ Ends(e, k))
             /\ Ok(r0, a, k)
    BY <2>1, <2>5, <1>10
  <2> QED BY <2>2, <2>3, <2>4, <2>5, <1>4
<1> QED BY <1>13, <1>14, <1>15 DEF Kept, t

\* Narrowing a wire: what it no longer carries is released.
LEMMA SetChannelOk ==
    ASSUME SchedOk, NEW rs, Kept(rs), NEW p \in DOMAIN rs.links, NEW c
    PROVE  Kept(set_channel(rs, p, c)) /\ DOMAIN set_channel(rs, p, c).links = DOMAIN rs.links
<1> DEFINE link == rs.links[p]
           narrowed == [link EXCEPT !.channel = c]
           orphaned == {k \in link.held : ~carries(narrowed, <<NoteOn + k[1], k[2], 1>>)}
           r0 == [queue |-> rs.queue, lost |-> rs.lost]
           es == SetToSeq({OffFor(k) : k \in orphaned})
           r == PushAll(r0, link.inbox, es)
           ls == [rs.links EXCEPT ![p] = [narrowed EXCEPT !.held = @ \ orphaned]]
           t == set_channel(rs, p, c)
<1>1. t = [links |-> ls, queue |-> r.queue, lost |-> r.lost]
  BY DEF set_channel
<1>2. LinkOk(p, link)
  BY DEF Kept, RoutesOk
<1>3. orphaned \in SUBSET link.held
  OBVIOUS
<1> HIDE DEF orphaned
<1>4. /\ es \in Seq(Event)
      /\ \A n \in 1..Len(es) : ~IsNoteOn(es[n].data)
      /\ \A k \in orphaned : \E n \in 1..Len(es) : Ends(es[n], k)
  BY <1>2, <1>3, OffsOf DEF LinkOk
<1> HIDE DEF es
<1>5. RouterOk(r0) /\ \A a \in Apps : \A k : HeldIn(rs.links, a, k) \/ Ok(r0, a, k)
  BY DEF Kept, RoutesOk, Covered, Ok
<1>6. link.inbox \in Inboxes /\ \A a \in Apps : link.inbox = <<a, 0>> <=> p[2] = a
  BY <1>2, AppInbox DEF LinkOk
<1>7. /\ RouterOk(r)
      /\ \A a \in Apps : \A k : Ok(r0, a, k) \/ (p[2] = a /\ k \in orphaned) => Ok(r, a, k)
  <2> HIDE DEF link, r0
  <2> QED BY <1>4, <1>5, <1>6, PushAllOk
<1>8. /\ DOMAIN ls = DOMAIN rs.links
      /\ \A q \in DOMAIN ls : q # p => ls[q] = rs.links[q]
      /\ LinkOk(p, ls[p]) /\ ls[p].held = link.held \ orphaned
  BY <1>2, <1>3 DEF LinkOk
<1>9. RouterOk([queue |-> r.queue, lost |-> r.lost])
  <2> HIDE DEF r
  <2> QED BY <1>7 DEF RouterOk
<1>10. /\ t.links = ls /\ t.queue = r.queue /\ t.lost = r.lost
       /\ t = [links |-> t.links, queue |-> t.queue, lost |-> t.lost]
  BY <1>1
<1> HIDE DEF t, ls, r, r0, link
<1>11. RoutesOk(t)
  BY <1>8, <1>9, <1>10 DEF RoutesOk, Kept
<1>12. Covered(t)
  <2> SUFFICES ASSUME NEW a \in Apps, NEW k PROVE HeldIn(t.links, a, k) \/ Ok(t, a, k)
    BY DEF Covered
  <2>1. Ok(r, a, k) => Ok(t, a, k)
    BY <1>10 DEF Ok
  <2>2. CASE Ok(r0, a, k)
    BY <2>1, <2>2, <1>7
  <2>3. CASE HeldIn(rs.links, a, k)
    <3>1. PICK q \in DOMAIN rs.links : q[2] = a /\ k \in rs.links[q].held
      BY <2>3 DEF HeldIn
    <3>2. CASE q = p /\ k \in orphaned
      BY <3>1, <3>2, <2>1, <1>7
    <3>3. CASE ~(q = p /\ k \in orphaned)
      <4>1. k \in ls[q].held
        BY <3>1, <3>3, <1>8 DEF link
      <4> QED BY <4>1, <3>1, <1>8, <1>10 DEF HeldIn
    <3> QED BY <3>2, <3>3
  <2> QED BY <2>2, <2>3, <1>5
<1> QED BY <1>8, <1>10, <1>11, <1>12 DEF Kept, t

TuneStep(c, d, x, n) == set_channel(x, d[n], ChannelOf(d[n], c))
Tuning == INSTANCE Recursion WITH step <- TuneStep

LEMMA TunedOk ==
    ASSUME SchedOk, NEW rs, Kept(rs), NEW live \in SUBSET DOMAIN rs.links, NEW channels
    PROVE  Kept(Tuned(rs, live, channels)) /\ DOMAIN Tuned(rs, live, channels).links = DOMAIN rs.links
<1> DEFINE S == {p \in live : rs.links[p].channel # ChannelOf(p, channels)}
           off == SetToSeq(S)
           done[n \in Nat] == IF n = 0 THEN rs
                              ELSE set_channel(done[n - 1], off[n], ChannelOf(off[n], channels))
           Fine(x) == Kept(x) /\ DOMAIN x.links = DOMAIN rs.links
<1>1. Tuned(rs, live, channels) = done[Len(off)]
  BY DEF Tuned
<1>2. done = [n \in Nat |-> IF n = 0 THEN rs
                            ELSE set_channel(done[n - 1], off[n], ChannelOf(off[n], channels))]
  <2>1. PICK q : Tuning!IsRun(channels, off, rs, q)
    BY Tuning!RunExists
  <2> QED BY <2>1 DEF Tuning!IsRun, TuneStep
<1> HIDE DEF done
<1>3. off \in Seq(S) /\ S \subseteq DOMAIN rs.links
  <2>1. S \in SUBSET DOMAIN rs.links
    OBVIOUS
  <2> HIDE DEF S
  <2> QED BY <2>1, SomeWires DEF Kept
<1> HIDE DEF off, S
<1> DEFINE T == {n \in Nat : n <= Len(off) => Fine(done[n])}
<1>4. 0 \in T
  BY <1>2
<1>5. ASSUME NEW n \in Nat, n \in T PROVE n + 1 \in T
  <2>1. SUFFICES ASSUME n + 1 <= Len(off) PROVE Fine(done[n + 1])
    OBVIOUS
  <2>2. n <= Len(off) /\ n + 1 \in 1..Len(off) /\ n + 1 # 0 /\ (n + 1) - 1 = n
    BY <2>1, <1>3
  <2>3. Fine(done[n])
    BY <2>2, <1>5
  <2>4. done[n + 1] = set_channel(done[n], off[n + 1], ChannelOf(off[n + 1], channels))
    BY <2>2, <1>2
  <2>5. off[n + 1] \in DOMAIN done[n].links
    BY <2>2, <2>3, <1>3, ElementOfSeq
  <2> HIDE DEF T
  <2> QED BY <2>3, <2>4, <2>5, SetChannelOk
<1> HIDE DEF T
<1>6. \A n \in Nat : n \in T
  BY <1>4, <1>5, Tuning!SetInduction
<1>7. Fine(done[Len(off)])
  <2>1. Len(off) \in Nat /\ Len(off) <= Len(off) /\ Len(off) \in T
    BY <1>3, <1>6
  <2> QED BY <2>1 DEF T
<1> QED BY <1>1, <1>7

OutsOk ==
    /\ DOMAIN out_inbox = Outs
    /\ \A o \in Outs : out_inbox[o] # NoInbox => out_inbox[o] \in Inboxes /\ Owner(out_inbox[o]) = o

\* The reconciler: wires that go are cut, wires that come hold nothing.
LEMMA SyncedOk ==
    ASSUME SchedOk, OutsOk, NEW rs, Kept(rs), NEW active, active = DOMAIN rs.links,
           NEW wires \in SUBSET Wires, NEW channels, NEW on_canvas
    PROVE  LET s == Synced(rs, active, wires, channels, on_canvas)
           IN  Kept(s.routes) /\ DOMAIN s.routes.links = s.routed
<1> DEFINE desired == wires \ denied
           kept == Disconnect(rs, active \ desired)
           added == {p \in desired \ active : InboxOf(p[2], on_canvas, out_inbox) # NoInbox}
           Fresh(p) == [inbox |-> InboxOf(p[2], on_canvas, out_inbox), channel |-> 0, held |-> {}]
           ls == [p \in DOMAIN kept.links \union added |->
                    IF p \in DOMAIN kept.links THEN kept.links[p] ELSE Fresh(p)]
           drawn == [links |-> ls, queue |-> kept.queue, lost |-> kept.lost]
           live == (active \intersect desired) \union added
           s == Synced(rs, active, wires, channels, on_canvas)
<1>1. s.routes = Tuned(drawn, live, channels) /\ s.routed = live
  BY DEF Synced
<1>2. Kept(kept) /\ DOMAIN kept.links = active \intersect desired
  <2>1. active \ desired \in SUBSET DOMAIN rs.links
    OBVIOUS
  <2>2. Kept(kept) /\ DOMAIN kept.links = DOMAIN rs.links \ (active \ desired)
    <3> HIDE DEF desired
    <3> QED BY <2>1, DisconnectOk
  <2> HIDE DEF kept
  <2> QED BY <2>2
<1> HIDE DEF kept
<1>3. DOMAIN ls = live /\ DOMAIN ls \subseteq Wires
  BY <1>2
<1>4. ASSUME NEW p \in added PROVE LinkOk(p, Fresh(p)) /\ Fresh(p).held = {}
  <2> DEFINE i == InboxOf(p[2], on_canvas, out_inbox)
  <2>1. p[2] \in Apps \union Outs /\ i # NoInbox
    BY MidiAssumption
  <2>2. i \in Inboxes /\ Owner(i) = p[2]
    <3>1. CASE p[2] \in Outs
      BY <2>1, <3>1 DEF InboxOf, OutsOk
    <3>2. CASE p[2] \notin Outs
      <4>1. i = <<p[2], 0>> /\ p[2] \in Apps
        BY <2>1, <3>2 DEF InboxOf
      <4> HIDE DEF i
      <4> QED BY <4>1 DEF Inboxes, Owner
    <3> QED BY <3>1, <3>2
  <2> HIDE DEF i
  <2>3. Fresh(p) = [inbox |-> i, channel |-> 0, held |-> {}]
    BY DEF i
  <2> HIDE DEF Fresh
  <2> QED BY <2>2, <2>3 DEF LinkOk
<1>5. \A p \in DOMAIN kept.links : LinkOk(p, kept.links[p]) /\ ls[p] = kept.links[p] /\ p \in DOMAIN ls
  BY <1>2 DEF Kept, RoutesOk
<1>6. ASSUME NEW p \in DOMAIN ls PROVE LinkOk(p, ls[p])
  <2>1. CASE p \in DOMAIN kept.links
    BY <2>1, <1>5
  <2>2. CASE p \notin DOMAIN kept.links
    <3>1. p \in added /\ ls[p] = Fresh(p)
      BY <2>2
    <3> HIDE DEF added, Fresh, ls
    <3> QED BY <3>1, <1>4
  <2> QED BY <2>1, <2>2
<1>7. /\ drawn.links = ls /\ drawn.queue = kept.queue /\ drawn.lost = kept.lost
      /\ drawn = [links |-> drawn.links, queue |-> drawn.queue, lost |-> drawn.lost]
  OBVIOUS
<1> HIDE DEF drawn, ls, live, s, added, Fresh
<1>8. RoutesOk(drawn)
  BY <1>2, <1>3, <1>6, <1>7 DEF RoutesOk, Kept
<1>9. Covered(drawn)
  <2> SUFFICES ASSUME NEW a \in Apps, NEW k PROVE HeldIn(drawn.links, a, k) \/ Ok(drawn, a, k)
    BY DEF Covered
  <2>1. Ok(kept, a, k) => Ok(drawn, a, k)
    BY <1>7 DEF Ok
  <2>2. HeldIn(kept.links, a, k) => HeldIn(drawn.links, a, k)
    BY <1>5, <1>7 DEF HeldIn
  <2> QED BY <2>1, <2>2, <1>2 DEF Kept, Covered
<1>10. Kept(Tuned(drawn, live, channels)) /\ DOMAIN Tuned(drawn, live, channels).links = live
  BY <1>3, <1>7, <1>8, <1>9, TunedOk DEF Kept
<1> QED BY <1>1, <1>10 DEF s

\* The messages a source may send: no channel-mode messages.
Message == {m \in Seq(0..255) : ~IsAllOff(m, {120, 121, 123})}

LEMMA NowIs == ASSUME NEW m \in Message PROVE Now(m) \in Event /\ Now(m).data = m
BY DEF Message, Now, Event

SendAllStep(c, d, x, n) == send(x, c, Now(d[n]))
Streaming == INSTANCE Recursion WITH step <- SendAllStep

LEMMA SendAllOk ==
    ASSUME SchedOk, NEW rs, Kept(rs), NEW src, NEW ms \in Seq(Message)
    PROVE  Kept(SendAll(rs, src, ms)) /\ DOMAIN SendAll(rs, src, ms).links = DOMAIN rs.links
<1> DEFINE done[n \in Nat] == IF n = 0 THEN rs ELSE send(done[n - 1], src, Now(ms[n]))
           Fine(x) == Kept(x) /\ DOMAIN x.links = DOMAIN rs.links
<1>1. SendAll(rs, src, ms) = done[Len(ms)]
  BY DEF SendAll
<1>2. done = [n \in Nat |-> IF n = 0 THEN rs ELSE send(done[n - 1], src, Now(ms[n]))]
  <2>1. PICK q : Streaming!IsRun(src, ms, rs, q)
    BY Streaming!RunExists
  <2> QED BY <2>1 DEF Streaming!IsRun, SendAllStep
<1> HIDE DEF done
<1> DEFINE T == {n \in Nat : n <= Len(ms) => Fine(done[n])}
<1>3. 0 \in T
  BY <1>2
<1>4. ASSUME NEW n \in Nat, n \in T PROVE n + 1 \in T
  <2>1. SUFFICES ASSUME n + 1 <= Len(ms) PROVE Fine(done[n + 1])
    OBVIOUS
  <2>2. n <= Len(ms) /\ n + 1 \in 1..Len(ms) /\ n + 1 # 0 /\ (n + 1) - 1 = n
    BY <2>1
  <2>3. Fine(done[n])
    BY <2>2, <1>4
  <2>4. done[n + 1] = send(done[n], src, Now(ms[n + 1]))
    BY <2>2, <1>2
  <2>5. ms[n + 1] \in Message
    BY <2>2, ElementOfSeq
  <2>6. Now(ms[n + 1]) \in Event /\ ~IsAllOff(Now(ms[n + 1]).data, {120, 121, 123})
    BY <2>5, NowIs DEF Message
  <2> HIDE DEF T
  <2> QED BY <2>3, <2>4, <2>6, SendOk
<1> HIDE DEF T
<1>5. \A n \in Nat : n \in T
  BY <1>3, <1>4, Streaming!SetInduction
<1>6. Fine(done[Len(ms)])
  <2>1. Len(ms) \in Nat /\ Len(ms) <= Len(ms) /\ Len(ms) \in T
    BY <1>5
  <2> QED BY <2>1 DEF T
<1> QED BY <1>1, <1>6

-----------------------------------------------------------------------------
(* A port's decoder. *)

DecOk(d) ==
    /\ d = [pending |-> d.pending, data |-> d.data, sysex |-> d.sysex]
    /\ d.pending \in 0..255 /\ Family(d.pending) # Control
    /\ d.data \in Seq(0..255) /\ d.sysex \in Seq(0..255)
    /\ d.sysex # << >> => d.sysex[1] = 240

LEMMA MakeDec ==
    ASSUME NEW p \in 0..255, Family(p) # Control, NEW x \in Seq(0..255), NEW y \in Seq(0..255),
           y # << >> => y[1] = 240
    PROVE  DecOk([pending |-> p, data |-> x, sysex |-> y])
BY DEF DecOk

\* A decoder whose bytes hold no control change puts out none.
LEMMA DecoderOk ==
    ASSUME NEW d, DecOk(d), NEW b \in 0..255, Family(b) # Control
    PROVE  DecOk(byte(d, b).dec) /\ byte(d, b).out \in Seq(Message)
<1>0. /\ d = [pending |-> d.pending, data |-> d.data, sysex |-> d.sysex]
      /\ d.pending \in 0..255 /\ Family(d.pending) # Control
      /\ d.data \in Seq(0..255) /\ d.sysex \in Seq(0..255)
      /\ d.sysex # << >> => d.sysex[1] = 240
  BY DEF DecOk
<1>1. /\ Family(0) # Control /\ Family(240) # Control /\ 0 \in 0..255
      /\ << >> \in Seq(0..255) /\ << >> \in Seq(Message)
  BY DEF Family, Control
<1>2. <<b>> \in Message /\ <<b>> \in Seq(0..255) /\ <<b>>[1] = b /\ <<b>> # << >>
  BY DEF Message, IsAllOff
<1>3. <<<<b>>>> \in Seq(Message)
  <2> HIDE DEF Message
  <2> QED BY <1>2
<1>4. CASE b >= 248
  <2>1. byte(d, b) = [dec |-> d, out |-> <<<<b>>>>]
    BY <1>4 DEF byte, RealTime
  <2> QED BY <2>1, <1>3
<1>5. CASE b = 247
  <2> DEFINE s == Append(d.sysex, b)
             new == [pending |-> 0, data |-> d.data, sysex |-> << >>]
  <2>1. /\ byte(d, b).dec = new
        /\ byte(d, b).out = IF d.sysex # << >> THEN <<s>> ELSE << >>
    BY <1>5 DEF byte, EndOfSysex
  <2>3. DecOk(new)
    BY <1>0, <1>1 DEF DecOk
  <2>4. ASSUME d.sysex # << >> PROVE <<s>> \in Seq(Message)
    <3>1. s \in Seq(0..255) /\ s[1] = 240
      BY <1>0, <2>4
    <3> HIDE DEF s
    <3>2. s \in Message
      BY <3>1, <1>1 DEF Message, IsAllOff
    <3> HIDE DEF Message
    <3> QED BY <3>2
  <2> HIDE DEF new, s
  <2> QED BY <2>1, <2>3, <2>4, <1>1
<1>6. CASE b = 240
  <2>1. byte(d, b) = [dec |-> [pending |-> 0, data |-> << >>, sysex |-> <<b>>], out |-> << >>]
    BY <1>6 DEF byte, StartOfSysex
  <2>2. DecOk([pending |-> 0, data |-> << >>, sysex |-> <<b>>])
    BY <1>1, <1>2, <1>6, MakeDec
  <2> QED BY <2>1, <2>2, <1>1
<1>7. CASE b >= 128 /\ b < 248 /\ b # 247 /\ b # 240
  <2>1. byte(d, b) = OtherStatus(d, b)
    BY <1>7 DEF byte
  <2>2. CASE data_len(b) = 0
    <3>1. byte(d, b) = [dec |-> NewDecoder, out |-> <<<<b>>>>]
      BY <2>1, <2>2 DEF OtherStatus
    <3>2. DecOk(NewDecoder)
      BY <1>1, MakeDec DEF NewDecoder
    <3> QED BY <3>1, <3>2, <1>3
  <2>3. CASE data_len(b) # 0
    <3>1. byte(d, b) = [dec |-> [pending |-> b, data |-> << >>, sysex |-> << >>], out |-> << >>]
      BY <2>1, <2>3 DEF OtherStatus
    <3>2. DecOk([pending |-> b, data |-> << >>, sysex |-> << >>])
      BY <1>1, MakeDec
    <3> QED BY <3>1, <3>2, <1>1
  <2> QED BY <2>2, <2>3
<1>8. CASE b < 128
  <2>1. byte(d, b) = DataByte(d, b)
    BY <1>8 DEF byte
  <2>2. CASE d.sysex # << >>
    <3> DEFINE s == IF Len(d.sysex) < SYSEX_LIMIT THEN Append(d.sysex, b) ELSE << >>
               new == [pending |-> d.pending, data |-> d.data, sysex |-> s]
    <3>1. byte(d, b) = [dec |-> [d EXCEPT !.sysex = s], out |-> << >>]
      BY <2>1, <2>2 DEF DataByte
    <3>2. s \in Seq(0..255) /\ (s # << >> => s[1] = 240)
      BY <1>0, <2>2
    <3> HIDE DEF s
    <3>3. [d EXCEPT !.sysex = s] = new
      BY <1>0
    <3>4. DecOk(new)
      BY <1>0, <3>2 DEF DecOk
    <3> HIDE DEF new
    <3> QED BY <3>1, <3>3, <3>4, <1>1
  <2>3. CASE d.sysex = << >> /\ d.pending = 0
    <3>1. byte(d, b) = [dec |-> d, out |-> << >>]
      BY <2>1, <2>3 DEF DataByte
    <3> QED BY <3>1, <1>1
  <2>4. CASE d.sysex = << >> /\ d.pending # 0 /\ Len(d.data) + 1 < data_len(d.pending)
    <3> DEFINE s == Append(d.data, b)
               new == [pending |-> d.pending, data |-> s, sysex |-> d.sysex]
    <3>1. byte(d, b) = [dec |-> [d EXCEPT !.data = s], out |-> << >>]
      BY <2>1, <2>4 DEF DataByte
    <3>2. s \in Seq(0..255)
      BY <1>0
    <3> HIDE DEF s
    <3>3. [d EXCEPT !.data = s] = new
      BY <1>0
    <3>4. DecOk(new)
      BY <1>0, <3>2 DEF DecOk
    <3> HIDE DEF new
    <3> QED BY <3>1, <3>3, <3>4, <1>1
  <2>5. CASE d.sysex = << >> /\ d.pending # 0 /\ ~(Len(d.data) + 1 < data_len(d.pending))
    <3> DEFINE s == <<d.pending>> \o Append(d.data, b)
               next == IF d.pending < 240 THEN d.pending ELSE 0
               new == [pending |-> next, data |-> << >>, sysex |-> d.sysex]
    <3>1. byte(d, b) = [dec |-> new, out |-> <<s>>]
      BY <2>1, <2>5 DEF DataByte
    <3>2. s \in Seq(0..255) /\ s[1] = d.pending
      BY <1>0
    <3>3. next \in 0..255 /\ Family(next) # Control
      BY <1>0, <1>1
    <3> HIDE DEF s, next
    <3>5. DecOk(new)
      BY <1>0, <1>1, <3>3 DEF DecOk
    <3>6. s \in Message
      BY <3>2, <1>0 DEF Message, IsAllOff
    <3>7. <<s>> \in Seq(Message)
      <4> HIDE DEF Message
      <4> QED BY <3>6
    <3> HIDE DEF new
    <3> QED BY <3>1, <3>5, <3>7
  <2> QED BY <2>2, <2>3, <2>4, <2>5
<1> QED BY <1>4, <1>5, <1>6, <1>7, <1>8

-----------------------------------------------------------------------------
(* A destination takes and plays messages. *)

\* A message taken from the queue's head is sounded, or held.
LEMMA TakenSilent ==
    ASSUME NEW z, NEW sc \in Seq(Scheduled), NEW q \in Seq(Event), q # << >>, NEW k,
           Silent(z, sc, q, k)
    PROVE  /\ Head(q).ahead => Silent(z, Append(sc, Head(q)), Tail(q), k)
           /\ ~Head(q).ahead => Silent(Sound(z, Head(q).data), sc, Tail(q), k)
<1> DEFINE t == Tail(q)
           h == q[1]
<1>1. /\ Head(q) = h /\ Len(q) \in Nat \ {0} /\ DOMAIN q = 1..Len(q)
      /\ t \in Seq(Event) /\ DOMAIN t = 1..(Len(q) - 1)
      /\ \A j \in 1..(Len(q) - 1) : t[j] = q[j + 1]
  OBVIOUS
<1>2. h \in Event
  BY <1>1
<1> HIDE DEF t, h
<1>3. \A m \in DOMAIN q : m # 1 => m - 1 \in DOMAIN t /\ t[m - 1] = q[m]
  BY <1>1
<1>4. \A m \in DOMAIN q : m = 1 \/ m > 1
  BY <1>1
<1>5. ASSUME NEW j \in DOMAIN t, Starts(t[j], k)
      PROVE  \E m \in DOMAIN t : m > j /\ Ends(t[m], k) /\ (t[j].ahead => t[m].ahead)
  <2>1. j + 1 \in DOMAIN q /\ t[j] = q[j + 1] /\ j \in Nat
    BY <1>1
  <2>2. PICK m \in DOMAIN q : m > j + 1 /\ Ends(q[m], k) /\ (q[j + 1].ahead => q[m].ahead)
    BY <2>1, <1>5 DEF Silent
  <2>3. m # 1 /\ m - 1 > j
    BY <2>1, <2>2, <1>1
  <2> QED BY <2>1, <2>2, <2>3, <1>3
<1>6. Starts(h, k) => \E m \in DOMAIN q : m > 1 /\ Ends(q[m], k) /\ (h.ahead => q[m].ahead)
  BY <1>1 DEF Silent, h
<1>7. ASSUME h.ahead PROVE Silent(z, Append(sc, h), t, k)
  <2> DEFINE a == Append(sc, h)
             l == Len(sc) + 1
  <2>1. /\ DOMAIN sc = 1..Len(sc) /\ DOMAIN a = 1..l /\ a[l] = h /\ l \in DOMAIN a
        /\ \A j \in DOMAIN sc : a[j] = sc[j] /\ j \in DOMAIN a /\ l > j
        /\ \A j \in DOMAIN a : j \in DOMAIN sc \/ j = l
    <3>1. h \in Scheduled
      BY <1>2, <1>7 DEF Scheduled
    <3>2. a \in Seq(Scheduled) /\ Len(a) = l /\ Len(sc) \in Nat /\ a[l] = h
      BY <3>1
    <3>3. \A j \in 1..Len(sc) : a[j] = sc[j]
      BY <3>1
    <3> HIDE DEF a
    <3> QED BY <3>2, <3>3
  <2> HIDE DEF a, l
  <2>2. \A m \in DOMAIN q : Ends(q[m], k) => Ends(a[l], k) \/ \E i \in DOMAIN t : t[i] = q[m]
    BY <2>1, <1>1, <1>3 DEF h
  <2>3. k \in z => \/ \E m \in DOMAIN t : Ends(t[m], k)
                   \/ \E m \in DOMAIN a : Ends(a[m], k)
    BY <2>1, <2>2 DEF Silent
  <2>4. ASSUME NEW j \in DOMAIN a, Starts(a[j], k)
        PROVE  \/ \E m \in DOMAIN a : m > j /\ Ends(a[m], k)
               \/ \E m \in DOMAIN t : t[m].ahead /\ Ends(t[m], k)
    <3>1. CASE j = l
      <4>1. PICK m \in DOMAIN q : m > 1 /\ Ends(q[m], k) /\ q[m].ahead
        BY <3>1, <2>1, <2>4, <1>6, <1>7
      <4>2. m # 1
        BY <4>1, <1>1
      <4> QED BY <4>1, <4>2, <1>3
    <3>2. CASE j \in DOMAIN sc
      <4>1. Starts(sc[j], k)
        BY <2>1, <2>4, <3>2
      <4>2. CASE \E m \in DOMAIN sc : m > j /\ Ends(sc[m], k)
        BY <4>2, <2>1
      <4>3. CASE \E m \in DOMAIN q : q[m].ahead /\ Ends(q[m], k)
        <5>1. PICK m \in DOMAIN q : q[m].ahead /\ Ends(q[m], k)
          BY <4>3
        <5>2. CASE m = 1
          BY <5>1, <5>2, <3>2, <2>1 DEF h
        <5>3. CASE m # 1
          BY <5>1, <5>3, <1>3
        <5> QED BY <5>2, <5>3
      <4> QED BY <4>1, <4>2, <4>3, <3>2 DEF Silent
    <3> QED BY <3>1, <3>2, <2>1
  <2> QED BY <2>3, <2>4, <1>5 DEF Silent, a
<1>8. ASSUME ~h.ahead PROVE Silent(Sound(z, h.data), sc, t, k)
  <2>1. ASSUME k \in Sound(z, h.data)
        PROVE  \/ \E m \in DOMAIN t : Ends(t[m], k)
               \/ \E m \in DOMAIN sc : Ends(sc[m], k)
    <3>1. ~Ends(h, k) /\ (Starts(h, k) \/ k \in z)
      BY <2>1, SoundOfOne
    <3>2. CASE Starts(h, k)
      <4>1. PICK m \in DOMAIN q : m > 1 /\ Ends(q[m], k)
        BY <3>2, <1>6
      <4>2. m # 1
        BY <4>1, <1>1
      <4> QED BY <4>1, <4>2, <1>3
    <3>3. CASE k \in z
      <4>1. CASE \E m \in DOMAIN q : Ends(q[m], k)
        <5>1. PICK m \in DOMAIN q : Ends(q[m], k)
          BY <4>1
        <5>2. m # 1
          BY <5>1, <3>1 DEF h
        <5> QED BY <5>1, <5>2, <1>3
      <4> QED BY <4>1, <3>3 DEF Silent
    <3> QED BY <3>1, <3>2, <3>3
  <2>2. ASSUME NEW m \in DOMAIN q, q[m].ahead, Ends(q[m], k)
        PROVE  \E i \in DOMAIN t : t[i].ahead /\ Ends(t[i], k)
    BY <2>2, <1>3, <1>8 DEF h
  <2>3. \A j \in DOMAIN sc : Starts(sc[j], k) =>
          \/ \E m \in DOMAIN sc : m > j /\ Ends(sc[m], k)
          \/ \E m \in DOMAIN t : t[m].ahead /\ Ends(t[m], k)
    BY <2>2 DEF Silent
  <2> QED BY <2>1, <2>3, <1>5 DEF Silent
<1> QED BY <1>1, <1>7, <1>8 DEF t

\* The instant of a held message comes.
LEMMA DueSilent ==
    ASSUME NEW z, NEW sc \in Seq(Scheduled), sc # << >>, NEW q, NEW k, Silent(z, sc, q, k)
    PROVE  Silent(Sound(z, Head(sc).data), Tail(sc), q, k)
<1> DEFINE t == Tail(sc)
           h == sc[1]
<1>1. /\ Head(sc) = h /\ Len(sc) \in Nat \ {0} /\ DOMAIN sc = 1..Len(sc)
      /\ DOMAIN t = 1..(Len(sc) - 1)
      /\ \A j \in 1..(Len(sc) - 1) : t[j] = sc[j + 1]
  OBVIOUS
<1> HIDE DEF t, h
<1>2. \A m \in DOMAIN sc : m # 1 => m - 1 \in DOMAIN t /\ t[m - 1] = sc[m]
  BY <1>1
<1>3. ASSUME NEW j \in DOMAIN sc, Starts(sc[j], k)
      PROVE  \/ \E m \in DOMAIN t : m > j - 1 /\ Ends(t[m], k)
             \/ \E m \in DOMAIN q : q[m].ahead /\ Ends(q[m], k)
  <2>1. CASE \E m \in DOMAIN sc : m > j /\ Ends(sc[m], k)
    <3>1. PICK m \in DOMAIN sc : m > j /\ Ends(sc[m], k)
      BY <2>1
    <3>2. m # 1 /\ m - 1 > j - 1
      BY <3>1, <1>1
    <3> QED BY <3>1, <3>2, <1>2
  <2> QED BY <2>1, <1>3 DEF Silent
<1>4. ASSUME NEW j \in DOMAIN t, Starts(t[j], k)
      PROVE  \/ \E m \in DOMAIN t : m > j /\ Ends(t[m], k)
             \/ \E m \in DOMAIN q : q[m].ahead /\ Ends(q[m], k)
  <2>1. j + 1 \in DOMAIN sc /\ t[j] = sc[j + 1] /\ (j + 1) - 1 = j
    BY <1>1
  <2> QED BY <2>1, <1>3, <1>4
<1>5. ASSUME k \in Sound(z, h.data)
      PROVE  \/ \E m \in DOMAIN q : Ends(q[m], k)
             \/ \E m \in DOMAIN t : Ends(t[m], k)
  <2>1. ~Ends(h, k) /\ (Starts(h, k) \/ k \in z)
    BY <1>5, SoundOfOne
  <2>2. CASE Starts(h, k)
    <3>1. 1 \in DOMAIN sc /\ sc[1] = h
      BY <1>1 DEF h
    <3> QED BY <3>1, <2>2, <1>3
  <2>3. CASE k \in z
    <3>1. CASE \E m \in DOMAIN sc : Ends(sc[m], k)
      <4>1. PICK m \in DOMAIN sc : Ends(sc[m], k)
        BY <3>1
      <4>2. m # 1
        BY <4>1, <2>1 DEF h
      <4> QED BY <4>1, <4>2, <1>2
    <3> QED BY <3>1, <2>3 DEF Silent
  <2> QED BY <2>1, <2>2, <2>3
<1> QED BY <1>1, <1>4, <1>5 DEF Silent, t

-----------------------------------------------------------------------------
(* The invariant and the steps. *)

\* What the parts other than the router keep: sync_midi knows the routes, the
\* ports of outputs and no others have pumps, and what is held for its instant
\* was sent ahead.
PartsOk ==
    /\ routed = DOMAIN links
    /\ midi_links \in SUBSET Wires
    /\ OutsOk
    /\ DOMAIN pump = Inboxes /\ \A a \in Apps : pump[<<a, 0>>] = "none"
    /\ \A k \in DOMAIN decoder : DecOk(decoder[k])
    /\ DOMAIN sounding = Dests /\ DOMAIN scheduled = Dests /\ SchedOk

MidiInv == PartsOk /\ Kept(Routes)

\* The router's state after a step that plays nothing.
LEMMA RoutesStay ==
    ASSUME NEW rs, Kept(rs), RoutesBecome(rs), UNCHANGED dests
    PROVE  Kept(Routes)' /\ DOMAIN links' = DOMAIN rs.links
<1>1. links' = rs.links /\ queue' = rs.queue /\ lost' = rs.lost /\ sounding' = sounding
      /\ scheduled' = scheduled
  BY DEF RoutesBecome, dests
<1>2. Routes' = rs
  BY <1>1 DEF Routes, Kept, RoutesOk
<1>3. \A a \in Apps : \A k : Ok(rs, a, k)' <=> Ok(rs, a, k)
  BY <1>1 DEF Ok
<1> QED BY <1>1, <1>2, <1>3 DEF Kept, Covered

LEMMA RoutesKeep ==
    ASSUME Kept(Routes), UNCHANGED <<router, dests>>
    PROVE  Kept(Routes)'
<1>1. RoutesBecome(Routes) /\ UNCHANGED dests
  BY DEF RoutesBecome, Routes, router, dests
<1> QED BY <1>1, RoutesStay

LEMMA MidiStarts == MidiInit => MidiInv
<1> SUFFICES ASSUME MidiInit PROVE MidiInv
  OBVIOUS
<1>1. PartsOk
  <2>1. routed = {} /\ links = << >> /\ midi_links \in SUBSET Wires
    BY DEF MidiInit
  <2>2. OutsOk
    <3>1. 1 \in 1..MaxOpens
      BY MidiAssumption
    <3>2. \A o \in Outs : <<o, 1>> \in Inboxes /\ Owner(<<o, 1>>) = o
      BY <3>1 DEF Inboxes, Owner
    <3>3. out_inbox = [o \in Outs |-> <<o, 1>>]
      BY DEF MidiInit
    <3> QED BY <3>2, <3>3 DEF OutsOk
  <2>3. DOMAIN pump = Inboxes /\ \A a \in Apps : pump[<<a, 0>>] = "none"
    <3>1. pump = [i \in Inboxes |-> IF Owner(i) \in Outs /\ i[2] = 1 THEN "up" ELSE "none"]
      BY DEF MidiInit
    <3>2. \A a \in Apps : <<a, 0>> \in Inboxes /\ <<a, 0>>[2] # 1
      BY DEF Inboxes
    <3> QED BY <3>1, <3>2
  <2>4. \A k \in DOMAIN decoder : DecOk(decoder[k])
    <3>1. DecOk(NewDecoder)
      <4>1. Family(0) # Control /\ 0 \in 0..255 /\ << >> \in Seq(0..255)
        BY DEF Family, Control
      <4> QED BY <4>1, MakeDec DEF NewDecoder
    <3>2. decoder = [k \in Ins |-> NewDecoder]
      BY DEF MidiInit
    <3> QED BY <3>1, <3>2
  <2>5. DOMAIN sounding = Dests /\ DOMAIN scheduled = Dests /\ SchedOk
    <3>1. sounding = [d \in Dests |-> {}] /\ scheduled = [d \in Dests |-> << >>]
      BY DEF MidiInit
    <3>2. \A a \in Apps : a \in Dests
      BY DEF Dests
    <3> QED BY <3>1, <3>2 DEF SchedOk
  <2>6. DOMAIN links = {}
    BY <2>1
  <2> QED BY <2>1, <2>2, <2>3, <2>4, <2>5, <2>6 DEF PartsOk
<1>2. Kept(Routes)
  <2>1. /\ links = << >> /\ queue = [i \in Inboxes |-> << >>] /\ lost = [d \in Dests |-> {}]
        /\ sounding = [d \in Dests |-> {}] /\ scheduled = [d \in Dests |-> << >>]
    BY DEF MidiInit
  <2>2. DOMAIN links = {}
    BY <2>1
  <2>3. Routes.links = links /\ Routes.queue = queue /\ Routes.lost = lost
        /\ Routes = [links |-> Routes.links, queue |-> Routes.queue, lost |-> Routes.lost]
    BY DEF Routes
  <2>4. RouterOk([queue |-> queue, lost |-> lost])
    BY <2>1 DEF RouterOk
  <2>5. RoutesOk(Routes)
    BY <2>2, <2>3, <2>4 DEF RoutesOk
  <2>6. ASSUME NEW a \in Apps, NEW k PROVE Ok(Routes, a, k)
    <3>1. a \in Dests /\ <<a, 0>> \in Inboxes
      BY DEF Dests, Inboxes
    <3>2. sounding[a] = {} /\ scheduled[a] = << >> /\ queue[<<a, 0>>] = << >>
      BY <2>1, <3>1
    <3>3. Silent({}, << >>, << >>, k)
      BY DEF Silent
    <3> QED BY <2>3, <3>2, <3>3 DEF Ok
  <2> QED BY <2>5, <2>6 DEF Kept, Covered
<1> QED BY <1>1, <1>2 DEF MidiInv

\* The steps that end in sync_midi.
LEMMA SyncStep ==
    ASSUME MidiInv, NEW wires \in SUBSET Wires, NEW channels, NEW on_canvas,
           sync_midi(Routes, routed, wires, channels, on_canvas),
           midi_links' = wires, UNCHANGED <<ports, dests>>
    PROVE  MidiInv'
<1> DEFINE s == Synced(Routes, routed, wires, channels, on_canvas)
<1>1. RoutesBecome(s.routes) /\ routed' = s.routed
  BY DEF sync_midi
<1>2. Kept(Routes) /\ SchedOk /\ OutsOk /\ routed = DOMAIN Routes.links
  BY DEF MidiInv, PartsOk, Routes
<1>3. Kept(s.routes) /\ DOMAIN s.routes.links = s.routed
  BY <1>2, SyncedOk
<1> HIDE DEF s
<1>4. Kept(Routes)' /\ DOMAIN links' = s.routed
  BY <1>1, <1>3, RoutesStay
<1>5. PartsOk'
  BY <1>1, <1>4 DEF MidiInv, PartsOk, ports, dests, OutsOk, SchedOk
<1> QED BY <1>4, <1>5 DEF MidiInv

LEMMA SyncingSteps ==
    ASSUME MidiInv,
           \/ Tick
           \/ \E p \in Wires : ToggleMidi(p) \/ \E c \in Channels \union {0} : SetMidiChannel(p, c)
           \/ \E a \in Apps : CloseApp(a)
    PROVE  MidiInv'
<1>0. midi_links \in SUBSET Wires
  BY DEF MidiInv, PartsOk
<1>1. CASE Tick
  <2>1. sync_midi(Routes, routed, midi_links, midi_channels, placed) /\ midi_links' = midi_links
        /\ UNCHANGED <<ports, dests>>
    BY <1>1 DEF Tick, canvas
  <2> QED BY <2>1, <1>0, SyncStep
<1>2. ASSUME NEW p \in Wires, ToggleMidi(p) PROVE MidiInv'
  <2>1. midi_links' \in SUBSET Wires
    BY <1>0, <1>2 DEF ToggleMidi
  <2>2. sync_midi(Routes, routed, midi_links', midi_channels, placed) /\ UNCHANGED <<ports, dests>>
    BY <1>2 DEF ToggleMidi
  <2> QED BY <2>1, <2>2, SyncStep
<1>3. ASSUME NEW p \in Wires, NEW c \in Channels \union {0}, SetMidiChannel(p, c) PROVE MidiInv'
  <2> DEFINE channels == IF c = 0 THEN [q \in DOMAIN midi_channels \ {p} |-> midi_channels[q]]
                         ELSE (p :> c) @@ midi_channels
  <2>1. sync_midi(Routes, routed, midi_links, channels, placed) /\ midi_links' = midi_links
        /\ UNCHANGED <<ports, dests>>
    BY <1>3 DEF SetMidiChannel, canvas
  <2> HIDE DEF channels
  <2> QED BY <2>1, <1>0, SyncStep
<1>4. ASSUME NEW a \in Apps, CloseApp(a) PROVE MidiInv'
  <2>1. midi_links' \in SUBSET Wires
    BY <1>0, <1>4 DEF CloseApp
  <2>2. sync_midi(Routes, routed, midi_links', midi_channels, placed') /\ UNCHANGED <<ports, dests>>
    BY <1>4 DEF CloseApp
  <2> QED BY <2>1, <2>2, SyncStep
<1> QED BY <1>1, <1>2, <1>3, <1>4

Dropped(rs, id) ==
    [rs EXCEPT !.links = [p \in {q \in DOMAIN rs.links : q[2] # id} |-> rs.links[p]]]

\* Wires into a device may go without a release.
LEMMA DropInto ==
    ASSUME NEW rs, Kept(rs), NEW id, id \notin Apps
    PROVE  Kept(Dropped(rs, id)) /\ DOMAIN Dropped(rs, id).links = {q \in DOMAIN rs.links : q[2] # id}
<1> DEFINE ls == [p \in {q \in DOMAIN rs.links : q[2] # id} |-> rs.links[p]]
           t == [rs EXCEPT !.links = ls]
<1>1. rs = [links |-> rs.links, queue |-> rs.queue, lost |-> rs.lost] /\ RoutesOk(rs) /\ Covered(rs)
  BY DEF Kept, RoutesOk
<1>2. /\ DOMAIN ls = {q \in DOMAIN rs.links : q[2] # id}
      /\ \A p \in DOMAIN ls : p \in DOMAIN rs.links /\ ls[p] = rs.links[p]
  OBVIOUS
<1> HIDE DEF ls
<1>3. /\ t.links = ls /\ t.queue = rs.queue /\ t.lost = rs.lost
      /\ t = [links |-> t.links, queue |-> t.queue, lost |-> t.lost]
  BY <1>1
<1> HIDE DEF t
<1>4. RoutesOk(t)
  BY <1>1, <1>2, <1>3 DEF RoutesOk
<1>5. ASSUME NEW a \in Apps, NEW k PROVE HeldIn(t.links, a, k) \/ Ok(t, a, k)
  <2>1. Ok(rs, a, k) => Ok(t, a, k)
    BY <1>3 DEF Ok
  <2>2. HeldIn(rs.links, a, k) => HeldIn(t.links, a, k)
    BY <1>2, <1>3 DEF HeldIn
  <2> QED BY <2>1, <2>2, <1>1 DEF Covered
<1>6. Kept(t) /\ DOMAIN t.links = {q \in DOMAIN rs.links : q[2] # id}
  BY <1>2, <1>3, <1>4, <1>5 DEF Kept, Covered
<1> QED BY <1>6 DEF t, ls, Dropped

LEMMA RemoveDeviceStep ==
    ASSUME MidiInv, NEW id \in Ins \union Outs, RemoveDevice(id)
    PROVE  MidiInv'
<1> DEFINE S == {p \in DOMAIN links : p[1] = id}
           own == Disconnect(Routes, S)
           t == Dropped(own, id)
<1>0. PartsOk /\ Kept(Routes) /\ SchedOk /\ Routes.links = links /\ id \notin Apps
  BY MidiAssumption DEF MidiInv, PartsOk, Routes
<1>1. RoutesBecome(t) /\ UNCHANGED dests
  BY DEF RemoveDevice, remove_node, Dropped
<1>2. Kept(own) /\ DOMAIN own.links = DOMAIN links \ S
  <2>1. S \in SUBSET DOMAIN Routes.links
    BY <1>0
  <2> HIDE DEF S
  <2> QED BY <2>1, <1>0, DisconnectOk
<1> HIDE DEF own
<1>3. Kept(t) /\ DOMAIN t.links = {q \in DOMAIN own.links : q[2] # id}
  BY <1>0, <1>2, DropInto
<1> HIDE DEF t
<1>4. Kept(Routes)' /\ DOMAIN links' = DOMAIN t.links
  BY <1>1, <1>3, RoutesStay
<1>5. routed' = DOMAIN links'
  <2>1. routed' = {p \in routed : id \notin {p[1], p[2]}} /\ routed = DOMAIN links
    BY <1>0 DEF RemoveDevice, PartsOk
  <2> QED BY <2>1, <1>2, <1>3, <1>4
<1>6. (midi_links \in SUBSET Wires)'
  BY <1>0 DEF RemoveDevice, PartsOk
<1>7. OutsOk'
  BY <1>0 DEF RemoveDevice, PartsOk, OutsOk
<1>8. (DOMAIN pump = Inboxes /\ \A a \in Apps : pump[<<a, 0>>] = "none")'
  <2>1. \A a \in Apps : <<a, 0>> \in Inboxes /\ pump[<<a, 0>>] = "none"
    BY <1>0 DEF PartsOk, Inboxes
  <2>2. pump' = [i \in Inboxes |-> IF Owner(i) = id /\ pump[i] = "up" THEN "halted" ELSE pump[i]]
    BY DEF RemoveDevice
  <2> QED BY <2>1, <2>2
<1>9. (\A k \in DOMAIN decoder : DecOk(decoder[k]))'
  <2>1. decoder' = [k \in DOMAIN decoder \ {id} |-> decoder[k]]
    BY DEF RemoveDevice
  <2>2. \A k \in DOMAIN decoder : DecOk(decoder[k])
    BY <1>0 DEF PartsOk
  <2>3. \A k \in DOMAIN decoder' : DecOk(decoder'[k])
    BY <2>1, <2>2
  <2> QED BY <2>3 DEF DecOk
<1>10. (DOMAIN sounding = Dests /\ DOMAIN scheduled = Dests /\ SchedOk)'
  BY <1>0, <1>1 DEF PartsOk, SchedOk, dests
<1> QED BY <1>4, <1>5, <1>6, <1>7, <1>8, <1>9, <1>10 DEF MidiInv, PartsOk

LEMMA SetTokenStep ==
    ASSUME MidiInv, NEW p, SetToken(p)
    PROVE  MidiInv'
<1>1. UNCHANGED <<midi_links, routed, router, ports, dests>>
  BY DEF SetToken
<1>2. Kept(Routes)'
  BY <1>1, RoutesKeep DEF MidiInv
<1>3. PartsOk'
  BY <1>1 DEF MidiInv, PartsOk, OutsOk, SchedOk, router, ports, dests
<1> QED BY <1>2, <1>3 DEF MidiInv

LEMMA OpenInputStep ==
    ASSUME MidiInv, NEW k, OpenInput(k)
    PROVE  MidiInv'
<1>1. UNCHANGED <<midi_links, routed, router, out_inbox, pump, dests>>
  BY DEF OpenInput, canvas
<1>2. Kept(Routes)'
  BY <1>1, RoutesKeep DEF MidiInv
<1>3. \A j \in DOMAIN decoder' : DecOk(decoder'[j])
  <2>1. \A j \in DOMAIN decoder : DecOk(decoder[j])
    BY DEF MidiInv, PartsOk
  <2>2. DecOk(NewDecoder)
    <3>1. Family(0) # Control /\ 0 \in 0..255 /\ << >> \in Seq(0..255)
      BY DEF Family, Control
    <3> QED BY <3>1, MakeDec DEF NewDecoder
  <2> QED BY <2>1, <2>2 DEF OpenInput
<1>4. PartsOk'
  BY <1>1, <1>3 DEF MidiInv, PartsOk, OutsOk, SchedOk, router, dests, DecOk
<1> QED BY <1>2, <1>4 DEF MidiInv

LEMMA KeyboardStep ==
    ASSUME NotesOnly, MidiInv, NEW k, NEW b \in Statuses \union Datas, KeyboardByte(k, b)
    PROVE  MidiInv'
<1> DEFINE step == byte(decoder[k], b)
<1>1. /\ k \in DOMAIN decoder /\ decoder' = [decoder EXCEPT ![k] = step.dec]
      /\ RoutesBecome(SendAll(Routes, k, step.out))
      /\ UNCHANGED <<midi_links, routed, out_inbox, pump, dests>>
  BY DEF KeyboardByte, canvas
<1>2. DecOk(step.dec) /\ step.out \in Seq(Message)
  <2>1. b \in 0..255 /\ Family(b) # Control /\ DecOk(decoder[k])
    BY <1>1, MidiAssumption DEF NotesOnly, MidiInv, PartsOk
  <2> QED BY <2>1, DecoderOk
<1> HIDE DEF step
<1>3. Kept(SendAll(Routes, k, step.out)) /\ DOMAIN SendAll(Routes, k, step.out).links = DOMAIN links
  <2>1. Kept(Routes) /\ SchedOk /\ Routes.links = links
    BY DEF MidiInv, PartsOk, Routes
  <2> QED BY <2>1, <1>2, SendAllOk
<1>4. Kept(Routes)' /\ DOMAIN links' = DOMAIN links
  <2> DEFINE rs == SendAll(Routes, k, step.out)
  <2>1. Kept(rs) /\ RoutesBecome(rs) /\ DOMAIN rs.links = DOMAIN links /\ UNCHANGED dests
    BY <1>1, <1>3
  <2> HIDE DEF rs
  <2> QED BY <2>1, RoutesStay
<1>5. \A j \in DOMAIN decoder' : DecOk(decoder'[j])
  BY <1>1, <1>2 DEF MidiInv, PartsOk
<1>6. PartsOk'
  BY <1>1, <1>4, <1>5 DEF MidiInv, PartsOk, OutsOk, SchedOk, dests, DecOk
<1> QED BY <1>4, <1>6 DEF MidiInv

LEMMA GuestSendStep ==
    ASSUME NotesOnly, MidiInv, NEW a, NEW data \in GuestMessages, NEW ahead \in BOOLEAN,
           GuestSend(a, data, ahead)
    PROVE  MidiInv'
<1> DEFINE e == [data |-> data, ahead |-> ahead]
           rs == send(Routes, a, e)
<1>1. RoutesBecome(rs) /\ UNCHANGED <<midi_links, routed, ports, dests>>
  BY DEF GuestSend, canvas
<1>2. e \in Event /\ ~IsAllOff(e.data, {120, 121, 123})
  BY MidiAssumption DEF NotesOnly, Event
<1> HIDE DEF e
<1>3. Kept(rs) /\ DOMAIN rs.links = DOMAIN links
  <2>1. Kept(Routes) /\ SchedOk /\ Routes.links = links
    BY DEF MidiInv, PartsOk, Routes
  <2> QED BY <2>1, <1>2, SendOk
<1> HIDE DEF rs
<1>4. Kept(Routes)' /\ DOMAIN links' = DOMAIN links
  BY <1>1, <1>3, RoutesStay
<1>5. PartsOk'
  BY <1>1, <1>4 DEF MidiInv, PartsOk, OutsOk, SchedOk, ports, dests
<1> QED BY <1>4, <1>5 DEF MidiInv

LEMMA OpenOutputStep ==
    ASSUME MidiInv, NEW o \in Outs, OpenOutput(o)
    PROVE  MidiInv'
<1> DEFINE rs == DropRoutesInto(o)
           n == NextInbox(o)
           new == <<o, n>>
           closed == [i \in Inboxes |-> IF Owner(i) = o /\ pump[i] = "up" THEN "halted" ELSE pump[i]]
<1>0. PartsOk /\ Kept(Routes) /\ SchedOk /\ Routes.links = links /\ routed = DOMAIN links
  BY DEF MidiInv, PartsOk, Routes
<1>1. RoutesBecome(rs) /\ routed' = DOMAIN rs.links /\ UNCHANGED <<midi_links, decoder, dests>>
  BY DEF OpenOutput, canvas
<1>2. Kept(rs) /\ DOMAIN rs.links \subseteq DOMAIN links
  <2> DEFINE S == {p \in routed : p[2] = o}
  <2>1. S \in SUBSET DOMAIN Routes.links
    BY <1>0
  <2>2. rs = Disconnect(Routes, S)
    BY DEF DropRoutesInto
  <2> HIDE DEF S, rs
  <2> QED BY <2>1, <2>2, <1>0, DisconnectOk
<1> HIDE DEF rs
<1>3. Kept(Routes)' /\ routed' = DOMAIN links'
  BY <1>1, <1>2, RoutesStay
<1>4. n \in 1..MaxOpens
  BY DEF OpenOutput, NextInbox
<1> HIDE DEF n
<1>5. new \in Inboxes /\ Owner(new) = o /\ o \notin Apps
  BY <1>4, MidiAssumption DEF Inboxes, Owner
<1>6. \/ out_inbox' = [out_inbox EXCEPT ![o] = new] /\ pump' = [closed EXCEPT ![new] = "up"]
      \/ out_inbox' = [out_inbox EXCEPT ![o] = NoInbox] /\ pump' = closed
  BY DEF OpenOutput, n
<1>7. \A a \in Apps : <<a, 0>> \in Inboxes /\ <<a, 0>> # new
  BY <1>5 DEF Inboxes, Owner
<1> HIDE DEF new
<1>8. OutsOk'
  <2>1. DOMAIN out_inbox = Outs
        /\ \A u \in Outs : out_inbox[u] # NoInbox => out_inbox[u] \in Inboxes /\ Owner(out_inbox[u]) = u
    BY <1>0 DEF PartsOk, OutsOk
  <2>2. DOMAIN out_inbox' = Outs /\ \A u \in Outs : u # o => out_inbox'[u] = out_inbox[u]
    BY <2>1, <1>6
  <2>3. out_inbox'[o] = new \/ out_inbox'[o] = NoInbox
    BY <2>1, <1>6
  <2>4. \A u \in Outs : out_inbox'[u] # NoInbox => out_inbox'[u] \in Inboxes /\ Owner(out_inbox'[u]) = u
    BY <2>1, <2>2, <2>3, <1>5
  <2> QED BY <2>2, <2>4 DEF OutsOk, NoInbox, Inboxes, Owner
<1>9. (DOMAIN pump = Inboxes /\ \A a \in Apps : pump[<<a, 0>>] = "none")'
  <2>1. DOMAIN closed = Inboxes /\ \A a \in Apps : closed[<<a, 0>>] = "none"
    BY <1>0, <1>7 DEF PartsOk
  <2> HIDE DEF closed
  <2> QED BY <2>1, <1>6, <1>7
<1>10. PartsOk'
  BY <1>0, <1>1, <1>3, <1>8, <1>9 DEF PartsOk, SchedOk, dests, DecOk
<1> QED BY <1>3, <1>10 DEF MidiInv

\* g is f but for v at d.
Differs(f, g, d, v) == DOMAIN g = DOMAIN f /\ g[d] = v /\ \A u \in DOMAIN f : u # d => g[u] = f[u]

\* What is played: the note of every app stays covered if the notes of the one
\* that plays stay silent.
LEMMA PlayStays ==
    ASSUME MidiInv, NEW d \in Dests, UNCHANGED <<links, lost>>,
           NEW z, NEW sc, NEW i \in Inboxes, NEW q, Owner(i) = d,
           Differs(sounding, sounding', d, z), Differs(scheduled, scheduled', d, sc),
           queue' = [queue EXCEPT ![i] = q], q \in Seq(Event), d \in Apps => sc \in Seq(Scheduled),
           d \in Apps => \A k : Silent(sounding[d], scheduled[d], queue[<<d, 0>>], k)
                                  => Silent(z, sc, q, k)
    PROVE  /\ Kept(Routes)' /\ SchedOk'
           /\ DOMAIN sounding' = Dests /\ DOMAIN scheduled' = Dests
<1>0. Kept(Routes) /\ SchedOk /\ DOMAIN sounding = Dests /\ DOMAIN scheduled = Dests
      /\ DOMAIN sounding' = Dests /\ DOMAIN scheduled' = Dests
  BY DEF MidiInv, PartsOk, Differs
<1>1. /\ Routes.links = links /\ Routes.queue = queue /\ Routes.lost = lost
      /\ Routes' = [links |-> links, queue |-> queue', lost |-> lost]
  BY DEF Routes
<1>2. queue \in [Inboxes -> Seq(Event)] /\ DOMAIN lost = Dests /\ DOMAIN links \subseteq Wires
      /\ \A p \in DOMAIN links : LinkOk(p, links[p])
  BY <1>0, <1>1 DEF Kept, RoutesOk, RouterOk
<1>3. queue' \in [Inboxes -> Seq(Event)]
  BY <1>2
<1>4. RoutesOk(Routes')
  <2> DEFINE t == Routes'
  <2>1. t = [links |-> t.links, queue |-> t.queue, lost |-> t.lost]
        /\ t.links = links /\ t.queue = queue' /\ t.lost = lost
    BY <1>1
  <2> HIDE DEF t
  <2>2. RouterOk([queue |-> t.queue, lost |-> t.lost])
    BY <2>1, <1>2, <1>3 DEF RouterOk
  <2>3. RoutesOk(t)
    BY <2>1, <2>2, <1>2 DEF RoutesOk
  <2> QED BY <2>3 DEF t
<1>5. ASSUME NEW a \in Apps, NEW k
      PROVE  HeldIn(links, a, k) \/ k \in lost[a]
               \/ Silent(sounding'[a], scheduled'[a], queue'[<<a, 0>>], k)
  <2>1. HeldIn(links, a, k) \/ k \in lost[a] \/ Silent(sounding[a], scheduled[a], queue[<<a, 0>>], k)
    BY <1>0, <1>1 DEF Kept, Covered, Ok
  <2>2. <<a, 0>> \in Inboxes /\ a \in Dests /\ (Owner(i) = a <=> i = <<a, 0>>)
    BY AppInbox
  <2>3. CASE a = d
    <3>1. sounding'[a] = z /\ scheduled'[a] = sc /\ queue'[<<a, 0>>] = q
      BY <2>2, <2>3, <1>0, <1>2 DEF Differs
    <3> QED BY <2>1, <2>3, <3>1
  <2>4. CASE a # d
    <3>1. sounding'[a] = sounding[a] /\ scheduled'[a] = scheduled[a] /\ queue'[<<a, 0>>] = queue[<<a, 0>>]
      BY <2>2, <2>4, <1>0, <1>2 DEF Differs
    <3> QED BY <2>1, <3>1
  <2> QED BY <2>3, <2>4
<1>6. (\A a \in Apps : \A k : HeldIn(links, a, k) \/ Ok(Routes, a, k))'
  BY <1>1, <1>5 DEF Ok, HeldIn, Routes
<1>7. Covered(Routes)'
  BY <1>6 DEF Covered, Routes
<1>8. RoutesOk(Routes)'
  BY <1>4
<1>9. SchedOk'
  <2>1. ASSUME NEW a \in Apps PROVE scheduled'[a] \in Seq(Scheduled)
    <3>1. a \in Dests /\ scheduled[a] \in Seq(Scheduled)
      BY <1>0 DEF SchedOk, Dests
    <3> QED BY <3>1, <1>0 DEF Differs
  <2> QED BY <2>1 DEF SchedOk
<1> QED BY <1>0, <1>7, <1>8, <1>9 DEF Kept

LEMMA ReceiveStep ==
    ASSUME MidiInv, NEW a \in Apps, Receive(a)
    PROVE  MidiInv'
<1> DEFINE i == <<a, 0>>
           q == queue[i]
           h == Head(q)
<1>0. /\ PartsOk /\ i \in Inboxes /\ Owner(i) = a /\ a \in Dests /\ q \in Seq(Event) /\ q # << >>
      /\ scheduled[a] \in Seq(Scheduled) /\ DOMAIN sounding = Dests /\ DOMAIN scheduled = Dests
  <2>1. queue \in [Inboxes -> Seq(Event)]
    BY DEF MidiInv, Kept, RoutesOk, RouterOk, Routes
  <2> QED BY <2>1 DEF MidiInv, PartsOk, SchedOk, Inboxes, Owner, Dests, Receive
<1>1. queue' = [queue EXCEPT ![i] = Tail(q)] /\ Taken(a, h) /\ UNCHANGED <<links, lost>>
      /\ UNCHANGED <<midi_links, routed, ports>>
  BY DEF Receive, canvas
<1>2. Tail(q) \in Seq(Event) /\ h \in Event
  BY <1>0
<1>3. \A k : Silent(sounding[a], scheduled[a], q, k) =>
               /\ h.ahead => Silent(sounding[a], Append(scheduled[a], h), Tail(q), k)
               /\ ~h.ahead => Silent(Sound(sounding[a], h.data), scheduled[a], Tail(q), k)
  BY <1>0, TakenSilent
<1> HIDE DEF i, h
<1>4. Kept(Routes)' /\ SchedOk' /\ DOMAIN sounding' = Dests /\ DOMAIN scheduled' = Dests
  <2>1. CASE h.ahead
    <3>1. /\ Differs(sounding, sounding', a, sounding[a])
          /\ Differs(scheduled, scheduled', a, Append(scheduled[a], h))
      BY <1>0, <1>1, <2>1 DEF Taken, Differs
    <3>2. Append(scheduled[a], h) \in Seq(Scheduled)
      <4>1. h \in Scheduled
        BY <1>2, <2>1 DEF Scheduled
      <4> HIDE DEF Scheduled
      <4> QED BY <4>1, <1>0
    <3>3. \A k : Silent(sounding[a], scheduled[a], queue[<<a, 0>>], k)
                   => Silent(sounding[a], Append(scheduled[a], h), Tail(q), k)
      BY <2>1, <1>3 DEF i
    <3> HIDE DEF q
    <3> QED BY <3>1, <3>2, <3>3, <1>0, <1>1, <1>2, PlayStays
  <2>2. CASE ~h.ahead
    <3>1. /\ Differs(sounding, sounding', a, Sound(sounding[a], h.data))
          /\ Differs(scheduled, scheduled', a, scheduled[a])
      BY <1>0, <1>1, <2>2 DEF Taken, Differs
    <3>2. \A k : Silent(sounding[a], scheduled[a], queue[<<a, 0>>], k)
                   => Silent(Sound(sounding[a], h.data), scheduled[a], Tail(q), k)
      BY <2>2, <1>3 DEF i
    <3> HIDE DEF q
    <3> QED BY <3>1, <3>2, <1>0, <1>1, <1>2, PlayStays
  <2> QED BY <2>1, <2>2
<1>5. PartsOk'
  BY <1>0, <1>1, <1>4 DEF PartsOk, OutsOk, ports, DecOk
<1> QED BY <1>4, <1>5 DEF MidiInv

LEMMA DueStep ==
    ASSUME MidiInv, NEW d \in Dests, Due(d)
    PROVE  MidiInv'
<1> DEFINE sc == scheduled[d]
           z == Sound(sounding[d], Head(sc).data)
           S == [sounding EXCEPT ![d] = z]
<1>0. PartsOk /\ DOMAIN sounding = Dests /\ DOMAIN scheduled = Dests /\ SchedOk /\ Kept(Routes)
  BY DEF MidiInv, PartsOk
<1>1. /\ sc # << >> /\ sounding' = [sounding EXCEPT ![d] = z]
      /\ scheduled' = [scheduled EXCEPT ![d] = Tail(sc)]
      /\ UNCHANGED <<router, midi_links, routed, ports>>
  BY DEF Due, canvas
<1>2. PICK i \in Inboxes : Owner(i) = d
  <2>1. 1 \in 1..MaxOpens
    BY MidiAssumption
  <2>2. CASE d \in Apps
    <3>1. <<d, 0>> \in Inboxes /\ Owner(<<d, 0>>) = d
      BY <2>2 DEF Inboxes, Owner
    <3> QED BY <3>1
  <2>3. CASE d \in Outs
    <3>1. <<d, 1>> \in Inboxes /\ Owner(<<d, 1>>) = d
      BY <2>1, <2>3 DEF Inboxes, Owner
    <3> QED BY <3>1
  <2> QED BY <2>2, <2>3 DEF Dests
<1>3. queue \in [Inboxes -> Seq(Event)]
  BY <1>0 DEF Kept, RoutesOk, RouterOk, Routes
<1>4. queue' = [queue EXCEPT ![i] = queue[i]] /\ queue[i] \in Seq(Event) /\ UNCHANGED <<links, lost>>
  BY <1>1, <1>3 DEF router
<1>5. Differs(sounding, sounding', d, z) /\ Differs(scheduled, scheduled', d, Tail(sc))
  <2> HIDE DEF z, sc
  <2> QED BY <1>0, <1>1 DEF Differs
<1>6. ASSUME d \in Apps
      PROVE  /\ Tail(sc) \in Seq(Scheduled)
             /\ \A k : Silent(sounding[d], sc, queue[<<d, 0>>], k) => Silent(z, Tail(sc), queue[i], k)
  <2>1. sc \in Seq(Scheduled) /\ i = <<d, 0>>
    BY <1>0, <1>2, <1>6, AppInbox DEF SchedOk
  <2>2. Tail(sc) \in Seq(Scheduled)
    BY <2>1, <1>1
  <2>3. \A k : Silent(sounding[d], sc, queue[i], k) => Silent(z, Tail(sc), queue[i], k)
    <3> HIDE DEF sc
    <3> QED BY <2>1, <1>1, DueSilent
  <2> QED BY <2>1, <2>2, <2>3
<1>7. Kept(Routes)' /\ SchedOk' /\ DOMAIN sounding' = Dests /\ DOMAIN scheduled' = Dests
  <2> HIDE DEF z
  <2> QED BY <1>2, <1>4, <1>5, <1>6, PlayStays
<1>8. PartsOk'
  BY <1>0, <1>1, <1>7 DEF PartsOk, OutsOk, ports, DecOk, router
<1> QED BY <1>7, <1>8 DEF MidiInv

LEMMA RerunStep ==
    ASSUME MidiInv, NEW a \in Apps, Rerun(a)
    PROVE  MidiInv'
<1> DEFINE i == <<a, 0>>
<1>0. PartsOk /\ DOMAIN sounding = Dests /\ DOMAIN scheduled = Dests /\ Kept(Routes)
  BY DEF MidiInv, PartsOk
<1>1. /\ sounding' = [sounding EXCEPT ![a] = {}] /\ scheduled' = [scheduled EXCEPT ![a] = << >>]
      /\ UNCHANGED <<router, midi_links, routed, ports>>
  BY DEF Rerun, canvas
<1>2. i \in Inboxes /\ Owner(i) = a /\ a \in Dests
  BY DEF Inboxes, Owner, Dests
<1>3. queue \in [Inboxes -> Seq(Event)]
  BY <1>0 DEF Kept, RoutesOk, RouterOk, Routes
<1>4. queue' = [queue EXCEPT ![i] = queue[i]] /\ queue[i] \in Seq(Event) /\ UNCHANGED <<links, lost>>
  BY <1>1, <1>2, <1>3 DEF router
<1>5. Differs(sounding, sounding', a, {}) /\ Differs(scheduled, scheduled', a, << >>)
  BY <1>0, <1>1, <1>2 DEF Differs
<1>6. << >> \in Seq(Scheduled)
  OBVIOUS
<1>7. \A k : Silent(sounding[a], scheduled[a], queue[<<a, 0>>], k) => Silent({}, << >>, queue[i], k)
  BY DEF Silent
<1> HIDE DEF i
<1>8. Kept(Routes)' /\ SchedOk' /\ DOMAIN sounding' = Dests /\ DOMAIN scheduled' = Dests
  BY <1>2, <1>4, <1>5, <1>6, <1>7, PlayStays
<1>9. PartsOk'
  BY <1>0, <1>1, <1>8 DEF PartsOk, OutsOk, ports, DecOk, router
<1> QED BY <1>8, <1>9 DEF MidiInv

\* Only the inbox of an output has a pump.
LEMMA PumpStep ==
    ASSUME MidiInv, NEW i \in Inboxes, PumpDrain(i) \/ PumpEnds(i)
    PROVE  MidiInv'
<1>0. PartsOk /\ DOMAIN pump = Inboxes /\ Kept(Routes) /\ DOMAIN sounding = Dests
      /\ DOMAIN scheduled = Dests /\ SchedOk
  BY DEF MidiInv, PartsOk
<1>1. pump[i] # "none"
  BY DEF PumpDrain, PumpEnds
<1>2. Owner(i) \in Dests /\ Owner(i) \notin Apps /\ \A a \in Apps : i # <<a, 0>> /\ <<a, 0>> \in Inboxes
  <2>1. \A a \in Apps : pump[<<a, 0>>] = "none"
    BY <1>0 DEF PartsOk
  <2>2. \A a \in Apps : i # <<a, 0>>
    BY <2>1, <1>1
  <2>3. \A a \in Apps : <<a, 0>> \in Inboxes /\ Owner(i) # a
    BY <2>2, AppInbox
  <2>4. Owner(i) \in Dests
    BY DEF Inboxes, Owner, Dests
  <2> QED BY <2>2, <2>3, <2>4
<1>3. (DOMAIN pump = Inboxes /\ \A a \in Apps : pump[<<a, 0>>] = "none")'
  <2>1. \E v : pump' = [pump EXCEPT ![i] = v]
    BY DEF PumpDrain, PumpEnds
  <2> QED BY <2>1, <1>0, <1>2 DEF PartsOk
<1>4. UNCHANGED <<midi_links, routed, links, lost, out_inbox, decoder>>
  BY DEF PumpDrain, PumpEnds, canvas, router
<1>5. Kept(Routes)' /\ SchedOk' /\ DOMAIN sounding' = Dests /\ DOMAIN scheduled' = Dests
  <2>1. CASE PumpDrain(i)
    <3> DEFINE d == Owner(i)
               z == Played(sounding[d], queue[i], FALSE)
               sc == scheduled[d] \o SelectSeq(queue[i], LAMBDA e : e.ahead)
    <3>1. /\ sounding' = [sounding EXCEPT ![d] = z] /\ scheduled' = [scheduled EXCEPT ![d] = sc]
          /\ queue' = [queue EXCEPT ![i] = << >>]
      BY <2>1 DEF PumpDrain
    <3> HIDE DEF z, sc
    <3>2. Differs(sounding, sounding', d, z) /\ Differs(scheduled, scheduled', d, sc)
      BY <3>1, <1>0, <1>2 DEF Differs
    <3>3. << >> \in Seq(Event) /\ d \in Dests /\ d \notin Apps /\ Owner(i) = d
      BY <1>2
    <3> HIDE DEF d
    <3> QED BY <3>1, <3>2, <3>3, <1>4, PlayStays
  <2>2. CASE PumpEnds(i)
    <3>1. UNCHANGED <<router, dests>>
      BY <2>2 DEF PumpEnds
    <3> QED BY <3>1, <1>0, RoutesKeep DEF dests, SchedOk
  <2> QED BY <2>1, <2>2
<1>6. PartsOk'
  BY <1>0, <1>3, <1>4, <1>5 DEF PartsOk, OutsOk, DecOk
<1> QED BY <1>5, <1>6 DEF MidiInv

\* Every note in the end is one a wire holds, or one whose release was lost.
LEMMA MidiInvSuffices == ASSUME MidiInv PROVE NoStuckNote
<1> SUFFICES ASSUME NEW a \in Apps, NEW k \in InTheEnd(a, <<a, 0>>), k \notin lost[a]
             PROVE  k \in Held(a)
  BY DEF NoStuckNote
<1>1. scheduled[a] \in Seq(Scheduled) /\ Kept(Routes)
  BY DEF MidiInv, PartsOk, SchedOk
<1>2. queue[<<a, 0>>] \in Seq(Event)
  <2>1. queue \in [Inboxes -> Seq(Event)]
    BY <1>1 DEF Kept, RoutesOk, RouterOk, Routes
  <2> QED BY <2>1 DEF Inboxes
<1>3. ~Silent(sounding[a], scheduled[a], queue[<<a, 0>>], k)
  BY <1>1, <1>2, SilentInTheEnd DEF InTheEnd
<1>4. HeldIn(links, a, k)
  BY <1>1, <1>3 DEF Kept, Covered, Ok, Routes
<1> QED BY <1>4 DEF HeldIn, Held

\* MIDI notes end, whatever the wires, the queues' length and the sources, so
\* long as these send no channel-mode messages: what an app still sounds when all
\* on its way to it is played is held by a wire into it (midi.rs, Link::held and
\* Link::release), or its release was shed or came too soon.
THEOREM NotesEnd == ASSUME NotesOnly PROVE MidiSpec => []NoStuckNote
<1>1. MidiInv /\ [MidiNext]_midiVars => MidiInv'
  <2> SUFFICES ASSUME MidiInv, [MidiNext]_midiVars PROVE MidiInv'
    OBVIOUS
  <2>1. CASE UNCHANGED midiVars
    <3>1. UNCHANGED <<router, dests>> /\ UNCHANGED <<midi_links, routed, ports>>
      BY <2>1 DEF midiVars, router, dests, ports
    <3>2. Kept(Routes)'
      BY <3>1, RoutesKeep DEF MidiInv
    <3>3. PartsOk'
      BY <3>1 DEF MidiInv, PartsOk, OutsOk, SchedOk, router, ports, dests
    <3> QED BY <3>2, <3>3 DEF MidiInv
  <2>2. CASE Tick
    BY <2>2, SyncingSteps
  <2>3. ASSUME NEW p \in Wires,
               ToggleMidi(p) \/ SetToken(p) \/ \E c \in Channels \union {0} : SetMidiChannel(p, c)
        PROVE  MidiInv'
    BY <2>3, SyncingSteps, SetTokenStep
  <2>4. ASSUME NEW a \in Apps, CloseApp(a) \/ Receive(a) \/ Rerun(a) PROVE MidiInv'
    BY <2>4, SyncingSteps, ReceiveStep, RerunStep
  <2>5. ASSUME NEW a \in Apps, NEW data \in GuestMessages, NEW ahead \in BOOLEAN,
               GuestSend(a, data, ahead)
        PROVE  MidiInv'
    BY <2>5, GuestSendStep
  <2>6. ASSUME NEW k \in Ins, OpenInput(k) PROVE MidiInv'
    BY <2>6, OpenInputStep
  <2>7. ASSUME NEW k \in Ins, NEW b \in Statuses \union Datas, KeyboardByte(k, b) PROVE MidiInv'
    BY <2>7, KeyboardStep
  <2>8. ASSUME NEW o \in Outs, OpenOutput(o) PROVE MidiInv'
    BY <2>8, OpenOutputStep
  <2>9. ASSUME NEW d \in Ins \union Outs, RemoveDevice(d) PROVE MidiInv'
    BY <2>9, RemoveDeviceStep
  <2>10. ASSUME NEW d \in Dests, Due(d) PROVE MidiInv'
    BY <2>10, DueStep
  <2>11. ASSUME NEW i \in Inboxes, PumpDrain(i) \/ PumpEnds(i) PROVE MidiInv'
    BY <2>11, PumpStep
  <2> QED BY <2>1, <2>2, <2>3, <2>4, <2>5, <2>6, <2>7, <2>8, <2>9, <2>10, <2>11 DEF MidiNext
<1> QED BY <1>1, MidiStarts, MidiInvSuffices, PTL DEF MidiSpec

=============================================================================
