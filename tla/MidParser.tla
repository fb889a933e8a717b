----------------------------- MODULE MidParser -----------------------------
(***************************************************************************)
(* Songs whose notes are in a MIDI file: the Frets on Fire INI header      *)
(* (songparser-ini.cc), the MIDI file's events (midifile.cc) and what is   *)
(* made of its tracks (songparser-mid.cc).  An event has the ticks since   *)
(* the last one, a kind, and two arguments.                                *)
(***************************************************************************)
EXTENDS SongParser

(* mangleTrackName(); a lone track of another name is a guitar's.          *)
KnownTracks ==
  "PART VOCALS" :> "Vocals" @@ "PART HARM1" :> "Harmonic 1" @@ "HARM1" :> "Harmonic 1"
  @@ "PART GUITAR" :> "Guitar" @@ "T1 GEMS" :> "Guitar" @@ "PART BASS" :> "Bass"
  @@ "PART DRUMS" :> "Drums" @@ "PART DRUM" :> "Drums"
IsVocalTrack(n) == n \in {"Vocals", "Vocals backing", "Harmonic 1"}
LyricTracks == {"PART VOCALS", "PART HARM1", "HARM1"}

TrackName(tracks, t) ==
  IF t.name \in DOMAIN KnownTracks THEN KnownTracks[t.name]
  ELSE IF Len(tracks) = 1 THEN "Guitar" ELSE "no track"

(* iniParseHeader().                                                       *)
IniHeader ==
  /\ Parsing("ini") /\ At("header") /\ UNCHANGED file
  /\ IF ~file.titled THEN ParserThrows(FALSE)
     ELSE /\ song' = [song EXCEPT !.vocal = NoTracks, !.instr = <<>>, !.files = file.files,
                                  !.start = file.start, !.preview = file.preview]
          /\ parser' = [parser EXCEPT !.pc = "guess"]

-----------------------------------------------------------------------------
(* Reading the MIDI file.                                                  *)

Midi == parser.local
EmptyMidiTrack == [name |-> "default", notes |-> <<>>, lyrics |-> <<>>]
NoLyric == [id |-> 0, mark |-> ""]
Fresh(midi) ==
  [midi EXCEPT !.cur = EmptyMidiTrack, !.event = 1, !.time = 0, !.running = "none"]
NewMidi ==
  Fresh([cur |-> <<>>, event |-> 1, time |-> 0, running |-> "none", track |-> 1,
         tracks |-> <<>>, lyric |-> NoLyric, tempos |-> <<>>, last |-> 0,
         sections |-> <<>>, bre |-> FALSE])

(* parse_header(): format 0 has one track, format 1 at least two.          *)
MidiOpen ==
  /\ \/ At("midi header")
     \/ Parsing("ini") /\ At("start")
  /\ UNCHANGED file
  /\ LET s == [song EXCEPT !.vocal = NoTracks, !.instr = <<>>]
         tracks == Len(file.midi.tracks)
     IN  IF s.files["midi"] = NoFile \/ (file.midi.format = 0 /\ tracks # 1)
            \/ (file.midi.format = 1 /\ tracks < 2)
         THEN ThrowsFrom(s, FALSE)
         ELSE song' = s /\ parser' = [parser EXCEPT !.pc = "midi", !.local = NewMidi]

Division == file.midi.division     (* ticks in a beat                      *)

(* get_us(): the time of a tick by the tempos before it.                   *)
Ticks(tempos, i, tick) ==
  LET until == IF i < Len(tempos) /\ tempos[i + 1].tick < tick THEN tempos[i + 1].tick ELSE tick
  IN  IF i > 1 /\ tempos[i].tick >= tick THEN 0 ELSE until - tempos[i].tick
Seconds(tempos, tick) ==
  FoldLeft(LAMBDA t, i : t + tempos[i].value * Ticks(tempos, i, tick),
           0, [i \in DOMAIN tempos |-> i]) \div Division

(* Reading past the end of a track is an error.                            *)
MidiEvent ==
  LET events == file.midi.tracks[Midi.track]
  IN  IF Midi.event <= Len(events) THEN events[Midi.event] ELSE [ticks |-> 0, kind |-> "bad"]
Now == Midi.time + MidiEvent.ticks
MidiMore == At("midi") /\ Midi.track <= Len(file.midi.tracks)

(* The status of an event without one is that of the channel event before. *)
Status == IF MidiEvent.kind = "data" THEN Midi.running ELSE MidiEvent.kind
Channel == {"on", "off", "control"}

(* Reads an event that leaves the Midi object as m.                        *)
MidiReads(m) ==
  /\ MidiMore /\ UNCHANGED <<file, song>>
  /\ parser' = [parser EXCEPT !.local =
       [m EXCEPT !.event = @ + 1, !.time = Now,
          !.running = CASE Status \in Channel -> Status [] Status = "sysex" -> "none"
                        [] OTHER -> @]]

MidiTempo ==
  /\ MidiMore /\ Status = "tempo"
  /\ LET t == Midi.tempos
         new == [tick |-> Now, value |-> MidiEvent.arg]
         ok == IF t = <<>> THEN Now = 0 ELSE Last(t).tick < Now
     IN  IF new.value # 0 /\ t # <<>> /\ Last(t) = new THEN MidiReads(Midi)
         ELSE IF new.value # 0 /\ ok THEN MidiReads([Midi EXCEPT !.tempos = Append(@, new)])
         ELSE ParserThrows(FALSE) /\ UNCHANGED file

(* Texts, names, sections, other commands and system exclusive data.       *)
MidiText ==
  \/ MidiMore /\ Status = "name" /\ MidiReads([Midi EXCEPT !.cur.name = MidiEvent.arg])
  \/ MidiMore /\ Status = "lyric" /\ MidiReads([Midi EXCEPT !.lyric = MidiEvent.arg])
  \/ MidiMore /\ Status = "rock ending" /\ MidiReads([Midi EXCEPT !.bre = TRUE])
  \/ MidiMore /\ Status \in {"command", "sysex"} /\ MidiReads(Midi)
  \/ /\ MidiMore /\ Status = "section"
     /\ IF Midi.tempos = <<>> THEN ParserThrows(FALSE) /\ UNCHANGED file
        ELSE MidiReads([Midi EXCEPT !.sections = Append(@, Seconds(Midi.tempos, Now))])

(* A running status before there was one, or a broken chunk.               *)
MidiBad ==
  /\ MidiMore /\ Status \in {"none", "bad"} /\ UNCHANGED file
  /\ ParserThrows(FALSE)

(* process_midi_event(): a note off ends the last note of its pitch unless *)
(* that has ended; any other channel event begins a note.                  *)
NoteOff == Status = "off" \/ (Status = "on" /\ MidiEvent.val = 0)
Pitch(t, k) == IF k \in DOMAIN t.notes THEN t.notes[k] ELSE <<>>

Ended(notes) ==
  IF notes = <<>> \/ Last(notes).end # 0 THEN notes
  ELSE [notes EXCEPT ![Len(notes)].end = Now]

WithNote(t, k) ==
  [t EXCEPT !.notes =
     (k :> IF NoteOff THEN Ended(Pitch(t, k))
           ELSE Append(Pitch(t, k), [begin |-> Now, end |-> 0])) @@ @]

(* The lyric that came before a note's end belongs to the last note begun; *)
(* without one that note is dropped if it has none.                        *)
WithLyric(t, k) ==
  IF t.name \notin LyricTracks \/ k < 20 THEN t
  ELSE IF ~NoteOff
  THEN [t EXCEPT !.lyrics = Append(@, [lyric |-> NoLyric, note |-> k,
                                       begin |-> Now, end |-> Now])]
  ELSE IF t.lyrics = <<>> THEN t
  ELSE IF Midi.lyric # NoLyric
  THEN [t EXCEPT !.lyrics[Len(t.lyrics)] = [@ EXCEPT !.lyric = Midi.lyric, !.end = Now]]
  ELSE IF Last(t.lyrics).lyric = NoLyric THEN [t EXCEPT !.lyrics = Front(@)]
  ELSE t

(* Without any note begun that is undefined: it goes well or it crashes.   *)
NoLyricToEnd ==
  /\ Midi.cur.name \in LyricTracks /\ MidiEvent.arg >= 20
  /\ NoteOff /\ Midi.cur.lyrics = <<>>

MidiNote ==
  /\ MidiMore /\ Status \in Channel
  /\ LET k == MidiEvent.arg
         t == WithLyric(WithNote(Midi.cur, k), k)
         ended == Midi.cur.name \in LyricTracks /\ k >= 20 /\ NoteOff
     IN  MidiReads([Midi EXCEPT !.cur = t, !.lyric = IF ended THEN NoLyric ELSE @])

MidiCrash ==
  /\ MidiMore /\ Status \in Channel /\ NoLyricToEnd
  /\ song' = NoSong /\ parser' = NoParser /\ UNCHANGED file

(* The control track of format 1 is read and not kept.                     *)
MidiTrackEnd ==
  /\ MidiMore /\ Status = "end" /\ UNCHANGED <<file, song>>
  /\ parser' = [parser EXCEPT !.local =
       Fresh([Midi EXCEPT !.track = @ + 1, !.last = Max({@, Now}),
                !.tracks = IF file.midi.format = 1 /\ Midi.track = 1 THEN @
                           ELSE Append(@, Midi.cur)])]

-----------------------------------------------------------------------------
(* What the song takes from it.                                            *)

MidiRead == At("midi") /\ Midi.track > Len(file.midi.tracks)
NamedTracks(P(_)) ==
  {n \in {TrackName(Midi.tracks, Midi.tracks[i]) : i \in DOMAIN Midi.tracks} : P(n)}

(* midParseHeader(): which tracks there are; an instrument needs more than *)
(* three notes of one pitch.  Then the header is done.                     *)
MidHeader ==
  /\ MidiRead /\ ~parser.full /\ UNCHANGED file
  /\ LET playable(n) == \E i \in DOMAIN Midi.tracks :
           /\ TrackName(Midi.tracks, Midi.tracks[i]) = n
           /\ \E k \in DOMAIN Midi.tracks[i].notes : Len(Midi.tracks[i].notes[k]) > 3
         instruments == NamedTracks(LAMBDA n : n # "no track" /\ ~IsVocalTrack(n) /\ playable(n))
         s == [song EXCEPT !.vocal = [n \in NamedTracks(IsVocalTrack) |-> EmptyTrack] @@ @,
                           !.instr = [n \in instruments |-> <<>>] @@ @]
     IN  /\ song' = HeaderParsed([s EXCEPT !.bpms = AddBPM(@, 0, 0, Midi.tempos[1].value \div 4)])
         /\ parser' = NoParser

Time(tick) == Seconds(Midi.tempos, tick) + song.start

(* The notes of an instrument: those that were ended, not before they      *)
(* began.                                                                  *)
Durations(notes) ==
  LET all == [i \in DOMAIN notes |->
                [begin |-> Time(notes[i].begin), end |-> Time(notes[i].end)]]
  IN  SelectSeq(all, LAMBDA d : d.end # 0 /\ d.begin <= d.end)

(* A track of a name that came before adds its notes to that one; one that *)
(* ends within the first second is dropped.                                *)
OneSecond == 2
WithInstrument(instr, n, t) ==
  LET old == IF n \in DOMAIN instr THEN instr[n] ELSE <<>>
      part(k) == IF k \in DOMAIN old THEN old[k] ELSE <<>>
      nm == [k \in DOMAIN t.notes |-> part(k) \o Durations(t.notes[k])] @@ old
      ends == UNION {{d.end : d \in ToSet(Durations(t.notes[k]))} : k \in DOMAIN t.notes}
  IN  IF \E e \in ends : e >= OneSecond THEN (n :> nm) @@ instr
      ELSE [m \in DOMAIN instr \ {n} |-> instr[m]]

(* One lyric: a note, a line break (pitches above 100), or a slide, which  *)
(* is a note of its own from the end of the one before.                    *)
Styles == "#" :> "freestyle" @@ "^" :> "golden" @@ "+" :> "normal" @@ "" :> "normal"
Markers == {103, 116, 124}

LyricNote(acc, l) ==
  LET n == [begin |-> Time(l.begin), end |-> Time(l.end), note |-> l.note,
            type |-> IF l.note > 100 THEN "sleep" ELSE Styles[l.lyric.mark],
            syl |-> <<l.lyric.id>>]
      prev == SelectLastInSeq(acc.notes, LAMBDA m : m.type # "sleep")
      slide == [n EXCEPT !.begin = acc.notes[prev].end, !.end = n.begin,
                         !.type = "slide", !.syl = <<>>]
  IN  IF l.note \in Markers THEN acc
      ELSE IF n.type = "sleep"
      THEN IF acc.notes = <<>> \/ Last(acc.notes).type = "sleep" THEN acc
           ELSE [acc EXCEPT !.notes = Append(@, n)]
      ELSE IF l.lyric.mark = "+" /\ prev = 0 THEN [acc EXCEPT !.failed = TRUE]
      ELSE [acc EXCEPT !.notes = (IF l.lyric.mark = "+" THEN Append(@, slide) ELSE @) \o <<n>>]

(* A marker changes the first normal note that begins with it.             *)
Marked(notes, l) ==
  LET i == SelectInSeq(notes, LAMBDA n : n.begin = Time(l.begin) /\ n.type = "normal")
  IN  IF l.note \notin Markers \/ i = 0 THEN notes
      ELSE [notes EXCEPT ![i].type = IF l.note = 124 THEN "freestyle" ELSE "golden"]

LyricNotes(t) ==
  LET read == FoldLeft(LAMBDA acc, l : IF acc.failed THEN acc ELSE LyricNote(acc, l),
                       [notes |-> <<>>, failed |-> FALSE], t.lyrics)
  IN  [read EXCEPT !.notes = FoldLeft(Marked, @, t.lyrics)]

MidVocal(t) ==
  LET notes == LyricNotes(t).notes
      pitches == {notes[i].note : i \in {j \in DOMAIN notes : notes[j].type # "sleep"}}
  IN  [EmptyTrack EXCEPT !.notes = notes, !.min = Min(pitches \cup {@}),
                         !.max = Max(pitches \cup {@})]

WithMidiTrack(s, t) ==
  LET n == TrackName(Midi.tracks, t)
  IN  IF n = "no track" THEN s
      ELSE IF IsVocalTrack(n)
      THEN [s EXCEPT !.vocal = InsertVocalTrack(@, n, MidVocal(t))]
      ELSE [s EXCEPT !.instr = WithInstrument(@, n, t)]

(* midParse(): beats, tracks, and whether there is a Big Rock Ending.      *)
MidBody ==
  /\ MidiRead /\ parser.full /\ UNCHANGED file
  /\ LET beats == [k \in 1 .. (Midi.last + 2 * Division - 1) \div Division |->
                     Time((k - 1) * Division)]
     IN  IF Midi.tempos = <<>> THEN ParserThrows(FALSE)
         ELSE IF \E i \in DOMAIN Midi.tracks :
                   /\ IsVocalTrack(TrackName(Midi.tracks, Midi.tracks[i]))
                   /\ LyricNotes(Midi.tracks[i]).failed
         THEN ParserThrows(TRUE)
         ELSE /\ song' = [FoldLeft(WithMidiTrack, song, Midi.tracks) EXCEPT
                            !.beats = @ \o beats, !.sections = @ \o Midi.sections,
                            !.bre = @ \/ Midi.bre]
              /\ parser' = [parser EXCEPT !.pc = "finalize"]

MidParse ==
  \/ IniHeader \/ MidiOpen \/ MidiTempo \/ MidiText \/ MidiBad \/ MidiNote \/ MidiCrash
  \/ MidiTrackEnd \/ MidHeader \/ MidBody
=============================================================================
