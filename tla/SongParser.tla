---------------------------- MODULE SongParser ----------------------------
(***************************************************************************)
(* What every format of song file shares (song.cc, songparser.cc): the     *)
(* Song object with its tempo map, its vocal, instrument and dance tracks, *)
(* and the steps of the SongParser around those of a format: find out the  *)
(* type, parse the header or, when that was done before, the notes, guess  *)
(* the files, repair the notes.  The formats are in the modules TxtParser, *)
(* SmParser, MidParser and XmlParser; SongFile puts them together.         *)
(*                                                                         *)
(* Times are integers; a tempo is the length of one ts.  A syllable is the *)
(* sequence of the numbers of the lines it was read from.                  *)
(***************************************************************************)
EXTENDS Integers, Sequences, FiniteSets, SequencesExt, FiniteSetsExt, TLC

CONSTANTS
  Files   (* the song files there may be, one of them in each behaviour    *)

NoTime == -1000         (* a double that is a NaN                          *)
Huge == 1000            (* numeric_limits<float>::max()                    *)
NoFile == "no file"

(* Names of vocal tracks, in the order of std::map.                        *)
TrackOrder == <<"Both singers", "Duet singer", "DummyTrack0", "DummyTrack1",
                "DummyTrack2", "Harmonic 1", "Player1", "Player2", "Together", "Vocals">>
Singing == "Vocals"           (* TrackName::VOCAL_LEAD                     *)
Duet == "Duet singer"         (* DUET_P2                                   *)
Both == "Both singers"        (* DUET_BOTH                                 *)

VARIABLES
  file,     (* the song file on the disk                                   *)
  song,     (* the Song                                                    *)
  parser    (* the SongParser, pc = "none" while there is none             *)

parserVars == <<file, song, parser>>

-----------------------------------------------------------------------------
(* Song.                                                                   *)

EmptyTrack == [notes |-> <<>>, min |-> Huge, max |-> 0,
               begin |-> NoTime, end |-> NoTime, worth |-> NoTime]

NoTracks == [n \in {} |-> EmptyTrack]

(* Before a constructor, or after one that threw.                          *)
FreshSong ==
  [status |-> "none", type |-> "none", vocal |-> NoTracks, instr |-> <<>>,
   dance |-> [n \in {} |-> {}], bpms |-> <<>>, beats |-> <<>>, stops |-> <<>>,
   sections |-> <<>>, bre |-> FALSE, broken |-> 0, start |-> 0, preview |-> NoTime,
   files |-> [f \in {} |-> NoFile]]
NoSong == [FreshSong EXCEPT !.status = "no song"]

InsertVocalTrack(tracks, n, t) == (n :> t) @@ tracks
EraseVocalTrack(tracks, n) == [x \in DOMAIN tracks \ {n} |-> tracks[x]]
HasDuet(s) == Cardinality(DOMAIN s.vocal) > 1
InOrder(tracks) == SelectSeq(TrackOrder, LAMBDA n : n \in DOMAIN tracks)

HasDrums(s) == "Drums" \in DOMAIN s.instr
HasKeyboard(s) == "Keyboard" \in DOMAIN s.instr
HasGuitars(s) ==
  Cardinality(DOMAIN s.instr) > Cardinality({"Drums", "Keyboard"} \cap DOMAIN s.instr)

(* The tracks stay, without notes.                                         *)
DropNotes(s) ==
  [s EXCEPT !.vocal = [n \in DOMAIN @ |-> [@[n] EXCEPT !.notes = <<>>]],
            !.instr = [n \in DOMAIN @ |-> <<>>],
            !.dance = [n \in DOMAIN @ |-> {}],
            !.broken = 0, !.status = "header"]

(* Songs::CacheSonglist(): the number of tracks, the tempo of the start    *)
(* and which instruments there are; a NaN is not stored.                   *)
CacheEntry(s) ==
  [status |-> IF s.status = "full" THEN "header" ELSE s.status,
   vocals |-> Cardinality(DOMAIN s.vocal), keyboard |-> HasKeyboard(s),
   drums |-> HasDrums(s), guitars |-> HasGuitars(s), dance |-> DOMAIN s.dance # {},
   bpm |-> IF s.bpms = <<>> THEN 0 ELSE s.bpms[1].step,
   start |-> s.start, preview |-> s.preview, files |-> s.files]

DummyNames == <<"DummyTrack0", "DummyTrack1", "DummyTrack2">>
DrumKit == {"Drums", "Drums snare", "Drums cymbals", "Drums toms"}

(* Song::Song(json): what was not stored is 0.                             *)
FromCache(c) ==
  [FreshSong EXCEPT
     !.status = c.status,
     !.vocal = [n \in {DummyNames[i] : i \in 1 .. c.vocals} |-> EmptyTrack],
     !.instr = [n \in (IF c.keyboard THEN {"Keyboard"} ELSE {})
                      \cup (IF c.drums THEN DrumKit ELSE {})
                      \cup (IF c.guitars THEN {"Guitar"} ELSE {}) |-> <<>>],
     !.dance = [n \in (IF c.dance THEN {"dance-single"} ELSE {}) |-> {}],
     !.bpms = IF c.bpm = 0 THEN <<>> ELSE <<[begin |-> 0, ts |-> 0, step |-> c.bpm]>>,
     !.start = c.start,
     !.preview = IF c.preview = NoTime THEN 0 ELSE c.preview,
     !.files = c.files]

-----------------------------------------------------------------------------
(* The tempo map.                                                          *)

TempoAt(bpms, ts) == SelectLastInSeq(bpms, LAMBDA b : b.ts <= ts)

(* tsTime() throws without a tempo, except for the start of the song.      *)
HasTime(bpms, ts) == IF bpms = <<>> THEN ts = 0 ELSE TempoAt(bpms, ts) # 0
TsTime(bpms, gap, ts) ==
  IF bpms = <<>> THEN gap
  ELSE LET b == bpms[TempoAt(bpms, ts)] IN b.begin + (ts - b.ts) * b.step

(* addBPM() replaces the last tempo when that is not an earlier one.       *)
Repeated(bpms, ts) ==
  IF bpms # <<>> /\ Last(bpms).ts >= ts THEN Front(bpms) ELSE bpms
CanAddBPM(bpms, ts, step) == step > 0 /\ HasTime(Repeated(bpms, ts), ts)
AddBPM(bpms, gap, ts, step) ==
  LET rest == Repeated(bpms, ts)
  IN  Append(rest, [begin |-> TsTime(rest, gap, ts), ts |-> ts, step |-> step])

(* getBPM() looks for the time, not the ts; it throws if there is none.    *)
BeatIndex(bpms, t) == SelectLastInSeq(bpms, LAMBDA b : b.begin <= t)
HasBeat(bpms, t) == BeatIndex(bpms, t) # 0
BeatAt(bpms, t) == bpms[BeatIndex(bpms, t)].step

-----------------------------------------------------------------------------
(* Repairing the notes.                                                    *)

Overlapping(a, b) == a.end > b.begin /\ a.type # "sleep" /\ b.type # "sleep"

NoteWorth(n) ==
  (CASE n.type \in {"golden", "golden rap"} -> 2 [] n.type = "sleep" -> 0 [] OTHER -> 1)
  * (n.end - n.begin)

(* One note against its successor.  A note that swallowed its successor is *)
(* "closed": the loop goes on behind it, without another look.             *)
Shortened(cur, n, beat) == [cur EXCEPT !.end = n.begin - beat]
WrongCombined(cur, n) == [cur EXCEPT !.end = n.end]
Combined(cur, n) == [cur EXCEPT !.end = n.end, !.syl = @ \o n.syl]

Repair(bpms, acc, note) ==
  LET n == IF note.type = "sleep" THEN [note EXCEPT !.end = note.begin] ELSE note
      cur == Last(acc.notes)
      beat == BeatAt(bpms, cur.begin)
  IN  IF acc.failed THEN acc
      ELSE IF acc.notes = <<>> \/ acc.closed \/ ~Overlapping(cur, n)
      THEN [acc EXCEPT !.notes = Append(@, n), !.closed = FALSE]
      ELSE IF ~HasBeat(bpms, cur.begin) THEN [acc EXCEPT !.failed = TRUE]
      ELSE IF n.begin - cur.begin >= 2 * beat
      THEN [acc EXCEPT !.notes = Front(@) \o <<Shortened(cur, n, beat), n>>]
      ELSE [acc EXCEPT !.notes = Append(Front(@), Combined(cur, n)), !.closed = TRUE]

RepairNotes(bpms, notes) ==
  FoldLeft(LAMBDA acc, n : Repair(bpms, acc, n),
           [notes |-> <<>>, closed |-> FALSE, failed |-> FALSE], notes)

(* Negative pitches move up by whole octaves.                              *)
Transposed(t) ==
  LET shift == (1 - (t.min \div 12)) * 12
  IN  IF t.min > 0 THEN t
      ELSE [t EXCEPT !.min = @ + shift, !.max = @ + shift,
                     !.notes = [i \in DOMAIN @ |-> [@[i] EXCEPT !.note = @ + shift]]]

FinalTrack(bpms, t) ==
  LET notes == RepairNotes(bpms, t.notes).notes
      u == Transposed([t EXCEPT !.notes = notes])
  IN  [u EXCEPT !.begin = IF notes = <<>> THEN 0 ELSE notes[1].begin,
                !.end = IF notes = <<>> THEN 0 ELSE Last(notes).end,
                !.worth = FoldLeft(LAMBDA w, n : w + NoteWorth(n), 0, notes)]

(* vocalsTogether(): from one note to the next that begins after it.       *)
BeginningFrom(notes, t) ==
  LET i == SelectInSeq(notes, LAMBDA n : n.begin >= t)
  IN  IF i = 0 THEN <<>> ELSE SubSeq(notes, i, Len(notes))

(* The first of the tracks that begin earliest.                            *)
Earliest(rest) ==
  LET live == {i \in DOMAIN rest : rest[i] # <<>>}
  IN  CHOOSE i \in live : \A j \in live :
        \/ rest[i][1].begin < rest[j][1].begin
        \/ rest[i][1].begin = rest[j][1].begin /\ i <= j

TakeNote(acc) ==
  LET n == acc.rest[acc.at][1]
      rest == [i \in DOMAIN acc.rest |->
                 BeginningFrom(IF i = acc.at THEN Tail(acc.rest[i]) ELSE acc.rest[i], n.end)]
  IN  [notes |-> Append(acc.notes, n), rest |-> rest,
       at |-> IF \A i \in DOMAIN rest : rest[i] = <<>> THEN 0 ELSE Earliest(rest)]

MergedVocals(lists) ==
  FoldLeft(LAMBDA acc, k : IF acc.at = 0 THEN acc ELSE TakeNote(acc),
           [notes |-> <<>>, rest |-> lists, at |-> 1],
           [k \in 1 .. Len(FlattenSeq(lists)) |-> k]).notes

VocalsTogether(tracks) ==
  LET used == SelectSeq(InOrder(tracks), LAMBDA n : tracks[n].notes # <<>>)
  IN  IF "Together" \notin DOMAIN tracks THEN tracks
      ELSE IF tracks["Together"].notes # <<>> \/ used = <<>> THEN tracks
      ELSE [tracks EXCEPT !["Together"] =
              [@ EXCEPT !.notes = MergedVocals([i \in DOMAIN used |-> tracks[used[i]].notes]),
                        !.min = Min({tracks[n].min : n \in DOMAIN tracks}),
                        !.max = Max({tracks[n].max : n \in DOMAIN tracks})]]

-----------------------------------------------------------------------------
(* Guessing files.                                                         *)

(* Fields in the order of priority, with the pattern of their names.       *)
GuessOrder ==
  <<<<"cover", "cover name">>, <<"background", "background name">>, <<"cover", "image">>,
    <<"background", "image">>, <<"video", "video">>, <<"midi", "notes.mid">>,
    <<"midi", "midi">>, <<"preview", "preview">>, <<"guitar", "guitar">>,
    <<"drums", "drums">>, <<"vocals", "vocals">>, <<"music", "song">>, <<"music", "audio">>>>
Fields == {GuessOrder[i][1] : i \in DOMAIN GuessOrder}

(* An empty field takes the last match; what a field has, no later one     *)
(* takes.  The folder is a sequence of files with the patterns they match. *)
GuessField(folder, acc, guess) ==
  LET i == SelectLastInSeq(folder, LAMBDA f : f.name \in acc.left /\ guess[2] \in f.is)
      found == IF acc.files[guess[1]] = NoFile /\ i # 0
               THEN folder[i].name ELSE acc.files[guess[1]]
  IN  [files |-> [acc.files EXCEPT ![guess[1]] = found], left |-> acc.left \ {found}]

GuessFiles(folder, files) ==
  LET names == {folder[i].name : i \in DOMAIN folder}
      guessed == FoldLeft(LAMBDA acc, g : GuessField(folder, acc, g),
                          [files |-> files, left |-> names], GuessOrder).files
  IN  IF \A f \in Fields : files[f] \in names THEN files
      ELSE [guessed EXCEPT !["preview"] = NoFile]

-----------------------------------------------------------------------------
(* The steps around those of a format.                                     *)

(* The members of a SongParser; "local" is what only its format uses.      *)
NewParser ==
  [pc |-> "none", mode |-> "none", full |-> FALSE, old |-> <<>>, line |-> 1,
   bpm |-> 0, gap |-> 0, relative |-> FALSE, singer |-> "P1",
   prevtime |-> 0, prevts |-> 0, shift |-> 0,
   tsPerBeat |-> 0, tsEnd |-> 0, stops |-> <<>>, local |-> <<>>]

NoParser == NewParser
At(pc) == parser.pc = pc
Parsing(type) == parser.pc # "none" /\ song.type = type

(* Song::Song(fs::path), Song::reload and Song::loadNotes make a parser,   *)
(* which reads the file, tells its type and begins with the header unless  *)
(* that has been parsed.                                                   *)
BeginParser(mode, s, old) ==
  /\ At("none") /\ file.type # "junk"
  /\ song' = [s EXCEPT !.type = file.type]
  /\ parser' = [NewParser EXCEPT !.mode = mode, !.old = old,
                                 !.full = s.status = "header",
                                 !.pc = IF s.status = "header" THEN "guess" ELSE "header"]

(* An exception: a new song is not made, a reload keeps what it had, and   *)
(* loadNotes() leaves behind what was parsed.  A SongParserException is    *)
(* added to b0rked.                                                        *)
ThrowsFrom(s, shown) ==
  /\ parser' = NoParser
  /\ song' = CASE parser.mode = "open" -> NoSong
               [] parser.mode = "reload" -> parser.old[1]
               [] parser.mode = "load" -> [s EXCEPT !.broken = @ + (IF shown THEN 1 ELSE 0)]
ParserThrows(shown) == ThrowsFrom(song, shown)

(* The end of a parser that has read the header only.                      *)
HeaderParsed(s) == [s EXCEPT !.status = IF @ = "error" THEN "error" ELSE "header"]

(* After the header, or instead of it: guess the files, and before the     *)
(* notes are parsed begin the tempo map anew from its first tempo.         *)
GuessStep ==
  /\ At("guess") /\ UNCHANGED file
  /\ LET s == [song EXCEPT !.files = GuessFiles(file.folder, @)]
     IN  IF parser.full
         THEN /\ song' = IF s.bpms = <<>> THEN s
                         ELSE [s EXCEPT !.bpms = AddBPM(<<>>, parser.gap, 0, @[1].step)]
              /\ parser' = [parser EXCEPT !.pc = "start"]
         ELSE IF s.files["midi"] # NoFile
         THEN song' = s /\ parser' = [parser EXCEPT !.pc = "midi header"]
         ELSE song' = HeaderParsed(s) /\ parser' = NoParser

(* Beat markers, every tsPerBeat up to the end of the last chart.          *)
BeatMarkers(bpms) ==
  LET p == parser
  IN  IF p.tsPerBeat = 0 THEN <<>>
      ELSE [k \in 1 .. (p.tsEnd + p.tsPerBeat - 1) \div p.tsPerBeat |->
              TsTime(bpms, p.gap, (k - 1) * p.tsPerBeat)]

(* finalize(), after which the song is fully loaded.                       *)
Finalize ==
  /\ At("finalize") /\ UNCHANGED file
  /\ LET vocal == VocalsTogether(song.vocal)
     IN  IF \E n \in DOMAIN vocal : RepairNotes(song.bpms, vocal[n].notes).failed
         THEN ParserThrows(FALSE)
         ELSE /\ song' = [song EXCEPT
                            !.vocal = [n \in DOMAIN vocal |-> FinalTrack(song.bpms, vocal[n])],
                            !.beats = @ \o BeatMarkers(song.bpms),
                            !.status = "full"]
              /\ parser' = NoParser
=============================================================================
