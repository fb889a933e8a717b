------------------------------ MODULE SongFile ------------------------------
(***************************************************************************)
(* The life of a Song (song.cc): its header is parsed from the file or     *)
(* comes from the cache, its notes are loaded when it is sung and dropped  *)
(* afterwards, it is reloaded from the file, and the game is restarted.    *)
(* The parser works a line, measure, sentence or event at a time.          *)
(***************************************************************************)
EXTENDS TxtParser, SmParser, XmlParser, MidParser

CONSTANTS
  MaxLoads   (* bound: parsers begun, and restarts                         *)

ASSUME SongFileAssumption == MaxLoads \in Nat

VARIABLES
  loads,     (* parsers begun, and restarts                                *)
  first      (* history: the notes of the first full load, if any          *)

songVars == <<parserVars, loads, first>>

Idle == At("none")

(* What is played: the notes of every track but the merged one of a duet.  *)
Loaded(s) ==
  <<[i \in DOMAIN InOrder(s.vocal) |->
       LET n == InOrder(s.vocal)[i] IN IF n = Both THEN <<>> ELSE s.vocal[n].notes],
    s.instr, s.dance, s.stops>>

SongInit ==
  /\ file \in Files
  /\ song = NoSong /\ parser = NoParser
  /\ loads = 0 /\ first = <<>>

Begins(mode, s, old) ==
  /\ loads < MaxLoads /\ loads' = loads + 1
  /\ BeginParser(mode, s, old)
  /\ UNCHANGED <<file, first>>

(* The scan of the songs finds the file.                                   *)
OpenSong == song = NoSong /\ Begins("open", FreshSong, <<>>)

(* ScreenSing, or the preview of a song with instruments.                  *)
LoadNotes ==
  /\ song # NoSong /\ song.status # "full"
  /\ Begins("load", song, <<>>)

(* ScreenSing is left.                                                     *)
LeaveSong ==
  /\ Idle /\ song # NoSong /\ song # DropNotes(song)
  /\ song' = DropNotes(song)
  /\ UNCHANGED <<file, parser, loads, first>>

(* ScreenSing's Ctrl+R leaves the song first.                              *)
ReloadSong ==
  /\ song # NoSong /\ song.status # "full"
  /\ Begins("reload", FreshSong, <<song>>)

(* The cache was written, and the game is started again.                   *)
Restart ==
  /\ Idle /\ song # NoSong /\ loads < MaxLoads
  /\ loads' = loads + 1
  /\ song' = FromCache(CacheEntry(song))
  /\ UNCHANGED <<file, parser, first>>

(* The parser's steps; the first notes ever loaded are remembered.         *)
Parse ==
  /\ GuessStep \/ TxtParse \/ SmParse \/ XmlParse \/ MidParse
  /\ UNCHANGED <<loads, first>>

FinishNotes ==
  /\ Finalize
  /\ first' = IF first = <<>> /\ song'.status = "full" THEN <<Loaded(song')>> ELSE first
  /\ UNCHANGED loads

SongNext ==
  \/ OpenSong \/ LoadNotes \/ LeaveSong \/ ReloadSong \/ Restart \/ Parse \/ FinishNotes

SongSpec == SongInit /\ [][SongNext]_songVars

-----------------------------------------------------------------------------
(* Properties.                                                             *)

Full == Idle /\ song.status = "full"

(* The notes of a song are the same however often they are dropped and     *)
(* loaded again, whether its header came from the file or from the cache,  *)
(* and whatever state of a failed or an earlier parser the Song still      *)
(* has: tempos, tracks, header fields.  Not so for a SingStar duet from    *)
(* the cache, whose third track has lost its name "Together".              *)
NamelessTogether == song.type = "xml" /\ "DummyTrack2" \in DOMAIN song.vocal
SameNotesEveryLoad == Full /\ ~NamelessTogether => first = <<Loaded(song)>>

(* No syllable is lost without a word: the text of every note line of a    *)
(* TXT file up to its end is in some note, through all the skipping,       *)
(* shortening and combining of overlapping notes, or b0rked tells of it.   *)
NoteLines ==
  {i \in DOMAIN file.lines : /\ file.lines[i].kind = "note"
                             /\ \A j \in 1 .. i : file.lines[j].kind # "end"}
SyllablesIn(notes) == UNION {ToSet(notes[i].syl) : i \in DOMAIN notes}
NoSyllableLost ==
  Full /\ song.type = "txt" =>
    LET kept == UNION {SyllablesIn(song.vocal[n].notes) : n \in DOMAIN song.vocal \ {Both}}
    IN  Cardinality(NoteLines \ kept) <= song.broken

(* The notes to be sung follow each other, as the Player that walks over   *)
(* them needs it: they begin in order, and a note runs into the next only  *)
(* if it was combined from two.  A line break that ends before it begins,  *)
(* and the lines of several singers, can break the order.                  *)
Straight ==
  /\ file.type = "txt"
  /\ \A i \in DOMAIN file.lines :
       /\ file.lines[i].kind # "singer"
       /\ file.lines[i].kind = "break" => file.lines[i].end >= file.lines[i].ts
InLine(notes) ==
  \A i \in 1 .. Len(notes) - 1 :
    /\ notes[i].begin <= notes[i + 1].begin
    /\ Overlapping(notes[i], notes[i + 1]) => Len(notes[i].syl) > 1
(* Frets and arrows: per fret one after the other, arrows in order.        *)
FretInLine(durations) ==
  \A i \in 1 .. Len(durations) - 1 : durations[i].end <= durations[i + 1].begin
NotesInOrder ==
  Full =>
    /\ Straight => \A n \in DOMAIN song.vocal : InLine(song.vocal[n].notes)
    /\ \A n \in DOMAIN song.instr : \A k \in DOMAIN song.instr[n] :
         FretInLine(song.instr[n][k])
    /\ \A n \in DOMAIN song.dance : \A d \in song.dance[n] :
         \A i \in 1 .. Len(d.notes) - 1 : d.notes[i].begin <= d.notes[i + 1].begin

(* A full song can be sung: no syllable is missing, no note is out of      *)
(* place (finalize and the parsers before it).                             *)
Singable == NoSyllableLost /\ NotesInOrder

(* A song file is the same song every time it is loaded, and one that can  *)
(* be sung (SongParser, Song::loadNotes, Song::dropNotes).                 *)
LoadsRight == SameNotesEveryLoad /\ Singable

(* "Remove empty sentences" (songparser.cc): no row of a track that can be *)
(* chosen is empty, for the display gives up the game over one             *)
(* (LyricRow).  It fails: the loop goes on at a line break before it comes *)
(* to its test for two of them, and the break of a line of both singers    *)
(* (P3) is added to the second track without the look at its last note.    *)
NoEmptySentence ==
  Full /\ song.type = "txt" =>
    \A n \in DOMAIN song.vocal :
      LET notes == song.vocal[n].notes
          break(i) == i = 0 \/ notes[i].type = "sleep"
      IN  \A i \in DOMAIN notes : notes[i].type = "sleep" => ~break(i - 1)
=============================================================================
