------------------------------- MODULE Lyrics -------------------------------
(***************************************************************************)
(* What singers see: every LayoutSinger takes the rows of its track into   *)
(* view as their time comes and drops them when they are over, and its     *)
(* NoteGraph draws from the first note in sight.  The keys of ScreenSing   *)
(* move the song: the audio clock shows it only with the next callback     *)
(* (AudioClock), while frames are drawn in between.                        *)
(*                                                                         *)
(* Time is counted in quarter seconds, a row is known by its first note.   *)
(* Without instruments; the karaoke modes and changes of the video delay   *)
(* in the middle of the song are left out.  Without music the position is  *)
(* NaN, every comparison with it fails, and the rows stay as they are.     *)
(***************************************************************************)
EXTENDS Integers, Sequences, FiniteSets, SequencesExt, FiniteSetsExt

CONSTANTS
  Shows,      \* [tracks: the notes of every LayoutSinger, guide: those Song::status() asks,
              \*  dance: there are dance tracks too, delay: audio/video_delay]
  Sections,   \* Song::songsections: where they begin
  SongLength, \* Music::duration()
  SongStart,  \* where playMusic() starts: -1.0 s
  Passing,    \* bound: what passes of the song at a time
  MaxKeys     \* bound: keys that move the song

VARIABLES
  show,     \* what is sung
  at,       \* Audio::getPosition()
  sought,   \* m_pos, while the clock does not know of it
  hidden,   \* the pause menu is open: the music is paused and m_hideLyrics
  layout,   \* of every LayoutSinger: [it: m_lyricit, rows: m_lyrics, songit: NoteGraph::m_songit]
  graphAt,  \* NoteGraph::m_time
  keys,     \* keys that moved the song
  crashed,  \* the exception of an empty row has ended the game
  rowsAt,   \* not in the program: when rows were last looked at since the last reset
  wentBack  \* not in the program: frames went back in time since the last reset

lyricsVars == <<show, at, sought, hidden, layout, graphAt, keys, crashed, rowsAt, wentBack>>

Nan == -1000000   \* no time of the model
Ahead == 16    \* rows come into view 4 seconds early, and a longer pause is a break

-----------------------------------------------------------------------------
(* Rows of lyrics (LyricRow).                                              *)

Sleeps(note) == note.type = "sleep"
RowStarts(notes) == ({1} \cup {k + 1 : k \in {j \in DOMAIN notes : Sleeps(notes[j])}}) \cap DOMAIN notes

\* The last note of the row that begins with r: before it if there is none.
RowEnd(notes, r) == Min({k \in r .. Len(notes) : Sleeps(notes[k])} \cup {Len(notes) + 1}) - 1

Expired(notes, r, time) == time > notes[RowEnd(notes, r)].end

\* The rows from m_lyricit on that are pushed at this time.
Coming(notes, it, time) ==
  {r \in RowStarts(notes) :
     r >= it /\ \A k \in RowStarts(notes) \cap (it .. r) : notes[k].begin < time + Ahead}

\* m_lyricit goes behind the sleep that ends the last of them.
BehindRows(notes, it, coming) ==
  IF coming = {} THEN it ELSE Min({RowEnd(notes, Max(coming)) + 2, Len(notes) + 1})

\* Rows are dropped from the front only.
InView(notes, rows, time) == {r \in rows : \E k \in rows : k <= r /\ ~Expired(notes, k, time)}

WithRows(l, notes, time) ==
  LET coming == Coming(notes, l.it, time)
  IN  [l EXCEPT !.it = BehindRows(notes, l.it, coming), !.rows = InView(notes, @ \cup coming, time)]

\* A row without notes: two sleeps in a row, or one to begin with.
EmptyRow(l, notes, time) == \E r \in Coming(notes, l.it, time) : Sleeps(notes[r])

\* NoteGraph::draw: notes that ended 1.5 seconds ago are out of sight; when time goes back
\* it looks again from the first.
Visible(note, time) == ~Sleeps(note) /\ note.end >= time - 6
WithGraph(l, notes, time) ==
  LET from == IF time < graphAt THEN 1 ELSE l.songit
  IN  [l EXCEPT !.songit =
         Min({k \in from .. Len(notes) : Visible(notes[k], time)} \cup {Len(notes) + 1})]

-----------------------------------------------------------------------------
(* What may be sung: notes in order, in rows that a pause of more than 4   *)
(* seconds ends, by one or by two singers.                                 *)

SungNote == [begin : Nat, end : Nat, type : STRING]
Texts(notes) == {k \in DOMAIN notes : ~Sleeps(notes[k])}
InSongOrder(notes) ==
  \A j, k \in DOMAIN notes : j < k =>
    /\ notes[j].begin <= notes[k].begin
    /\ {j, k} \subseteq Texts(notes) => notes[j].end <= notes[k].end

PausesEndRows(s) ==
  \A k \in Texts(s.guide) :
    (\A j \in Texts(s.guide) : j < k => s.guide[j].end + Ahead < s.guide[k].begin) =>
      \E i \in DOMAIN s.tracks : \E r \in RowStarts(s.tracks[i]) :
        s.tracks[i][r].begin = s.guide[k].begin

ASSUME LyricsAssumption ==
  /\ SongLength \in Nat /\ SongStart \in Int /\ MaxKeys \in Nat /\ Passing \in Nat \ {0}
  /\ Sections \in Seq(Nat)
  /\ \A x \in {SongStart, SongLength} \cup Range(Sections) : x + 12 < -Nan
  /\ \A s \in Shows :
       /\ s.tracks \in Seq(Seq(SungNote)) /\ Len(s.tracks) <= 2 /\ s.guide \in Seq(SungNote)
       /\ InSongOrder(s.guide) /\ \A i \in DOMAIN s.tracks : InSongOrder(s.tracks[i])
       /\ s.delay \in Int /\ Nan < -s.delay /\ Nan < SongStart - s.delay
       /\ PausesEndRows(s)

-----------------------------------------------------------------------------
NewLayout == [it |-> 1, rows |-> {}, songit |-> 1]

\* mutant: the rows in view are kept
WrongRowsReset(l) == [l EXCEPT !.it = 1]
RowsReset(l) == [l EXCEPT !.it = 1, !.rows = {}]

LyricsInit ==
  /\ show \in Shows
  /\ at = SongStart /\ sought = Nan /\ hidden = FALSE
  /\ layout = [i \in DOMAIN show.tracks |-> NewLayout] /\ graphAt = 0
  /\ keys = 0 /\ crashed = FALSE /\ rowsAt = Nan /\ wentBack = FALSE

\* ScreenSing::draw; while the menu is open the rows are let be.  The logic_error of an
\* empty row is no runtime_error, which is all the main loop would survive.
DrawFrame ==
  LET time == at - show.delay
      tracks == show.tracks
  IN  /\ ~crashed
      /\ IF ~hidden /\ \E i \in DOMAIN tracks : EmptyRow(layout[i], tracks[i], time)
         THEN crashed' = TRUE /\ UNCHANGED <<layout, graphAt, rowsAt, wentBack>>
         ELSE /\ layout' = [i \in DOMAIN tracks |->
                   LET l == WithGraph(layout[i], tracks[i], time)
                   IN  IF hidden THEN l ELSE WithRows(l, tracks[i], time)]
              /\ graphAt' = time
              /\ IF hidden THEN UNCHANGED <<rowsAt, wentBack>>
                 ELSE rowsAt' = time /\ wentBack' = (wentBack \/ time < rowsAt)
              /\ UNCHANGED crashed
      /\ UNCHANGED <<show, at, sought, hidden, keys>>

-----------------------------------------------------------------------------
(* The music.                                                              *)

MusicOnly == UNCHANGED <<show, layout, graphAt, crashed, rowsAt, wentBack>>

\* The clock stops at the end of the block that was mixed.
SongPlays ==
  /\ ~crashed /\ ~hidden /\ sought = Nan /\ at < SongLength
  /\ at' = Min({at + Passing, SongLength})
  /\ MusicOnly /\ UNCHANGED <<sought, hidden, keys>>

\* The callback: the clock is set to where the song was moved.
ClockSeesSeek ==
  /\ ~crashed /\ ~hidden /\ sought # Nan
  /\ at' = sought /\ sought' = Nan
  /\ MusicOnly /\ UNCHANGED <<hidden, keys>>

PauseMenu ==
  /\ ~crashed /\ hidden' = ~hidden
  /\ MusicOnly /\ UNCHANGED <<at, sought, keys>>

-----------------------------------------------------------------------------
(* The keys of ScreenSing that move the song.                              *)

WithinSong(x) == Max({0, Min({x, SongLength})})

\* Audio::seekPos; Audio::seek is relative to the clock, and stays within the song.
SeekPos(x) == sought' = x /\ UNCHANGED at
SeekBy(x) == SeekPos(WithinSong(at + x))

Moves ==
  /\ ~crashed /\ ~hidden /\ keys < MaxKeys /\ keys' = keys + 1
  /\ UNCHANGED <<show, hidden, graphAt, crashed>>

KeepsRows == UNCHANGED <<layout, rowsAt, wentBack>>
ResetsRows ==
  /\ layout' = [i \in DOMAIN layout |-> RowsReset(layout[i])]
  /\ rowsAt' = Nan /\ wentBack' = FALSE

HomeKey == Moves /\ ~show.dance /\ SeekPos(0) /\ ResetsRows

\* Song::getPrevSection, a second before at least; or 5 seconds back.
LeftKey ==
  LET prev == {i \in DOMAIN Sections : Sections[i] < at - 4}
  IN  /\ Moves /\ ~show.dance
      /\ IF prev = {} THEN SeekBy(-20) ELSE SeekPos(Sections[Max(prev)])
      /\ ResetsRows

\* Song::getNextSection; or 5 seconds on.
RightKey ==
  LET next == {i \in DOMAIN Sections : Sections[i] > at}
  IN  /\ Moves /\ KeepsRows
      /\ IF next = {} THEN SeekBy(20) ELSE SeekPos(Sections[Min(next)])

\* Song::status(): the first note that is not over.
SongStatus(time) ==
  LET left == {i \in DOMAIN show.guide : show.guide[i].end >= time}
  IN  IF left = {} THEN "finished"
      ELSE IF show.guide[Min(left)].begin > time + Ahead THEN "break" ELSE "normal"

\* lyrics_begin(): behind the last note it is whatever the memory holds.
AllShown == {i \in DOMAIN layout : layout[i].it > Len(show.tracks[i])}
Garbage == [AllShown -> {Nan} \cup 0 .. SongLength]
LyricsBegin(i, garbage) ==
  IF i \in AllShown THEN garbage[i] ELSE show.tracks[i][layout[i].it].begin

\* The smallest of the ways to 3 seconds before each track goes on; a NaN gives way to what
\* comes after it.
SmallestSkip(begins) ==
  FoldLeft(LAMBDA diff, b : IF b # Nan /\ diff # Nan /\ b - 12 - at > diff THEN diff
                            ELSE IF b = Nan THEN Nan ELSE b - 12 - at,
           Nan, begins)

\* START skips an instrumental break.  (When the song is finished it opens the scores.)
SkipBreak ==
  /\ Moves /\ KeepsRows /\ SongStatus(at) = "break"
  /\ IF at < 0 THEN SeekBy(0)
     ELSE \E garbage \in Garbage :
            LET diff == SmallestSkip([i \in DOMAIN layout |-> LyricsBegin(i, garbage)])
            IN  IF diff > 0 THEN SeekBy(diff) ELSE UNCHANGED <<at, sought>>

LyricsNext ==
  \/ DrawFrame \/ SongPlays \/ ClockSeesSeek \/ PauseMenu
  \/ HomeKey \/ LeftKey \/ RightKey \/ SkipBreak
LyricsSpec == LyricsInit /\ [][LyricsNext]_lyricsVars

-----------------------------------------------------------------------------
(* Properties                                                              *)

\* The rows in view, kept from frame to frame, are those of the time drawn: all that begin
\* within 4 seconds and are not over.  After a frame that goes back in time without a reset
\* it is not so: the rows between are lost.
RowsFollow ==
  rowsAt # Nan /\ ~wentBack =>
    \A i \in DOMAIN layout :
      layout[i].rows = {r \in RowStarts(show.tracks[i]) :
        /\ show.tracks[i][r].begin < rowsAt + Ahead
        /\ ~Expired(show.tracks[i], r, rowsAt)}

\* No note in sight is left out by the graph, whichever way the song was moved.
GraphFollows ==
  \A i \in DOMAIN layout : \A k \in 1 .. layout[i].songit - 1 :
    ~Visible(show.tracks[i][k], graphAt)

\* "Skip instrumental breaks" (screen_sing.cc): START moves the song on, never beyond or
\* close to a note still to be sung, even if one of the singers has no row left.  Unless rows
\* were taken into view ahead of the position: with a negative delay, or by a frame that
\* still had the time before a seek.
SkipsOnlyBreak ==
  at >= 0 /\ sought' # sought /\ rowsAt <= at /\ ~wentBack =>
    /\ sought' > at \/ at >= SongLength
    /\ \A i \in Texts(show.guide) :
         show.guide[i].end >= at => show.guide[i].begin >= sought' + 12

\* Singers see what they have to sing, and are not carried past it (LayoutSinger::draw,
\* NoteGraph::draw, ScreenSing::manageEvent).
LyricsFollow ==
  /\ [](RowsFollow /\ GraphFollows)
  /\ [][SkipBreak => SkipsOnlyBreak]_lyricsVars
=============================================================================
