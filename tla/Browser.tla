------------------------------ MODULE Browser ------------------------------
(***************************************************************************)
(* The song browser (ScreenSongs) over the song collection: frames that    *)
(* poll for songs, play what is selected once the user rests, move on by   *)
(* themselves and draw; keys that browse, filter, sort and reload; the     *)
(* jukebox; the playlist's menu.  The collection is that of SongsLoader    *)
(* while it loads, filter_internal() being a single step here: only the    *)
(* main thread calls it.                                                   *)
(***************************************************************************)
EXTENDS SongsLoader

CONSTANTS
  Category,       (* of each type filter 0, 1, ...: the key that cycles it *)
  MusicOf,        (* the music of each song                                *)
  WithBackground, (* the songs with a background, a cover or a video       *)
  MenuOrders,     (* the sort orders of the menu                           *)
  MaxQueue        (* bound: songs on the playlist                          *)

(* A filter is a search text, "" for none, and a number of a type.         *)
ASSUME BrowserAssumption ==
  /\ \A f \in Filters : {"text", "type"} = DOMAIN f /\ f.type \in DOMAIN Category
  /\ WithBackground \subseteq SongFiles /\ DOMAIN MusicOf = SongFiles
  /\ MenuOrders \subseteq Orders /\ MaxQueue \in Nat

NoMusic == "no music"

VARIABLES
  screen, leaving, (* whether ScreenSongs is shown; activateScreen() called *)
  failed,          (* draw() threw: the frame comes to no events            *)
  menuPos, jukebox,(* m_menuPos, m_jukebox                                  *)
  option,          (* the option of the playlist's menu, 0: closed          *)
  idle,            (* m_idleTimer: 0 up to 0.3 s, 1 up to 1 s, 2 up to      *)
                   (* IDLE_TIMEOUT, 3 beyond                                *)
  playing,         (* m_playing                                             *)
  sound, ended,    (* the music last sent to Audio; it is over              *)
  paused,          (* Audio::isPaused()                                     *)
  background,      (* m_songbg or m_video is there                          *)
  queue,           (* the songs on the playlist: their number               *)
  attended         (* somebody is at the keys                               *)

collection == <<songs, dirty, found, viewVars>>
notHere == <<loading, doneLoading, displayedAlert, lpc, upc, reloads, clientVars>>
menuVars == <<menuPos, jukebox, option>>
soundVars == <<playing, sound, ended, background>>
browserVars == <<screen, leaving, failed, menuVars, idle, soundVars, paused, queue, attended>>
bvars == <<songsVars, browserVars>>

BrowserInit ==
  /\ SongsInit
  /\ screen = "away" /\ leaving = FALSE /\ failed = FALSE
  /\ menuPos = 1 /\ jukebox = FALSE /\ option = 0 /\ idle = 0
  /\ playing = NoMusic /\ sound = NoMusic /\ ended = TRUE
  /\ paused = FALSE /\ background = FALSE /\ queue = 0
  /\ attended = TRUE

-----------------------------------------------------------------------------
(* The collection, seen from the browser.                                  *)
Refilter(f) ==
  /\ filter' = f /\ dirty' = FALSE
  /\ filtered' = Sorted(Matching(f))
  /\ selected' = Restored(Current, filtered')
  /\ UNCHANGED <<songs, found, order>>

(* advance(), setToTarget(): in the round.                                 *)
Select(n) ==
  /\ selected' = IF filtered = <<>> THEN selected ELSE ((n - 1) % Len(filtered)) + 1
  /\ UNCHANGED <<songs, dirty, found, filter, order, filtered>>

LoadSong ==
  /\ found < Len(Disk) /\ found' = found + 1
  /\ songs' = IF Disk[found'] \in Broken THEN songs ELSE Append(songs, Disk[found'])
  /\ dirty' = (dirty \/ songs' # songs)
  /\ UNCHANGED <<viewVars, screen, leaving, failed, menuVars, idle, soundVars, paused, queue>>

ReloadSongs ==
  /\ found = Len(Disk)
  /\ songs' = <<>> /\ dirty' = TRUE /\ found' = 0
  /\ UNCHANGED viewVars

-----------------------------------------------------------------------------
(* enter(): the music of the screen before is faded out.                   *)
EnterSongs ==
  /\ screen = "away"
  /\ screen' = "songs" /\ failed' = FALSE
  /\ menuPos' = 1 /\ jukebox' = FALSE /\ option' = 0
  /\ sound' = NoMusic /\ ended' = FALSE /\ paused' = FALSE
  /\ queue' \in 0 .. MaxQueue
  /\ UNCHANGED <<collection, leaving, idle, playing, background>>

(* updateScreen() at the beginning of a frame calls exit().                *)
LeaveSongs ==
  /\ leaving /\ leaving' = FALSE
  /\ screen' = "away" /\ option' = 0
  /\ playing' = NoMusic /\ background' = FALSE
  /\ UNCHANGED <<collection, failed, menuPos, jukebox, idle, sound, ended, paused, queue>>

(* update(), when the user rests.  After the end of a song, and in the     *)
(* browser after a long while, the next one is selected; then what is      *)
(* selected plays if it does not yet.                                      *)
Resting == ~paused /\ idle > 1
MovesOn == Resting /\ (ended \/ (~jukebox /\ idle = 3))
Music(s) == IF s = Nobody THEN NoMusic ELSE MusicOf[s]

WrongPlaySelected ==
  IF playing # Music(Current')
  THEN /\ playing' = Music(Current') /\ sound' = playing' /\ ended' = FALSE
       /\ background' = (Current' \in WithBackground)
  ELSE UNCHANGED soundVars

PlaySelected ==
  IF (Resting /\ ended) \/ playing # Music(Current')
  THEN /\ playing' = Music(Current') /\ sound' = playing' /\ ended' = FALSE
       /\ background' = (Current' \in WithBackground)
  ELSE UNCHANGED soundVars

UpdateSongs ==
  IF idle = 0 THEN UNCHANGED <<collection, idle, soundVars>>
  ELSE /\ IF MovesOn THEN Select(selected + 1) /\ idle' = 0
                     ELSE Select(selected) /\ UNCHANGED idle
       /\ PlaySelected

(* drawJukebox() shows the title of the current song at its beginning and  *)
(* end, and always without a background: without songs current() throws,   *)
(* and the main loop goes on with the next frame.                          *)
DrawFails == jukebox /\ Current' = Nobody

InSongs == screen = "songs" /\ ~leaving

DrawSongs ==
  /\ InSongs
  /\ UpdateSongs
  /\ failed' \in (IF ~DrawFails THEN {FALSE} ELSE IF background' THEN BOOLEAN ELSE {TRUE})
  /\ UNCHANGED <<screen, leaving, menuVars, paused, queue>>

(* update() polls for new songs every half a second, before all that.      *)
PollSongs ==
  /\ InSongs /\ idle > 0 /\ dirty
  /\ Refilter(filter)
  /\ UNCHANGED <<screen, leaving, failed, menuVars, idle, soundVars, paused, queue>>

TimePasses ==
  /\ InSongs /\ idle < 3 /\ idle' = idle + 1
  /\ UNCHANGED <<collection, screen, leaving, failed, menuVars, soundVars, paused, queue>>

MusicEnds ==
  /\ InSongs /\ ~paused /\ ~ended /\ ended' = TRUE
  /\ UNCHANGED <<collection, screen, leaving, failed, menuVars, idle, playing, sound,
                 background, paused, queue>>

-----------------------------------------------------------------------------
(* Navigation keys: each resets the idle timer.  The keys pressed in the   *)
(* frame that leaves the screen are left to ScreenFlow.                    *)
Nav ==
  /\ InSongs /\ ~failed /\ idle' = 0
  /\ UNCHANGED <<screen, failed, soundVars>>

KeepSongs == UNCHANGED <<collection, paused, queue, leaving>>
KeepScreen == UNCHANGED <<menuVars, paused, queue, leaving>>

(* PAUSE; seeking in the jukebox goes on with the music.  Other keys do    *)
(* nothing else.                                                           *)
PauseOrSeek ==
  /\ Nav
  /\ paused' \in {paused, ~paused}
  /\ UNCHANGED <<collection, menuVars, queue, leaving>>

(* typeChange(); typeCycle(): the next type of the category, or all.       *)
SetType(t) == Refilter([filter EXCEPT !.type = t])
TypeChange(d) == SetType((filter.type + d) % Cardinality(DOMAIN Category))
TypeCycle(cat) ==
  LET from == IF Category[filter.type] = cat THEN filter.type + 1 ELSE 0
      next == {t \in DOMAIN Category : t >= from /\ Category[t] = cat}
  IN  SetType(IF next = {} THEN 0 ELSE Min(next))

(* sortChange(): sorts what is shown.                                      *)
SortChange ==
  /\ order' \in MenuOrders
  /\ filtered' = Arranged(Range(filtered), order')
  /\ selected' = Restored(Current, filtered')
  /\ UNCHANGED <<songs, dirty, found, filter>>

(* menuBrowse(): sideways in the row of the screen's menu, in the jukebox  *)
(* too; HOME, END and ten songs at once.                                   *)
Browse ==
  /\ Nav
  /\ \/ option = 0 /\ menuPos = 3 /\ \E d \in {-1, 1} : TypeChange(d)
     \/ option = 0 /\ menuPos = 2 /\ SortChange
     \/ option = 0 /\ menuPos = 1 /\ \E d \in {-1, 1} : Select(selected + d)
     \/ \E n \in {1, Len(filtered), selected - 10, selected + 10} : Select(n)
  /\ KeepScreen

(* addSong() adds the song or, if it is broken, only says so.  The first   *)
(* song is sung: sing() takes it from the playlist.                        *)
Added == {queue, queue + 1}
Sings(size) == queue' = (IF size > 0 THEN size - 1 ELSE 0) /\ leaving' = TRUE

ChooseSong ==
  /\ Nav /\ ~jukebox /\ option = 0 /\ menuPos = 1 /\ filtered # <<>>
  /\ \E size \in Added :
       IF size = 1 THEN Sings(size) ELSE size <= MaxQueue /\ queue' = size /\ UNCHANGED leaving
  /\ UNCHANGED <<collection, paused, menuVars>>

InJukebox ==
  /\ Nav /\ jukebox
  /\ \/ jukebox' = FALSE /\ UNCHANGED <<leaving, queue>>
     \/ filtered # <<>> /\ (\E size \in Added : Sings(size)) /\ UNCHANGED jukebox
  /\ UNCHANGED <<collection, paused, menuPos, option>>

(* START on the row of the jukebox; on that of the playlist: a first song, *)
(* or the playlist's menu.                                                 *)
StartRow ==
  /\ Nav /\ ~jukebox /\ option = 0 /\ filtered # <<>>
  /\ \/ menuPos = 4 /\ menuPos' = 1 /\ jukebox' = TRUE /\ UNCHANGED <<queue, option>>
     \/ /\ menuPos = 0 /\ queue = 0
        /\ menuPos' = 1 /\ queue' \in Added /\ UNCHANGED <<option, jukebox>>
     \/ menuPos = 0 /\ queue # 0 /\ option' = 1 /\ UNCHANGED <<menuPos, queue, jukebox>>
  /\ UNCHANGED <<collection, paused, leaving>>

(* createPlaylistMenu(): play with this song added, shuffle, view, clear,  *)
(* back.                                                                   *)
TakeOption ==
  /\ Nav /\ ~jukebox /\ option # 0 /\ filtered # <<>>
  /\ IF option = 3 THEN UNCHANGED menuPos ELSE menuPos' = 1
  /\ option' = IF option = 3 THEN 3 ELSE 0
  /\ CASE option = 1 -> Sings(queue + 1)
       [] option = 3 -> leaving' = TRUE /\ UNCHANGED queue
       [] option = 4 -> queue' = 0 /\ UNCHANGED leaving
       [] OTHER -> UNCHANGED <<queue, leaving>>
  /\ UNCHANGED <<collection, paused, jukebox>>

(* Up and down in the menu that is open, or in the rows of the screen.     *)
MoveRow(d) ==
  /\ Nav
  /\ IF option # 0
     THEN option + d \in 1 .. 5 /\ option' = option + d /\ UNCHANGED menuPos
     ELSE /\ ~jukebox /\ filtered # <<>>
          /\ menuPos + d \in 0 .. 4 /\ menuPos' = menuPos + d /\ UNCHANGED option
  /\ KeepSongs /\ UNCHANGED jukebox

(* CANCEL undoes one thing after the other: the row, the search, the type; *)
(* the playlist's menu stays open.                                         *)
Cancel ==
  /\ Nav /\ ~jukebox
  /\ menuPos' = 1
  /\ IF menuPos # 1 THEN UNCHANGED <<collection, leaving>>
     ELSE IF filter.text # "" THEN Refilter([filter EXCEPT !.text = ""]) /\ UNCHANGED leaving
     ELSE IF filter.type # 0 THEN SetType(0) /\ UNCHANGED leaving
     ELSE leaving' = TRUE /\ UNCHANGED collection
  /\ UNCHANGED <<paused, queue, jukebox, option>>

-----------------------------------------------------------------------------
(* Keyboard events, which do not reset the timer; after each of them, and  *)
(* after any other event of SDL, an empty list ends the jukebox.           *)
Keyboard ==
  /\ InSongs /\ ~failed
  /\ \/ /\ \E f \in Filters : f.type = filter.type /\ f # filter /\ Refilter(f)
        /\ jukebox' = (jukebox /\ filtered' # <<>>)
     \/ jukebox' \in {jukebox /\ filtered # <<>>, ~jukebox /\ filtered # <<>>}
        /\ UNCHANGED collection
     \/ /\ ~jukebox /\ UNCHANGED jukebox
        /\ ReloadSongs \/ SortChange \/ \E cat \in 1 .. 4 : TypeCycle(cat)
  /\ UNCHANGED <<screen, leaving, failed, menuPos, option, idle, soundVars, paused, queue>>

-----------------------------------------------------------------------------
Navigation ==
  \/ PauseOrSeek \/ Browse \/ ChooseSong \/ InJukebox \/ StartRow \/ TakeOption \/ Cancel
  \/ \E d \in {-1, 1} : MoveRow(d)

(* The user goes away.                                                     *)
GoAway ==
  /\ attended /\ attended' = FALSE
  /\ UNCHANGED <<collection, screen, leaving, failed, menuVars, idle, soundVars, paused, queue>>

Show == EnterSongs \/ LeaveSongs \/ DrawSongs \/ PollSongs \/ TimePasses \/ MusicEnds
Other(A) == A /\ UNCHANGED <<notHere, attended>>
BrowserNext ==
  \/ Other(Show) \/ Other(LoadSong)
  \/ attended /\ Other(Navigation \/ Keyboard)
  \/ GoAway /\ UNCHANGED notHere

(* Frames and the loader go on; time passes; music that is not paused      *)
(* comes to its end.                                                       *)
BrowserFairness ==
  /\ WF_bvars(Other(LoadSong)) /\ SF_bvars(Other(PollSongs))
  /\ WF_bvars(Other(DrawSongs)) /\ WF_bvars(Other(TimePasses)) /\ WF_bvars(Other(MusicEnds))

-----------------------------------------------------------------------------
(* Left alone in the browser or its jukebox, with the music not paused,    *)
(* the list is played round and round: its first song has its turn again   *)
(* and again, a song that is alone too.                                    *)
UnattendedPlaysAll ==
  <>[](~attended /\ InSongs /\ ~paused /\ filtered # <<>>)
    => []<>(filtered # <<>> /\ sound = MusicOf[Head(filtered)] /\ ~ended)

(* The jukebox never stands still for want of a song: a frame in which     *)
(* drawJukebox() threw, and which came to no events, is followed by one    *)
(* that does, once the songs are loaded.                                   *)
EventsServed == failed ~> ~failed
=============================================================================
