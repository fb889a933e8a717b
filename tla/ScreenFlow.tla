------------------------------ MODULE ScreenFlow ------------------------------
(***************************************************************************)
(* The way through a karaoke evening: Game switches between the screens    *)
(* for songs, singing, hiscores and the playlist, each frame of the main   *)
(* loop is updateScreen(), draw() and the key presses since the last one,  *)
(* and the web server's thread changes the same playlist.                  *)
(*                                                                         *)
(* Every call of PlayList is a step, because the calls lock its mutex one  *)
(* by one; ScreenPlaylist::m_mutex is held from "rebuilt" on.  An index    *)
(* outside of the list, a null song and the front of an empty list are     *)
(* undefined behaviour: the model stops there with "undefined" set.        *)
(***************************************************************************)
EXTENDS Integers, Sequences, SequencesExt

CONSTANTS
  Songs,          (* the song collection                                    *)
  Broken,         (* the songs with load status PARSERERROR                 *)
  NoSong, None,   (* null pointers to a song and to a screen                *)
  MaxList,        (* bound: songs on the playlist                           *)
  MaxScores,      (* bound: scores of a song, one per player                *)
  MaxRequests,    (* bound: requests of the web server                      *)
  PressesPerFrame (* bound: keys pressed within one frame                   *)

Screens == {"Intro", "Songs", "Playlist", "Sing", "Players"}

ASSUME FlowAssumption ==
  /\ Broken \subseteq Songs /\ NoSong \notin Songs /\ None \notin Screens
  /\ {MaxList, MaxScores, MaxRequests, PressesPerFrame} \subseteq Nat

VARIABLES
  mode,        (* config: game/autoplay and game/karaoke_mode              *)
  current, newScreen,      (* Game::currentScreen and newScreen            *)
  phase, presses,          (* the main loop, and the keys of this frame    *)
  undefined,   (* the code has met undefined behaviour                     *)
  list, song,  (* the playlist; ScreenSing::m_song                         *)
  menu, needsUpdate,       (* songlist_menu: the songs it was made from    *)
  overlay,     (* ScreenPlaylist's overlay_menu                            *)
  keyPressed, timeout,     (* of the current screen, which resets them     *)
  paused, music,           (* Audio: paused; how far the song has come     *)
  singMenu, window,        (* ScreenSing: m_menu and m_score_window        *)
  scores, playersSong,     (* Database::scores; ScreenPlayers::m_song      *)
  web, requests            (* the request that is being handled            *)

playVars == <<menu, needsUpdate, overlay>>
singVars == <<music, singMenu, window>>
scoreVars == <<scores, playersSong>>
webVars == <<web, requests>>
keyVars == <<keyPressed, timeout>>
vars == <<mode, current, newScreen, phase, presses, undefined, list, song,
          playVars, keyVars, paused, singVars, scoreVars, webVars>>

Scores == [song : Songs, reached : BOOLEAN]
Closed == [kind |-> "closed"]
Idle == [stage |-> "idle"]

FlowTypeOK ==
  /\ mode \in [autoplay : BOOLEAN, karaoke : BOOLEAN]
  /\ current \in Screens /\ newScreen \in Screens \cup {None}
  /\ phase \in {"draw", "drawNext", "rebuild", "rebuilt", "events",
                "added", "pressNext"}
  /\ presses \in 0 .. PressesPerFrame
  /\ \A b \in {undefined, needsUpdate, keyPressed, timeout, paused, window} : b \in BOOLEAN
  /\ list \in Seq(Songs) /\ menu \in Seq(Songs) /\ Len(list) <= MaxList
  /\ song \in Songs \cup {NoSong}
  /\ overlay \in {Closed, [kind |-> "esc"], [kind |-> "empty"]} \cup
       [kind : {"song"}, n : 1 .. MaxList, down : BOOLEAN, song : Songs, disturbed : BOOLEAN]
  /\ music \in {"on", "finished", "over"}
  /\ singMenu \in {"closed", "voices", "pause", "empty"}
  /\ scores \in Seq(Scores) /\ Len(scores) <= MaxScores
  /\ playersSong \in Songs \cup {NoSong}
  /\ web.stage \in {"idle", "apply", "trigger"} /\ requests \in 0 .. MaxRequests

Init ==
  /\ mode \in [autoplay : BOOLEAN, karaoke : BOOLEAN]
  /\ current = "Intro" /\ newScreen = None
  /\ phase = "draw" /\ presses = 0 /\ undefined = FALSE
  /\ list = <<>> /\ song = NoSong
  /\ menu = <<>> /\ needsUpdate = FALSE /\ overlay = Closed
  /\ keyPressed = FALSE /\ timeout = FALSE /\ paused = FALSE
  /\ music = "over" /\ singMenu = "closed" /\ window = FALSE
  /\ scores = <<>> /\ playersSong = NoSong
  /\ web = Idle /\ requests = 0

-----------------------------------------------------------------------------
(* Game::updateScreen(): exit() of the old screen, enter() of the new one. *)

PausedAfterExit ==
  CASE current = "Playlist" -> ~paused
    [] current = "Sing" -> FALSE
    [] OTHER -> paused

NotSinging == music' = "over" /\ singMenu' = "closed" /\ window' = FALSE

EnterQuietly ==
  /\ newScreen \in {"Intro", "Songs"}
  /\ newScreen' = None /\ paused' = PausedAfterExit
  /\ menu' = <<>> /\ NotSinging
  /\ keyPressed' = FALSE /\ timeout' = FALSE
  /\ UNCHANGED undefined

EnterPlaylist ==
  /\ newScreen = "Playlist"
  /\ newScreen' = IF list = <<>> /\ ~mode.autoplay THEN "Songs" ELSE None
  /\ paused' = ~PausedAfterExit
  /\ menu' = list /\ NotSinging
  /\ keyPressed' = FALSE /\ timeout' = FALSE
  /\ UNCHANGED undefined

(* A song whose notes do not parse leads back to the songs; one with       *)
(* several vocal tracks opens the menu of the voices and stays paused.     *)
EnterSing ==
  /\ newScreen = "Sing"
  /\ undefined' = (song = NoSong)
  /\ newScreen' \in {None, "Songs"}
  /\ singMenu' \in {"voices", "closed"}
  /\ paused' = (singMenu' = "voices")
  /\ music' = "on" /\ window' = FALSE
  /\ menu' = <<>>
  /\ keyPressed' = FALSE /\ timeout' = FALSE

NoHiscore(s) == s = <<>> \/ ~Head(s).reached

EnterPlayers ==
  /\ newScreen = "Players"
  /\ newScreen' = IF NoHiscore(scores) THEN "Playlist" ELSE None
  /\ paused' = PausedAfterExit
  /\ menu' = <<>> /\ NotSinging
  /\ keyPressed' = FALSE /\ timeout' = FALSE
  /\ UNCHANGED undefined

(* The events of the frame are over.  The songs of screens that are left   *)
(* are not read again before they are set, and forgotten.                  *)
UpdateScreen ==
  /\ ~undefined /\ phase = "events" /\ phase' = "draw" /\ presses' = 0
  /\ \/ newScreen = None
        /\ UNCHANGED <<current, newScreen, undefined, song, playersSong, playVars,
                       keyVars, paused, singVars>>
     \/ /\ current' = newScreen
        /\ overlay' = Closed
        /\ EnterQuietly \/ EnterPlaylist \/ EnterSing \/ EnterPlayers
        /\ song' = IF newScreen = "Sing" THEN song ELSE NoSong
        /\ playersSong' = IF newScreen = "Players" THEN playersSong ELSE NoSong
        /\ UNCHANGED needsUpdate
  /\ UNCHANGED <<mode, list, scores, webVars>>

-----------------------------------------------------------------------------
(* draw() of the screens.                                                  *)

FrameStep == ~undefined /\ UNCHANGED <<mode, current, webVars>>

DrawPlain ==
  /\ phase = "draw" /\ current \in {"Intro", "Songs"} /\ phase' = "events"
  /\ FrameStep
  /\ UNCHANGED <<newScreen, presses, undefined, list, song, playVars, keyVars,
                 paused, singVars, scoreVars>>

(* With nobody at the keys, the next song or a random one is sung.         *)
DrawPlaylist ==
  /\ phase = "draw" /\ current = "Playlist"
  /\ IF timeout /\ ~keyPressed
     THEN IF list = <<>>
          THEN song' \in Songs /\ newScreen' = "Sing" /\ phase' = "rebuild"
          ELSE phase' = "drawNext" /\ UNCHANGED <<song, newScreen>>
     ELSE phase' = "rebuild" /\ UNCHANGED <<song, newScreen>>
  /\ FrameStep
  /\ UNCHANGED <<presses, undefined, list, playVars, keyVars, paused, singVars, scoreVars>>

(* createSongListMenu() and the flag's reset, under m_mutex.               *)
Rebuild ==
  /\ phase = "rebuild"
  /\ IF needsUpdate THEN menu' = list /\ phase' = "rebuilt"
                    ELSE phase' = "events" /\ UNCHANGED menu
  /\ FrameStep
  /\ UNCHANGED <<newScreen, presses, undefined, list, song, needsUpdate, overlay,
                 keyVars, paused, singVars, scoreVars>>

Rebuilt ==
  /\ phase = "rebuilt" /\ phase' = "events"
  /\ needsUpdate' = FALSE
  /\ FrameStep
  /\ UNCHANGED <<newScreen, presses, undefined, list, song, menu, overlay,
                 keyVars, paused, singVars, scoreVars>>

(* PlayList::getNext() and the switch to the sing screen, from draw() or   *)
(* from a key press.                                                       *)
TakeNext ==
  /\ phase \in {"drawNext", "pressNext"}
  /\ phase' = IF phase = "drawNext" THEN "rebuild" ELSE "events"
  /\ newScreen' = "Sing"
  /\ IF list = <<>> THEN song' = NoSong /\ UNCHANGED list
                    ELSE song' = Head(list) /\ list' = Tail(list)
  /\ FrameStep
  /\ UNCHANGED <<presses, undefined, playVars, keyVars, paused, singVars, scoreVars>>

(* ScreenSing::activateNextScreen().                                       *)
ActivateNextScreen ==
  IF mode.karaoke
  THEN newScreen' = "Playlist" /\ UNCHANGED playersSong
  ELSE newScreen' = "Players" /\ playersSong' = song

WrongOpenWindow(s) ==
  /\ window' = TRUE /\ timeout' = FALSE
  /\ scores' = IF Len(scores) + Len(s) <= MaxScores THEN scores \o s ELSE scores

OpenWindow(s) ==
  /\ window' = TRUE /\ timeout' = FALSE
  /\ scores' = s

SongScores == UNION {[1 .. n -> [song : {song}, reached : BOOLEAN]] : n \in 0 .. MaxScores}

(* setupVocals(): the pause menu is made, closed, and the music starts.    *)
SetupVocals == singMenu' = "closed" /\ paused' = FALSE

WrongDrawVoices == UNCHANGED <<singMenu, paused>>

(* Ten seconds after enter() the first option is taken: "Start" of the     *)
(* voices; "Resume" of the closed pause menu changes nothing.              *)
DrawVoices ==
  IF ~keyPressed /\ timeout /\ singMenu = "voices"
  THEN SetupVocals
  ELSE UNCHANGED <<singMenu, paused>>

(* In the last seconds, and at the end, the score window opens; it leads   *)
(* on at the end of the music, or after a while if there are scores.       *)
DrawSing ==
  /\ phase = "draw" /\ current = "Sing" /\ phase' = "events"
  /\ \/ /\ mode.karaoke /\ music = "over"
        /\ newScreen' = "Playlist"
        /\ UNCHANGED <<timeout, singMenu, window, paused, scoreVars>>
     \/ /\ ~mode.karaoke /\ window
        /\ IF scores = <<>> THEN music = "over" ELSE timeout /\ ~paused
        /\ ActivateNextScreen
        /\ UNCHANGED <<timeout, singMenu, window, paused, scores>>
     \/ /\ ~mode.karaoke /\ ~window /\ music \in {"finished", "over"}
        /\ \E s \in SongScores : OpenWindow(s)
        /\ DrawVoices
        /\ UNCHANGED <<newScreen, playersSong>>
     \/ /\ IF mode.karaoke THEN music # "over"
           ELSE IF window THEN ~(IF scores = <<>> THEN music = "over" ELSE timeout /\ ~paused)
           ELSE music # "over"
        /\ DrawVoices
        /\ UNCHANGED <<newScreen, timeout, window, scoreVars>>
  /\ FrameStep
  /\ UNCHANGED <<presses, undefined, list, song, playVars, keyPressed, music>>

DrawPlayers ==
  /\ phase = "draw" /\ current = "Players" /\ phase' = "events"
  /\ newScreen' = IF timeout /\ ~keyPressed THEN "Playlist" ELSE newScreen
  /\ FrameStep
  /\ UNCHANGED <<presses, undefined, list, song, playVars, keyVars, paused, singVars, scoreVars>>

-----------------------------------------------------------------------------
(* checkEvents(): every key press goes to the current screen, also when a  *)
(* new one has been asked for.                                             *)

Press(screen) ==
  /\ ~undefined /\ phase = "events" /\ current = screen
  /\ presses < PressesPerFrame
  /\ presses' = presses + 1
  /\ UNCHANGED <<mode, current, webVars>>

KeepScreens == UNCHANGED <<keyVars, playVars, singVars, scoreVars, undefined>>

PressIntro ==
  /\ Press("Intro") /\ newScreen' = "Songs"
  /\ KeepScreens /\ UNCHANGED <<phase, list, song, paused>>

(* START on a cover: addSong(), which reads the size of the list after the *)
(* song was added or refused, and then sing().                             *)
ChooseSong(s) ==
  /\ Press("Songs") /\ Len(list) < MaxList
  /\ list' = IF s \in Broken THEN list ELSE Append(list, s)
  /\ phase' = "added"
  /\ KeepScreens /\ UNCHANGED <<newScreen, song, paused>>

SingFirst ==
  /\ phase = "added"
  /\ phase' = IF Len(list) = 1 THEN "pressNext" ELSE "events"
  /\ FrameStep
  /\ KeepScreens /\ UNCHANGED <<newScreen, presses, list, song, paused>>

(* In the jukebox, and with "Play" of the playlist menu, sing() follows    *)
(* whatever addSong() says; the menu also adds a broken song.              *)
PlaySong(s) ==
  /\ Press("Songs") /\ Len(list) < MaxList
  /\ \/ list' = IF s \in Broken THEN list ELSE Append(list, s)
     \/ list # <<>> /\ list' = Append(list, s)
  /\ phase' = "pressNext"
  /\ KeepScreens /\ UNCHANGED <<newScreen, song, paused>>

Shuffles == {[i \in DOMAIN list |-> list[p[i]]] : p \in Bijection(DOMAIN list, DOMAIN list)}

PressSongs ==
  /\ Press("Songs")
  /\ \/ newScreen' = "Intro" /\ UNCHANGED <<list, paused>>
     \/ paused' = ~paused /\ UNCHANGED <<newScreen, list>>
     \/ list # <<>> /\ newScreen' = "Playlist" /\ UNCHANGED <<list, paused>>
     \/ list # <<>> /\ list' \in {<<>>} \cup Shuffles /\ UNCHANGED <<newScreen, paused>>
  /\ KeepScreens /\ UNCHANGED <<phase, song>>

(* ScreenPlaylist: every event notes that a key was pressed.               *)
WrongPlaylistKey == Press("Playlist") /\ UNCHANGED <<keyPressed, timeout, singVars, scoreVars>>

PlaylistKey == Press("Playlist") /\ keyPressed' = TRUE /\ UNCHANGED <<timeout, singVars, scoreVars>>

PressPause ==
  /\ PlaylistKey
  /\ paused' = ~paused
  /\ UNCHANGED <<newScreen, phase, list, song, playVars, undefined>>

PressCancel ==
  /\ PlaylistKey
  /\ overlay' = IF overlay = Closed THEN [kind |-> "esc"] ELSE Closed
  /\ UNCHANGED <<newScreen, phase, list, song, menu, needsUpdate, paused, undefined>>

(* START in the list of songs: createSongMenu() for the number of the      *)
(* entry, or the menu of CANCEL for the last entry.  "disturbed" remembers *)
(* that a request has moved the songs since the entry was made.            *)
OpenSongMenu(n) ==
  /\ PlaylistKey /\ overlay = Closed
  /\ overlay' = [kind |-> "song", n |-> n, down |-> n < Len(list), song |-> menu[n],
                 disturbed |-> menu # list]
  /\ UNCHANGED <<newScreen, phase, list, song, menu, needsUpdate, paused, undefined>>

(* START in the menu of CANCEL.                                            *)
Continue ==
  /\ PlaylistKey /\ overlay.kind = "esc"
  /\ IF list = <<>>
     THEN song' \in Songs /\ newScreen' = "Sing" /\ UNCHANGED phase
     ELSE phase' = "pressNext" /\ UNCHANGED <<song, newScreen>>
  /\ UNCHANGED <<list, playVars, paused, undefined>>

AddSongs ==
  /\ PlaylistKey /\ overlay.kind = "esc"
  /\ overlay' = [kind |-> "empty"] /\ newScreen' = "Songs"
  /\ UNCHANGED <<phase, list, song, menu, needsUpdate, paused, undefined>>

ShuffleList ==
  /\ PlaylistKey /\ overlay.kind = "esc"
  /\ list' \in Shuffles /\ menu' = list' /\ overlay' = Closed
  /\ UNCHANGED <<newScreen, phase, song, needsUpdate, paused, undefined>>

ClearAndExit ==
  /\ PlaylistKey /\ overlay.kind = "esc"
  /\ list' = <<>> /\ overlay' = Closed /\ newScreen' = "Songs"
  /\ UNCHANGED <<phase, song, menu, needsUpdate, paused, undefined>>

(* START in the menu of a song: its number is used as it was when the menu *)
(* was made.  PlayList::getSong() checks for an empty list only.           *)
PlayFirst ==
  /\ PlaylistKey /\ overlay.kind = "song"
  /\ newScreen' = "Sing"
  /\ undefined' = (list # <<>> /\ overlay.n > Len(list))
  /\ IF overlay.n \in DOMAIN list
     THEN song' = list[overlay.n] /\ list' = RemoveAt(list, overlay.n)
     ELSE song' = NoSong /\ UNCHANGED list
  /\ UNCHANGED <<phase, playVars, paused>>

RemoveSong ==
  /\ PlaylistKey /\ overlay.kind = "song"
  /\ overlay' = Closed
  /\ undefined' = (overlay.n > Len(list))
  /\ list' = IF undefined' THEN list ELSE RemoveAt(list, overlay.n)
  /\ IF list' = <<>> THEN newScreen' = "Songs" /\ UNCHANGED menu
                     ELSE menu' = list' /\ UNCHANGED newScreen
  /\ UNCHANGED <<phase, song, needsUpdate, paused>>

Swapped(l, i, j) == [l EXCEPT ![i] = l[j], ![j] = l[i]]

WrongMoveSong(i, j) ==
  /\ undefined' = (i > Len(list) \/ j > Len(list))
  /\ list' = IF undefined' THEN list ELSE Swapped(list, i, j)
  /\ menu' = list' /\ UNCHANGED overlay

MoveSong(i, j) ==
  /\ undefined' = (i > Len(list) \/ j > Len(list))
  /\ list' = IF undefined' THEN list ELSE Swapped(list, i, j)
  /\ menu' = list' /\ overlay' = Closed

MoveUpOrDown ==
  /\ PlaylistKey /\ overlay.kind = "song"
  /\ \/ overlay.n >= 2 /\ MoveSong(overlay.n, overlay.n - 1)
     \/ overlay.down /\ MoveSong(overlay.n, overlay.n + 1)
  /\ UNCHANGED <<newScreen, phase, song, needsUpdate, paused>>

PressPlaylist ==
  \/ PressPause \/ PressCancel
  \/ \E n \in DOMAIN menu : OpenSongMenu(n)
  \/ Continue \/ AddSongs \/ ShuffleList \/ ClearAndExit
  \/ PlayFirst \/ RemoveSong \/ MoveUpOrDown

-----------------------------------------------------------------------------
(* ScreenSing: with the score window open only leaving is possible.        *)

SingKey == Press("Sing") /\ keyPressed' = TRUE /\ timeout' = FALSE
           /\ UNCHANGED <<phase, list, song, playVars, music>>

LeaveWindow ==
  /\ SingKey /\ window
  /\ ActivateNextScreen
  /\ UNCHANGED <<singMenu, window, scores, paused, undefined>>

(* CANCEL within the first second.                                         *)
CancelEarly ==
  /\ SingKey /\ ~window /\ music = "on" /\ singMenu = "closed"
  /\ newScreen' = IF mode.autoplay THEN "Songs" ELSE "Playlist"
  /\ UNCHANGED <<singMenu, window, scoreVars, paused, undefined>>

WrongPauseSong ==
  /\ SingKey /\ ~window /\ ~paused /\ singMenu = "closed"
  /\ singMenu' = "pause" /\ UNCHANGED paused
  /\ UNCHANGED <<newScreen, window, scoreVars, undefined>>

PauseSong ==
  /\ SingKey /\ ~window /\ ~paused /\ singMenu = "closed"
  /\ singMenu' = "pause" /\ paused' = TRUE
  /\ UNCHANGED <<newScreen, window, scoreVars, undefined>>

(* START in the open menu: "Start" or "Quit" of the voices; "Resume",      *)
(* "Restart", "Skip", "Abort" or "Quit" of the pause menu.  An option that *)
(* names a screen empties its menu, and START in an empty menu throws.     *)
SingMenuStart ==
  /\ SingKey /\ ~window /\ singMenu # "closed"
  /\ undefined' = (singMenu = "empty")
  /\ \/ SetupVocals /\ UNCHANGED newScreen
     \/ singMenu = "voices" /\ newScreen' = "Songs" /\ singMenu' = "empty" /\ UNCHANGED paused
     \/ singMenu = "pause" /\ newScreen' = "Sing" /\ singMenu' = "empty" /\ UNCHANGED paused
     \/ singMenu = "pause" /\ newScreen' = "Playlist" /\ singMenu' = "empty" /\ UNCHANGED paused
     \/ singMenu = "pause" /\ newScreen' = "Songs" /\ UNCHANGED <<singMenu, paused>>
  /\ UNCHANGED <<window, scoreVars>>

(* START after the last note.                                              *)
ShowScores ==
  /\ SingKey /\ ~window /\ singMenu = "closed" /\ ~paused /\ music = "finished"
  /\ window' = TRUE /\ scores' \in SongScores
  /\ UNCHANGED <<newScreen, singMenu, playersSong, paused, undefined>>

PressSing == LeaveWindow \/ CancelEarly \/ PauseSong \/ SingMenuStart \/ ShowScores

(* ScreenPlayers: START gives the first score to the chosen player.        *)
PlayersKey == Press("Players") /\ keyPressed' = TRUE
              /\ UNCHANGED <<phase, list, song, playVars, timeout, singVars, playersSong>>

AddHiscore ==
  /\ PlayersKey
  /\ undefined' = (scores = <<>>)
  /\ scores' = IF scores = <<>> THEN scores ELSE Tail(scores)
  /\ newScreen' = IF NoHiscore(scores') THEN "Playlist" ELSE newScreen
  /\ UNCHANGED paused

PressPlayers ==
  \/ AddHiscore
  \/ /\ PlayersKey
     /\ \/ newScreen' = "Songs" /\ UNCHANGED paused
        \/ paused' = ~paused /\ UNCHANGED newScreen
     /\ UNCHANGED <<scores, undefined>>

-----------------------------------------------------------------------------
(* The music, the timers of the screens and the web server's thread.       *)

Plays ==
  /\ ~undefined /\ current = "Sing" /\ ~paused /\ music # "over"
  /\ music' = IF music = "on" THEN "finished" ELSE "over"
  /\ UNCHANGED <<mode, current, newScreen, phase, presses, undefined, list, song,
                 playVars, keyVars, paused, singMenu, window, scoreVars, webVars>>

(* After a key press only the score window looks at its timer.             *)
TimesOut ==
  /\ ~undefined /\ current \in {"Playlist", "Sing", "Players"}
  /\ ~keyPressed \/ window
  /\ ~timeout /\ timeout' = TRUE
  /\ UNCHANGED <<mode, current, newScreen, phase, presses, undefined, list, song,
                 playVars, keyPressed, paused, singVars, scoreVars, webVars>>

WebStep == ~undefined /\ UNCHANGED <<mode, current, newScreen, phase, presses, song,
                                     menu, keyVars, paused, singVars, scoreVars>>

StartRequest == web = Idle /\ requests < MaxRequests /\ requests' = requests + 1

(* /api/add has nothing to check.                                          *)
AddRequest(s) ==
  /\ StartRequest /\ Len(list) < MaxList
  /\ list' = Append(list, s)
  /\ web' = [stage |-> "trigger"]
  /\ WebStep /\ UNCHANGED <<undefined, needsUpdate, overlay>>

(* /api/remove looks for an empty list, /api/setposition at the size; the  *)
(* numbers come from the list that the client has seen.                    *)
Request ==
  /\ StartRequest
  /\ \E i, j \in DOMAIN list :
       web' \in {[stage |-> "apply", op |-> "remove", index |-> i],
                [stage |-> "apply", op |-> "move", index |-> i, position |-> j]}
  /\ WebStep /\ UNCHANGED <<undefined, list, needsUpdate, overlay>>

Moved(l, i, j) == InsertAt(RemoveAt(l, i), j, l[i])

Disturb == overlay' = IF overlay.kind = "song" THEN [overlay EXCEPT !.disturbed = TRUE] ELSE overlay

Apply ==
  /\ web.stage = "apply" /\ web' = [stage |-> "trigger"]
  /\ Disturb
  /\ \/ /\ web.op = "remove"
        /\ undefined' = (web.index > Len(list))
        /\ list' = IF undefined' THEN list ELSE RemoveAt(list, web.index)
     \/ /\ web.op = "move"
        /\ undefined' = (web.index > Len(list) \/ web.position > Len(list))
        /\ list' = IF undefined' THEN list ELSE Moved(list, web.index, web.position)
  /\ WebStep /\ UNCHANGED <<needsUpdate, requests>>

(* triggerSongListUpdate() waits for m_mutex.                              *)
Trigger ==
  /\ web.stage = "trigger" /\ phase # "rebuilt"
  /\ web' = Idle /\ needsUpdate' = TRUE
  /\ WebStep /\ UNCHANGED <<undefined, list, overlay, requests>>

-----------------------------------------------------------------------------
Draw == DrawPlain \/ DrawPlaylist \/ Rebuild \/ Rebuilt \/ TakeNext \/ DrawSing \/ DrawPlayers

Key == PressIntro \/ PressSongs \/ PressPlaylist \/ PressSing \/ PressPlayers
       \/ \E s \in Songs : ChooseSong(s) \/ PlaySong(s)

Frame == UpdateScreen \/ Draw \/ SingFirst

WebServer == (\E s \in Songs \ Broken : AddRequest(s)) \/ Request \/ Apply \/ Trigger

Next == Frame \/ Key \/ Plays \/ TimesOut \/ WebServer

(* The main loop goes on, music that is not paused plays, time passes.     *)
Fairness ==
  /\ WF_vars(Frame) /\ WF_vars(Plays) /\ WF_vars(TimesOut)

Spec == Init /\ [][Next]_vars /\ Fairness

-----------------------------------------------------------------------------
(* The menu of the playlist screen shows the playlist, unless it is about  *)
(* to be made again: the flag of triggerSongListUpdate() is never lost,    *)
(* and every entry of a menu that changes the list makes it anew.          *)
MenuUpToDate ==
  (current = "Playlist" /\ menu # list /\ ~undefined) =>
     needsUpdate \/ web.stage = "trigger" \/ newScreen # None

(* The number a song's menu was made for still is that song's place in the *)
(* list: neither the timer of draw() nor the menus themselves take songs   *)
(* away under an open menu.  Only a request can.                           *)
MenuMeansItsSong ==
  (overlay.kind = "song" /\ ~overlay.disturbed /\ newScreen = None) =>
     overlay.n \in DOMAIN list /\ list[overlay.n] = overlay.song

(* What the menus say of the playlist is so: the songs that are listed and *)
(* the song that an open menu acts on (createPlaylistMenu, createSongMenu).*)
MenusAreTrue == MenuUpToDate /\ MenuMeansItsSong

(* A song that was taken from the playlist is sung: until ScreenSing is    *)
(* entered nothing puts another song or another screen in its place.       *)
NoSongSkipped ==
  [][newScreen = "Sing" /\ ~undefined' =>
       song' = song /\ "Sing" \in {newScreen', current'}]_vars

(* While the sing screen shows, the music is paused exactly when a menu is *)
(* open, so that no key leaves the singers with a song that stands still.  *)
PausedByMenuOnly == current = "Sing" => (paused <=> singMenu # "closed")

(* The hiscores that ScreenPlayers hands out are all of the song it saves  *)
(* them for, never of a song sung before.                                  *)
HiscoresOfTheSongSung ==
  current = "Players" => \A i \in DOMAIN scores : scores[i].song = playersSong

(* A party nobody attends to goes on: with no key pressed each of the      *)
(* three screens is left by its timers and the end of the music.           *)
UnattendedShowGoesOn ==
  \A s \in {"Playlist", "Sing", "Players"} :
    (current = s /\ ~keyPressed) ~> (current # s \/ keyPressed \/ undefined)
=============================================================================
