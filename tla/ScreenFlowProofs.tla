-------------------------- MODULE ScreenFlowProofs --------------------------
(***************************************************************************)
(* The way through the screens, for any songs, playlists, scores and       *)
(* requests of the web server: the menus of the playlist are true of it,   *)
(* the music pauses with a menu only, hiscores are saved for the song that *)
(* was sung, and no song that was taken from the playlist is skipped.      *)
(***************************************************************************)
EXTENDS ScreenFlow, SequenceTheorems, TLAPS

Places == Nat \ {0}
SongMenus == [kind : {"song"}, n : Places, down : BOOLEAN, song : Songs, disturbed : BOOLEAN]

Requests ==
  [stage : {"apply"}, op : {"remove"}, index : Places] \cup
  [stage : {"apply"}, op : {"move"}, index : Places, position : Places]

RequestTypes == web \in {Idle, [stage |-> "trigger"]} \cup Requests

(* What the menus of the playlist are made of.                             *)
MenuTypes ==
  /\ list \in Seq(Songs) /\ menu \in Seq(Songs)
  /\ overlay \in {Closed, [kind |-> "esc"], [kind |-> "empty"]} \cup SongMenus

(* The other screens know nothing of the menus; the frames of a playlist   *)
(* screen are drawn with it; a flag that is about to be reset was read     *)
(* when it was set, or has a request behind it that will set it again.     *)
MenusInv ==
  /\ MenuTypes /\ RequestTypes
  /\ overlay # Closed => current = "Playlist"
  /\ phase = "rebuilt" => menu = list \/ web.stage = "trigger"
  /\ MenusAreTrue

(* Scores are of the song that is sung, once the window shows them; the    *)
(* screen of the players is only asked for with that window.               *)
ScoreTypes == scores \in Seq([song : Songs \cup {NoSong}, reached : BOOLEAN])
ScoresOf(s) == \A i \in 1 .. Len(scores) : scores[i].song = s

ScoresInv ==
  /\ song \in Songs \cup {NoSong} /\ ScoreTypes
  /\ phase \in {"added", "drawNext", "pressNext"} => current # "Sing"
  /\ current = "Sing" /\ window => ScoresOf(song)
  /\ newScreen = "Players" => current = "Sing" /\ window /\ playersSong = song
  /\ current = "Players" => ScoresOf(playersSong)

(* A song is taken while a frame is drawn only if no key was pressed since *)
(* the playlist came up, and so no menu is open; or with the one key press *)
(* of the frame.                                                           *)
TakesInv ==
  /\ presses \in Nat /\ keyPressed \in BOOLEAN
  /\ overlay # Closed => current = "Playlist" /\ keyPressed
  /\ phase = "drawNext" => current = "Playlist" /\ overlay = Closed
  /\ phase \in {"drawNext", "pressNext", "added", "draw"} => newScreen # "Sing"
  /\ phase \in {"pressNext", "added"} => presses >= 1
  /\ newScreen = "Sing" => presses >= 1 \/ (current = "Playlist" /\ overlay = Closed)

USE DEF playVars, singVars, scoreVars, webVars, keyVars

-----------------------------------------------------------------------------
(* The pause and the menus of the sing screen.                             *)

(* Only ScreenSing's own entries and its draw() change both.               *)
LEMMA PauseStep ==
  ASSUME PausedByMenuOnly, [Next]_vars
  PROVE  PausedByMenuOnly'
<1> USE DEF PausedByMenuOnly
<1>1. CASE UpdateScreen
  <2>1. CASE EnterSing /\ current' = newScreen
    BY <2>1 DEF EnterSing
  <2>2. CASE newScreen \in {"Intro", "Songs", "Playlist", "Players"} /\ current' = newScreen
    BY <2>2
  <2>3. CASE UNCHANGED <<current, paused, singMenu>>
    BY <2>3
  <2> QED BY <1>1, <2>1, <2>2, <2>3
          DEF UpdateScreen, EnterQuietly, EnterPlaylist, EnterSing, EnterPlayers
<1>2. CASE DrawSing
  <2>1. CASE DrawVoices
    BY <1>2, <2>1 DEF DrawSing, FrameStep, DrawVoices, SetupVocals
  <2>2. CASE UNCHANGED <<paused, singMenu>>
    BY <1>2, <2>2 DEF DrawSing, FrameStep
  <2> QED BY <1>2, <2>1, <2>2 DEF DrawSing
<1>3. CASE DrawPlain \/ DrawPlaylist \/ Rebuild \/ Rebuilt \/ TakeNext \/ DrawPlayers \/ SingFirst
  BY <1>3 DEF DrawPlain, DrawPlaylist, Rebuild, Rebuilt, TakeNext, DrawPlayers, SingFirst,
              FrameStep, KeepScreens
<1>4. CASE PressSing
  BY <1>4 DEF PressSing, LeaveWindow, CancelEarly, PauseSong, SingMenuStart, ShowScores,
              SetupVocals, SingKey, Press
<1>5. CASE \/ PressIntro \/ PressSongs \/ PressPlaylist \/ PressPlayers
           \/ \E s \in Songs : ChooseSong(s) \/ PlaySong(s)
  <2>1. current # "Sing" /\ current' = current
    BY <1>5 DEF PressIntro, PressSongs, PressPlaylist, PressPause, PressCancel, OpenSongMenu,
                Continue, AddSongs, ShuffleList, ClearAndExit, PlayFirst, RemoveSong,
                MoveUpOrDown, PlaylistKey, PressPlayers, AddHiscore, PlayersKey, ChooseSong,
                PlaySong, Press
  <2> QED BY <2>1
<1>6. CASE Plays \/ TimesOut \/ WebServer
  BY <1>6 DEF Plays, TimesOut, WebServer, AddRequest, Request, Apply, Trigger, WebStep
<1>7. CASE UNCHANGED vars
  BY <1>7 DEF vars
<1> QED BY <1>1, <1>2, <1>3, <1>4, <1>5, <1>6, <1>7 DEF Next, Frame, Draw, Key

(* While the sing screen shows, the music is paused exactly when one of    *)
(* its menus is open: PausedByMenuOnly is inductive as it stands.          *)
THEOREM MusicPausesWithAMenu == Spec => []PausedByMenuOnly
<1>1. Init => PausedByMenuOnly
  BY DEF Init, PausedByMenuOnly
<1>2. PausedByMenuOnly /\ [Next]_vars => PausedByMenuOnly'
  BY PauseStep
<1> QED BY <1>1, <1>2, PTL DEF Spec

-----------------------------------------------------------------------------
(* The menus of the playlist screen.                                       *)

(* Two lists one behind the other are a list.                              *)
LEMMA JoinedIsList ==
  ASSUME NEW S, NEW s \in Seq(S), NEW t \in Seq(S)
  PROVE  s \o t \in Seq(S) /\ Len(s \o t) = Len(s) + Len(t)
BY ConcatProperties

(* Whatever is done to a playlist, its songs stay songs.                   *)
LEMMA RemovedIsList ==
  ASSUME NEW S, NEW l \in Seq(S), NEW i \in 1 .. Len(l)
  PROVE  RemoveAt(l, i) \in Seq(S) /\ Len(RemoveAt(l, i)) = Len(l) - 1
<1>1. SubSeq(l, 1, i - 1) \in Seq(S) /\ Len(SubSeq(l, 1, i - 1)) = i - 1
  BY SubSeqProperties, ElementOfSeq
<1>2. SubSeq(l, i + 1, Len(l)) \in Seq(S) /\ Len(SubSeq(l, i + 1, Len(l))) = Len(l) - i
  BY SubSeqProperties, ElementOfSeq
<1>3. RemoveAt(l, i) = SubSeq(l, 1, i - 1) \o SubSeq(l, i + 1, Len(l))
  BY Zenon DEF RemoveAt
<1>5. RemoveAt(l, i) \in Seq(S) /\ Len(RemoveAt(l, i)) = i - 1 + (Len(l) - i)
  BY <1>1, <1>2, <1>3, JoinedIsList
<1>4. Len(l) \in Nat
  OBVIOUS
<1> QED BY <1>4, <1>5

LEMMA InsertedIsList ==
  ASSUME NEW S, NEW l \in Seq(S), NEW i \in 1 .. Len(l) + 1, NEW s \in S
  PROVE  InsertAt(l, i, s) \in Seq(S)
<1>1. SubSeq(l, 1, i - 1) \in Seq(S)
  BY SubSeqProperties, ElementOfSeq
<1>2. SubSeq(l, i, Len(l)) \in Seq(S)
  BY SubSeqProperties, ElementOfSeq
<1>3. <<s>> \in Seq(S)
  OBVIOUS
<1> QED BY <1>1, <1>2, <1>3, JoinedIsList DEF InsertAt

LEMMA MovedIsList ==
  ASSUME NEW S, NEW l \in Seq(S), NEW i \in 1 .. Len(l), NEW j \in 1 .. Len(l)
  PROVE  Moved(l, i, j) \in Seq(S)
<1>1. RemoveAt(l, i) \in Seq(S) /\ Len(RemoveAt(l, i)) = Len(l) - 1
  BY RemovedIsList
<1>2. j \in 1 .. Len(RemoveAt(l, i)) + 1
  BY <1>1
<1> QED BY <1>1, <1>2, InsertedIsList, ElementOfSeq DEF Moved

LEMMA ShuffledIsList ==
  ASSUME list \in Seq(Songs), NEW l \in Shuffles
  PROVE  l \in Seq(Songs)
<1>1. PICK p \in Bijection(DOMAIN list, DOMAIN list) : l = [i \in DOMAIN list |-> list[p[i]]]
  BY DEF Shuffles
<1>2. DOMAIN list = 1 .. Len(list) /\ Len(list) \in Nat
  OBVIOUS
<1>3. ASSUME NEW i \in 1 .. Len(list) PROVE list[p[i]] \in Songs
  <2>1. p[i] \in 1 .. Len(list)
    BY <1>1, <1>2 DEF Bijection, Injection
  <2> QED BY <2>1, ElementOfSeq
<1> QED BY <1>1, <1>2, <1>3, IsASeq

LEMMA SwappedIsList ==
  ASSUME NEW S, NEW l \in Seq(S), NEW i \in 1 .. Len(l), NEW j \in 1 .. Len(l)
  PROVE  Swapped(l, i, j) \in Seq(S)
BY ElementOfSeq, ExceptSeq DEF Swapped

(* A song added behind the list leaves the others in their places.         *)
LEMMA SongAdded ==
  ASSUME MenusInv, NEW s \in Songs, list' = Append(list, s),
         UNCHANGED <<menu, overlay, newScreen>>
  PROVE  MenuTypes' /\ MenuMeansItsSong'
<1>1. list' \in Seq(Songs) /\ Len(list') = Len(list) + 1 /\ Len(list) \in Nat
      /\ \A i \in 1 .. Len(list) : list'[i] = list[i]
  BY AppendProperties DEF MenusInv, MenuTypes
<1>2. MenuTypes'
  BY <1>1 DEF MenusInv, MenuTypes
<1>3. DOMAIN list = 1 .. Len(list) /\ DOMAIN list' = 1 .. Len(list')
  BY <1>1 DEF MenusInv, MenuTypes
<1>4. MenuMeansItsSong'
  BY <1>1, <1>3 DEF MenusInv, MenusAreTrue, MenuMeansItsSong
<1> QED BY <1>2, <1>4

(* Each step keeps the menus true.                                         *)
LEMMA MenusStep ==
  ASSUME MenusInv, [Next]_vars
  PROVE  MenusInv'
<1> USE DEF MenusInv, MenusAreTrue, MenuUpToDate, MenuMeansItsSong, Closed
<1>0. /\ None # "Sing" /\ None # "Songs" /\ None # "Playlist" /\ None # "Players"
      /\ list \in Seq(Songs) /\ Broken \subseteq Songs
  BY FlowAssumption DEF Screens, MenuTypes, RequestTypes
<1>00. <<>> \in Seq(Songs)
  OBVIOUS
<1>1. CASE UpdateScreen
  <2>1. CASE UNCHANGED <<current, newScreen, menu, overlay, needsUpdate, list, web>>
        /\ phase' = "draw" /\ undefined' = undefined
    BY <2>1 DEF MenuTypes, RequestTypes
  <2>2. CASE /\ overlay' = [kind |-> "closed"] /\ phase' = "draw" /\ UNCHANGED <<list, web>>
             /\ menu' \in {<<>>, list} /\ (current' = "Playlist" => menu' = list)
    <3>1. menu' \in Seq(Songs)
      BY <1>0, <1>00, <2>2
    <3>2. MenuTypes'
      BY <1>0, <2>2, <3>1 DEF MenuTypes, RequestTypes
    <3>3. MenuMeansItsSong' /\ MenuUpToDate'
      BY <2>2
    <3> QED BY <2>2, <3>2, <3>3 DEF RequestTypes
  <2> QED BY <1>1, <2>1, <2>2
          DEF UpdateScreen, EnterQuietly, EnterPlaylist, EnterSing, EnterPlayers
<1>2. CASE DrawPlain \/ DrawPlaylist \/ DrawSing \/ DrawPlayers \/ SingFirst
  <2>1. /\ UNCHANGED <<current, menu, overlay, needsUpdate, list, web, undefined>>
        /\ phase' # "rebuilt" /\ newScreen' \in {newScreen, "Sing", "Players", "Playlist"}
    BY <1>2 DEF DrawPlain, DrawPlaylist, DrawSing, DrawPlayers, SingFirst, FrameStep,
                ActivateNextScreen, KeepScreens
  <2> QED BY <1>0, <2>1 DEF MenuTypes, RequestTypes
<1>3. CASE Rebuild
  BY <1>0, <1>3 DEF Rebuild, FrameStep, MenuTypes, RequestTypes
<1>4. CASE Rebuilt
  BY <1>4 DEF Rebuilt, FrameStep, MenuTypes, RequestTypes
<1>5. CASE TakeNext
  <2>1. list' \in Seq(Songs)
    BY <1>0, <1>5, HeadTailProperties DEF TakeNext
  <2> QED BY <1>0, <1>5, <2>1 DEF TakeNext, FrameStep, MenuTypes, RequestTypes
<1>6. CASE PressIntro \/ PressSing \/ PressPlayers
  <2>1. /\ UNCHANGED <<current, menu, overlay, needsUpdate, list, web, phase>>
        /\ current # "Playlist"
    BY <1>6 DEF PressIntro, PressSing, PressPlayers, LeaveWindow, CancelEarly, PauseSong,
                SingMenuStart, ShowScores, SetupVocals, SingKey, AddHiscore, PlayersKey, Press,
                KeepScreens
  <2> QED BY <2>1 DEF MenuTypes, RequestTypes
<1>7. CASE PressSongs \/ \E s \in Songs : ChooseSong(s) \/ PlaySong(s)
  <2>1. /\ UNCHANGED <<current, menu, overlay, needsUpdate, web>> /\ current # "Playlist"
        /\ phase' \in {phase, "added", "pressNext"} /\ phase # "rebuilt"
    BY <1>7 DEF PressSongs, ChooseSong, PlaySong, Press, KeepScreens
  <2>2. list' \in {list, <<>>} \cup Shuffles \/ \E s \in Songs : list' = Append(list, s)
    <3>1. CASE PressSongs
      BY <3>1 DEF PressSongs
    <3>2. CASE \E s \in Songs : ChooseSong(s) \/ PlaySong(s)
      BY <3>2 DEF ChooseSong, PlaySong
    <3> QED BY <1>7, <3>1, <3>2
  <2>3. list' \in Seq(Songs)
    <3>1. ASSUME NEW s \in Songs PROVE Append(list, s) \in Seq(Songs)
      BY <1>0, AppendProperties
    <3>2. ASSUME NEW l \in Shuffles PROVE l \in Seq(Songs)
      BY <1>0, ShuffledIsList
    <3> QED BY <1>0, <1>00, <2>2, <3>1, <3>2
  <2> QED BY <2>1, <2>3 DEF MenuTypes, RequestTypes
<1>8. CASE PressPlaylist
  <2> USE DEF PlaylistKey, Press
  <2>1. CASE PressPause \/ Continue
    <3>1. /\ UNCHANGED <<current, menu, overlay, needsUpdate, list, web, undefined>>
          /\ phase' \in {phase, "pressNext"} /\ newScreen' \in {newScreen, "Sing"}
      BY <2>1 DEF PressPause, Continue
    <3> QED BY <1>0, <3>1 DEF MenuTypes, RequestTypes
  <2>2. CASE PressCancel
    BY <2>2 DEF PressCancel, MenuTypes, RequestTypes
  <2>3. ASSUME NEW n \in DOMAIN menu, OpenSongMenu(n)
        PROVE  MenusInv'
    <3>1. n \in Places /\ menu[n] \in Songs /\ (n < Len(list)) \in BOOLEAN
          /\ (menu # list) \in BOOLEAN
      BY ElementOfSeq DEF MenuTypes, Places
    <3>2. overlay' \in SongMenus
      BY <2>3, <3>1 DEF OpenSongMenu, SongMenus
    <3>3. MenuTypes'
      BY <2>3, <3>2 DEF OpenSongMenu, MenuTypes, RequestTypes
    <3>4. MenuMeansItsSong'
      BY <2>3 DEF OpenSongMenu
    <3> QED BY <2>3, <3>3, <3>4 DEF OpenSongMenu, RequestTypes
  <2>4. CASE AddSongs
    BY <1>0, <2>4 DEF AddSongs, MenuTypes, RequestTypes
  <2>5. CASE ShuffleList
    <3>1. list' \in Seq(Songs)
      BY <1>0, <2>5, ShuffledIsList DEF ShuffleList
    <3> QED BY <2>5, <3>1 DEF ShuffleList, MenuTypes, RequestTypes
  <2>6. CASE ClearAndExit
    BY <1>0, <2>6 DEF ClearAndExit, MenuTypes, RequestTypes
  <2>7. CASE PlayFirst
    <3>1. list' \in Seq(Songs)
      BY <1>0, <2>7, RemovedIsList DEF PlayFirst
    <3> QED BY <1>0, <2>7, <3>1 DEF PlayFirst, MenuTypes, RequestTypes
  <2>8. CASE RemoveSong
    <3>1. overlay.n \in Int /\ Len(list) \in Nat /\ 1 <= overlay.n
      BY <1>0, <2>8 DEF RemoveSong, MenuTypes, SongMenus, Places
    <3>2. list' \in Seq(Songs)
      <4>1. CASE overlay.n > Len(list)
        BY <1>0, <2>8, <4>1 DEF RemoveSong
      <4>2. CASE overlay.n <= Len(list)
        BY <1>0, <2>8, <3>1, <4>2, RemovedIsList DEF RemoveSong
      <4> QED BY <3>1, <4>1, <4>2
    <3>3. MenuTypes'
      BY <2>8, <3>2 DEF RemoveSong, MenuTypes, RequestTypes
    <3> QED BY <1>0, <2>8, <3>3 DEF RemoveSong, RequestTypes
  <2>9. CASE MoveUpOrDown
    <3>1. PICK i, j \in Places : MoveSong(i, j)
      BY <1>0, <2>9 DEF MoveUpOrDown, MenuTypes, SongMenus, Places
    <3>2. list' \in Seq(Songs)
      <4>1. CASE i > Len(list) \/ j > Len(list)
        BY <1>0, <3>1, <4>1 DEF MoveSong
      <4>2. CASE i \in 1 .. Len(list) /\ j \in 1 .. Len(list)
        <5>1. Swapped(list, i, j) \in Seq(Songs)
          BY <1>0, <4>2, SwappedIsList
        <5> QED BY <1>0, <3>1, <5>1 DEF MoveSong
      <4> QED BY <1>0, <4>1, <4>2 DEF Places
    <3>3. UNCHANGED <<current, web, phase>> /\ menu' = list' /\ overlay' = [kind |-> "closed"]
      BY <2>9 DEF MoveUpOrDown, MoveSong
    <3> QED BY <3>2, <3>3 DEF MenuTypes, RequestTypes
  <2> QED BY <1>8, <2>1, <2>2, <2>3, <2>4, <2>5, <2>6, <2>7, <2>8, <2>9 DEF PressPlaylist
<1>9. CASE Plays \/ TimesOut
  BY <1>9 DEF Plays, TimesOut, MenuTypes, RequestTypes
<1>10. CASE \E s \in Songs \ Broken : AddRequest(s)
  <2>1. PICK s \in Songs : AddRequest(s)
    BY <1>10
  <2>2. MenuTypes' /\ MenuMeansItsSong'
    BY <2>1, SongAdded DEF AddRequest, WebStep
  <2> QED BY <2>1, <2>2 DEF AddRequest, WebStep, RequestTypes
<1>11. CASE Request
  <2>1. PICK i, j \in DOMAIN list :
               web' \in {[stage |-> "apply", op |-> "remove", index |-> i],
                        [stage |-> "apply", op |-> "move", index |-> i, position |-> j]}
    BY <1>11 DEF Request
  <2>2. i \in Places /\ j \in Places
    BY <1>0 DEF Places
  <2>3. web' \in Requests
    BY <2>1, <2>2 DEF Requests
  <2>4. /\ UNCHANGED <<current, newScreen, menu, overlay, needsUpdate, list, phase, undefined>>
        /\ web.stage = "idle"
    BY <1>11 DEF Request, WebStep, StartRequest, Idle
  <2> QED BY <2>3, <2>4 DEF MenuTypes, RequestTypes
<1>12. CASE Apply
  <2>1. list' \in Seq(Songs)
    <3>0. web \in Requests /\ Len(list) \in Nat
      BY <1>0, <1>12 DEF Apply, RequestTypes, Idle
    <3>1. CASE web.op = "remove" /\ web.index <= Len(list)
      <4>1. web.index \in 1 .. Len(list)
        BY <3>0, <3>1 DEF Requests, Places
      <4> QED BY <1>0, <1>12, <3>1, <4>1, RemovedIsList DEF Apply
    <3>2. CASE web.op = "move" /\ web.index <= Len(list) /\ web.position <= Len(list)
      <4>1. web.index \in 1 .. Len(list) /\ web.position \in 1 .. Len(list)
        BY <3>0, <3>2 DEF Requests, Places
      <4>2. Moved(list, web.index, web.position) \in Seq(Songs)
        BY <1>0, <4>1, MovedIsList
      <4> QED BY <1>0, <1>12, <3>2, <4>2 DEF Apply
    <3>3. CASE undefined'
      BY <1>0, <1>12, <3>3 DEF Apply
    <3>4. \/ web.op = "remove" /\ (undefined' \/ ~(web.index > Len(list)))
          \/ web.op = "move" /\ (undefined' \/ ~(web.index > Len(list) \/ web.position > Len(list)))
      BY <1>12, Zenon DEF Apply
    <3>5. web.index \in Nat /\ (web.op = "move" => web.position \in Nat)
      BY <3>0 DEF Requests, Places
    <3> QED BY <3>0, <3>1, <3>2, <3>3, <3>4, <3>5
  <2>2. /\ UNCHANGED <<current, newScreen, menu, needsUpdate, phase>>
        /\ web' = [stage |-> "trigger"]
    BY <1>12 DEF Apply, WebStep
  <2>4. overlay' \in {Closed, [kind |-> "esc"], [kind |-> "empty"]} \cup SongMenus
        /\ (overlay'.kind = "song" => overlay'.disturbed)
        /\ (overlay' # Closed => overlay # Closed)
    <3>1. CASE overlay \in SongMenus
      <4>1. overlay.kind = "song" /\ [overlay EXCEPT !.disturbed = TRUE] \in SongMenus
            /\ [overlay EXCEPT !.disturbed = TRUE].disturbed
        BY <3>1 DEF SongMenus
      <4> QED BY <1>12, <3>1, <4>1 DEF Apply, Disturb, SongMenus
    <3>2. CASE overlay.kind # "song" /\ overlay' = overlay
      BY <3>2 DEF MenuTypes
    <3> QED BY <1>12, <3>1, <3>2 DEF Apply, Disturb, MenuTypes
  <2> QED BY <2>1, <2>2, <2>4 DEF MenuTypes, RequestTypes
<1>13. CASE Trigger
  BY <1>13 DEF Trigger, WebStep, MenuTypes, RequestTypes
<1>14. CASE UNCHANGED vars
  BY <1>14 DEF vars, MenuTypes, RequestTypes
<1> QED BY <1>1, <1>2, <1>3, <1>4, <1>5, <1>6, <1>7, <1>8, <1>9, <1>10, <1>11, <1>12, <1>13, <1>14
        DEF Next, Frame, Draw, Key, WebServer

LEMMA InitialMenus == Init => MenusInv
<1>1. <<>> \in Seq(Songs)
  OBVIOUS
<1> QED BY <1>1 DEF Init, MenusInv, MenuTypes, RequestTypes, Closed, Idle, MenusAreTrue,
                    MenuUpToDate, MenuMeansItsSong

(* What the menus say of the playlist is so: the songs that are listed,    *)
(* unless the list is about to be made again, and the song that an open    *)
(* menu acts on, unless a request has moved it (createPlaylistMenu,        *)
(* createSongMenu).                                                        *)
THEOREM MenusStayTrue == Spec => []MenusAreTrue
<1>1. Init => MenusInv
  BY InitialMenus
<1>2. MenusInv /\ [Next]_vars => MenusInv'
  BY MenusStep
<1>3. MenusInv => MenusAreTrue
  BY DEF MenusInv
<1> QED BY <1>1, <1>2, <1>3, PTL DEF Spec

-----------------------------------------------------------------------------
(* Scores and the song they are of.                                        *)

(* The scores of one song.                                                 *)
LEMMA ScoresOfOneSong ==
  ASSUME song \in Songs \cup {NoSong}, NEW s \in SongScores
  PROVE  s \in Seq([song : Songs \cup {NoSong}, reached : BOOLEAN])
         /\ \A i \in 1 .. Len(s) : s[i].song = song
<1>1. PICK n \in 0 .. MaxScores : s \in [1 .. n -> [song : {song}, reached : BOOLEAN]]
  BY DEF SongScores
<1>2. ASSUME NEW i \in 1 .. n
      PROVE  s[i] \in [song : Songs \cup {NoSong}, reached : BOOLEAN] /\ s[i].song = song
  BY <1>1
<1>3. n \in Nat /\ s = [i \in 1 .. n |-> s[i]]
  BY <1>1
<1>4. s \in Seq([song : Songs \cup {NoSong}, reached : BOOLEAN]) /\ Len(s) = n
  BY <1>1, <1>2, <1>3, IsASeq
<1> QED BY <1>2, <1>4

(* The score of one player is taken from the front.                        *)
LEMMA FrontScoreTaken ==
  ASSUME ScoreTypes, scores # <<>>, NEW s, ScoresOf(s), scores' = Tail(scores)
  PROVE  ScoreTypes' /\ \A i \in 1 .. Len(scores') : scores'[i].song = s
<1>1. /\ scores' \in Seq([song : Songs \cup {NoSong}, reached : BOOLEAN])
      /\ Len(scores') = Len(scores) - 1 /\ Len(scores) \in Nat
      /\ \A i \in 1 .. Len(scores) - 1 : scores'[i] = scores[i + 1]
  BY HeadTailProperties DEF ScoreTypes
<1> QED BY <1>1 DEF ScoreTypes, ScoresOf

LEMMA ScoresStep ==
  ASSUME list \in Seq(Songs), ScoresInv, [Next]_vars
  PROVE  ScoresInv'
<1> USE DEF ScoresInv
<1>0. /\ None # "Players" /\ None # "Sing"
      /\ \A i \in DOMAIN list : list[i] \in Songs
      /\ list # <<>> => Head(list) \in Songs
  BY FlowAssumption, ElementOfSeq DEF Screens
<1>1. CASE UpdateScreen
  BY <1>0, <1>1 DEF UpdateScreen, EnterQuietly, EnterPlaylist, EnterSing, EnterPlayers,
                    NotSinging, ScoreTypes, ScoresOf
<1>2. CASE DrawPlain \/ DrawPlaylist \/ Rebuild \/ Rebuilt \/ TakeNext \/ DrawPlayers \/ SingFirst
  <2>1. /\ UNCHANGED <<current, window, scores, playersSong>>
        /\ song' \in Songs \cup {NoSong} /\ (current = "Sing" => song' = song)
    BY <1>0, <1>2 DEF DrawPlain, DrawPlaylist, Rebuild, Rebuilt, TakeNext, DrawPlayers,
                      SingFirst, FrameStep, KeepScreens
  <2>2. /\ newScreen' \in {newScreen, "Sing", "Playlist"}
        /\ phase' \in {"added", "drawNext", "pressNext"} => current # "Sing"
    BY <1>2 DEF DrawPlain, DrawPlaylist, Rebuild, Rebuilt, TakeNext, DrawPlayers,
                SingFirst, FrameStep, KeepScreens
  <2> QED BY <2>1, <2>2 DEF ScoreTypes, ScoresOf
<1>3. CASE DrawSing
  <2>1. /\ current = "Sing" /\ current' = current /\ song' = song /\ phase' = "events"
    BY <1>3 DEF DrawSing, FrameStep
  <2>2. CASE window /\ ActivateNextScreen /\ UNCHANGED <<window, scores>>
    BY <2>1, <2>2 DEF ActivateNextScreen, ScoreTypes, ScoresOf
  <2>3. CASE ~window /\ UNCHANGED <<newScreen, playersSong>> /\ \E s \in SongScores : OpenWindow(s)
    BY <2>1, <2>3, ScoresOfOneSong DEF OpenWindow, ScoreTypes, ScoresOf
  <2>4. CASE newScreen' \in {newScreen, "Playlist"} /\ UNCHANGED <<window, scores, playersSong>>
    BY <2>1, <2>4 DEF ScoreTypes, ScoresOf
  <2> QED BY <1>3, <2>2, <2>3, <2>4 DEF DrawSing
<1>4. CASE \/ PressIntro \/ PressSongs \/ PressPlaylist
           \/ \E s \in Songs : ChooseSong(s) \/ PlaySong(s)
  <2>1. /\ current # "Sing" /\ UNCHANGED <<current, window, scores, playersSong>>
    BY <1>4 DEF PressIntro, PressSongs, ChooseSong, PlaySong, PressPlaylist, PressPause,
                PressCancel, OpenSongMenu, Continue, AddSongs, ShuffleList, ClearAndExit,
                PlayFirst, RemoveSong, MoveUpOrDown, PlaylistKey, Press, KeepScreens
  <2>2. newScreen' \in {newScreen, "Intro", "Songs", "Sing", "Playlist"}
    BY <1>4 DEF PressIntro, PressSongs, ChooseSong, PlaySong, PressPlaylist, PressPause,
                PressCancel, OpenSongMenu, Continue, AddSongs, ShuffleList, ClearAndExit,
                PlayFirst, RemoveSong, MoveUpOrDown, KeepScreens
  <2>3. song' \in Songs \cup {NoSong}
    BY <1>0, <1>4 DEF PressIntro, PressSongs, ChooseSong, PlaySong, PressPlaylist, PressPause,
                PressCancel, OpenSongMenu, Continue, AddSongs, ShuffleList, ClearAndExit,
                PlayFirst, RemoveSong, MoveUpOrDown, KeepScreens
  <2> QED BY <2>1, <2>2, <2>3 DEF ScoreTypes, ScoresOf
<1>5. CASE PressSing
  <2>1. current = "Sing" /\ UNCHANGED <<current, phase, song>>
    BY <1>5 DEF PressSing, LeaveWindow, CancelEarly, PauseSong, SingMenuStart, ShowScores,
                SingKey, Press
  <2>2. CASE LeaveWindow
    BY <2>1, <2>2 DEF LeaveWindow, ActivateNextScreen, ScoreTypes, ScoresOf
  <2>3. CASE CancelEarly \/ PauseSong \/ SingMenuStart
    <3>1. /\ UNCHANGED <<window, scores, playersSong>> /\ ~window
      BY <2>3 DEF CancelEarly, PauseSong, SingMenuStart
    <3> QED BY <2>1, <2>3, <3>1 DEF CancelEarly, PauseSong, SingMenuStart, ScoreTypes, ScoresOf
  <2>4. CASE ShowScores
    BY <2>1, <2>4, ScoresOfOneSong DEF ShowScores, ScoreTypes, ScoresOf
  <2> QED BY <1>5, <2>2, <2>3, <2>4 DEF PressSing
<1>6. CASE PressPlayers
  <2>1. /\ current = "Players" /\ UNCHANGED <<current, phase, song, window, playersSong>>
        /\ newScreen' \in {newScreen, "Playlist", "Songs"}
    BY <1>6 DEF PressPlayers, AddHiscore, PlayersKey, Press
  <2>2. CASE scores' = scores
    BY <2>1, <2>2 DEF ScoreTypes, ScoresOf
  <2>3. CASE scores # <<>> /\ scores' = Tail(scores)
    <3>1. ScoreTypes' /\ ScoresOf(playersSong)'
      BY <2>1, <2>3, FrontScoreTaken DEF ScoresOf
    <3> QED BY <2>1, <3>1
  <2> QED BY <1>6, <2>2, <2>3 DEF PressPlayers, AddHiscore
<1>7. CASE Plays \/ TimesOut
  BY <1>7 DEF Plays, TimesOut, ScoreTypes, ScoresOf
<1>8. CASE WebServer
  BY <1>8 DEF WebServer, AddRequest, Request, Apply, Trigger, WebStep, ScoreTypes, ScoresOf
<1>9. CASE UNCHANGED vars
  BY <1>9 DEF vars, ScoreTypes, ScoresOf
<1> QED BY <1>1, <1>2, <1>3, <1>4, <1>5, <1>6, <1>7, <1>8, <1>9 DEF Next, Frame, Draw, Key

-----------------------------------------------------------------------------
(* The song that was taken.                                                *)

(* The only key press of a frame comes after a song was taken only if the  *)
(* frame took it, and then there is no menu to choose anything in.         *)
LEMMA OnePress ==
  ASSUME PressesPerFrame <= 1, TakesInv, NEW screen, Press(screen)
  PROVE  /\ presses' = 1 /\ presses' \in Nat /\ phase = "events"
         /\ current = screen /\ current' = current
         /\ newScreen = "Sing" => current = "Playlist" /\ overlay = Closed
<1>1. PressesPerFrame \in Nat
  BY FlowAssumption
<1>2. presses = 0
  BY <1>1 DEF TakesInv, Press
<1> QED BY <1>2 DEF TakesInv, Press

LEMMA TakesStep ==
  ASSUME PressesPerFrame <= 1, TakesInv, [Next]_vars
  PROVE  TakesInv'
<1>0. None # "Sing"
  BY FlowAssumption DEF Screens
<1>00. presses \in Nat /\ 1 >= 1 /\ 1 \in Nat
  BY DEF TakesInv
<1>1. CASE UpdateScreen
  <2>1. presses' = 0 /\ phase = "events" /\ phase' = "draw" /\ presses' \in Nat
    BY <1>1 DEF UpdateScreen
  <2>2. CASE newScreen = None /\ UNCHANGED <<current, newScreen, overlay, keyPressed>>
    BY <1>0, <2>1, <2>2 DEF TakesInv
  <2>3. CASE newScreen' \in {None, "Songs", "Playlist"} /\ overlay' = Closed /\ keyPressed' = FALSE
    BY <1>0, <2>1, <2>3 DEF TakesInv
  <2> QED BY <1>1, <2>2, <2>3
          DEF UpdateScreen, EnterQuietly, EnterPlaylist, EnterSing, EnterPlayers
<1>2. CASE DrawPlain \/ DrawPlaylist \/ Rebuild \/ Rebuilt \/ TakeNext \/ DrawPlayers \/ SingFirst
  BY <1>0, <1>2 DEF TakesInv, DrawPlain, DrawPlaylist, Rebuild, Rebuilt, TakeNext, DrawPlayers,
                    SingFirst, FrameStep, KeepScreens
<1>3. CASE DrawSing
  BY <1>0, <1>3 DEF TakesInv, DrawSing, FrameStep, ActivateNextScreen, OpenWindow
<1>4. CASE PressIntro \/ PressSongs \/ \E s \in Songs : ChooseSong(s) \/ PlaySong(s)
  <2>1. PICK screen \in {"Intro", "Songs"} : Press(screen)
    BY <1>4 DEF PressIntro, PressSongs, ChooseSong, PlaySong
  <2>2. newScreen # "Sing" /\ newScreen' # "Sing" /\ UNCHANGED <<keyPressed, overlay>>
        /\ phase' \in {"events", "added", "pressNext"}
    BY <1>4, <2>1, OnePress DEF PressIntro, PressSongs, ChooseSong, PlaySong, KeepScreens
  <2> QED BY <2>1, <2>2, <1>00, OnePress DEF TakesInv
<1>5. CASE PressPlaylist
  <2>1. PlaylistKey
    BY <1>5 DEF PressPlaylist, PressPause, PressCancel, OpenSongMenu, Continue, AddSongs,
                ShuffleList, ClearAndExit, PlayFirst, RemoveSong, MoveUpOrDown
  <2>2. /\ presses' = 1 /\ phase = "events" /\ current = "Playlist" /\ current' = current
        /\ newScreen = "Sing" => overlay = Closed
    BY <2>1, OnePress DEF PlaylistKey
  <2>3. \/ phase' = "events"
        \/ phase' = "pressNext" /\ overlay # Closed /\ newScreen' = newScreen
    <3>1. phase' = phase \/ Continue
      BY <1>5 DEF PressPlaylist, PressPause, PressCancel, OpenSongMenu, AddSongs, ShuffleList,
                  ClearAndExit, PlayFirst, RemoveSong, MoveUpOrDown
    <3> QED BY <2>2, <3>1 DEF Continue, Closed
  <2> QED BY <2>1, <2>2, <2>3, <1>00 DEF TakesInv, PlaylistKey
<1>6. CASE PressSing
  <2>1. Press("Sing") /\ keyPressed' = TRUE /\ UNCHANGED <<phase, overlay>>
    BY <1>6 DEF PressSing, LeaveWindow, CancelEarly, PauseSong, SingMenuStart, ShowScores, SingKey
  <2> QED BY <2>1, <1>00, OnePress DEF TakesInv
<1>7. CASE PressPlayers
  <2>1. Press("Players") /\ keyPressed' = TRUE /\ UNCHANGED <<phase, overlay>>
    BY <1>7 DEF PressPlayers, AddHiscore, PlayersKey
  <2> QED BY <2>1, <1>00, OnePress DEF TakesInv
<1>8. CASE Plays \/ TimesOut
  BY <1>8 DEF TakesInv, Plays, TimesOut
<1>9. CASE WebServer
  BY <1>9 DEF TakesInv, WebServer, AddRequest, Request, Apply, Trigger, WebStep, Disturb, Closed
<1>10. CASE UNCHANGED vars
  BY <1>10 DEF TakesInv, vars
<1> QED BY <1>1, <1>2, <1>3, <1>4, <1>5, <1>6, <1>7, <1>8, <1>9, <1>10 DEF Next, Frame, Draw, Key

(* The hiscores that ScreenPlayers hands out are all of the song it saves  *)
(* them for, never of a song sung before.                                  *)
THEOREM HiscoresAreOfTheSongSung == Spec => []HiscoresOfTheSongSung
<1>1. Init => ScoresInv
  <2>1. <<>> \in Seq([song : Songs \cup {NoSong}, reached : BOOLEAN])
    OBVIOUS
  <2>2. None # "Players"
    BY FlowAssumption DEF Screens
  <2> QED BY <2>1, <2>2 DEF Init, ScoresInv, ScoreTypes, ScoresOf
<1>2. Spec => []MenusInv
  <2>1. Init => MenusInv
    BY InitialMenus
  <2>2. MenusInv /\ [Next]_vars => MenusInv'
    BY MenusStep
  <2> QED BY <2>1, <2>2, PTL DEF Spec
<1>3. MenusInv /\ ScoresInv /\ [Next]_vars => ScoresInv'
  BY ScoresStep DEF MenusInv, MenuTypes
<1>4. ScoresInv => HiscoresOfTheSongSung
  BY DEF ScoresInv, ScoreTypes, ScoresOf, HiscoresOfTheSongSung
<1> QED BY <1>1, <1>2, <1>3, <1>4, PTL DEF Spec

(* If no frame takes two key presses, a song that was taken from the       *)
(* playlist is sung: until ScreenSing is entered nothing puts another song *)
(* or another screen in its place.  With two presses that is not so.       *)
THEOREM TheSongTakenIsSung ==
  ASSUME PressesPerFrame <= 1
  PROVE  Spec => NoSongSkipped
<1> DEFINE Kept == newScreen = "Sing" /\ ~undefined' =>
                     song' = song /\ "Sing" \in {newScreen', current'}
<1>1. Init => TakesInv
  <2>1. None # "Sing" /\ 0 \in Nat
    BY FlowAssumption DEF Screens
  <2> QED BY <2>1 DEF Init, TakesInv
<1>2. TakesInv /\ [Next]_vars => TakesInv'
  BY TakesStep
<1>3. ASSUME TakesInv, [Next]_vars, newScreen = "Sing"
      PROVE  song' = song /\ "Sing" \in {newScreen', current'}
  <2>1. CASE UpdateScreen
    BY <1>3, <2>1, FlowAssumption
       DEF UpdateScreen, EnterQuietly, EnterPlaylist, EnterSing, EnterPlayers, Screens
  <2>2. CASE Rebuild \/ Rebuilt \/ Plays \/ TimesOut \/ WebServer \/ UNCHANGED vars
    BY <1>3, <2>2 DEF Rebuild, Rebuilt, FrameStep, Plays, TimesOut, WebServer, AddRequest,
                      Request, Apply, Trigger, WebStep, vars
  <2>3. CASE DrawPlain \/ DrawPlaylist \/ TakeNext \/ DrawSing \/ DrawPlayers \/ SingFirst
    BY <1>3, <2>3 DEF TakesInv, DrawPlain, DrawPlaylist, TakeNext, DrawSing, DrawPlayers, SingFirst
  <2>4. CASE Key
    <3>1. PICK screen : Press(screen)
      BY <2>4 DEF Key, PressIntro, PressSongs, ChooseSong, PlaySong, PressSing, LeaveWindow,
                  CancelEarly, PauseSong, SingMenuStart, ShowScores, SingKey, PressPlayers,
                  AddHiscore, PlayersKey, PressPlaylist, PressPause, PressCancel, OpenSongMenu,
                  Continue, AddSongs, ShuffleList, ClearAndExit, PlayFirst, RemoveSong,
                  MoveUpOrDown, PlaylistKey
    <3>2. current = "Playlist" /\ overlay = Closed
      BY <1>3, <3>1, OnePress
    <3>3. PressPause \/ PressCancel \/ \E n \in DOMAIN menu : OpenSongMenu(n)
      BY <2>4, <3>2
         DEF Key, PressIntro, PressSongs, ChooseSong, PlaySong, PressSing, LeaveWindow,
             CancelEarly, PauseSong, SingMenuStart, ShowScores, SingKey, PressPlayers,
             AddHiscore, PlayersKey, PressPlaylist, Continue, AddSongs, ShuffleList,
             ClearAndExit, PlayFirst, RemoveSong, MoveUpOrDown, Press, Closed
    <3> QED BY <1>3, <3>3 DEF PressPause, PressCancel, OpenSongMenu
  <2> QED BY <1>3, <2>1, <2>2, <2>3, <2>4 DEF Next, Frame, Draw
<1>4. TakesInv /\ [Next]_vars => [Kept]_vars
  BY <1>3
<1> QED BY <1>1, <1>2, <1>4, PTL DEF Spec, NoSongSkipped

=============================================================================
