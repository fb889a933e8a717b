------------------------------- MODULE Records -------------------------------
(***************************************************************************)
(* The database of players, songs and hiscores (database.cc, players.cc,   *)
(* songitems.cc, hiscore.cc), filled by the songs that are found and sung  *)
(* and by the hiscore screen (screen_players.cc), written to a temporary   *)
(* file that is renamed, and read again when the game starts.              *)
(*                                                                         *)
(* A file is [players, songs, hiscores], three sequences of entries as     *)
(* they stand in it; an entry that is Bad makes load() throw.  A Song is a *)
(* model value with a title, which stands for artist and title.            *)
(***************************************************************************)
EXTENDS Integers, Sequences, FiniteSets, SequencesExt, FiniteSetsExt

CONSTANTS
  SongObjects, Title,     (* the Songs, and Title[s]                       *)
  Names, Includes,        (* names of players; <<a, b>>: a includes b      *)
  Levels, Minimums,       (* game/difficulty, game/highscore_minimum       *)
  MaximumScorePoints, MaximumStoredScores,
  ScoreLists,             (* bound: what ScoreWindow leaves in scores      *)
  Files,                  (* bound: the files there are at first           *)
  MaxChanges              (* bound: games, songs, names typed, settings    *)

NoDatabase == [players |-> <<>>, songs |-> <<>>, hiscores |-> <<>>]
Bad == [bad |-> TRUE]
NoId == -1          (* no id, or one that is no number                     *)
NoSong == "no Song"

PlayerEntries == [id : Nat \cup {NoId}, name : STRING]
SongEntries == [id : Nat, title : STRING, broken : BOOLEAN]
HiscoreEntries == [score : Nat, playerid : Nat, songid : Nat, level : Nat, track : STRING]

(* A name is found when it is searched for in full.                        *)
ASSUME RecordsAssumption ==
  /\ MaximumScorePoints \in Nat /\ MaximumStoredScores \in Nat \ {0} /\ MaxChanges \in Nat
  /\ NoSong \notin SongObjects /\ Title \in [SongObjects -> STRING]
  /\ Names \cup {""} \subseteq STRING /\ \A n \in Names : <<n, n>> \in Includes
  /\ Levels \subseteq Nat /\ Levels # {} /\ Minimums \subseteq Nat /\ Minimums # {}
  /\ \A list \in ScoreLists : list \in Seq([score : Nat, track : STRING])
  /\ \A f \in Files : /\ f.players \in Seq(PlayerEntries \cup {Bad})
                       /\ f.songs \in Seq(SongEntries \cup {Bad})
                       /\ f.hiscores \in Seq(HiscoreEntries \cup {Bad})

VARIABLES
  up, level, minimum,             (* the game, and its settings            *)
  players,                        (* Players                               *)
  songs, hiscores,                (* SongItems; Hiscore, best score first  *)
  broken,                         (* Songs that are marked as broken       *)
  scores, song, search, shown,    (* Database::scores, ScreenPlayers       *)
  file, besides, savingDb,        (* the file, the one beside it, save()   *)
  changes,
  saved,                          (* history: the last file that was whole *)
  given, session                  (* history: hiscores given to names, all *)
                                  (* and since the start of the game       *)

settingsVars == <<level, minimum>>
dbVars == <<players, songs, hiscores, broken>>
screenVars == <<scores, song, search, shown>>
databaseVars == <<file, besides, savingDb, saved>>
history == <<given, session>>
recordsVars == <<up, settingsVars, dbVars, screenVars, databaseVars, changes, history>>

-----------------------------------------------------------------------------
(* Sets of items with an id, by which they are sorted.                     *)

ById(items) ==
  [k \in 1 .. Cardinality(items) |->
     CHOOSE i \in items : Cardinality({j \in items : j.id < i.id}) = k - 1]
MaxId(items) == Max({i.id : i \in items})
HasId(items, id) == \E i \in items : i.id = id
Insert(items, item) == IF HasId(items, item.id) THEN items ELSE items \cup {item}

(* Players::addPlayer: a player without an id, or with that of another,    *)
(* gets a new one.                                                         *)
AssignPlayerId(all) == IF all # {} /\ MaxId(all) # 0 THEN MaxId(all) + 1 ELSE 0
AddPlayer(all, name, id) ==
  LET wanted == IF id = NoId THEN AssignPlayerId(all) ELSE id
  IN  Insert(all, [id |-> IF HasId(all, wanted) THEN AssignPlayerId(all) ELSE wanted, name |-> name])

(* The player that is selected, and lookup() by name.                      *)
Current(p) == IF p.target < Len(p.filtered) THEN p.filtered[p.target + 1].name ELSE ""
(* Mutant: the place in the list taken for the id.                         *)
WrongPlayerIds(p, name) == {p.target}
PlayerIds(p, name) == {q.id : q \in {r \in p.all : r.name = name}}

(* The players whose names match; the selected one stays selected.         *)
FilterInternal(p, text) ==
  LET matching == ById({q \in p.all : text = "" \/ <<q.name, text>> \in Includes})
      same == {i \in DOMAIN matching : matching[i].name = Current(p)}
  IN  [p EXCEPT !.filter = text, !.dirty = FALSE, !.filtered = matching,
                !.target = IF Current(p) = "" \/ same = {} THEN 0 ELSE Min(same) - 1]
SetFilter(p, text) == IF p.filter = text THEN p ELSE FilterInternal(p, text)
Update(p) == IF p.dirty THEN FilterInternal(p, p.filter) ELSE p

(* SongItems::addSongItem, and lookup() of a Song by its title.            *)
AssignSongId(items) == IF items = {} THEN 0 ELSE MaxId(items) + 1
AddSongItem(items, title, isBroken, id) ==
  LET wanted == IF id = NoId THEN AssignSongId(items) ELSE id
  IN  Insert(items, [id |-> IF HasId(items, wanted) THEN AssignSongId(items) ELSE wanted,
                     title |-> title, broken |-> isBroken, song |-> NoSong])
SongIds(items, s) == {i.id : i \in {j \in items : j.title = Title[s]}}
SongId(items, s) == Min(SongIds(items, s))
IsBroken(item) == IF item.song = NoSong THEN item.broken ELSE item.song \in broken

(* SongItems::addSong: the item of the title is linked to this Song.       *)
AddSong(s) ==
  LET items == IF SongIds(songs, s) = {} THEN AddSongItem(songs, Title[s], FALSE, NoId) ELSE songs
      item == CHOOSE i \in items : i.id = SongId(items, s)
  IN  /\ songs' = (items \ {item}) \cup {[item EXCEPT !.broken = IsBroken(item), !.song = s]}
      /\ broken' = IF IsBroken(item) THEN broken \cup {s} ELSE broken \ {s}

-----------------------------------------------------------------------------
(* Hiscores.                                                               *)

(* reachedHiscore(): the list of the song, level and track is searched for *)
(* a lower score, so far as scores are stored.                             *)
OwnPlaces(list, h) ==
  {i \in DOMAIN list :
     list[i].songid = h.songid /\ list[i].level = h.level /\ list[i].track = h.track}
NotBelow(list, h) == {i \in DOMAIN list : list[i].score >= h.score}
(* Mutant: one more is stored.                                             *)
WrongReached(list, h, least) ==
  h.score >= least /\ Cardinality(OwnPlaces(list, h) \cap NotBelow(list, h)) <= MaximumStoredScores
Reached(list, h, least) ==
  h.score >= least /\ Cardinality(OwnPlaces(list, h) \cap NotBelow(list, h)) < MaximumStoredScores

(* A multiset: behind those of the same score.                             *)
AddHiscore(list, h, least) ==
  IF ~Reached(list, h, least) THEN list
  ELSE InsertAt(list, Cardinality(NotBelow(list, h)) + 1, h)

Entry(items, s, playerid, first) ==
  [score |-> first.score, playerid |-> playerid, songid |-> SongId(items, s),
   level |-> level, track |-> first.track]

(* What the browser lists of a song (their places in the list), and what   *)
(* it sorts a Song by.                                                     *)
QueryHiscore(id) == {k \in DOMAIN hiscores : hiscores[k].songid = id /\ hiscores[k].level = level}
GetHiscore(s) ==
  LET linked == {i \in songs : i.song = s}
      own == QueryHiscore((CHOOSE i \in linked : TRUE).id)
  IN  IF linked = {} \/ own = {} THEN 0 ELSE hiscores[Min(own)].score

-----------------------------------------------------------------------------
(* Reading and writing the file: what follows an entry that is Bad is not  *)
(* read any more.                                                          *)

GoodPart(entries) ==
  IF Contains(entries, Bad) THEN SubSeq(entries, 1, SelectInSeq(entries, LAMBDA e : e = Bad) - 1)
  ELSE entries
AllGood(entries) == GoodPart(entries) = entries

LoadPlayers(f) == FoldLeft(LAMBDA all, e : AddPlayer(all, e.name, e.id), {}, GoodPart(f.players))
LoadSongs(f) ==
  IF ~AllGood(f.players) THEN {}
  ELSE FoldLeft(LAMBDA items, e : AddSongItem(items, e.title, e.broken, e.id), {}, GoodPart(f.songs))
LoadHiscores(f, least) ==
  IF ~AllGood(f.players) \/ ~AllGood(f.songs) THEN <<>>
  ELSE FoldLeft(LAMBDA list, e : AddHiscore(list, e, least), <<>>, GoodPart(f.hiscores))

LoadedPlayers(f) ==
  [all |-> LoadPlayers(f), filter |-> "", target |-> 0, dirty |-> ~AllGood(f.players),
   filtered |-> IF AllGood(f.players) THEN ById(LoadPlayers(f)) ELSE <<>>]

SongEntry(item) == [id |-> item.id, title |-> item.title, broken |-> IsBroken(item)]
Contents ==
  [players |-> ById(players.all), hiscores |-> hiscores,
   songs |-> [i \in DOMAIN ById(songs) |-> SongEntry(ById(songs)[i])]]

Change == changes < MaxChanges /\ changes' = changes + 1
OnScreen(s) == up /\ shown = s /\ savingDb = "no"

(* Memory is gone when the game ends.                                      *)
NoPlayers == [all |-> {}, filtered |-> <<>>, filter |-> "", target |-> 0, dirty |-> FALSE]
Gone ==
  /\ up' = FALSE /\ level' = Min(Levels) /\ minimum' = Min(Minimums)
  /\ players' = NoPlayers /\ songs' = {} /\ hiscores' = <<>> /\ broken' = {}
  /\ scores' = <<>> /\ song' = NoSong /\ search' = "" /\ shown' = "other" /\ session' = {}

(* The database is made; the settings may have been changed by hand.       *)
Launch ==
  /\ ~up /\ up' = TRUE /\ Change
  /\ level' \in Levels /\ minimum' \in Minimums
  /\ players' = LoadedPlayers(file)
  /\ songs' = LoadSongs(file) /\ broken' = {}
  /\ hiscores' = LoadHiscores(file, minimum')
  /\ scores' = <<>> /\ song' = NoSong /\ search' = "" /\ shown' = "other"
  /\ session' = {}
  /\ UNCHANGED <<databaseVars, given>>

(* save(), when the hiscore screen is left and at the end of the program:  *)
(* the document is written beside the file, which it then replaces; either *)
(* may fail.                                                               *)
WriteDatabase ==
  /\ besides' = Contents /\ savingDb' = IF shown = "left" THEN "screen" ELSE "end"
  /\ UNCHANGED <<file, saved>>
BeginSave ==
  /\ up /\ savingDb = "no" /\ WriteDatabase
  /\ UNCHANGED <<up, settingsVars, dbVars, screenVars, changes, history>>
EndSave ==
  /\ up /\ savingDb # "no" /\ savingDb' = "no"
  /\ \/ file' = besides /\ saved' = besides /\ besides' = NoDatabase
     \/ UNCHANGED <<file, saved, besides>>
  /\ IF savingDb = "end" THEN Gone
     ELSE shown' = "other" /\ UNCHANGED <<up, settingsVars, dbVars, scores, song, search, session>>
  /\ UNCHANGED <<changes, given>>

(* The program is killed.                                                  *)
Crash ==
  /\ up /\ Gone /\ savingDb' = "no"
  /\ UNCHANGED <<file, besides, saved, changes, given>>

-----------------------------------------------------------------------------
(* The songs that are found and sung, and the hiscore screen.              *)

ChangeSettings ==
  /\ OnScreen("other") /\ Change
  /\ level' \in Levels /\ minimum' \in Minimums
  /\ UNCHANGED <<up, dbVars, screenVars, databaseVars, history>>

(* The loader finds a Song.                                                *)
FindSong ==
  /\ OnScreen("other") /\ Change
  /\ \E s \in SongObjects : AddSong(s)
  /\ UNCHANGED <<up, settingsVars, players, hiscores, screenVars, databaseVars, history>>

(* "Exit to song browser and mark song broken".                            *)
Abort ==
  /\ OnScreen("other") /\ Change
  /\ \E s \in SongObjects : broken' = broken \cup {s}
  /\ UNCHANGED <<up, settingsVars, players, songs, hiscores, screenVars, databaseVars, history>>

(* ScreenSing is left, with the hiscore screen next if the first score is  *)
(* one; drawing that polls for new players.  More than MaximumScorePoints  *)
(* makes reachedHiscore() throw.                                           *)
Sing ==
  /\ OnScreen("other") /\ Change
  /\ \E s \in SongObjects, list \in ScoreLists :
       /\ AddSong(s)
       /\ scores' = list
       /\ IF /\ list # <<>> /\ Head(list).score <= MaximumScorePoints
             /\ Reached(hiscores, Entry(songs', s, NoId, Head(list)), minimum)
          THEN /\ shown' = "players" /\ song' = s /\ search' = ""
                  /\ players' = Update(SetFilter(players, ""))
          ELSE UNCHANGED <<shown, song, search, players>>
  /\ UNCHANGED <<up, settingsVars, hiscores, databaseVars, history>>

Unchanged == UNCHANGED <<up, settingsVars, songs, broken, databaseVars>>

Type ==
  /\ OnScreen("players") /\ Change
  /\ \E text \in Names : search' = text /\ players' = SetFilter(players, text)
  /\ Unchanged /\ UNCHANGED <<hiscores, scores, song, shown, history>>

Advance ==
  /\ OnScreen("players") /\ players.filtered # <<>>
  /\ players' = [players EXCEPT !.target = (@ + 1) % Len(players.filtered)]
  /\ Unchanged /\ UNCHANGED <<hiscores, screenVars, changes, history>>

(* START gives the first score to the selected player, or to a new one of  *)
(* the name that was typed if no name matches.                             *)
NewPlayer(p) ==
  IF p.filtered # <<>> THEN p
  ELSE Update(SetFilter([p EXCEPT !.all = AddPlayer(p.all, search, NoId), !.dirty = TRUE], search))

(* Who is to have the hiscore, unless the new player was lost.             *)
Meant(p) == IF players.filtered = <<>> /\ PlayerIds(p, search) # {} THEN search ELSE Current(p)

PressStart ==
  /\ OnScreen("players")
  /\ LET p == NewPlayer(players)
         ids == PlayerIds(p, Current(p))
         h == Entry(songs, song, Min(ids), Head(scores))
         list == IF ids = {} THEN hiscores ELSE AddHiscore(hiscores, h, minimum)
         more == /\ Tail(scores) # <<>>
                 /\ Reached(list, Entry(songs, song, NoId, Head(Tail(scores))), minimum)
         theirs == IF list = hiscores THEN {}
                   ELSE {[name |-> Meant(p), title |-> Title[song], score |-> h.score, level |-> level]}
     IN  /\ players' = IF more THEN SetFilter(p, "") ELSE p
         /\ hiscores' = list
         /\ search' = IF more THEN "" ELSE search
         /\ shown' = IF more THEN shown ELSE "left"
         /\ given' = given \cup theirs /\ session' = session \cup theirs
  /\ scores' = Tail(scores)
  /\ Unchanged /\ UNCHANGED <<song, changes>>

(* The time for the hiscore is over, or it is cancelled.                   *)
LeavePlayers ==
  /\ OnScreen("players") /\ shown' = "left"
  /\ Unchanged /\ UNCHANGED <<players, hiscores, scores, song, search, changes, history>>

-----------------------------------------------------------------------------
(* A hiscore as people read it.                                            *)
Read(h, all, items) ==
  [name |-> IF HasId(all, h.playerid) THEN (CHOOSE p \in all : p.id = h.playerid).name ELSE "unknown",
   title |-> IF HasId(items, h.songid) THEN (CHOOSE i \in items : i.id = h.songid).title ELSE "unknown",
   score |-> h.score, level |-> h.level]

(* A file as the program writes it.                                        *)
EachItsId(entries) == \A i, j \in DOMAIN entries : entries[i].id = entries[j].id => i = j
BestFirst(list) == \A i, j \in DOMAIN list : i < j => list[i].score >= list[j].score
OwnFile(f) ==
  /\ \A part \in {f.players, f.songs, f.hiscores} : AllGood(part)
  /\ \A i \in DOMAIN f.players : f.players[i].id # NoId
  /\ EachItsId(f.players) /\ EachItsId(f.songs) /\ BestFirst(f.hiscores)

RecordsInit ==
  /\ up = FALSE /\ level = Min(Levels) /\ minimum = Min(Minimums)
  /\ file \in Files /\ besides = NoDatabase /\ savingDb = "no"
  /\ players = NoPlayers
  /\ songs = {} /\ hiscores = <<>> /\ broken = {}
  /\ scores = <<>> /\ song = NoSong /\ search = "" /\ shown = "other"
  /\ changes = 0
  /\ saved = file
  /\ given = {Read(h, LoadPlayers(file), LoadSongs(file)) : h \in ToSet(GoodPart(file.hiscores))}
  /\ session = {}

RecordsNext ==
  \/ Launch \/ BeginSave \/ EndSave \/ Crash
  \/ ChangeSettings \/ FindSong \/ Abort \/ Sing
  \/ Type \/ Advance \/ PressStart \/ LeavePlayers

RecordsSpec == RecordsInit /\ [][RecordsNext]_recordsVars

-----------------------------------------------------------------------------
(* Properties.                                                             *)

(* Every hiscore is read as it was given: the player of its id is the one  *)
(* that was selected or made for it, and the song of its id the one sung,  *)
(* after any filtering, crashes and restarts, with a file that was cut     *)
(* short or has an id twice, and two Songs of one title.                   *)
HiscoresAreTheirs ==
  up => \A i \in DOMAIN hiscores : Read(hiscores[i], players.all, songs) \in given

(* What is loaded is what the last save that was completed has written,    *)
(* wherever the program was killed since: all players, all songs with      *)
(* their marks, and of the hiscores of each list the best that are not     *)
(* below the minimum.  A file it has not written is loaded like that if it *)
(* could have written it.                                                  *)
BestOf(list, least) ==
  LET better(i) == {j \in 1 .. i - 1 : j \in OwnPlaces(list, list[i])}
      kept(i) == list[i].score >= least /\ Cardinality(better(i)) < MaximumStoredScores
  IN  FoldLeft(LAMBDA best, i : IF kept(i) THEN Append(best, list[i]) ELSE best,
               <<>>, [i \in DOMAIN list |-> i])
IsLoaded(f) ==
  /\ players.all = ToSet(f.players)
  /\ {[id |-> i.id, title |-> i.title, broken |-> i.broken] : i \in songs} = ToSet(f.songs)
  /\ hiscores = BestOf(f.hiscores, minimum)
LaunchLoads == ~up /\ up' /\ (saved \in Files => OwnFile(saved)) => IsLoaded(saved)'
LoadsWhatWasSaved == [][LaunchLoads]_recordsVars

(* A hiscore of this game is shown with its song at the level set, and     *)
(* sorts the Song that was linked last at least that high.                 *)
HiscoresAreShown ==
  up => \A g \in session : g.level = level =>
    \E i \in songs :
      /\ i.title = g.title
      /\ \E k \in QueryHiscore(i.id) : Read(hiscores[k], players.all, songs) = g
      /\ i.song # NoSong => GetHiscore(i.song) >= g.score

(* A hiscore that was made is the right singer's and song's, and is found  *)
(* again where people look for it (addHiscore, queryHiscore).              *)
HiscoresKept == HiscoresAreTheirs /\ HiscoresAreShown

(* "add a player with a displayed name [...]; if no id is given one will   *)
(* be assigned" (players.hh): whoever types a new name is a player then.   *)
NewPlayerIsKept ==
  [][PressStart /\ players.filtered = <<>> => \E p \in players'.all : p.name = search]_recordsVars
=============================================================================
