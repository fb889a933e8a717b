------------------------------ MODULE MCSaved ------------------------------
(***************************************************************************)
(* What is on the disk from one start of the game to the next, in scenes   *)
(* that share nothing: the records, the settings, and the folders with the *)
(* log.                                                                    *)
(***************************************************************************)
EXTENDS Records, Settings, PathCache

VARIABLE scene

-----------------------------------------------------------------------------
(* Two Songs of one title and one of another; three names, one of which is *)
(* part of another; files the program has written and damaged ones.        *)
MCTitle == [s \in SongObjects |-> IF s = "s3" THEN "Y" ELSE "X"]
MCIncludes == {<<n, n>> : n \in Names} \cup {<<"Anna", "Ann">>}

Score(points) == [score |-> points, track |-> "vocals"]
MCScoreLists == {<<>>, <<Score(2), Score(1)>>, <<Score(5)>>}

Player(id, name) == [id |-> id, name |-> name]
Item(id, title) == [id |-> id, title |-> title, broken |-> FALSE]
InFile(score, playerid, songid, lvl) ==
  [score |-> score, playerid |-> playerid, songid |-> songid, level |-> lvl, track |-> "vocals"]

Good ==
  [players |-> <<Player(0, "Bob"), Player(3, "Anna")>>, songs |-> <<Item(0, "Y"), Item(1, "X")>>,
   hiscores |-> <<InFile(2, 3, 1, 0), InFile(1, 0, 1, 0), InFile(1, 3, 0, 1)>>]
FreshInstall == {NoDatabase}
MCFiles ==
  {NoDatabase, Good,
   [Good EXCEPT !.players = <<Player(3, "Bob"), Player(3, "Anna"), Player(NoId, "Ann")>>],
   [Good EXCEPT !.songs = <<Item(1, "Y"), Item(1, "X")>>],
   [Good EXCEPT !.players = <<Player(0, "Bob"), Bad>>],
   [Good EXCEPT !.songs = <<Item(0, "Y"), Bad, Item(1, "X")>>],
   [Good EXCEPT !.hiscores = <<InFile(2, 3, 1, 0), Bad, InFile(1, 0, 1, 0)>>]}

-----------------------------------------------------------------------------
(* Two languages, two audio systems, one set of themes, a menu of two      *)
(* submenus.                                                               *)
MCLanguages == <<"Auto", "Danish">>
MCBackends == <<"MME", "Windows DirectSound">>
MCTypeOf == "MME" :> 2 @@ "Windows DirectSound" :> 1
MCFactory ==
  [i \in Items |-> CASE i \in {"language", "backend", "theme"} -> AutoId [] i = "volume" -> 1
                     [] i = "format" -> <<"%c", "%x">> [] OTHER -> <<"share">>]
MCConfigMenu ==
  <<[name |-> "game", items |-> <<"language", "format">>],
    [name |-> "audio", items |-> <<"backend", "volume">>], [name |-> "Paths", items |-> <<>>]>>
OneSet == {<<"default", "forest">>}
MCParentPath == "home" :> "share" @@ "share" :> "share"

-----------------------------------------------------------------------------
(* Computers of three systems with and without files of the user's own.    *)
Linux ==
  [os |-> "linux", root |-> Unset, exe |-> <<"usr", "bin", "performous">>, home |-> <<"home">>,
   configHome |-> Unset, dataHome |-> Unset, dataDirs |-> << <<"usr", "share">>, <<"mnt">> >>, system |-> <<>>]
Build == [Linux EXCEPT !.root = <<"src", "build">>, !.dataHome = <<"mine">>,
                       !.system = << <<"DATADIR", "extra">>, <<"~", "more">>, <<"link">> >>]
Mac == [Linux EXCEPT !.os = "mac"]
Windows == [Linux EXCEPT !.os = "win", !.system = << <<"home", "more">> >>]

Installed(share) == {share \o f : f \in {Schema, <<"themes", "default", "a">>, <<"themes", "default", "b">>,
                                         <<"themes", "forest", "www", "a">>, <<"fonts", "f">>}}
Usual == Installed(<<"usr">> \o SharedData) \cup Installed(<<"src", "data">>)
Own == <<"home", ".local", "performous">>
MCDisks ==
  {{}} \cup {Usual \cup own :
     own \in SUBSET {Own \o <<"themes", "forest", "a">>, Own \o <<"themes", "default", "a">>,
                    Own \o <<"themes", "own", "c">>, <<"mnt", "performous", "fonts", "f">>,
                    <<"home", ".config", "performous", "config.xml">>,
                    <<"mine", "performous", "extra", "themes", "forest", "b">>}}
MCComputers == {[files |-> f] @@ e : e \in {Linux, Build, Mac, Windows}, f \in MCDisks}
(* Logs are kept alike everywhere: many starts of one computer. *)
MCMaxLaunches == [e \in MCComputers |-> IF e = [files |-> Usual] @@ Linux THEN 4 ELSE 1]
MCLinks == [p \in {<<"link">>} |-> <<"src", "data">>]
MCWanted == {<<"a">>, <<"b">>, <<"c">>}

-----------------------------------------------------------------------------

MCInit ==
  /\ RecordsInit /\ SettingsInit /\ PathsInit
  /\ scene \in {"records", "settings", "paths"}
  /\ scene # "records" => file = NoDatabase
  /\ scene # "paths" => env = [files |-> Usual] @@ Linux
MCNext ==
  \/ scene = "records" /\ RecordsNext /\ UNCHANGED <<scene, vars, pathCacheVars>>
  \/ scene = "settings" /\ SettingsNext /\ UNCHANGED <<scene, recordsVars, pathCacheVars>>
  \/ scene = "paths" /\ PathsNext /\ UNCHANGED <<scene, recordsVars, vars>>
MCSpec == MCInit /\ [][MCNext]_<<recordsVars, vars, pathCacheVars, scene>>
=============================================================================
