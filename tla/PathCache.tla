----------------------------- MODULE PathCache -----------------------------
(***************************************************************************)
(* Where the game finds its files (fs.cc): the folders of the system and   *)
(* of the user, found when the game starts and again when the settings are *)
(* read; the search for the files of a theme; and the log of the profiler, *)
(* whose name is asked for by way of rotating the old ones (log.cc).  The  *)
(* game may be killed at any moment.                                       *)
(*                                                                         *)
(* A path is a sequence of names; a folder exists if a file lies in it.    *)
(***************************************************************************)
EXTENDS Integers, Sequences, FiniteSets, SequencesExt, FiniteSetsExt, Functions

CONSTANTS Computers,    \* records: a system, its files and the variables of the user
          Links,        \* what is a link: [path -> path]
          Wanted,       \* the files that are looked for, without the folder
          MaxLaunches   \* bound: starts of the game, on each computer

Unset == <<"(unset)">>
Schema == <<"config", "schema.xml">>
Performous == <<"performous">>
SharedData == <<"share", "games", "performous">>
MaxRotate == 5
NoLog == 0

ASSUME PathAssumption ==
  \A e \in Computers :
    /\ e.os \in {"linux", "mac", "win"} /\ MaxLaunches[e] \in Nat
    /\ {"files", "root", "exe", "home", "configHome", "dataHome", "dataDirs", "system"} \subseteq DOMAIN e

VARIABLES
  env,         (* the computer                                              *)
  stage,       (* "off", "booted", "ready", "failed"                        *)
  place,       (* the static members of PathCache but the next              *)
  paths,       (* PathCache::paths                                          *)
  theme,       (* the name of the theme that is chosen                      *)
  logs,        (* profiler.txt, profiler.1.txt, ...: the start that wrote   *)
               (* them, or NoLog                                            *)
  rotating,    (* the file moved next by getProfilerLogFilename(); -1: none *)
  profiling,   (* why: the sinks are made, or the profiler is started       *)
  launches,    (* starts of the game                                        *)
  turns        (* history: rotations begun since each start wrote its log,  *)
               (* -1 before                                                 *)

pathsVars == <<env, stage, place, paths, theme>>
logVars == <<logs, rotating, profiling, turns>>
pathCacheVars == <<pathsVars, logVars, launches>>

disk == env.files
IsFolder(p) == \E f \in disk : IsStrictPrefix(p, f)
Exists(p) == p \in disk \/ IsFolder(p)
FirstOf(s, Test(_)) == LET i == SelectInSeq(s, Test) IN IF i = 0 THEN Unset ELSE s[i]
WithoutRepeats(s) == FoldLeft(LAMBDA t, x : IF Contains(t, x) THEN t ELSE Append(t, x), <<>>, s)
Each(s, Op(_)) == [i \in DOMAIN s |-> Op(s[i])]

PathExpand(p) ==
  IF p = <<>> THEN <<p>>
  ELSE CASE p[1] = "~" -> <<place.home \o Tail(p)>>
         [] p[1] = "DATADIR" -> Each(paths, LAMBDA d : d \o Tail(p))
         [] OTHER -> <<p>>

(* getPathsConfig()                                                        *)
PathsConfig(list) == FlattenSeq(Each(list, PathExpand))

-----------------------------------------------------------------------------
(* pathBootstrap(): up from the program or PERFORMOUS_ROOT to the first    *)
(* folder with the schema in it, in data/ or in the shared folder.         *)
ParentOf(p) == IF p = <<>> THEN p ELSE Front(p)
ShareOf(from) ==
  LET ups == Reverse(SetToSortSeq({SubSeq(from, 1, n) : n \in 1 .. Len(from)},
                                  LAMBDA p, q : Len(p) < Len(q)))
      tried == FlattenSeq(Each(ups, LAMBDA b : <<b, b \o <<"data">>, b \o SharedData>>))
  IN  FirstOf(tried, LAMBDA p : Exists(p \o Schema))

Or(p, otherwise) == IF p = Unset THEN otherwise ELSE p

PlacesOf(e) ==
  LET conf == CASE e.os = "win" -> e.home \o <<"AppData">> \o Performous
                [] e.os = "mac" -> e.home \o <<"Library", "Preferences">> \o Performous
                [] OTHER -> Or(e.configHome, e.home \o <<".config">>) \o Performous
      share == ShareOf(Or(e.root, ParentOf(ParentOf(e.exe))))
      data == CASE e.os = "win" -> conf [] e.os = "mac" -> share
                [] OTHER -> Or(e.dataHome, e.home \o <<".local">>) \o Performous
  IN  [home |-> e.home, conf |-> conf, share |-> share, data |-> data,
       cache |-> CASE e.os = "win" -> data \o <<"cache">>
                   [] e.os = "mac" -> e.home \o <<"Library", "Caches">> \o Performous
                   [] OTHER -> Or(e.dataHome, e.home \o <<".cache">>) \o Performous]

(* On a Mac, settings in the place of old are moved.  What is copied is    *)
(* named by the rest of its path, which begins with a slash, so that it    *)
(* goes to the root of the disk; there a user may not write.               *)
OldConf(e) == Or(e.configHome, e.home \o <<".config", "performous">>)
MigrationFails(e) == e.os = "mac" /\ IsFolder(OldConf(e))

(* pathInit(): the user's data, the system's, and what the variables and   *)
(* the settings add, each once; DATADIR means the folders found so far.    *)
Canonical(p) == IF p \in DOMAIN Links THEN Links[p] ELSE p
SearchPath(e, at, more) ==
  WithoutRepeats(Each(
    <<at.data, at.share>>
      \o (IF e.os = "win" THEN <<>> ELSE Each(e.dataDirs, LAMBDA d : d \o Performous))
      \o more,
    Canonical))

Boot ==
  /\ stage = "off" /\ launches < MaxLaunches[env] /\ rotating = -1
  /\ launches' = launches + 1
  /\ LET at == PlacesOf(env) IN
     /\ place' = at /\ paths' = SearchPath(env, at, <<>>)
     /\ stage' = IF at.share = Unset \/ MigrationFails(env) THEN "failed" ELSE "booted"
  /\ UNCHANGED <<env, theme, logVars>>

(* readConfig() knows the settings, makes the search path again and offers *)
(* the themes it then finds.                                               *)
ThemesIn(at) ==
  UNION {LET own == p \o <<"themes">> IN
         {f[Len(own) + 1] : f \in {g \in disk : IsStrictPrefix(own, g) /\ Len(g) > Len(own) + 1}}
         : p \in Range(at)}

InitPaths ==
  /\ stage = "booted" /\ logs[0] = launches /\ rotating = -1
  /\ stage' = "ready"
  /\ paths' = SearchPath(env, place, PathsConfig(env.system))
  /\ theme' \in ThemesIn(paths')
  /\ UNCHANGED <<env, place, logVars, launches>>

-----------------------------------------------------------------------------
(* getThemePaths(): the theme's folders in all places before those of the  *)
(* default theme, and at last the places themselves.                       *)
Parts == << <<>>, <<"www">>, <<"www", "js">>, <<"www", "css">>, <<"www", "images">>, <<"www", "fonts">> >>
InTheme(t) == Each(Parts, LAMBDA w : <<"themes", t>> \o w)
(* Mutant: the other way round. *)
WrongInfixes == InTheme("default") \o InTheme(theme) \o << <<>> >>
Infixes == InTheme(theme) \o InTheme("default") \o << <<>> >>

ThemePaths ==
  SelectSeq(FlattenSeq(Each(Infixes, LAMBDA x : Each(paths, LAMBDA p : p \o x))), IsFolder)

(* findFile() throws if the result is Unset.                               *)
FindFile(name) == LET tried == Each(ThemePaths, LAMBDA p : p \o name) IN FirstOf(tried, Exists)

(* listFiles(): all that lies in the folder of that name, in any of the    *)
(* theme's paths, of each name the first.                                  *)
ListFiles(dir) ==
  LET there == Each(ThemePaths, LAMBDA p : {f \in disk : IsStrictPrefix(p \o dir, f)})
      known(i) == {Last(f) : f \in UNION {there[j] : j \in 1 .. i - 1}}
  IN  UNION {{f \in there[i] : Last(f) \notin known(i)} : i \in DOMAIN there}

-----------------------------------------------------------------------------
(* getProfilerLogFilename(), file by file: 4 to 5, 3 to 4, 2 to 3, 1 to 2, *)
(* then profiler.txt is copied to 1 and emptied.                           *)
BeginRotation(why) ==
  /\ rotating' = MaxRotate - 1 /\ profiling' = why
  /\ turns' = [s \in DOMAIN turns |-> IF s < launches /\ turns[s] \in 0 .. MaxRotate
                                     THEN turns[s] + 1 ELSE turns[s]]
  /\ UNCHANGED logs

(* Mutant: the files are moved over each other.                            *)
WrongRotate ==
  /\ rotating > 0 /\ rotating' = rotating - 1
  /\ logs' = IF logs[MaxRotate - rotating] = NoLog THEN logs
             ELSE [logs EXCEPT ![MaxRotate - rotating + 1] = logs[MaxRotate - rotating],
                               ![MaxRotate - rotating] = NoLog]
  /\ UNCHANGED <<pathsVars, profiling, launches, turns>>
Rotate ==
  /\ rotating > 0 /\ rotating' = rotating - 1
  /\ logs' = IF logs[rotating] = NoLog THEN logs
             ELSE [logs EXCEPT ![rotating + 1] = logs[rotating], ![rotating] = NoLog]
  /\ UNCHANGED <<pathsVars, profiling, launches, turns>>

CopyLog ==
  /\ rotating = 0 /\ rotating' = -2
  /\ logs' = IF logs[0] = NoLog THEN logs ELSE [logs EXCEPT ![1] = logs[0]]
  /\ UNCHANGED <<pathsVars, profiling, launches, turns>>

(* The file is opened, or open already: this start's log.                  *)
EmptyLog ==
  /\ rotating = -2 /\ rotating' = -1
  /\ logs' = [logs EXCEPT ![0] = launches]
  /\ turns' = [turns EXCEPT ![launches] = 0]
  /\ UNCHANGED <<pathsVars, profiling, launches>>

(* initializeSinks(), when the paths are known.                            *)
MakeSinks ==
  /\ stage = "booted" /\ rotating = -1 /\ logs[0] # launches
  /\ BeginRotation("sinks") /\ UNCHANGED <<pathsVars, launches>>

(* toggleProfilerLogger() tells where the log is, if it begins.            *)
StartProfiler ==
  /\ stage = "ready" /\ rotating = -1 /\ profiling = "sinks"
  /\ BeginRotation("profiler") /\ UNCHANGED <<pathsVars, launches>>
StopProfiler ==
  /\ stage = "ready" /\ rotating = -1 /\ profiling = "profiler" /\ profiling' = "sinks"
  /\ UNCHANGED <<pathsVars, logs, rotating, launches, turns>>

(* The game ends or is killed.                                             *)
SwitchOff ==
  /\ stage # "off" /\ stage' = "off" /\ rotating' = -1
  /\ place' = [home |-> Unset] /\ paths' = <<>> /\ theme' = ""
  /\ UNCHANGED <<env, logs, profiling, launches, turns>>

PathsInit ==
  /\ env \in Computers
  /\ stage = "off" /\ place = [home |-> Unset] /\ paths = <<>> /\ theme = ""
  /\ logs = [i \in 0 .. MaxRotate |-> NoLog]
  /\ rotating = -1 /\ profiling = "sinks" /\ launches = 0 /\ turns = [s \in 1 .. MaxLaunches[env] |-> -1]

PathsNext ==
  \/ Boot \/ InitPaths \/ MakeSinks \/ StartProfiler \/ StopProfiler \/ Rotate \/ CopyLog \/ EmptyLog \/ SwitchOff

PathsSpec == PathsInit /\ [][PathsNext]_pathCacheVars

-----------------------------------------------------------------------------
(* Any theme will do (getThemePaths, findFile): a file of the theme is     *)
(* taken from wherever it is before one of the default theme, the user's   *)
(* before the system's; what the game was installed with is always found;  *)
(* and a list of files has each name once, the one that would be found.    *)
FilesAreFound ==
  stage = "ready" =>
    /\ \A name \in Wanted :
         LET found == FindFile(name)
             has(t) == {p \in Range(paths) : \E w \in Range(Parts) : Exists(p \o <<"themes", t>> \o w \o name)}
             from(t) == \E p \in Range(paths) : IsPrefix(p \o <<"themes", t>>, found)
             own == place.data \o <<"themes", theme>> \o name
         IN  /\ has(theme) # {} => from(theme)
             /\ has(theme) = {} /\ has("default") # {} => from("default")
             /\ Exists(own) /\ Canonical(place.data) = place.data => found = own
             /\ Exists(Canonical(place.share) \o name) => found # Unset
    /\ LET fonts == ListFiles(<<"fonts">>) IN
         /\ \A f, g \in fonts : Last(f) = Last(g) => f = g
         /\ \A f \in fonts : FindFile(<<"fonts", Last(f)>>) = f

(* The log of a start is on the disk until five rotations after its own,   *)
(* and the numbers tell the order, wherever the game was killed            *)
(* (getProfilerLogFilename).  A start with the profiler makes two.         *)
LogsKept ==
  /\ \A i, j \in 0 .. MaxRotate : i < j /\ logs[i] # NoLog /\ logs[j] # NoLog => logs[i] >= logs[j]
  /\ \A s \in 1 .. launches : turns[s] \in 0 .. MaxRotate => s \in Range(logs)
=============================================================================
