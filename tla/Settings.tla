------------------------------ MODULE Settings ------------------------------
(***************************************************************************)
(* The settings (configuration.cc, configitem.cc): the schema, the         *)
(* system's and the user's file, what they mean in one run of the game,    *)
(* the menu that changes them (menu.cc, screen_intro.cc) and the folders   *)
(* of songs (screen_paths.cc).  A save writes a temporary file, removes    *)
(* the old one and renames; each of the three may fail, and the game may   *)
(* be killed between them.                                                 *)
(*                                                                         *)
(* One item stands for each way an item is kept: "volume" for the numbers, *)
(* flags and texts, "format" for the option lists, "folders" for the lists *)
(* of strings, and the three whose number is a place in a list that is     *)
(* made when the game starts: "language", "backend" and "theme".           *)
(***************************************************************************)
EXTENDS Integers, Sequences, FiniteSets, SequencesExt

CONSTANTS Languages,       \* "Auto" and the languages, in the order of their ids
          SystemLanguage,  \* what "Auto" is on this system
          Backends,        \* the names of the audio backends, sorted
          TypeOf,          \* [Range(Backends) -> the PortAudio type]
          ThemeSets,       \* the sorted themes that may be installed at a start
          Factory,         \* what the schema says
          ConfigMenu,      \* its categories: [name, items]
          Home, ParentPath, Hidden, \* folders: where the dialog starts, the one above, those not shown
          MaxVolume,
          MaxSteps         \* bound: changes and saves

AutoId == 1337
Items == {"volume", "format", "language", "backend", "theme", "folders"}
ToScreen == "screen"
NoFile == [i \in {} |-> 0]

\* No list is as long as the number that stands for "Auto"; an audio system is
\* known by its type, and is not "Auto".
ASSUME SettingsAssumption ==
  /\ Languages \in Seq(STRING) /\ Len(Languages) \in 1 .. AutoId
  /\ Languages[1] = "Auto" /\ SystemLanguage \in {Languages[i] : i \in 2 .. Len(Languages)}
  /\ \A t \in ThemeSets : t \in Seq(STRING) /\ Len(t) <= AutoId /\ Contains(t, "default")
  /\ Backends \in Seq(STRING \ {"Auto"})
  /\ DOMAIN TypeOf = ToSet(Backends)
  /\ \A b \in ToSet(Backends) : TypeOf[b] \in Nat \ {AutoId}
  /\ \A b, d \in ToSet(Backends) : TypeOf[b] = TypeOf[d] => b = d
  /\ DOMAIN Factory = Items /\ Factory["language"] \in Nat /\ Factory["backend"] \in Nat
  /\ Factory["theme"] = AutoId /\ Factory["format"] \in Seq(STRING)
  /\ MaxSteps \in Nat

VARIABLES running,
  value, default, sel,        \* m_value and m_defaultValue of each item; m_sel of the option list
  themes,                     \* m_enums of "theme"
  oldBackend, backendVal,     \* m_oldValue and the static val of getValue_audio_backend()
  language, opened,           \* the language spoken and the backend that is open
  userFile, sysFile, tmp,     \* on the disk
  saving,                     \* the step of writeConfig() that is next, and for whom
  screen, stack, emptied,     \* the menu of the intro screen: where the cursor is on each level
  cwd, listed, position,      \* the dialog for folders, as its menu was made
  steps, expected             \* bound; history: what the next start may mean

itemVars == <<value, default, sel, themes, oldBackend, backendVal, language, opened>>
fileVars == <<userFile, sysFile, tmp, saving, expected>>
menuVars == <<screen, stack, emptied>>
pathVars == <<cwd, listed, position>>
vars == <<running, itemVars, fileVars, menuVars, pathVars, steps>>

-----------------------------------------------------------------------------
(* Items and their values.                                                 *)

Place(list, x) == SelectInSeq(list, LAMBDA y : y = x) - 1
EnumsOf(i) ==
  CASE i = "language" -> Languages [] i = "theme" -> themes [] i = "backend" -> <<"Auto">> \o Backends
GetEnumName(i) == IF value[i] < Len(EnumsOf(i)) THEN EnumsOf(i)[value[i] + 1] ELSE ""

LanguageId(name) == IF name \in {"Auto", ""} THEN AutoId ELSE Place(Languages, name)
BackendType(name) == IF name = "Auto" THEN AutoId ELSE TypeOf[name]

(* getValue_audio_backend(): its static val is not looked up again while   *)
(* it happens to equal the place in the list.                              *)
BackendThrows == backendVal # value["backend"] /\ GetEnumName("backend") = ""
ValNow == IF backendVal # value["backend"] THEN BackendType(GetEnumName("backend")) ELSE backendVal
BackendOf(type) ==
  IF \E b \in ToSet(Backends) : TypeOf[b] = type THEN CHOOSE b \in ToSet(Backends) : TypeOf[b] = type
  ELSE "Auto"

MaxOf(i) == IF i = "volume" THEN MaxVolume ELSE Len(EnumsOf(i)) - 1
Clamp(x, least, most) == IF x < least THEN least ELSE IF x > most THEN most ELSE x
IncDec(i, dir) ==
  IF i = "format" THEN /\ sel' = (sel + dir + Len(value[i])) % Len(value[i]) /\ value' = value
  ELSE /\ value' = [value EXCEPT ![i] = Clamp(@ + dir, 0, MaxOf(i))] /\ sel' = sel

(* An item is not written if it has its default: the schema's for the      *)
(* system's file, the system's for the user's.                             *)
(* Mutant: the schema's for both.                                          *)
WrongIsDefault(i, factory) == i # "format" /\ value[i] = Factory[i]
IsDefault(i, factory) == i # "format" /\ value[i] = (IF factory THEN Factory ELSE default)[i]

(* What people understand by the value v of an item.                       *)
Meaning(i, v, s, installed) ==
  CASE i = "format" -> v[s + 1]
    [] i = "language" -> IF v < Len(Languages) THEN Languages[v + 1] ELSE "Auto"
    [] i = "theme" -> IF v < Len(installed) THEN installed[v + 1] ELSE "default"
    [] i = "backend" -> IF v < Len(Backends) + 1 THEN (<<"Auto">> \o Backends)[v + 1] ELSE "Auto"
    [] OTHER -> v
Meanings == [i \in Items |-> Meaning(i, value[i], sel, themes)]
-----------------------------------------------------------------------------
(* Starting: readConfig(), TranslationEngine and Audio.                    *)

Over(f, g) == [i \in Items |-> IF i \in DOMAIN g THEN g[i] ELSE f[i]]

(* The values read, and what becomes of the places in lists.               *)
ReadConfig == [default |-> Over(Factory, sysFile), value |-> Over(Over(Factory, sysFile), userFile)]
DefaultMeanings ==
  [i \in Items |-> IF i = "backend" THEN BackendOf(ReadConfig.default[i])
                   ELSE Meaning(i, ReadConfig.default[i], 0, themes)]
PopulateThemes(v, installed) == IF v = AutoId THEN Place(installed, "default") ELSE v
PopulateLanguages(v) == IF v < Len(Languages) THEN v ELSE 0
PopulateBackends(v) == Place(<<"Auto">> \o Backends, BackendOf(v))

Step == steps < MaxSteps /\ steps' = steps + 1

(* setLanguage(): by the key, "Auto" is the language of the system.        *)
LanguageFromKey(name) == IF name = "Auto" THEN SystemLanguage ELSE name

Start ==
  /\ ~running /\ running' = TRUE
  /\ \E installed \in ThemeSets :
       LET read == ReadConfig.value IN
       /\ themes' = installed
       /\ value' = [read EXCEPT !["theme"] = PopulateThemes(@, installed),
                                !["language"] = PopulateLanguages(@),
                                !["backend"] = PopulateBackends(@)]
       /\ backendVal' = read["backend"]
       /\ oldBackend' = BackendOf(read["backend"]) /\ opened' = BackendOf(read["backend"])
       /\ language' = LanguageFromKey(Languages[PopulateLanguages(read["language"]) + 1])
  /\ default' = ReadConfig.default /\ sel' = 0
  /\ screen' = "Intro" /\ stack' = <<0>> /\ emptied' = FALSE
  /\ expected' = {[i \in Items |-> Meaning(i, value'[i], 0, themes')]}
  /\ UNCHANGED <<userFile, sysFile, tmp, saving, pathVars, steps>>

-----------------------------------------------------------------------------
(* writeConfig().                                                          *)

(* The backend is always written, by its type; the language by its id.     *)
StoredLanguage ==
  IF GetEnumName("language") = "Auto" \/ LanguageId(language) # LanguageId(GetEnumName("language"))
  THEN LanguageId(GetEnumName("language")) ELSE LanguageId(language)
Selected ==
  LET so     == value["format"][sel + 1]
      others == {k \in DOMAIN value["format"] : value["format"][k] # so}
      Nth(n) == CHOOSE k \in others : Cardinality({j \in others : j < k}) = n
  IN  [n \in 1 .. Cardinality(others) + 1 |-> IF n = 1 THEN so ELSE value["format"][Nth(n - 2)]]
Stored(i) ==
  CASE i = "backend" -> BackendType(GetEnumName(i))
    [] i = "language" -> StoredLanguage
    [] i = "format" -> Selected
    [] OTHER -> value[i]
Document(system) == [i \in {j \in Items : j = "backend" \/ ~IsDefault(j, system)} |-> Stored(i)]

(* No name in the list for what "reset" has put there.                     *)
WriteThrows(system) ==
  \/ GetEnumName("backend") = ""
  \/ ~IsDefault("language", system) /\ GetEnumName("language") = ""

(* Opening the backend again and speaking another language are parts of    *)
(* saving them.                                                            *)
Restarts == oldBackend # GetEnumName("backend")
WriteTmp(system, exiting) ==
  /\ ~WriteThrows(system) /\ tmp' = Document(system)
  /\ saving' = [step |-> "remove", system |-> system, exiting |-> exiting]
  /\ backendVal' = IF Restarts THEN ValNow ELSE backendVal
  /\ opened' = IF Restarts THEN BackendOf(ValNow) ELSE opened
  /\ language' = IF ~IsDefault("language", system) /\ GetEnumName("language") = "Auto"
                 THEN "Auto" ELSE language
  /\ expected' = IF expected = {} THEN {} ELSE expected \cup {Meanings, DefaultMeanings}

(* Memory is gone when the game ends.                                      *)
Off ==
  /\ running' = FALSE /\ value' = Factory /\ default' = Factory /\ sel' = 0 /\ themes' = <<"default">>
  /\ oldBackend' = "Auto" /\ backendVal' = AutoId /\ language' = "Auto" /\ opened' = "Auto"
  /\ screen' = "Intro" /\ stack' = <<0>> /\ emptied' = FALSE
  /\ cwd' = Home /\ listed' = FALSE /\ position' = -1
GoesOn == UNCHANGED <<running, itemVars, menuVars, pathVars>>

Idle == [step |-> "idle", system |-> FALSE, exiting |-> FALSE]
InScreen(s) == running /\ saving = Idle /\ screen = s

(* Ctrl+S, with Alt for the system; it can be pressed in both screens.     *)
Save ==
  /\ \/ InScreen("Intro") /\ Len(stack) > 1
     \/ InScreen("Paths")
  /\ Step
  /\ \E system \in BOOLEAN : WriteTmp(system, FALSE)
  /\ UNCHANGED <<running, value, default, sel, themes, oldBackend, userFile, sysFile, menuVars, pathVars>>

(* The end of mainLoop(); if it throws the game ends all the same.         *)
SaveAtExit ==
  /\ InScreen("Quit")
  /\ \/ /\ WriteTmp(FALSE, TRUE) /\ UNCHANGED running
        /\ UNCHANGED <<running, value, default, sel, themes, oldBackend, menuVars, pathVars>>
     \/ /\ WriteThrows(FALSE) /\ Off
        /\ UNCHANGED <<tmp, saving, expected>>
  /\ UNCHANGED <<userFile, sysFile, steps>>

Done == saving' = Idle /\ (IF saving.exiting THEN Off ELSE GoesOn)

RemoveOld ==
  /\ running /\ saving.step = "remove" /\ saving' = [saving EXCEPT !.step = "rename"]
  /\ IF saving.system THEN sysFile' = NoFile /\ expected' = {} /\ UNCHANGED userFile
     ELSE userFile' = NoFile /\ UNCHANGED <<sysFile, expected>>
  /\ UNCHANGED <<running, itemVars, tmp, menuVars, pathVars, steps>>

Rename ==
  /\ running /\ saving.step = "rename"
  /\ IF saving.system
     THEN /\ sysFile' = tmp /\ default' = value /\ saving' = [saving EXCEPT !.step = "user"]
          /\ UNCHANGED <<running, value, sel, themes, oldBackend, backendVal, language, opened,
                         menuVars, pathVars, userFile, expected>>
     ELSE /\ userFile' = tmp /\ expected' = (IF expected = {} THEN {} ELSE {Meanings})
          /\ Done /\ UNCHANGED sysFile
  /\ tmp' = NoFile /\ UNCHANGED steps

(* "User config is no longer needed."                                      *)
RemoveUser ==
  /\ running /\ saving.step = "user" /\ userFile' = NoFile /\ expected' = {Meanings} /\ Done
  /\ UNCHANGED <<sysFile, tmp, steps>>

(* "Unable to save": a step fails and is not undone.                       *)
SaveFails ==
  /\ running /\ saving.step \in {"remove", "rename"} /\ Done
  /\ UNCHANGED <<userFile, sysFile, tmp, expected, steps>>

Kill ==
  /\ running /\ Off /\ saving' = Idle /\ UNCHANGED <<userFile, sysFile, tmp, expected, steps>>

-----------------------------------------------------------------------------
(* The menu of the intro screen.                                           *)

RootMenu == <<[type |-> ToScreen, screen |-> "Songs"], [type |-> ToScreen, screen |-> "Practice"],
              [type |-> "submenu"], [type |-> ToScreen, screen |-> "Quit"]>>
Category(c) == IF c.items = <<>> THEN [type |-> ToScreen, screen |-> c.name] ELSE [type |-> "submenu"]
ConfigOptions == [k \in DOMAIN ConfigMenu |-> Category(ConfigMenu[k])]
ItemOptions(c) == [k \in DOMAIN c.items |-> [type |-> "value", item |-> c.items[k]]]

Options ==
  CASE emptied -> <<>>
    [] Len(stack) = 1 -> RootMenu
    [] Len(stack) = 2 -> ConfigOptions
    [] OTHER -> ItemOptions(ConfigMenu[stack[2] + 1])
Cursor == Last(stack)
CurrentOption == Options[Cursor + 1]
AtItem == ~emptied /\ CurrentOption.type = "value"

(* One or five lines up or down in the code: always one.  The menu that    *)
(* was emptied has no last line.                                           *)
Move ==
  /\ InScreen("Intro")
  /\ \E dir \in {-1, 1} :
       /\ dir = 1 => emptied \/ Cursor < Len(Options) - 1
       /\ dir = -1 => Cursor > 0
       /\ ~emptied \/ Cursor + dir \in 0 .. 1   \* bound
       /\ stack' = Front(stack) \o <<Cursor + dir>>
  /\ UNCHANGED <<running, itemVars, fileVars, screen, emptied, pathVars, steps>>

(* CANCEL: to the last line of the main menu, or one menu up.              *)
Cancel ==
  /\ InScreen("Intro") /\ ~emptied
  /\ stack' = IF Len(stack) = 1 THEN <<Len(Options) - 1>> ELSE Front(stack)
  /\ UNCHANGED <<running, itemVars, fileVars, screen, emptied, pathVars, steps>>

(* START: Menu::action().                                                  *)
OpenSubmenu ==
  /\ InScreen("Intro") /\ ~emptied /\ CurrentOption.type = "submenu" /\ stack' = Append(stack, 0)
  /\ UNCHANGED <<running, itemVars, fileVars, screen, emptied, pathVars, steps>>

ActivateScreen ==
  /\ InScreen("Intro") /\ ~emptied /\ CurrentOption.type = ToScreen
  /\ stack' = <<0>> /\ emptied' = TRUE
  /\ UNCHANGED <<running, itemVars, fileVars, screen, pathVars, steps>>

(* START once more in the same frame: the menu is empty, and the exception *)
(* is none of those the main loop catches.                                 *)
StartTwice ==
  /\ InScreen("Intro") /\ emptied /\ Off /\ UNCHANGED <<fileVars, steps>>

(* The value of the entry under the cursor.                                *)
ChangeValue ==
  /\ InScreen("Intro") /\ AtItem /\ Step
  /\ LET i == CurrentOption.item IN
     /\ i = "backend" => ~BackendThrows
     /\ oldBackend' = IF i = "backend" THEN BackendOf(ValNow) ELSE oldBackend
     /\ backendVal' = IF i = "backend" THEN ValNow ELSE backendVal
     /\ \E dir \in {-1, 1} : IncDec(i, dir)
     /\ language' = IF i = "language" THEN Languages[value'[i] + 1] ELSE language
  /\ UNCHANGED <<running, default, themes, opened, fileVars, menuVars, pathVars>>

(* Ctrl+R: with Alt to what the schema says; the selection stays.          *)
Reset ==
  /\ InScreen("Intro") /\ AtItem /\ Step
  /\ \E from \in {default, Factory} : value' = [value EXCEPT ![CurrentOption.item] = from[CurrentOption.item]]
  /\ UNCHANGED <<running, default, sel, themes, oldBackend, backendVal, language, opened, fileVars, menuVars, pathVars>>

(* Drawing the value of the backend.                                       *)
DrawBackend ==
  /\ InScreen("Intro") /\ AtItem /\ CurrentOption.item = "backend" /\ ~BackendThrows /\ backendVal' = ValNow
  /\ UNCHANGED <<running, value, default, sel, themes, oldBackend, language, opened, fileVars, menuVars, pathVars, steps>>

-----------------------------------------------------------------------------
(* The dialog for the folders of songs.                                    *)

(* generateMenuFromPath(): where the folder was in the list by then.       *)
GenerateMenu(path, folders) ==
  /\ cwd' = path /\ listed' = Contains(folders, path) /\ position' = Place(folders, path)

(* The next frame is that of the screen that was activated.                *)
Enter(s) ==
  /\ screen' = s
  /\ IF s = "Paths" THEN GenerateMenu(Home, value["folders"]) ELSE UNCHANGED pathVars
UpdateScreen ==
  /\ InScreen("Intro") /\ emptied
  /\ \E s \in {"Quit", "Paths"} : Enter(s)
  /\ UNCHANGED <<running, itemVars, fileVars, stack, emptied, steps>>
LeavePaths ==
  /\ InScreen("Paths") /\ screen' = "Intro" /\ stack' = <<0>> /\ emptied' = FALSE
  /\ UNCHANGED <<running, itemVars, fileVars, pathVars, steps>>

Folders(list) == value' = [value EXCEPT !["folders"] = list]
InPaths ==
  /\ InScreen("Paths")
  /\ UNCHANGED <<running, default, sel, themes, oldBackend, backendVal, language, opened, fileVars, menuVars>>

AddFolder ==
  /\ InPaths /\ Step /\ ~listed
  /\ Folders(Append(value["folders"], cwd)) /\ GenerateMenu(cwd, value'["folders"])
(* The position is that of when the menu was made; the list may have been  *)
(* reset since, and have become shorter.                                   *)
RemoveFolder ==
  /\ InPaths /\ Step /\ listed
  /\ \E list \in IF position < Len(value["folders"]) THEN {RemoveAt(value["folders"], position + 1)}
                 ELSE {value["folders"], <<>>} : Folders(list)
  /\ GenerateMenu(cwd, value'["folders"])
GoTo ==
  /\ InPaths /\ \E path \in DOMAIN ParentPath :
       /\ path # cwd
       /\ path = ParentPath[cwd] \/ (ParentPath[path] = cwd /\ path \notin Hidden)
       /\ GenerateMenu(path, value["folders"])
  /\ UNCHANGED <<value, steps>>
ResetFolders ==
  /\ InPaths /\ Step
  /\ \E from \in {default, Factory} : Folders(from["folders"])
  /\ UNCHANGED pathVars

-----------------------------------------------------------------------------
SettingsInit ==
  /\ running = FALSE /\ userFile = NoFile /\ sysFile = NoFile /\ tmp = NoFile /\ saving = Idle
  /\ value = Factory /\ default = Factory /\ sel = 0 /\ themes = <<"default">>
  /\ oldBackend = "Auto" /\ backendVal = AutoId /\ language = "Auto" /\ opened = "Auto"
  /\ screen = "Intro" /\ stack = <<0>> /\ emptied = FALSE
  /\ cwd = Home /\ listed = FALSE /\ position = -1
  /\ steps = 0 /\ expected = {DefaultMeanings}

SettingsNext ==
  \/ Start \/ Save \/ SaveAtExit \/ RemoveOld \/ Rename \/ RemoveUser \/ SaveFails \/ Kill
  \/ Move \/ Cancel \/ OpenSubmenu \/ ActivateScreen \/ StartTwice \/ ChangeValue \/ Reset \/ DrawBackend
  \/ UpdateScreen \/ LeavePaths \/ AddFolder \/ RemoveFolder \/ GoTo \/ ResetFolders

SettingsSpec == SettingsInit /\ [][SettingsNext]_vars

-----------------------------------------------------------------------------
(* Properties.                                                             *)

(* A start finds every item to mean what it meant when it was last saved,  *)
(* for the user or the system, also if it had its default then and another *)
(* since, or was kept as a place in a list; a save for the user that did   *)
(* not come to its end leaves what was there before it, what it was        *)
(* writing, or the defaults, and never a mixture of items.  Nothing is     *)
(* expected, until the next start, of a save for the system that did not   *)
(* come to its end.                                                        *)
SavedIsRead ==
  [][~running /\ running' /\ expected # {} =>
       [i \in Items |-> Meaning(i, value'[i], sel', themes')] \in expected]_vars
=============================================================================
