---------------------------- MODULE AudioDevices ----------------------------
(***************************************************************************)
(* Which devices are opened, from the lines of the setting audio/devices   *)
(* (audio.cc, libda/portaudio.hpp), and the screen that writes the lines   *)
(* (screen_audiodevices.cc).  A line asks for a device by name, or for any *)
(* with enough channels, and gives the colours of its microphones or asks  *)
(* for stereo output; PortAudio may refuse to open or to start it.         *)
(***************************************************************************)
EXTENDS Integers, Sequences, FiniteSets, SequencesExt, FiniteSetsExt

CONSTANTS Infos,         \* the devices of the backend: [name, flex, in, out]
          Matches,       \* <<x, y>>: y is a part of the name x
          Colors,        \* of the microphones
          Configs,       \* what the setting may be at the start
          DefaultConfig,
          MaxAnalyzers,  \* AUDIO_MAX_ANALYZERS
          MaxPresses     \* bound: keys pressed

Unassigned == -1
NotFound == 0
Channels == <<"OUT">> \o Colors

ASSUME AudioDevicesAssumption ==
  /\ Infos \in Seq([name : STRING, flex : STRING, in : Nat, out : Nat])
  /\ \A i \in DOMAIN Infos : Infos[i].flex # ""
  /\ Colors \in Seq(STRING) /\ "OUT" \notin ToSet(Colors)
  /\ \A c, d \in DOMAIN Colors : Colors[c] = Colors[d] => c = d
  /\ Configs \cup {DefaultConfig} \subseteq Seq([dev : STRING, mics : Seq(STRING), out : Nat])
  /\ MaxAnalyzers \in Nat /\ MaxAnalyzers >= Len(Colors) /\ MaxPresses \in Nat

VARIABLES config,    \* the setting: [dev, mics, out]
          openDevices,    \* the devices that are open: [dev, mics, out]
          where,     \* "Intro", "Devices" or "Saved", when the screen was left by START
          pos,       \* of each channel the device chosen on the screen
          column,    \* m_selected_column
          presses,
          chosen     \* history: pos when it was saved

avars == <<config, openDevices, where, pos, column, presses, chosen>>

-----------------------------------------------------------------------------
(* The devices that are opened.                                            *)

(* By the full name first, then by a part of it or of the name without the *)
(* numbers that change (flex); among those with enough channels.           *)
Enough(output, num) == {i \in DOMAIN Infos : (IF output THEN Infos[i].out ELSE Infos[i].in) >= num}
First(set) == IF set = {} THEN NotFound ELSE Min(set)
FindByChannels(output, num) == First(Enough(output, num))
Has(i, name) == <<Infos[i].name, name>> \in Matches \/ <<Infos[i].flex, name>> \in Matches
(* Mutant: by a part of the name at once.                                  *)
WrongFind(name, output, num) == First({i \in Enough(output, num) : Has(i, name)})
Find(name, output, num) ==
  LET full == {i \in Enough(output, num) : Infos[i].name = name}
      part == {i \in Enough(output, num) : Has(i, name)}
  IN  IF name = "" THEN FindByChannels(output, num)
      ELSE IF full # {} THEN First(full) ELSE First(part)

(* Device::isChannel()                                                     *)
IsChannel(device, name) == IF name = "OUT" THEN device.out ELSE name \in device.mics
MicsOf(devices) == UNION {devices[k].mics : k \in DOMAIN devices}

(* The colours a line gets: none for a channel that is not used, none that *)
(* is taken, and no more than there may be analyzers.                      *)
AssignMics(devices, mics) ==
  FoldLeft(LAMBDA got, m : IF m \in got \cup MicsOf(devices) \cup {""}
                              \/ Cardinality(got \cup MicsOf(devices)) >= MaxAnalyzers
                           THEN got ELSE got \cup {m}, {}, mics)

(* A line that cannot be had is passed over.  A device that is opened and  *)
(* does not start is kept.                                                 *)
OpenLine(devices, line, opens) ==
  LET wantOutput == line.mics = <<>>
      i == Find(line.dev, wantOutput, IF wantOutput THEN line.out ELSE Len(line.mics))
  IN  IF i = NotFound \/ ~opens \/ Infos[i].in < Len(line.mics) \/ Infos[i].out < line.out THEN devices
      ELSE Append(devices, [dev |-> i, mics |-> AssignMics(devices, line.mics),
                            out |-> line.out = 2 /\ \A k \in DOMAIN devices : ~devices[k].out])
OpenAll(lines, opens) ==
  FoldLeft(LAMBDA devices, k : OpenLine(devices, lines[k], opens[k]), <<>>, [k \in DOMAIN lines |-> k])

(* Audio::restart(), and what PortAudio opens.                             *)
Restart(lines) == \E opens \in [DOMAIN lines -> BOOLEAN] : openDevices' = OpenAll(lines, opens)

-----------------------------------------------------------------------------
(* The screen.                                                             *)

(* The device of each channel, the last one that has it.                   *)
Load(devices) ==
  [c \in DOMAIN Channels |->
     LET with == {k \in DOMAIN devices : IsChannel(devices[k], Channels[c])}
     IN  IF with = {} THEN Unassigned ELSE devices[Max(with)].dev - 1]

(* One line for the microphones of a device and one for its output.        *)
MicsFor(i) ==
  FoldLeft(LAMBDA mics, c : IF pos[c + 1] = i - 1 THEN Append(mics, Colors[c]) ELSE mics,
           <<>>, [c \in DOMAIN Colors |-> c])
Line(i, mics, out) == [dev |-> Infos[i].flex, mics |-> mics, out |-> out]
LinesOf(i) ==
  (IF MicsFor(i) = <<>> THEN <<>> ELSE <<Line(i, MicsFor(i), 0)>>)
  \o (IF pos[1] = i - 1 THEN <<Line(i, <<>>, 2)>> ELSE <<>>)
DevConf == FoldLeft(LAMBDA lines, i : lines \o LinesOf(i), <<>>, [i \in DOMAIN Infos |-> i])

(* Every channel that was assigned is open on some device.                 *)
Verify(assigned, devices) ==
  \A c \in DOMAIN Channels :
    assigned[c] # Unassigned => \E k \in DOMAIN devices : IsChannel(devices[k], Channels[c])

Press == where = "Devices" /\ presses < MaxPresses /\ presses' = presses + 1

EnterDevices ==
  /\ where # "Devices" /\ where' = "Devices" /\ Infos # <<>>
  /\ column' = 0 /\ pos' = Load(openDevices)
  /\ UNCHANGED <<config, openDevices, presses, chosen>>

LeaveDevices ==
  /\ where = "Devices" /\ where' = "Intro"
  /\ UNCHANGED <<config, openDevices, pos, column, presses, chosen>>

(* UP and DOWN go round the devices and "unassigned"; the places beyond    *)
(* the number of channels are taken for none.                              *)
Beyond(p) == IF p < 0 \/ p > Len(Channels) THEN Unassigned ELSE p
ChooseDevice ==
  LET n == Len(Infos) + 1 IN
  /\ Press
  /\ \E p \in {((pos[column + 1] + n) % n) - 1, ((pos[column + 1] + n + 2) % n) - 1} :
       pos' = [pos EXCEPT ![column + 1] = Beyond(p)]
  /\ UNCHANGED <<config, openDevices, where, column, chosen>>

ChooseChannel ==
  /\ where = "Devices" /\ column' \in {column - 1, column + 1} \cap (0 .. Len(Channels) - 1)
  /\ UNCHANGED <<config, openDevices, where, pos, presses, chosen>>

(* START: the lines are written, the audio started again and read back; if *)
(* some channel has not been opened the screen stays.                      *)
SaveDevices ==
  /\ Press
  /\ config' = DevConf /\ Restart(config') /\ chosen' = pos
  /\ pos' = Load(openDevices')
  /\ where' = IF Verify(pos, openDevices') THEN "Saved" ELSE where
  /\ UNCHANGED column

(* Ctrl+R: the default lines are saved and opened.                         *)
ResetAndSave ==
  /\ Press
  /\ config' = DefaultConfig /\ Restart(config')
  /\ pos' = Load(openDevices')
  /\ UNCHANGED <<where, column, chosen>>

DevicesInit ==
  /\ config \in Configs
  /\ \E opens \in [DOMAIN config -> BOOLEAN] : openDevices = OpenAll(config, opens)
  /\ where = "Intro" /\ pos = [c \in DOMAIN Channels |-> Unassigned] /\ column = 0 /\ presses = 0
  /\ chosen = pos

DevicesNext ==
  EnterDevices \/ LeaveDevices \/ ChooseDevice \/ ChooseChannel \/ SaveDevices \/ ResetAndSave

DevicesSpec == DevicesInit /\ [][DevicesNext]_avars

-----------------------------------------------------------------------------
(* Properties.                                                             *)

(* By the name that is written each device is found first.  The backend    *)
(* sees to it, unless two devices have the same name.                      *)
FlexIsUnique == \A i \in DOMAIN Infos : Find(Infos[i].flex, FALSE, 0) = i

(* When the screen is left by START, each channel that was assigned is     *)
(* open on the device that was chosen for it and the others on none, also  *)
(* if the name of one device is a part of another's, several channels      *)
(* share a device, and devices were refused on the way.  (The screen lets  *)
(* a device without the channels be chosen; then another whose name has    *)
(* the name in it may be opened.)                                          *)
Able ==
  \A i \in DOMAIN Infos :
    /\ Cardinality({c \in 2 .. Len(Channels) : chosen[c] = i - 1}) <= Infos[i].in
    /\ chosen[1] = i - 1 => Infos[i].out >= 2
ChosenIsOpened == where = "Saved" /\ Able => Load(openDevices) = chosen

(* No colour is fed by two devices and only one device plays, whatever     *)
(* lines were written by hand; and a device that is open has the channels  *)
(* it is used for.                                                         *)
OneDevicePerChannel ==
  /\ \A c \in ToSet(Channels) \cup MicsOf(openDevices) : \A k, l \in DOMAIN openDevices :
       IsChannel(openDevices[k], c) /\ IsChannel(openDevices[l], c) => k = l
  /\ \A k \in DOMAIN openDevices :
       /\ Cardinality(openDevices[k].mics) <= Infos[openDevices[k].dev].in
       /\ openDevices[k].out => Infos[openDevices[k].dev].out >= 2

(* The microphones are where the singers have put them, and nowhere else   *)
(* (Audio::Impl, ScreenAudioDevices::save).                                *)
DevicesAsChosen == ChosenIsOpened /\ OneDevicePerChannel
=============================================================================
