------------------------------ MODULE MCDevices ------------------------------
(***************************************************************************)
(* What the players touch and sing into, in scenes that share nothing: a   *)
(* keyboard, a dance pad and a MIDI drum kit in two screens; the screen of *)
(* the audio devices; the rings of a microphone; and the notes in it.      *)
(***************************************************************************)
EXTENDS Controllers, AudioDevices, Capture, Pitch

VARIABLE scene

-----------------------------------------------------------------------------
(* Controllers *)

DanceUp == [kind |-> "dance", inst |-> <<"dance", 2>>, plain |-> <<"generic", 110>>, ctrl |-> None]
OneKey ==
  [up |-> DanceUp, esc |-> [kind |-> "generic", inst |-> None, plain |-> <<"generic", 102>>, ctrl |-> None]]

\* The number 2 of two instruments: a dance panel on the keypad and a fret.
TwoKeys ==
  [kp8 |-> [DanceUp EXCEPT !.plain = None],
   c |-> [kind |-> "guitar", inst |-> <<"guitar", 2>>, plain |-> None, ctrl |-> None],
   esc |-> OneKey.esc]
TwoModes == {"dance", "guitar"}
MCModes == {"dance"}
Axis == <<[button |-> <<"dance", 2>>, of |-> (0 :> 0) @@ (1 :> 1)]>>
Kick == <<[button |-> <<"drums", 0>>, of |-> (0 :> 0) @@ (1 :> 1)]>>
MCWired ==
  <<"stick", 0>> :> [kind |-> "dance", polled |-> FALSE, map |-> [axis |-> Axis]]
  @@ <<"midi", 0>> :> [kind |-> "drums", polled |-> TRUE, map |-> [kick |-> Kick]]
MCNav ==
  <<"dance", 2>> :> "UP" @@ <<"guitar", 2>> :> "SOME" @@ <<"drums", 0>> :> "START"
  @@ <<"generic", 110>> :> "UP" @@ <<"generic", 102>> :> "CANCEL"
MCRepeating == {"UP"}
MCSongs == [disco |-> {"dance"}, practice |-> {}]

-----------------------------------------------------------------------------
(* Audio devices *)

Info(name, flex, in, out) == [name |-> name, flex |-> flex, in |-> in, out |-> out]
MCInfos ==
  <<Info("USB 2", "USB 2", 2, 2), Info("USB", "USB", 2, 0), Info("HDA (hw:0,0)", "HDA", 1, 2),
    Info("HDMI", "HDMI", 0, 2)>>
MCMatches ==
  UNION {{<<i.name, i.name>>, <<i.name, i.flex>>, <<i.flex, i.flex>>} : i \in ToSet(MCInfos)}
  \cup {<<"USB 2", "USB">>}
FileLine(dev, mics, out) == [dev |-> dev, mics |-> mics, out |-> out]
MCDefault ==
  <<FileLine("USB", <<"blue", "red">>, 0), FileLine("", <<"blue">>, 0), FileLine("", <<>>, 2)>>
MCConfigs ==
  {MCDefault, <<>>,
   <<FileLine("HDA", <<"*">>, 2), FileLine("USB", <<"", "*">>, 0),
     FileLine("", <<"blue", "red">>, 2)>>}
MCColors == <<"blue", "red">>

-----------------------------------------------------------------------------

Sung(f, levels) == [freq |-> f, levels |-> levels]
MCVoices ==
  {Sung(110, <<-30, -20, -35, -40>>), Sung(220, <<-20, -30, -30>>), Sung(228, <<-25, -25, -25>>)}

-----------------------------------------------------------------------------

MCInit ==
  /\ ControllersInit /\ DevicesInit /\ CaptureInit /\ PitchInit
  /\ scene \in {"controllers", "audio", "capture", "pitch"}
  /\ scene # "controllers" => song = "disco"
  /\ scene # "audio" => config = <<>>
  /\ scene # "capture" => reader = "engine"
MCNext ==
  \/ scene = "controllers" /\ ControllersNext /\ UNCHANGED <<scene, avars, capvars, pvars>>
  \/ scene = "audio" /\ DevicesNext /\ UNCHANGED <<scene, cvars, capvars, pvars>>
  \/ scene = "capture" /\ CaptureNext /\ UNCHANGED <<scene, cvars, avars, pvars>>
  \/ scene = "pitch" /\ PitchNext /\ UNCHANGED <<scene, cvars, avars, capvars>>
MCSpec == MCInit /\ [][MCNext]_<<cvars, avars, capvars, pvars, scene>>
=============================================================================
