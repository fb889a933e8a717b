------------------------------ MODULE MCAudio ------------------------------
(***************************************************************************)
(* The parts of the playback, in scenes that share nothing: a Music over a *)
(* real AudioBuffer, with a ring of 16 samples, the smallest of which a    *)
(* sixteenth is a sample; songs requested from the output, their audio     *)
(* left out; the clock of a song; and what is mixed on top of it.          *)
(***************************************************************************)
EXTENDS MusicPlayback, AudioOutput, AudioClock, AudioEffects

MCPositions == {}

VARIABLE scene

MCInit ==
  /\ MusicInit /\ OutputInit /\ ClockInit /\ EffectsInit
  /\ scene \in {"music", "output", "clock", "effects"}
  /\ scene # "music" => pos = 5   (* too near the end to start *)

(* The bounds of the clock are reached. *)
ClockStops ==
  /\ scene = "clock" /\ ~ENABLED ClockNext
  /\ UNCHANGED <<scene, allVars, outputVars, clockVars, fxvars>>

MCNext ==
  \/ scene = "music" /\ MusicNext /\ UNCHANGED <<scene, outputVars, clockVars, fxvars>>
  \/ scene = "output" /\ OutputNext /\ UNCHANGED <<scene, allVars, clockVars, fxvars>>
  \/ scene = "clock" /\ ClockNext /\ UNCHANGED <<scene, allVars, outputVars, fxvars>>
  \/ scene = "effects" /\ EffectsNext /\ UNCHANGED <<scene, allVars, outputVars, clockVars>>
  \/ ClockStops

(* The fairness of each part, in its scene.                                *)
MCFairness ==
  /\ WF_allVars(scene = "music" /\ Decoder /\ UNCHANGED music)
  /\ WF_allVars(scene = "music" /\ PrepareRead)
  /\ WF_allVars(scene = "music" /\ PrepareCheck) /\ WF_allVars(scene = "music" /\ Mix)
  /\ WF_outputVars(scene = "output" /\ Callback) /\ WF_outputVars(scene = "output" /\ Unlock)
  /\ SF_outputVars(scene = "output" /\ Promote) /\ SF_outputVars(scene = "output" /\ Retire)
  /\ TryLockSucceeds
  /\ SF_fxvars(scene = "effects" /\ CarryOut) /\ WF_fxvars(scene = "effects" /\ MixEffects)

MCSpec ==
  MCInit /\ [][MCNext]_<<scene, allVars, outputVars, clockVars, fxvars>> /\ MCFairness
=============================================================================
