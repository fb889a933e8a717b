------------------------------ MODULE MCSinging ------------------------------
(***************************************************************************)
(* A song and those who sing it, in scenes that share nothing: its file,   *)
(* which is loaded (MCSongFile); the grading of two singers on three short *)
(* tracks; and the rows of lyrics they see.                                *)
(***************************************************************************)
EXTENDS MCSongFile, Scoring, Lyrics

VARIABLE scene

-----------------------------------------------------------------------------
(* Grading: rows of lyrics, notes shorter than a time step and with gaps,  *)
(* an empty row, and notes that overlap.                                   *)

Sing(b, e, type, pitch) == [begin |-> b, end |-> e, type |-> type, pitch |-> pitch]

ThreeRows ==
  <<Sing(0, 3, "normal", 0), Sing(3, 4, "golden", 24), Sing(4, 4, "sleep", 0),
    Sing(4, 5, "freestyle", 0), Sing(6, 6, "sleep", 0), Sing(6, 6, "sleep", 0), Sing(6, 8, "normal", 1)>>
Odd == <<Sing(1, 2, "golden", 2), Sing(2, 3, "rap", 0), Sing(3, 3, "sleep", 0), Sing(5, 7, "normal", 0)>>
Overlap ==
  <<Sing(0, 4, "normal", 0), Sing(2, 5, "golden", 2), Sing(5, 6, "normal", 2), Sing(6, 6, "sleep", 0)>>
MCTracks == {ThreeRows, Odd, Overlap}

-----------------------------------------------------------------------------
(* Lyrics: a break of more than 4 seconds between two rows, sung by one or *)
(* by two of whom one has finished; and a song to dance to, with an empty  *)
(* row.  The video is early, in time and late.                             *)

Text(b, e) == [begin |-> b, end |-> e, type |-> "normal"]
Pause(b) == [begin |-> b, end |-> b, type |-> "sleep"]
OneVoice == <<Text(2, 6), Text(6, 8), Pause(27), Text(29, 30), Pause(32), Text(32, 34)>>
OtherVoice == <<Text(4, 6), Pause(8)>>
BadVoice == <<Text(2, 4), Pause(4), Text(18, 20), Pause(20), Pause(20), Text(21, 22)>>
BothVoices ==
  <<Text(2, 4), Pause(4), Text(4, 6), Pause(27), Text(29, 30), Pause(32), Text(32, 34)>>

Show(tracks, guide, dance, delay) ==
  [tracks |-> tracks, guide |-> guide, dance |-> dance, delay |-> delay]
MCShows ==
  {Show(<<OneVoice>>, OneVoice, FALSE, -2), Show(<<OneVoice, OtherVoice>>, BothVoices, FALSE, 0),
   Show(<<BadVoice>>, BadVoice, TRUE, 1)}
MCSections == <<0, 10, 18>>
MCSongStart == -4

-----------------------------------------------------------------------------

MCInit ==
  /\ scene \in {"file", "grading", "lyrics"}
  /\ SongInit /\ (scene # "file" => file = Txt(<<>>))
  /\ Init /\ (scene # "grading" => track = Odd)
  /\ LyricsInit /\ (scene # "lyrics" => show = Show(<<BadVoice>>, BadVoice, TRUE, 1))

MCNext ==
  \/ scene = "file" /\ SongNext /\ UNCHANGED <<scene, vars, lyricsVars>>
  \/ scene = "grading" /\ Next /\ UNCHANGED <<scene, songVars, lyricsVars>>
  \/ scene = "lyrics" /\ LyricsNext /\ UNCHANGED <<scene, songVars, vars>>

(* The fairness of the grading, in its scene.                              *)
MCFairness ==
  /\ WF_pc(scene = "grading" /\ EngineRuns) /\ WF_vars(scene = "grading" /\ Play)
  /\ WF_vars(scene = "grading" /\ ShowScores) /\ WF_vars(scene = "grading" /\ Exit)

MCSpec == MCInit /\ [][MCNext]_<<scene, songVars, vars, lyricsVars>> /\ MCFairness
=============================================================================
