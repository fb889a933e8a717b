---------------------------- MODULE MCInstruments ----------------------------
(* Two scenes that share nothing: a guitar or a drum kit with two frets or *)
(* pads and two short charts, and a dance pad of two panels with two       *)
(* tracks.                                                                 *)
EXTENDS GuitarGraph, DanceGraph, TLC

VARIABLE scene

-----------------------------------------------------------------------------
(* Guitar and drums *)

MCPads == 0 .. 1
Note(b, f, n) == [begin |-> b, len |-> f :> n]
Double(b, m, n) == [begin |-> b, len |-> (0 :> m) @@ (1 :> n)]

\* A tappable note after a held one, then a chord; and a chart of two chords.
MCCharts ==
  [expert |-> <<Note(0, 0, 1), Note(1, 1, 2), Double(3, 0, 0)>>,
   kids |-> <<Double(0, 0, 0), Note(2, 0, 1)>>]

MCStartTime == -4
MCEarlyKeys == -3
MCJoinEarly == -2

\* Bound: a chart that was wound back is not followed any further.
NotWoundBack == scene = "guitar" => ~player.rewound

-----------------------------------------------------------------------------
(* Dance *)

MCPanels == 0 .. 1
Arrow(pad, b, e, m) == [pad |-> pad, begin |-> b, end |-> e, mine |-> m]

\* A hold and a mine, or two taps; and another track with one level.
MCTracks ==
  [single |-> (0 :> {Arrow(0, 0, 4, FALSE), Arrow(1, 1, 1, TRUE)})
              @@ (1 :> {Arrow(1, 0, 0, FALSE), Arrow(1, 2, 2, FALSE)}),
   double |-> (0 :> {Arrow(0, 2, 2, FALSE)})]
MCStops == <<[at |-> 2, len |-> 1]>>
MCStart == -2
MCEarly == -1

-----------------------------------------------------------------------------

MCInit == scene \in {"guitar", "dance"} /\ GuitarInit /\ DanceInit /\ (scene = "dance" => ~drums)
MCNext ==
  \/ scene = "guitar" /\ GuitarNext /\ UNCHANGED <<scene, danceVars>>
  \/ scene = "dance" /\ DanceNext /\ UNCHANGED <<scene, guitarVars>>
MCSpec == MCInit /\ [][MCNext]_<<guitarVars, danceVars, scene>>
=============================================================================
