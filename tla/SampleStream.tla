---------------------------- MODULE SampleStream ----------------------------
(***************************************************************************)
(* What an AudioBuffer promises its reader, without ring, threads or       *)
(* decoder: a window of samples that starts at the reading position and is *)
(* topped up ahead of it.  Inside the window the samples are the file's    *)
(* own, each at its position, and a sample once in the window stays there  *)
(* until it is read or the stream is moved elsewhere.                      *)
(***************************************************************************)
EXTENDS Integers

CONSTANTS
  Ahead,  (* the stream is topped up when fewer samples than this are left *)
  Slack   (* length of the longest piece it is topped up with              *)

VARIABLES
  rd,     (* the reading position                                          *)
  window, (* the samples ready to be read, by position                     *)
  closed  (* the stream was destroyed                                      *)

streamVars == <<rd, window, closed>>

Init == rd = 0 /\ DOMAIN window = {} /\ closed = FALSE

(* The reader moves forward; what it leaves behind is gone.                *)
Advance ==
  /\ rd' >= rd
  /\ DOMAIN window' = {q \in DOMAIN window : q >= rd'}
  /\ \A q \in DOMAIN window' : window'[q] = window[q]
  /\ UNCHANGED closed

(* The decoder adds a piece at the end of the window.  Into an empty       *)
(* window it may deliver from the middle of a piece: the leading part,     *)
(* shorter than a piece, is then whatever the stream had before.           *)
TopUp ==
  /\ ~closed
  /\ \E h \in rd + 1 .. rd + Ahead + Slack - 1 :
       /\ DOMAIN window' = rd .. h - 1
       /\ DOMAIN window \subseteq DOMAIN window'
       /\ DOMAIN window # DOMAIN window'
       /\ \A q \in DOMAIN window : window'[q] = window[q]
       /\ \A q \in DOMAIN window' \ DOMAIN window :
            window'[q] = q \/ (DOMAIN window = {} /\ q < rd + Slack - 1)
  /\ UNCHANGED <<rd, closed>>

(* The reader asks for another place of the file.                          *)
Jump ==
  /\ DOMAIN window' = {}
  /\ UNCHANGED closed

Close ==
  /\ closed' = TRUE
  /\ DOMAIN window' = {}

Next == Advance \/ TopUp \/ Jump \/ Close

Spec == Init /\ [][Next]_streamVars
=============================================================================
