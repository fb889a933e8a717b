---------------------------- MODULE MCAudioBuffer ----------------------------
(***************************************************************************)
(* AudioBuffer on small instances.  A ring of 4 samples is refilled once   *)
(* its first half is free; a file of 5 samples makes the ring wrap and lap *)
(* once; frames of one or two samples meet every alignment of the ring and *)
(* of the block.                                                           *)
(***************************************************************************)
EXTENDS AudioBuffer

MCPositions == -1 .. 6
MCStart == -1
=============================================================================
