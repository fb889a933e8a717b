--------------------------- MODULE MusicPlayback ---------------------------
(***************************************************************************)
(* One Music with one track, as the audio callback drives it: the callback *)
(* calls Music::prepare() until the AudioBuffer is ready, then mixes block *)
(* after block at m_pos until read() reports the end of the file.          *)
(***************************************************************************)
EXTENDS AudioBuffer

CONSTANTS
  StartPositions, (* where playMusic may ask to start, in samples          *)
  SeekPositions,  (* where the user may seek while the song plays          *)
  Block           (* the length of the callback's blocks                   *)

ASSUME MusicAssumption ==
  /\ StartPositions \subseteq Nat /\ SeekPositions \subseteq Nat
  /\ Block \in Nat \ {0}

VARIABLES
  stage, (* what the callback does with this Music                         *)
  pos,   (* Music::m_pos                                                   *)
  sought (* the song was moved since it was prepared; history only         *)

music == <<stage, pos, sought>>
allVars == <<vars, stage, pos, sought>>

(* playMusic(): m->seek(startPos), then preloading.                        *)
MusicInit ==
  /\ Init
  /\ stage = "preloading"
  /\ pos \in StartPositions
  /\ sought = FALSE

ReadFails(p, n) == quit \/ Eof(p + n)

(* The two critical sections of AudioBuffer::prepare().                    *)
PrepareRead ==
  /\ stage = "preloading"
  /\ \/ /\ ReadFails(pos, 0)
        /\ stage' = "playing"
        /\ UNCHANGED vars
     \/ /\ ~ReadFails(pos, 0)
        /\ ReadLocked(pos, 0)
        /\ stage' = "checking"
  /\ UNCHANGED <<pos, sought>>

WrongBuffered == writePos <= readPos + Size
Buffered ==
  /\ writePos > readPos + (Size \div 16)
  /\ writePos <= readPos + Size

PrepareCheck ==
  /\ stage = "checking"
  /\ stage' = IF Buffered THEN "playing" ELSE "preloading"
  /\ UNCHANGED <<vars, pos, sought>>

(* Music::operator(): m_pos moves on whether or not there was audio left.  *)
Mix ==
  /\ stage = "playing"
  /\ pos' = pos + Block
  /\ \/ /\ ReadFails(pos, Block)
        /\ stage' = "finished"
        /\ UNCHANGED vars
     \/ /\ ~ReadFails(pos, Block)
        /\ ReadLocked(pos, Lesser(Block, Size))
        /\ UNCHANGED stage
  /\ UNCHANGED sought

(* Audio::seek and seekPos reach the songs in Output::playing only.        *)
SeekTo(p) ==
  /\ stage = "playing"
  /\ pos' = p
  /\ sought' = TRUE
  /\ UNCHANGED <<vars, stage>>

(* A finished Music is disposed of by the main thread.                     *)
Dispose == stage = "finished" /\ Destroy /\ UNCHANGED music

Ended == stage = "finished" /\ Joined /\ UNCHANGED music

MusicNext ==
  \/ Decoder /\ UNCHANGED music
  \/ PrepareRead \/ PrepareCheck \/ Mix
  \/ \E p \in SeekPositions : SeekTo(p)
  \/ Dispose \/ Ended

(* The audio callback is called for as long as the device is open.         *)
MusicFairness ==
  /\ WF_allVars(Decoder /\ UNCHANGED music)
  /\ WF_allVars(PrepareRead) /\ WF_allVars(PrepareCheck) /\ WF_allVars(Mix)

MusicSpec == MusicInit /\ [][MusicNext]_allVars /\ MusicFairness

-----------------------------------------------------------------------------
(* Preloading ends, provided more than a sixteenth of a ring is left to    *)
(* decode after the start position (AudioBuffer::prepare).                 *)
LongSongsStart ==
  (stage = "preloading" /\ pos + (Size \div 16) + MaxFrame <= End)
    ~> (stage = "playing")

(* A song that is left alone ends, however late the decoder is: m_pos      *)
(* keeps moving through underruns.                                         *)
SongEnds == (stage = "playing") ~> (stage = "finished" \/ sought)

(* A song leaves preloading and comes to its end (Music, AudioBuffer).     *)
MusicPlays == LongSongsStart /\ SongEnds

(* A song prepared from its very beginning is heard from its first sample  *)
(* on: prepare() waits for more samples than a block takes, and the first  *)
(* block plays exactly what the file holds there.                          *)
FirstBlock ==
  stage = "playing" /\ pos = 0 /\ pos' = Block /\ ~sought /\ stage' = "playing"

StartsWithFirstSample ==
  [][(FirstBlock /\ Block <= (Size \div 16) + 1)
       => \A s \in 0 .. Block - 1 : Heard(Block)[s] = s]_allVars

(* A song that is asked for is heard from its beginning to its end         *)
(* (Music::prepare, Music::operator()).                                    *)
MusicIsHeard == MusicPlays /\ StartsWithFirstSample
=============================================================================
