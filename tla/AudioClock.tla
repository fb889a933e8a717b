----------------------------- MODULE AudioClock -----------------------------
(***************************************************************************)
(* The clock of a Music (AudioClock): the callback syncs it with each      *)
(* block, the main thread reads it.  Both may come early or late.  A block *)
(* is 1000 units long and the skew counts thousandths, so that drift is    *)
(* seen; the system clock moves by half a block.                           *)
(***************************************************************************)
EXTENDS Integers, FiniteSetsExt

CONSTANTS
  MaxError,   \* blocks off at which the clock is set instead of skewed
  \* bounds of the model
  MaxNow,     \* half blocks the system clock runs
  MaxBlocks,  \* blocks in the song
  MaxSought   \* moves

ASSUME ClockAssumption == {MaxError, MaxNow, MaxBlocks, MaxSought} \subseteq Nat

VARIABLES
  now,      \* the system clock
  clock,    \* [baseTime, basePos, skew, max], members of AudioClock
  due,     \* Music::m_pos: where the next block begins
  moves,
  moved    \* not in the program: no full sync since the last seek

clockVars == <<now, clock, due, moves, moved>>
BlockLength == 1000

ClockInit ==
  /\ now = 0 /\ clock = [baseTime |-> 0, basePos |-> 0, skew |-> 0, max |-> 0]
  /\ due = 0 /\ moves = 0 /\ moved = FALSE

\* mutant: the end of the block does not stop the clock
WrongPosition == clock.basePos + ((1000 + clock.skew) * (now - clock.baseTime)) \div 1000
\* AudioClock::pos_internal
Position ==
  Min({clock.basePos + ((1000 + clock.skew) * (now - clock.baseTime)) \div 1000, clock.max})

\* AudioClock::timeSync with the mutex.  The clock is skewed while the song goes forward
\* and it is not far off, with a dither of up to a tenth of a block.
FullSync(max) ==
  LET diff == due - Position
      clamp(n) == Max({-10, Min({n, 10})})
  IN  IF max > clock.max /\ diff \in -MaxError * BlockLength + 1 .. MaxError * BlockLength - 1
      THEN \E dither \in {0, BlockLength \div 10} :
             clock' = [baseTime |-> now, basePos |-> Position, max |-> max,
                       skew |-> clamp(clock.skew + IF diff < dither THEN -1 ELSE 1)]
      ELSE clock' = [baseTime |-> now, basePos |-> due, skew |-> 0, max |-> max]

\* Music::operator() syncs the clock with every block; while pos() holds the mutex only
\* the end of the block may move, and only on.
TimeSync ==
  /\ due < MaxBlocks * BlockLength
  /\ \/ FullSync(due + BlockLength) /\ moved' = FALSE
     \/ clock' = [clock EXCEPT !.max = Max({@, due + BlockLength})] /\ UNCHANGED moved
  /\ due' = due + BlockLength
  /\ UNCHANGED <<now, moves>>

\* Music::seek, which leaves the clock alone.
MoveSong ==
  /\ moves < MaxSought /\ moves' = moves + 1
  /\ \E p \in 0 .. MaxBlocks - 1 : due' = p * BlockLength
  /\ moved' = TRUE
  /\ UNCHANGED <<now, clock>>

Passes == now < (MaxNow * BlockLength) \div 2 /\ now' = now + BlockLength \div 2 /\ UNCHANGED <<clock, due, moves, moved>>

ClockNext == TimeSync \/ MoveSong \/ Passes
ClockSpec == ClockInit /\ [][ClockNext]_clockVars

-----------------------------------------------------------------------------
(* Properties *)

\* "Produces precise monotonic clock synced to audio output callback (which may suffer of
\* major jitter)", "The clock is also stopped if audio output pauses": whenever the blocks
\* come, skewed or set, the position never goes back and never passes the end of the last
\* block, but for a seek the clock has not seen yet.
ClockIsTrue ==
  /\ [](~moved => Position <= due)
  /\ [][moved \/ Position' >= Position]_clockVars
=============================================================================
