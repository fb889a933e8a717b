------------------------------ MODULE Scoring ------------------------------
(***************************************************************************)
(* The grading of singers: the Engine's thread (engine.cc) walks the song  *)
(* in time steps behind the position of the music, asks every microphone's *)
(* analyzer for the tone it hears and lets the Player (player.cc) score it *)
(* against the notes.  ScreenSing pauses, seeks, and kills the thread to   *)
(* show the scores or to start again.                                      *)
(*                                                                         *)
(* Time is counted in units, StepUnits of them to a step of the engine,    *)
(* pitch in half semitones, and points in units times the note's           *)
(* multiplier times twice its power factor, so that m_score is points      *)
(* divided by the song's TotalPoints.                                      *)
(***************************************************************************)
EXTENDS Integers, Sequences, FiniteSets, SequencesExt, FiniteSetsExt

CONSTANTS
  Singers,    (* one analyzer, and so one Player, each                     *)
  Tracks,     (* vocal tracks that may be sung: sequences of notes         *)
  Tones,      (* pitches an analyzer may find                              *)
  Level,      (* game/difficulty: "normal", "hard" or "perfect"            *)
  StepUnits,  (* units of time in TIMESTEP                                 *)
  Lead,       (* steps from the start of the music to the first note time  *)
  LastStep,   (* steps the music lasts beyond that                         *)
  MaxSeeks,   (* bound: calls of Audio::seek and Audio::seekPos            *)
  MaxStarts   (* bound: times ScreenSing is entered                        *)

NoTone == -1           (* findTone() returned a null pointer               *)
NoteTypes == {"sleep", "normal", "golden", "rap", "freestyle"}

ASSUME ScoringAssumption ==
  /\ StepUnits \in Nat \ {0} /\ Lead \in Nat /\ LastStep \in Nat
  /\ MaxSeeks \in Nat /\ MaxStarts \in Nat
  /\ Level \in {"normal", "hard", "perfect"}
  /\ Tones \subseteq Nat
  /\ Tracks \subseteq Seq([begin : Nat, end : Nat, type : NoteTypes, pitch : Int])
  /\ \A t \in Tracks : \A i \in DOMAIN t : t[i].begin <= t[i].end

VARIABLES
  track,    (* the notes of the VocalTrack that is sung                    *)
  audio,    (* Audio::getPosition() less the round trip, in steps          *)
  silent,   (* nothing plays any more, and that position is NaN            *)
  paused,   (* Audio::isPaused()                                           *)
  seeks,    (* seeks made                                                  *)
  time,     (* m_time, in steps                                            *)
  pc,       (* the engine's thread                                         *)
  quit,     (* m_quit                                                      *)
  player,   (* m_database.cur: the members of every Player                 *)
  ui,       (* ScreenSing's thread                                         *)
  starts,   (* times ScreenSing was entered                                *)
  flawless  (* history: who has sung nothing but the right tone            *)

audioVars == <<audio, silent, paused, seeks>>
engineVars == <<time, pc, player>>
uiVars == <<ui, quit, starts>>
vars == <<track, audioVars, engineVars, uiVars, flawless>>

-----------------------------------------------------------------------------
(* Notes: notes.cc.                                                        *)

Clamp(x, lo, hi) == IF x < lo THEN lo ELSE IF x > hi THEN hi ELSE x
Later(a, b) == IF a < b THEN b ELSE a
Sooner(a, b) == IF a < b THEN a ELSE b

(* remainder(n - note, 12) without its sign: octaves do not matter.        *)
Distance(a, b) == LET d == (a - b) % 24 IN Sooner(d, 24 - d)

Multiplier(n) == CASE n.type = "golden" -> 2 [] n.type = "sleep" -> 0 [] OTHER -> 1

PowerFactor(n, tone) ==
  IF n.type = "freestyle" THEN 2
  ELSE LET e == Distance(n.pitch, tone)
       IN  CASE Level = "normal" -> Clamp(3 - e, 0, 2)
             [] Level = "hard" -> Clamp(4 - 2 * e, 0, 2)
             [] Level = "perfect" -> IF e = 0 THEN 2 ELSE 0

ClampDuration(n, b, e) == Later(0, Sooner(e, n.end) - Later(b, n.begin))

Score(n, tone, b, e) == Multiplier(n) * PowerFactor(n, tone) * ClampDuration(n, b, e)

MaxScore(n) == 2 * Multiplier(n) * (n.end - n.begin)

(* What the notes from i to j are worth.                                   *)
Worth(i, j) == SumFunctionOnSet([k \in DOMAIN track |-> MaxScore(track[k])], i .. j)
TotalPoints == Worth(1, Len(track))

-----------------------------------------------------------------------------
(* Player: player.cc.                                                      *)

(* m_pitch.size(): the time steps for which there is room.                 *)
EndTime(t) == IF t = <<>> THEN 0 ELSE t[Len(t)].end
Frames(t) == EndTime(t) \div StepUnits

NoRank == <<-1, 1>>    (* m_prevLineScore = -1                             *)

NewPlayer ==
  [pos |-> 0, scoreIt |-> 1, score |-> 0, noteScore |-> 0, lineScore |-> 0,
   maxLineScore |-> 0, prevLineScore |-> NoRank, stars |-> {}]

(* The notes of the row that ends before m_scoreIt.                        *)
RowStart(it) ==
  Max({0} \cup {k \in 1 .. it - 1 : track[k].type = "sleep"}) + 1

CalcRowRank(p) ==
  LET row == Worth(RowStart(p.scoreIt), p.scoreIt - 1)
  IN  IF p.maxLineScore # 0 THEN p
      ELSE [p EXCEPT !.maxLineScore = row, !.lineScore = 0,
                     !.prevLineScore = IF row > 0 THEN <<p.lineScore, row>> ELSE NoRank]

EarnsStar(p, n) ==
  n.type \in {"normal", "golden"} /\ 10 * p.noteScore > 8 * MaxScore(n)

AddScore(p, points) ==
  [p EXCEPT !.score = @ + points, !.noteScore = @ + points, !.lineScore = @ + points]

AfterRow(p, n) == IF n.type = "sleep" THEN CalcRowRank(p) ELSE [p EXCEPT !.maxLineScore = 0]

(* Leaving note i, which ends on this time step.                           *)
NextNote(p, i) ==
  [p EXCEPT !.stars = IF EarnsStar(p, track[i]) THEN @ \cup {i} ELSE @,
            !.noteScore = 0, !.scoreIt = i + 1]

WrongConsidered(p, e) ==
  {i \in {p.scoreIt} : i <= Len(track) /\ track[i].begin <= e}

(* The notes the loop of update() looks at: it stops before the first one  *)
(* that begins later and after the first one that goes on.                 *)
Considered(p, e) ==
  {i \in p.scoreIt .. Len(track) :
     /\ \A k \in p.scoreIt .. i : track[k].begin <= e
     /\ \A k \in p.scoreIt .. i - 1 : track[k].end <= e}

ScoreNote(p, i, tone, b, e) ==
  LET n == track[i]
      points == IF tone = NoTone THEN 0 ELSE Score(n, tone, b, e)
      scored == AfterRow(AddScore(p, points), n)
  IN  IF n.end <= e THEN NextNote(scored, i) ELSE scored

Update(p, tone) ==
  LET b == StepUnits * p.pos
      e == b + StepUnits
      order == [k \in 1 .. Cardinality(Considered(p, e)) |-> p.scoreIt + k - 1]
      scored == FoldLeft(LAMBDA q, i : ScoreNote(q, i, tone, b, e), [p EXCEPT !.pos = @ + 1], order)
      ranked == IF scored.scoreIt > Len(track) THEN CalcRowRank(scored) ELSE scored
  IN  IF p.pos = Frames(track) THEN p
      ELSE [ranked EXCEPT !.score = Clamp(@, 0, TotalPoints)]

(* Whether tone is right for every note that sounds during step pos.       *)
InTune(pos, tone) ==
  \A i \in DOMAIN track :
    \/ ClampDuration(track[i], StepUnits * pos, StepUnits * (pos + 1)) = 0
    \/ tone # NoTone /\ PowerFactor(track[i], tone) = 2
    \/ track[i].type = "sleep"

-----------------------------------------------------------------------------
(* Engine: engine.cc.                                                      *)

(* The constructor: old players are cleared, the thread starts.            *)
StartEngine ==
  /\ pc' = "loop" /\ time' = 0
  /\ player' = [s \in Singers |-> NewPlayer]

Init ==
  /\ track \in Tracks
  /\ audio = -Lead /\ silent = FALSE /\ paused = FALSE /\ seeks = 0
  /\ time = 0 /\ pc = "loop" /\ quit = FALSE
  /\ player = [s \in Singers |-> NewPlayer]
  /\ ui = "sing" /\ starts = 1
  /\ flawless = Singers

EngineOnly == UNCHANGED <<track, audioVars, uiVars>>

(* No time step is due: the music has not come so far, or is over.         *)
Behind == silent \/ audio < time

WrongPrepare ==
  /\ pc = "loop"
  /\ pc' = IF quit /\ ~Behind THEN "ended" ELSE "clock"
  /\ EngineOnly /\ UNCHANGED <<time, player, flawless>>

(* The loop's condition, and prepare() of every player.                    *)
Prepare ==
  /\ pc = "loop"
  /\ pc' = IF quit THEN "ended" ELSE "clock"
  /\ EngineOnly /\ UNCHANGED <<time, player, flawless>>

(* Sleep until a step should be due, and look again.                      *)
Sleep ==
  /\ pc = "clock" /\ Behind
  /\ pc' = "loop"
  /\ EngineOnly /\ UNCHANGED <<time, player, flawless>>

UpdatePlayers ==
  /\ pc = "clock" /\ ~Behind
  /\ pc' = "loop" /\ time' = time + 1
  /\ \E heard \in [Singers -> Tones \cup {NoTone}] :
       /\ player' = [s \in Singers |-> Update(player[s], heard[s])]
       /\ flawless' = {s \in flawless :
            player[s].pos = Frames(track) \/ InTune(player[s].pos, heard[s])}
  /\ EngineOnly

Engine == Prepare \/ Sleep \/ UpdatePlayers

-----------------------------------------------------------------------------
(* The music and ScreenSing.                                               *)

AudioOnly == UNCHANGED <<track, engineVars, uiVars, flawless>>

Play ==
  /\ ~paused /\ ~silent
  /\ audio' = Sooner(audio + 1, LastStep) /\ silent' = (audio = LastStep)
  /\ AudioOnly /\ UNCHANGED <<paused, seeks>>

TogglePause ==
  /\ ui = "sing" /\ paused' = ~paused
  /\ AudioOnly /\ UNCHANGED <<audio, silent, seeks>>

(* START skips a break, HOME and the arrow keys go anywhere.               *)
Seek ==
  /\ ui = "sing" /\ ~silent /\ seeks < MaxSeeks
  /\ \E to \in 0 .. LastStep : to # audio /\ audio' = to
  /\ seeks' = seeks + 1
  /\ AudioOnly /\ UNCHANGED <<silent, paused>>

(* The time has come for the score window, or the screen is left: kill()   *)
(* sets m_quit and joins.                                                  *)
Kill ==
  /\ ui = "sing" /\ quit' = TRUE
  /\ ui' \in {"kill for scores", "kill for exit"}
  /\ UNCHANGED <<track, audioVars, engineVars, starts, flawless>>

WrongJoined == TRUE
Joined == pc = "ended"

ShowScores ==
  /\ ui = "kill for scores" /\ Joined
  /\ ui' = "scores"
  /\ UNCHANGED <<track, audioVars, engineVars, quit, starts, flawless>>

Exit ==
  /\ ui = "kill for exit" /\ Joined
  /\ ui' = "left"
  /\ UNCHANGED <<track, audioVars, engineVars, quit, starts, flawless>>

ExitScores ==
  /\ ui = "scores" /\ ui' = "left"
  /\ UNCHANGED <<track, audioVars, engineVars, quit, starts, flawless>>

(* Another song, or the same one from its beginning.                       *)
Enter ==
  /\ ui = "left" /\ starts < MaxStarts
  /\ ui' = "sing" /\ quit' = FALSE /\ starts' = starts + 1
  /\ track' \in Tracks
  /\ audio' = -Lead /\ silent' = FALSE /\ paused' = FALSE /\ seeks' = 0
  /\ StartEngine
  /\ flawless' = Singers

Finished == ui = "left" /\ starts = MaxStarts /\ UNCHANGED vars

Ui == Kill \/ ShowScores \/ Exit \/ ExitScores \/ Enter
Next == Engine \/ Play \/ TogglePause \/ Seek \/ Ui \/ Finished

(* A step of the engine's thread, which always has one until it ends: said *)
(* by what it does to pc alone, so that TLC need not score notes to see it.*)
EngineRuns == pc # "ended" /\ pc' \in {"loop", "clock", "ended"} \ {pc}

(* The engine's thread is scheduled, and a join that can return does.      *)
Spec ==
  /\ Init /\ [][Next]_vars
  /\ WF_pc(EngineRuns) /\ WF_vars(Play) /\ WF_vars(ShowScores) /\ WF_vars(Exit)

-----------------------------------------------------------------------------
ScoringTypeOK ==
  /\ track \in Tracks
  /\ audio \in -Lead .. LastStep /\ silent \in BOOLEAN
  /\ paused \in BOOLEAN /\ quit \in BOOLEAN /\ flawless \subseteq Singers
  /\ seeks \in 0 .. MaxSeeks /\ starts \in 1 .. MaxStarts
  /\ time \in 0 .. LastStep + 1
  /\ pc \in {"loop", "clock", "ended"}
  /\ ui \in {"sing", "kill for scores", "kill for exit", "scores", "left"}
  /\ \A s \in Singers :
       LET p == player[s] IN
       /\ p.pos \in 0 .. Frames(track) /\ p.scoreIt \in 1 .. Len(track) + 1
       /\ p.score \in 0 .. TotalPoints
       /\ p.noteScore \in Nat /\ p.lineScore \in Nat /\ p.maxLineScore \in Nat
       /\ p.prevLineScore \in Nat \X Nat \cup {NoRank}
       /\ p.stars \subseteq DOMAIN track

(* All players stand where the engine's clock stands, whatever jumps the   *)
(* music made: no time step of a song is scored twice or left out, and     *)
(* m_pitch is filled up to m_pos.                                          *)
LockStep == \A s \in Singers : player[s].pos = Sooner(time, Frames(track))

(* What notes i to j offered until time e.                                 *)
Offered(i, j, e) ==
  SumFunctionOnSet([k \in DOMAIN track |-> 2 * Multiplier(track[k]) * ClampDuration(track[k], 0, e)],
                   i .. j)

(* No singer is ever paid more than the notes sung so far are worth: in    *)
(* the song, in the row of lyrics and in the note at hand, nor ranked      *)
(* beyond 1 ("score for the previous line (normalized [0,1])", player.hh). *)
(* So m_score ends in [0, 1] by itself, and Hiscore::addHiscore never sees *)
(* more than 10000 points.                                                 *)
NeverOverpaid ==
  \A s \in Singers :
    LET p == player[s]
        e == StepUnits * p.pos
    IN  /\ p.score <= Offered(1, Len(track), e)
        /\ p.lineScore <= Offered(RowStart(p.scoreIt), Len(track), e)
        /\ p.noteScore <= Offered(p.scoreIt, Len(track), e)
        /\ p.prevLineScore = NoRank \/ p.prevLineScore[1] <= p.prevLineScore[2]

(* Notes that follow one another, as the parsers' finalize() leaves them.  *)
Apart(t) == \A i, j \in DOMAIN t : i < j => t[i].end <= t[j].begin

(* A singer who has hit every tone so far has all points there were, a     *)
(* star on every note left behind that can have one, and full rank for     *)
(* the last row: also when short notes share a time step, when the music   *)
(* was paused or moved, and after a restart.                               *)
FlawlessIsPerfect ==
  Apart(track) =>
    \A s \in flawless :
      LET p == player[s] IN
      /\ p.score = Offered(1, Len(track), StepUnits * p.pos)
      /\ \A i \in 1 .. p.scoreIt - 1 :
           track[i].type \in {"normal", "golden"} /\ track[i].begin < track[i].end => i \in p.stars
      /\ p.prevLineScore # NoRank => p.prevLineScore[1] = p.prevLineScore[2]

(* Points, stars and ranks are those that were sung for, no more and no    *)
(* less, and of the time steps there were (VocalTrack's notes,             *)
(* Player::update and calcRowRank).                                        *)
PointsAreRight == LockStep /\ NeverOverpaid /\ FlawlessIsPerfect

(* When the score window is there, or the song is left, nobody's score     *)
(* changes any more: the engine has really ended before m_database.cur is  *)
(* pruned and sorted, and before the song's notes are dropped.             *)
ScoresAreFinal == [][(ui \in {"scores", "left"} /\ ui' = ui) => UNCHANGED player]_vars

(* kill() returns: the thread looks at m_quit however long it has to wait  *)
(* for the music.                                                          *)
KillReturns == ui \in {"kill for scores", "kill for exit"} ~> ui \in {"scores", "left"}
=============================================================================
