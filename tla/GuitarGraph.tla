---------------------------- MODULE GuitarGraph ----------------------------
(***************************************************************************)
(* A guitar or a drum kit in ScreenSing: joining, the menu of the player,  *)
(* the judgement of hits against the chords of a chart, holds, streaks and *)
(* the removal of a player who has gone away (GuitarGraph,                 *)
(* InstrumentGraph and ScreenSing::instrumentLayout).                      *)
(*                                                                         *)
(* Time is counted in steps of 50 ms, so that maxTolerance (0.15 s) is 3,  *)
(* and points are doubled, so that all of them are whole numbers.  A       *)
(* frame lasts one step and handles at most one event, so that the window  *)
(* of a chord has room for five.  Left out: drum fills and God Mode, the   *)
(* big rock ending, solos, lefty and pro mode, the change of track and     *)
(* animation.                                                              *)
(***************************************************************************)
EXTENDS Integers, Sequences, FiniteSets, FiniteSetsExt, Functions

CONSTANTS
  Pads,        \* the frets of a guitar or the pads of a drum kit, 0 .. n
  Charts,      \* level -> sequence of chords [begin, len: fret -> duration]
  Kids,        \* the level judged with indulgence
  StartTime,   \* where the music starts, before 0
  EarlyKeys,   \* keys before this time bring the join menu back (-2 s)
  JoinEarly,   \* join time of a player who joined before 0 (-1 s)
  JoinDelay,   \* join_delay
  DeathDelay,  \* death_delay
  MissPenalty, \* game/instrument_miss_penalty
  \* bounds of the model
  SongEnd,     \* time at which the music stops moving
  MaxJoins,    \* number of times somebody joins
  MaxLevels    \* number of changes of the level

Levels == DOMAIN Charts

Tolerance == 3
TapDelay == 3

\* The chords of a chart follow each other, none before the music.  Before
\* JoinEarly no chord can be reached.
ASSUME ChartAssumption ==
  /\ Kids \in Levels /\ IsFiniteSet(Pads)
  /\ \A l \in Levels :
        LET chart == Charts[l]
        IN  /\ Len(chart) \in Nat /\ DOMAIN chart = 1 .. Len(chart)
            /\ \A i \in DOMAIN chart :
                 /\ chart[i].begin \in Nat /\ \A j \in 1 .. i : chart[j].begin <= chart[i].begin
                 /\ DOMAIN chart[i].len \in SUBSET Pads /\ DOMAIN chart[i].len # {}
                 /\ \A f \in DOMAIN chart[i].len : chart[i].len[f] \in Nat
  /\ {StartTime, EarlyKeys, JoinEarly, SongEnd} \subseteq Int
  /\ {JoinDelay, DeathDelay} \subseteq Nat /\ JoinDelay >= 2 /\ MissPenalty \in BOOLEAN
  /\ EarlyKeys < JoinEarly /\ JoinEarly <= 1 - Tolerance

VARIABLES
  drums,   \* m_drums: the device is a drum kit
  time,    \* position of the audio
  paused,  \* the audio is paused
  joined,  \* the instrument exists: m_instruments of ScreenSing
  player,  \* the instrument and its player
  joins    \* instruments made so far

guitarVars == <<drums, time, paused, joined, player, joins>>

Abs(x) == IF x < 0 THEN -x ELSE x

\* points(error), doubled
Points(error) == CASE error = 0 -> 100 [] error = 1 -> 60 [] error = 2 -> 30 [] OTHER -> 0

Poly(c) == Cardinality(DOMAIN c.len)
End(c) == c.begin + Max({c.len[f] : f \in DOMAIN c.len})

Chart(l) == Charts[l]

\* GuitarChord::tappable
Tappable(l, i) ==
  LET c == Chart(l)[i]  before == Chart(l)[i - 1]
  IN  /\ ~drums /\ Poly(c) = 1 /\ i > 1
      /\ DOMAIN c.len \cap DOMAIN before.len = {}
      /\ End(before) + TapDelay >= c.begin

\* GuitarChord::matches: a single note may be played with lower frets held
Matches(c, frets) ==
  IF Poly(c) = 1
  THEN \A f \in DOMAIN c.len : f \in frets /\ \A g \in frets : g <= f
  ELSE frets = DOMAIN c.len

NoHold == [end |-> -1, since |-> -1]
\* m_notes[nullptr]: a pad that is not in the chord has no Duration
NoPad == <<>>
NoteKey(l, i, f) == IF f \in DOMAIN Chart(l)[i].len THEN <<l, i, f>> ELSE NoPad

\* No chord of the level has been played.
FreshStatus(l) == [i \in DOMAIN Chart(l) |-> 0]

\* InstrumentGraph and GuitarGraph constructors.  The last two fields are not
\* in the program: the notes the music left behind since the player joined and
\* last touched the player, and whether the chart was wound back meanwhile.
NewPlayer(t, l) ==
  [level |-> l, it |-> 1, status |-> FreshStatus(l), earned |-> FreshStatus(l),
   notes |-> {}, holds |-> [f \in Pads |-> NoHold], pressed |-> {},
   score |-> 0, streak |-> 0, dead |-> 0, left |-> FALSE,
   joinTime |-> IF t < 0 THEN JoinEarly ELSE t + JoinDelay,
   ready |-> FALSE, menu |-> "join", open |-> TRUE, changes |-> 0,
   idle |-> 0, rewound |-> FALSE]

Joining(q) == ~q.left /\ time' < q.joinTime
\* InstrumentGraph::dead: m_jointime is NaN, or the player has gone away
Dead(q) == q.left \/ q.dead >= DeathDelay

-----------------------------------------------------------------------------
(* Judgement *)

EndStreak(q) == [q EXCEPT !.streak = 0]

\* The chords that may be hit now; the nearest of them, the first one of two.
InReach(q) == {i \in q.it .. Len(Chart(q.level)) : Abs(Chart(q.level)[i].begin - time') < Tolerance}
Nearest(q, S) ==
  LET Error(i) == Abs(Chart(q.level)[i].begin - time')
  IN  CHOOSE i \in S : \A j \in S : Error(i) < Error(j) \/ (Error(i) = Error(j) /\ i <= j)

\* GuitarGraph::fail, not for taps; a wrong pick ends the holds
Fail(q, endHolds) ==
  LET charge == IF ~MissPenalty THEN 0 ELSE IF q.level = Kids THEN Points(0) \div 2 ELSE Points(0)
  IN  EndStreak([q EXCEPT !.score = @ - charge,
                          !.holds = IF endHolds THEN [f \in Pads |-> NoHold] ELSE @])

\* GuitarGraph::drumHit.  For the kids' level the condition looks at m_chordIt,
\* not at the chord of the loop.
DrumCandidates(q, f) ==
  IF q.level = Kids
  THEN IF q.status[q.it] = Poly(Chart(q.level)[q.it]) THEN {} ELSE InReach(q)
  ELSE {i \in InReach(q) : NoteKey(q.level, i, f) \notin q.notes}

\* Chords skipped by the hit of a later one end the streak if they are incomplete.
KeptStreak(q, best) ==
  IF \E i \in q.it .. best - 1 : q.status[i] < Poly(Chart(q.level)[i]) THEN 0 ELSE q.streak

DrumHit(q, f) ==
  LET S == IF q.it > Len(Chart(q.level)) THEN {} ELSE DrumCandidates(q, f)
      best == Nearest(q, S)
      c == Chart(q.level)[best]
      error == Abs(c.begin - time')
      gain == IF q.level = Kids THEN Points(error \div 2) ELSE Points(error)
      kept == KeptStreak(q, best)
      hits == q.status[best] + 1
  IN  IF S = {} THEN Fail(q, FALSE)
      ELSE [q EXCEPT !.it = best, !.status[best] = hits, !.earned[best] = @ + gain,
                     !.score = @ + gain, !.notes = @ \cup {NoteKey(q.level, best, f)},
                     !.streak = IF hits = Poly(c) THEN kept + 1 ELSE kept]

\* GuitarGraph::guitarPlay.  A release never finds a note: the frets it looks at
\* have just been cleared.
GuitarCandidates(q, frets, picked) ==
  {i \in InReach(q) :
     /\ q.status[i] <= (IF picked THEN 1 ELSE 0)
     /\ picked \/ (Tappable(q.level, i) /\ q.status[i - 1] # 0)
     /\ Matches(Chart(q.level)[i], frets)}

\* mutant: the points of a tap stay when the note is picked as well
WrongTakenBack(q, best) == 0

\* What the chord brought so far is taken back before it is paid again.
TakenBack(q, best) == q.earned[best]

GuitarPlay(q, frets, picked) ==
  LET S == GuitarCandidates(q, frets, picked)
      best == Nearest(q, S)
      c == Chart(q.level)[best]
      gain == Points(Abs(c.begin - time')) * Poly(c)
      Held(f) == [end |-> c.begin + c.len[f], since |-> c.begin]
  IN  IF S = {} THEN IF picked THEN Fail(q, TRUE) ELSE q
      ELSE [q EXCEPT !.it = best, !.status[best] = IF picked THEN 2 ELSE 1,
                     !.score = @ - TakenBack(q, best) + gain, !.earned[best] = gain,
                     !.streak = IF q.earned[best] = 0 THEN @ + 1 ELSE @,
                     !.holds = [f \in Pads |-> IF f \in DOMAIN c.len THEN Held(f) ELSE @[f]]]

\* GuitarGraph::endHold
EndHold(q, f) == [q EXCEPT !.holds[f] = NoHold]

\* engine(): chords that can no longer be played
Missed(q, i) == IF drums THEN q.status[i] < Poly(Chart(q.level)[i]) ELSE q.status[i] = 0

Absence(q, n) == IF Joining(q) THEN 0 ELSE n

SkipMissed(q) ==
  LET past == {i \in q.it .. Len(Chart(q.level)) : Chart(q.level)[i].begin + Tolerance < time'}
  IN  [q EXCEPT !.it = @ + Cardinality(past),
                !.streak = IF \E i \in past : Missed(q, i) THEN 0 ELSE @,
                !.dead = @ + Absence(q, Cardinality(past))]

\* engine(): holds, paid as with a full m_correctness, which only scales them down
ProcessHolds(q) ==
  LET last(f) == Min({time', q.holds[f].end})
      due == {f \in Pads : q.holds[f] # NoHold /\ last(f) >= q.holds[f].since}
      pay == [f \in due |-> 5 * (last(f) - q.holds[f].since)]
  IN  [q EXCEPT !.score = @ + SumFunctionOnSet(pay, due),
                !.holds = [f \in Pads |->
                   IF f \notin due THEN @[f]
                   ELSE IF last(f) = @[f].end THEN NoHold ELSE [@[f] EXCEPT !.since = time']]]

-----------------------------------------------------------------------------
(* The menu of the instrument *)

\* InstrumentGraph::doUpdates
DoUpdates(q) == IF ~q.open /\ ~q.ready THEN [q EXCEPT !.ready = TRUE, !.menu = "pause"] ELSE q

\* GuitarGraph::difficulty, updateChords
SetLevel(q, l) ==
  [q EXCEPT !.level = l, !.it = 1, !.status = FreshStatus(l), !.earned = FreshStatus(l),
            !.changes = @ + 1, !.rewound = @ \/ ~Joining(q)]

\* InstrumentGraph::unjoin
Unjoin(q) == [q EXCEPT !.left = TRUE, !.score = 0, !.streak = 0, !.ready = FALSE, !.menu = "join"]

\* What a key pressed in the open menu may do, depending on the selected option.
MenuOutcomes(q) ==
  {q, [q EXCEPT !.open = FALSE]}
    \cup (IF q.menu = "join" /\ q.changes < MaxLevels
          THEN {SetLevel(q, l) : l \in Levels \ {q.level}} ELSE {})
    \cup (IF q.menu = "pause" THEN {Unjoin(q)} ELSE {})

-----------------------------------------------------------------------------
(* Events: frets and pads, the strum bar and START *)

Events ==
  [key : {"press"}, pad : Pads \ player.pressed]
    \cup [key : {"release"}, pad : player.pressed]
    \cup {[key |-> "start"]}
    \cup (IF drums THEN {} ELSE {[key |-> "pick"]})

Pressed(e) == e.key # "release"

\* The part of engine() that plays, once menus and pauses are out of the way.
Play(q, e) ==
  CASE e.key = "press" /\ drums -> {DrumHit(q, e.pad)}
    [] e.key = "press" /\ ~drums -> {q, GuitarPlay(q, {e.pad}, FALSE)} \* q: m_correctness too low to hammer
    [] e.key = "release" -> {EndHold(q, e.pad)}
    [] e.key = "pick" -> {GuitarPlay(q, q.pressed, TRUE)}
    [] OTHER -> {q}

NoDebt(q) == [q EXCEPT !.score = Max({0, @})]

\* The loop over events of engine(), for one event.
HandleEvent(q0, e) ==
  LET held == CASE e.key = "press" /\ ~drums -> q0.pressed \cup {e.pad}
                [] e.key = "release" -> q0.pressed \ {e.pad}
                [] OTHER -> q0.pressed
      q == [q0 EXCEPT !.pressed = held, !.dead = 0, !.idle = 0]
  IN  CASE q.open -> IF Pressed(e) THEN MenuOutcomes(q) ELSE {q}
        [] ~q.open /\ time' < EarlyKeys /\ Pressed(e) ->
             {[q EXCEPT !.menu = "join", !.open = TRUE]}
        [] ~q.open /\ (time' >= EarlyKeys \/ ~Pressed(e)) ->
             IF e.key = "start" THEN {[q EXCEPT !.open = TRUE]}
             ELSE IF paused' THEN {q} ELSE {NoDebt(r) : r \in Play(q, e)}

-----------------------------------------------------------------------------
(* ScreenSing *)

GuitarInit ==
  /\ drums \in BOOLEAN /\ time = StartTime /\ paused = FALSE
  /\ joined = FALSE /\ joins = 0 /\ player = NewPlayer(StartTime, Kids)

\* The music moves on between two frames, unless it is paused.
MusicMoves == time' = IF paused \/ time = SongEnd THEN time ELSE time + 1

\* ScreenSing::manageEvent: an unknown device joins with its first fret or the kick drum
GuitarJoin ==
  /\ ~joined /\ joins < MaxJoins
  /\ joined' = TRUE /\ joins' = joins + 1
  /\ \E l \in Levels : player' = NewPlayer(time, l)
  /\ UNCHANGED <<drums, time, paused>>

\* The notes whose time goes by in this frame.
LeftBehind(l) == {i \in DOMAIN Chart(l) : Chart(l)[i].begin + Tolerance \in time .. time' - 1}

\* ScreenSing::instrumentLayout and GuitarGraph::engine, without or with an event.
Engine(outcomes) ==
  /\ joined /\ ~Dead(player)
  /\ MusicMoves
  /\ paused' = player.open
  /\ \E q \in outcomes :
        player' = [ProcessHolds(SkipMissed(q)) EXCEPT
                !.idle = IF Joining(q) THEN @ ELSE @ + Cardinality(LeftBehind(q.level))]
  /\ UNCHANGED <<drums, joined, joins>>

QuietFrame == Engine({DoUpdates(player)})
EventFrame == time < SongEnd /\ \E e \in Events : Engine(HandleEvent(DoUpdates(player), e))

\* instrumentLayout removes the dead, and leaves the pause alone if nobody is left.
RemoveDead ==
  /\ joined /\ Dead(player)
  /\ joined' = FALSE
  /\ UNCHANGED <<drums, time, paused, player, joins>>

\* Frames in which nobody plays.
NobodyPlays ==
  /\ ~joined /\ MusicMoves
  /\ UNCHANGED <<drums, paused, joined, player, joins>>

GuitarNext == GuitarJoin \/ QuietFrame \/ EventFrame \/ RemoveDead \/ NobodyPlays

GuitarSpec == GuitarInit /\ [][GuitarNext]_guitarVars

-----------------------------------------------------------------------------
(* What a chord can bring: a perfect hit of every note and its whole hold.   *)
(* A single note that was tapped and then picked has its hold started again  *)
(* at its beginning, and what was held within the tolerance is paid twice.   *)
Worth(q, i) ==
  LET c == Chart(q.level)[i]
      hold == [f \in DOMAIN c.len |-> 5 * c.len[f]]
      again == IF Tappable(q.level, i) /\ q.status[i] = 2 THEN 5 * (Tolerance - 1) ELSE 0
  IN  IF q.status[i] = 0 THEN 0
      ELSE Points(0) * Poly(c) + (IF drums THEN 0 ELSE SumFunctionOnSet(hold, DOMAIN c.len) + again)

\* No order of hits, taps, picks, holds and mistakes brings more points than the
\* chords that were hit are worth (m_score against m_scoreFactor): not a repeated
\* hit, not a hold that outlives its note or is taken over by another chord.  The
\* one hit of a wrong pad that drumHit accepts (m_notes of a null Duration, which
\* it takes for a note not played yet) counts extra.
ScoreWithinChart ==
  joined /\ ~player.rewound =>
    LET worth == [i \in DOMAIN Chart(player.level) |-> Worth(player, i)]
    IN  player.score <= SumFunctionOnSet(worth, DOMAIN worth)
                              + IF NoPad \in player.notes THEN Points(0) ELSE 0

\* A streak of drum hits is made of complete chords in a row: chords skipped by
\* playing a later one, or left behind by the clock, end it.  A guitar player's
\* streak has at most one hit for each chord played (m_streak).
StreakUnbroken ==
  joined /\ ~player.rewound =>
    LET Complete(i) == player.status[i] >= Poly(Chart(player.level)[i])
        missed == {i \in 1 .. player.it - 1 : ~Complete(i)}
        last == Max(missed \cup {0})
    IN  player.streak <= Cardinality({i \in DOMAIN player.status :
                                        IF drums THEN i > last /\ Complete(i)
                                        ELSE player.status[i] # 0})

\* instrumentgraph.hh on m_dead: "how many notes has been passed without hitting
\* buttons".  A player is removed for leaving, or after DeathDelay such notes: notes
\* from before they joined are not held against them, and every touch starts the
\* count again.  (Not so for a player whose chart was wound back by a change of the
\* level in the middle of the song.)
RemovedOnlyIfAway ==
  joined /\ Dead(player) /\ ~player.rewound => player.left \/ player.idle >= DeathDelay

\* What a guitarist or drummer is told of the play is earned: points, streak and
\* the right to stay (engine, fail, guitarPlay and drumHit together).
GuitarIsFair == ScoreWithinChart /\ StreakUnbroken /\ RemovedOnlyIfAway

\* The types of the variables and of the fields of a player.
GuitarTypeOK ==
  /\ drums \in BOOLEAN /\ paused \in BOOLEAN /\ joined \in BOOLEAN
  /\ time \in StartTime .. SongEnd /\ joins \in 0 .. MaxJoins
  /\ player.level \in Levels /\ player.it \in 1 .. Len(Chart(player.level)) + 1
  /\ DOMAIN player.status = DOMAIN Chart(player.level)
  /\ DOMAIN player.earned = DOMAIN Chart(player.level)
  /\ player.score >= 0 /\ player.streak \in 0 .. Len(Chart(player.level)) * (MaxLevels + 1)
  /\ player.pressed \subseteq Pads /\ player.menu \in {"join", "pause"}

=============================================================================
