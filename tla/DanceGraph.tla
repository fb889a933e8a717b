----------------------------- MODULE DanceGraph -----------------------------
(***************************************************************************)
(* A dance pad in ScreenSing (DanceGraph and the parts of InstrumentGraph  *)
(* it uses): the join menu with its track and level, presses and releases  *)
(* judged against arrows, holds and mines, and the score that is paid when *)
(* an arrow goes by.                                                       *)
(*                                                                         *)
(* Time is counted in steps of 50 ms, so that maxTolerance (0.15 s) is 3.  *)
(* A frame lasts one step and handles at most one event.  Left out: the    *)
(* countdown, popups, the longest streak and drawing; the cursor of the    *)
(* menu, so that a pad pressed in a menu may act on any of its options.    *)
(***************************************************************************)
EXTENDS Integers, Sequences, FiniteSets, SequencesExt, FiniteSetsExt

CONSTANTS
  Panels,         \* the panels of the pad
  DanceTracks,  \* track -> level -> set of arrows [pad, begin, end, mine]
  FirstTrack,   \* the track chosen for a new player
  Stops,        \* the stops of the song: sequence of [at, len]
  DanceStart, DanceEnd,   \* bounds: where the music starts and stops moving
  DanceJoinEarly, \* join time of a player who joined before 0 (-1 s)
  DanceJoinDelay, DanceDeathDelay,  \* join_delay and death_delay
  MinePenalty,  \* game/instrument_miss_penalty
  MaxChoices    \* bound: changes of track and level

DanceDifficulty == 0 .. 4   \* BEGINNER to CHALLENGE

\* Charts of other classes cannot be chosen.  In a track that has no others the list
\* of levels in the menu is empty, and reading it throws: such songs are left out.
\* The parser ends a hold before the next arrow of its panel (smParseNotes).
ASSUME DanceAssumption ==
  /\ FirstTrack \in DOMAIN DanceTracks
  /\ \A t \in DOMAIN DanceTracks :
       DOMAIN DanceTracks[t] \subseteq DanceDifficulty /\ DOMAIN DanceTracks[t] # {}
  /\ \A t \in DOMAIN DanceTracks : \A l \in DOMAIN DanceTracks[t] :
       /\ IsFiniteSet(DanceTracks[t][l])
       /\ \A a \in DanceTracks[t][l] :
            a.pad \in Panels /\ a.begin \in Int /\ a.end \in Int /\ a.begin <= a.end /\ a.mine \in BOOLEAN
       /\ \A a, b \in DanceTracks[t][l] :
            a # b /\ a.pad = b.pad => a.end < b.begin \/ b.end < a.begin
  /\ Stops \in Seq([at : Int, len : Int])
  /\ DanceStart \in Int /\ DanceEnd \in Int /\ DanceStart <= DanceEnd

VARIABLES
  clock,    \* position of the audio
  halted,   \* the audio is paused
  global,   \* the menu of ScreenSing is open: it pauses and disables events
  down,     \* pads somebody stands on
  dancing,  \* the instrument exists
  d,        \* the instrument
  lost      \* not in the program: pads left while events were disabled

danceVars == <<clock, halted, global, down, dancing, d, lost>>

HitTolerance == 3
AbsDiff(x, y) == IF x < y THEN y - x ELSE x - y

\* points(error): 50 for a perfect hit, 5 for one that is way off
ArrowPoints(error) ==
  CASE error = 0 -> 50 [] error = 1 -> 20 [] error = 2 -> 10 [] OTHER -> 5

\* Stops hold the time of the chart back while the music goes on.
ChartTime ==
  LET Left(t, i) == t - SumFunctionOnSet([j \in DOMAIN Stops |-> Stops[j].len], 1 .. i - 1)
      ahead(t) == {i \in DOMAIN Stops : \/ Left(t, i) <= Stops[i].at
                                       \/ Left(t, i) < Stops[i].at + Stops[i].len}
      At(t, i) == IF i > Len(Stops) THEN Left(t, i) ELSE Min({Stops[i].at, Left(t, i)})
  IN  [t \in DanceStart .. DanceEnd |-> At(t, Min(ahead(t) \cup {Len(Stops) + 1}))]

Now == ChartTime[clock']

\* difficulty() sorts the arrows by their end.
Sorted ==
  LET Orders(S) == {s \in [1 .. Cardinality(S) -> S] : IsInjective(s)}
      EndsFirst(s) == \A i, j \in DOMAIN s : i < j => s[i].end <= s[j].end
  IN  [t \in DOMAIN DanceTracks |->
         [l \in DOMAIN DanceTracks[t] |->
            CHOOSE s \in Orders(DanceTracks[t][l]) : EndsFirst(s)]]

Arrows(chart) == Sorted[chart[1]][chart[2]]

JoiningDance(q) == ~q.left /\ Now < q.joinTime
DeadDance(q) == q.left \/ q.dead >= DanceDeathDelay

-----------------------------------------------------------------------------
(* Track and level *)

\* DanceGraph::difficulty: new arrows; the score stays.
Difficulty(q, l) ==
  LET chart == <<q.track, l>>
      none == [i \in DOMAIN Arrows(chart) |-> FALSE]
  IN  [q EXCEPT !.level = l, !.chart = chart, !.it = 1, !.hit = none, !.released = none,
                !.pays = [i \in DOMAIN none |-> 0], !.active = [x \in Panels |-> 0],
                !.base = q.score]

\* changeDifficulty(0): the level itself or the next harder one of the track; if
\* there is none the arrows of the old track stay.
ChangeDifficulty(q) ==
  LET harder == {l \in DOMAIN DanceTracks[q.track] : l >= q.level}
  IN  IF harder = {} THEN q ELSE Difficulty(q, Min(harder))

\* setupJoinMenu: the selections follow; a level the track lacks becomes its first
SetupJoinMenu(q) ==
  LET levels == DOMAIN DanceTracks[q.track]
  IN  [q EXCEPT !.menu = "join", !.selTrack = q.track,
                !.selLevel = IF q.level \in levels THEN q.level ELSE Min(levels)]

\* setTrack and finalizeTrackChange
SetTrack(q, t) == SetupJoinMenu(ChangeDifficulty([q EXCEPT !.track = t]))

\* InstrumentGraph and DanceGraph constructors: the easiest level, no hits.  The
\* last fields are not in the program: the score before the chart was made, and
\* arrows gone by since the player last moved.
NewDancer(t) ==
  SetTrack([track |-> FirstTrack, level |-> 0, chart |-> <<>>, it |-> 1, hit |-> <<>>,
            released |-> <<>>, pays |-> <<>>, active |-> <<>>, pressed |-> {}, score |-> 0,
            streak |-> 0, dead |-> 0, left |-> FALSE, ready |-> FALSE, open |-> TRUE,
            menu |-> "join", selTrack |-> FirstTrack, selLevel |-> 0, choices |-> 0,
            joinTime |-> IF t < 0 THEN DanceJoinEarly ELSE t + DanceJoinDelay,
            base |-> 0, idle |-> 0],
           FirstTrack)

\* InstrumentGraph::unjoin, then the join menu once more
UnjoinDance(q) ==
  SetupJoinMenu([q EXCEPT !.left = TRUE, !.score = 0, !.streak = 0, !.ready = FALSE])

\* mutant: a key that closes the menu leaves engine() before the selections are read
WrongSync(q) ==
  IF ~q.open THEN q
  ELSE IF q.selTrack # q.track THEN SetTrack(q, q.selTrack)
  ELSE IF q.selLevel # q.level THEN Difficulty(q, q.selLevel) ELSE q

\* After any key in the menu: what was selected is carried out, one thing at a time.
Sync(q) ==
  IF q.selTrack # q.track THEN SetTrack(q, q.selTrack)
  ELSE IF q.selLevel # q.level THEN Difficulty(q, q.selLevel) ELSE q

\* Menu::action on the options of the two menus
MenuActions(q) ==
  {q, [q EXCEPT !.open = FALSE]}
    \cup (IF q.menu = "join" /\ q.choices < MaxChoices
          THEN {[q EXCEPT !.selTrack = t, !.choices = @ + 1] : t \in DOMAIN DanceTracks \ {q.selTrack}}
                 \cup {[q EXCEPT !.selLevel = l, !.choices = @ + 1] :
                         l \in DOMAIN DanceTracks[q.track] \ {q.selLevel}}
          ELSE {})

\* The menu keys of engine()
MenuKey(q, e) ==
  LET acted == IF e.key = "start" THEN {[q EXCEPT !.open = FALSE]} ELSE MenuActions(q)
      rejoin == IF q.menu = "pause" /\ e.key # "start" /\ Sync(q) = q THEN {UnjoinDance(q)} ELSE {}
  IN  {Sync(r) : r \in acted} \cup rejoin

-----------------------------------------------------------------------------
(* Dancing *)

Hittable(q, i) == ~q.hit[i]

\* The loop of dance() begins at m_notesIt and ends at the first arrow that has gone
\* away: both as engine() left them in the frame before.
Reached(q) ==
  LET a == Arrows(q.chart)
      gone == {i \in q.it .. Len(a) : a[i].end + HitTolerance < Now}
  IN  q.it .. Min(gone \cup {Len(a) + 1}) - 1

\* dance(), a press
Press(q, pad) ==
  LET a == Arrows(q.chart)
      S == {i \in Reached(q) : /\ Hittable(q, i) /\ a[i].pad = pad
                               /\ AbsDiff(Now, a[i].begin) <= HitTolerance}
      i == Min(S)
      hit == [q EXCEPT !.hit[i] = TRUE, !.active[pad] = i]
  IN  IF S = {} THEN q
      ELSE IF a[i].mine
      THEN [hit EXCEPT !.streak = 0,
                       !.score = @ - IF MinePenalty THEN ArrowPoints(0) ELSE 0]
      ELSE [hit EXCEPT !.streak = @ + 1, !.pays[i] = ArrowPoints(AbsDiff(Now, a[i].begin))]

\* mutant: an early release is forgiven
WrongTooEarly(q, i) == FALSE

TooEarly(q, i) == ~q.released[i] /\ Arrows(q.chart)[i].end > Now + HitTolerance

\* dance(), a release: a hold left too early brings nothing
Release(q, pad) ==
  LET i == q.active[pad]
  IN  IF i # 0 /\ TooEarly(q, i)
      THEN [q EXCEPT !.released[i] = TRUE, !.pays[i] = 0, !.streak = 0] ELSE q

Dance(q, e) ==
  CASE e.key = "press" -> Press([q EXCEPT !.pressed = @ \cup {e.pad}], e.pad)
    [] e.key = "release" -> Release([q EXCEPT !.pressed = @ \ {e.pad}], e.pad)
    [] OTHER -> q

\* One turn of the loop over events.  The pads dance in the menu as well.
HandleDanceEvent(q0, e) ==
  LET q == [q0 EXCEPT !.dead = 0, !.idle = 0]
  IN  IF e.key = "release" THEN {Dance(q, e)}
      ELSE IF q.open THEN {Dance(r, e) : r \in MenuKey(q, e)}
      ELSE {Dance([q EXCEPT !.open = e.key = "start"], e)}

Away(q, n) == IF JoiningDance(q) THEN 0 ELSE n

\* What arrows bring: nothing if they were not hit.
Payment(q, arrows) ==
  SumFunctionOnSet([i \in arrows |-> IF q.hit[i] THEN q.pays[i] ELSE 0], arrows)

\* Arrows gone by: paid if they were hit, the end of the streak if not.
GoneBy(q, touched) ==
  LET a == Arrows(q.chart)
      gone == {i \in q.it .. Len(a) : a[i].end + HitTolerance < Now}
      arrows == {i \in gone : ~a[i].mine}
  IN  [q EXCEPT !.it = @ + Cardinality(gone), !.score = @ + Payment(q, arrows),
                !.released = [i \in DOMAIN a |-> @[i] \/ (i \in gone /\ q.hit[i])],
                !.streak = IF \E i \in arrows : ~q.hit[i] THEN 0 ELSE @,
                !.dead = IF touched THEN 0 ELSE @ + Away(q, Cardinality(gone))]

\* Standing on a mine.  The loop ends at the first arrow that began too long ago.
StandOnMines(q) ==
  LET a == Arrows(q.chart)
      old == {i \in q.it .. Len(a) : a[i].begin + HitTolerance < Now}
      mines == {i \in q.it .. Min(old \cup {Len(a) + 1}) - 1 :
                  /\ ~q.hit[i] /\ a[i].mine /\ a[i].pad \in q.pressed
                  /\ a[i].begin + HitTolerance >= Now /\ a[i].end <= Now + HitTolerance}
      charge == IF MinePenalty THEN ArrowPoints(0) * Cardinality(mines) ELSE 0
  IN  [q EXCEPT !.hit = [i \in DOMAIN a |-> @[i] \/ i \in mines], !.score = @ - charge]

-----------------------------------------------------------------------------
(* ScreenSing *)

DanceInit ==
  /\ clock = DanceStart /\ halted = FALSE /\ global = FALSE /\ down = {}
  /\ dancing = FALSE /\ d = NewDancer(DanceStart) /\ lost = {}

\* A pad is stepped on or left, or START is pressed.
PadEvents ==
  [key : {"press"}, pad : Panels \ down] \cup [key : {"release"}, pad : down]
    \cup [key : {"start"}, pad : {0}]

StepOn(e) ==
  down' = CASE e.key = "press" -> down \cup {e.pad} [] e.key = "release" -> down \ {e.pad}
            [] OTHER -> down

\* ScreenSing::manageEvent: the first step makes an instrument of the pad.
JoinDance ==
  /\ ~dancing /\ ~DeadDance(d)
  /\ dancing' = TRUE /\ d' = NewDancer(clock)
  /\ UNCHANGED <<clock, halted, global, down, lost>>

\* InstrumentGraph::doUpdates
ReadyDance(q) == IF ~q.open /\ ~q.ready THEN [q EXCEPT !.ready = TRUE, !.menu = "pause"] ELSE q

\* Arrows that went by while the player was there and did nothing.
Idle(q) == LET a == Arrows(q.chart)
           IN  Cardinality({i \in q.it .. Len(a) : a[i].end + HitTolerance < Now})

\* instrumentLayout and engine(): the music stands while a menu is open.
DanceFrame(outcomes, touched) ==
  /\ dancing /\ ~DeadDance(d)
  /\ halted' = (d.open \/ global)
  /\ clock' = IF halted' \/ clock = DanceEnd THEN clock ELSE clock + 1
  /\ \E q \in outcomes :
       d' = [StandOnMines(GoneBy(q, touched)) EXCEPT
               !.idle = IF JoiningDance(q) \/ touched THEN @ ELSE @ + Idle(q)]
  /\ UNCHANGED dancing

QuietDance ==
  /\ DanceFrame({ReadyDance(d)}, FALSE)
  /\ UNCHANGED <<global, down, lost>>

\* A pad moves while events are enabled.
DanceStep ==
  /\ ~global
  /\ \E e \in PadEvents :
       /\ DanceFrame(HandleDanceEvent(ReadyDance(d), e), ReadyDance(d).open /\ e.key # "release")
       /\ StepOn(e)
       /\ lost' = IF e.key = "start" THEN lost ELSE lost \ {e.pad}
  /\ UNCHANGED global

\* CANCEL of a device that is no instrument opens the menu of the screen, which
\* closes again at once while somebody is joining, and else closes all others.
OpenGlobal ==
  /\ dancing /\ ~global /\ ~halted
  /\ global' = ~(clock < d.joinTime)
  /\ halted' = TRUE
  /\ d' = IF clock < d.joinTime THEN d ELSE [d EXCEPT !.open = FALSE]
  /\ UNCHANGED <<clock, down, dancing, lost>>

\* What moves while it is open is not reported.
MoveUnseen ==
  /\ global
  /\ \E e \in PadEvents \ [key : {"start"}, pad : {0}] :
       StepOn(e) /\ lost' = IF e.key = "release" THEN lost \cup ({e.pad} \cap d.pressed) ELSE lost
  /\ UNCHANGED <<clock, halted, global, dancing, d>>

CloseGlobal ==
  /\ global /\ global' = FALSE /\ halted' = FALSE
  /\ UNCHANGED <<clock, down, dancing, d, lost>>

\* instrumentLayout: the dead are removed.  Bound: nobody joins a second time.
RemoveDancer ==
  /\ dancing /\ DeadDance(d) /\ dancing' = FALSE
  /\ d' = [NewDancer(DanceStart) EXCEPT !.left = TRUE]
  /\ UNCHANGED <<clock, halted, global, down, lost>>

NobodyDances ==
  /\ ~dancing
  /\ clock' = IF halted \/ clock = DanceEnd THEN clock ELSE clock + 1
  /\ UNCHANGED <<halted, global, down, dancing, d, lost>>

DanceNext ==
  \/ JoinDance \/ QuietDance \/ DanceStep \/ OpenGlobal \/ MoveUnseen \/ CloseGlobal
  \/ RemoveDancer \/ NobodyDances

DanceSpec == DanceInit /\ [][DanceNext]_danceVars

-----------------------------------------------------------------------------
(* Properties *)

\* Once the menu is closed, by whatever key and in whatever order track and level
\* were chosen, the player dances the arrows of the track and level that are shown:
\* also when the new track lacks the level, so that setTrack() leaves the arrows of
\* the old one behind (m_gamingMode, m_level, m_notes and the two selections).
ChartAsChosen ==
  dancing /\ ~d.open =>
    /\ d.chart = <<d.track, d.level>>
    /\ d.selTrack = d.track /\ d.selLevel = d.level

\* Every arrow that was hit is paid once, when it goes by, and every mine costs
\* once, whether it was stepped on or stood on (m_score and isHit).
PaidOnce ==
  dancing /\ ~d.left =>
    LET a == Arrows(d.chart)
        hit(mine) == {i \in DOMAIN a : d.hit[i] /\ a[i].mine = mine}
        cost == IF MinePenalty THEN ArrowPoints(0) ELSE 0
    IN  d.score = d.base + SumFunctionOnSet(d.pays, {i \in hit(FALSE) : i < d.it})
                    - cost * Cardinality(hit(TRUE))

\* A hold is going to be paid only as long as somebody stands on its pad, but for
\* pads left while the menu of the screen kept the release from the instrument.
\* (Stops that are not in order may turn the time back.)
StopsInOrder ==
  \A i, j \in DOMAIN Stops : i < j => Stops[i].at <= Stops[j].at
HoldsAreHeld ==
  StopsInOrder /\ dancing /\ ~d.left =>
    LET a == Arrows(d.chart)
    IN  \A i \in DOMAIN a :
          d.hit[i] /\ ~d.released[i] /\ a[i].end > ChartTime[clock] + HitTolerance
            => a[i].pad \in down \cup lost

\* A dancer's points are those of the arrows hit, held and left alone (dance,
\* engine and the events of the pad between them).
DancePaid == PaidOnce /\ HoldsAreHeld
=============================================================================
