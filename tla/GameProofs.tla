----------------------------- MODULE GameProofs -----------------------------
(***************************************************************************)
(* Four components that share nothing.  A dancer, for any tracks and       *)
(* levels: the chart danced is the chart chosen, and each arrow hit is     *)
(* paid once.  A guitarist or drummer, for any charts: points, streak and  *)
(* the right to stay are earned.  The profiler's log, for any number of    *)
(* starts, each killed at any moment: old logs are kept, in order.         *)
(* Textures, for any addresses and files: each shows its own.              *)
(***************************************************************************)
EXTENDS DanceGraph, PathCache, TextureLoader, GuitarGraph, FoldLemmas

-----------------------------------------------------------------------------
(* Dance.                                                                  *)

Chosen(q) ==
  /\ q.chart = <<q.track, q.level>>
  /\ q.selTrack = q.track /\ q.selLevel = q.level

DancerFields ==
  {"track", "level", "chart", "it", "hit", "released", "pays", "active", "pressed", "score",
   "streak", "dead", "left", "ready", "open", "menu", "selTrack", "selLevel", "choices",
   "joinTime", "base", "idle"}

(* The selections are of the track danced; a level that it has is the one  *)
(* selected, and its arrows are those of the track.                        *)
Dancer(q) ==
  /\ DancerFields \subseteq DOMAIN q /\ q.open \in BOOLEAN
  /\ q.track \in DOMAIN DanceTracks /\ q.selTrack = q.track
  /\ q.level \in DanceDifficulty /\ q.selLevel \in DOMAIN DanceTracks[q.track]
  /\ q.level \in DOMAIN DanceTracks[q.track] => Chosen(q)

(* What was chosen is danced but in a menu that opened with the music      *)
(* halted, where the next key is still to choose a level.                  *)
DanceInv ==
  /\ halted \in BOOLEAN /\ global \in BOOLEAN
  /\ dancing => Dancer(d) /\ (Chosen(d) \/ (d.open /\ halted /\ ~global))

(* Nothing that the menu shows changes.                                    *)
SameChoice(r, q) ==
  /\ DancerFields \subseteq DOMAIN r
  /\ r.track = q.track /\ r.level = q.level /\ r.chart = q.chart
  /\ r.selTrack = q.selTrack /\ r.selLevel = q.selLevel /\ r.open = q.open
  /\ r.left = q.left

(* A dancer with the same choice is one as well.                           *)
LEMMA SameChoiceIsDancer ==
  ASSUME NEW q, NEW r, Dancer(q), SameChoice(r, q)
  PROVE  Dancer(r) /\ (Chosen(q) => Chosen(r))
BY DEF Dancer, Chosen, SameChoice

(* The easiest of some levels is one of them.                              *)
LEMMA MinOfLevels ==
  ASSUME NEW S \in SUBSET DanceDifficulty, S # {}
  PROVE  Min(S) \in S
<1>1. S \in SUBSET Nat
  BY DEF DanceDifficulty
<1> QED BY <1>1, MinOf

(* The fields that a chart, a menu and the events set.                     *)
LEMMA DifficultyChooses ==
  ASSUME NEW q, NEW l, DancerFields \subseteq DOMAIN q
  PROVE  LET r == Difficulty(q, l)
         IN  /\ DancerFields \subseteq DOMAIN r
             /\ r.track = q.track /\ r.level = l /\ r.chart = <<q.track, l>>
             /\ r.selTrack = q.selTrack /\ r.selLevel = q.selLevel /\ r.open = q.open
<1> DEFINE none == [i \in DOMAIN Arrows(<<q.track, l>>) |-> FALSE]
           pays == [i \in DOMAIN none |-> 0]
           active == [x \in Panels |-> 0]
<1>1. Difficulty(q, l) =
        [q EXCEPT !.level = l, !.chart = <<q.track, l>>, !.it = 1, !.hit = none,
                  !.released = none, !.pays = pays, !.active = active, !.base = q.score]
  BY DEF Difficulty
<1> HIDE DEF none, pays, active
<1> QED BY <1>1 DEF DancerFields

(* A new track brings its levels: if it has none as hard as the one before *)
(* the first is selected, and nothing was chosen yet.  There is always one *)
(* as hard as the easiest.                                                 *)
LEMMA SetTrackIsDancer ==
  ASSUME NEW q, DancerFields \subseteq DOMAIN q, q.open \in BOOLEAN,
         q.level \in DanceDifficulty, NEW t \in DOMAIN DanceTracks
  PROVE  /\ Dancer(SetTrack(q, t))
         /\ SetTrack(q, t).open = q.open
         /\ q.level = 0 => Chosen(SetTrack(q, t))
<1> DEFINE r == [q EXCEPT !.track = t]
           levels == DOMAIN DanceTracks[t]
           harder == {l \in levels : l >= q.level}
           s == ChangeDifficulty(r)
<1>1. levels \subseteq DanceDifficulty /\ levels # {}
  BY DanceAssumption
<1>2. /\ DancerFields \subseteq DOMAIN r /\ r.track = t /\ r.level = q.level /\ r.open = q.open
      /\ DOMAIN DanceTracks[r.track] = levels
  BY DEF DancerFields
<1>3. /\ DancerFields \subseteq DOMAIN s /\ s.track = t /\ s.open = q.open
      /\ s.level \in DanceDifficulty
      /\ s.level \in levels => s.chart = <<t, s.level>>
      /\ q.level = 0 => s.level \in levels
  <2>1. CASE harder = {}
    <3>1. s = r
      BY <1>2, <2>1 DEF ChangeDifficulty
    <3>2. q.level \notin levels /\ q.level # 0
      BY <1>1, <2>1 DEF DanceDifficulty
    <3> QED BY <1>2, <3>1, <3>2
  <2>2. CASE harder # {}
    <3>1. s = Difficulty(r, Min(harder))
      BY <1>2, <2>2 DEF ChangeDifficulty
    <3>2. Min(harder) \in harder
      BY <1>1, <2>2, MinOfLevels
    <3> HIDE DEF r
    <3>3. /\ DancerFields \subseteq DOMAIN s /\ s.track = t /\ s.open = q.open
          /\ s.level = Min(harder) /\ s.chart = <<t, s.level>>
      BY <1>2, <3>1, DifficultyChooses
    <3> QED BY <1>1, <3>2, <3>3
  <2> QED BY <2>1, <2>2
<1>4. Min(levels) \in levels
  BY <1>1, MinOfLevels
<1> HIDE DEF s
<1>5. LET u == SetupJoinMenu(s)
      IN  /\ DancerFields \subseteq DOMAIN u
          /\ u.track = t /\ u.level = s.level /\ u.chart = s.chart /\ u.open = s.open
          /\ u.selTrack = t
          /\ u.selLevel = IF s.level \in levels THEN s.level ELSE Min(levels)
  BY <1>3 DEF SetupJoinMenu, DancerFields
<1>6. SetTrack(q, t) = SetupJoinMenu(s)
  BY DEF SetTrack, s
<1> QED BY <1>1, <1>3, <1>4, <1>5, <1>6 DEF Dancer, Chosen

(* A player who joins starts with the easiest level of the first track.    *)
LEMMA NewDancerIsDancer ==
  ASSUME NEW t
  PROVE  Dancer(NewDancer(t)) /\ Chosen(NewDancer(t))
<1> DEFINE join == IF t < 0 THEN DanceJoinEarly ELSE t + DanceJoinDelay
           q == [track |-> FirstTrack, level |-> 0, chart |-> <<>>, it |-> 1, hit |-> <<>>,
                 released |-> <<>>, pays |-> <<>>, active |-> <<>>, pressed |-> {}, score |-> 0,
                 streak |-> 0, dead |-> 0, left |-> FALSE, ready |-> FALSE, open |-> TRUE,
                 menu |-> "join", selTrack |-> FirstTrack, selLevel |-> 0, choices |-> 0,
                 joinTime |-> join, base |-> 0, idle |-> 0]
<1>1. NewDancer(t) = SetTrack(q, FirstTrack)
  BY Zenon DEF NewDancer
<1> HIDE DEF join
<1>2. /\ DancerFields \subseteq DOMAIN q /\ q.open \in BOOLEAN
      /\ q.level = 0 /\ q.track = FirstTrack
  BY DEF DancerFields
<1> HIDE DEF q
<1>3. Dancer(SetTrack(q, FirstTrack)) /\ Chosen(SetTrack(q, FirstTrack))
  BY <1>2, DanceAssumption, SetTrackIsDancer DEF DanceDifficulty
<1> QED BY <1>1, <1>3

(* What the menu leaves behind when a key was handled: selections, carried *)
(* out one at a time.                                                      *)
Selecting(q) ==
  /\ DancerFields \subseteq DOMAIN q /\ q.open \in BOOLEAN
  /\ q.track \in DOMAIN DanceTracks /\ q.selTrack \in DOMAIN DanceTracks
  /\ q.level \in DanceDifficulty
  /\ q.selTrack = q.track =>
       /\ q.selLevel \in DOMAIN DanceTracks[q.track]
       /\ q.selLevel = q.level => q.chart = <<q.track, q.level>>

LEMMA SyncChooses ==
  ASSUME NEW q, Selecting(q)
  PROVE  /\ Dancer(Sync(q)) /\ Sync(q).open = q.open
         /\ q.selTrack = q.track => Chosen(Sync(q))
<1>1. CASE q.selTrack # q.track
  BY <1>1, SetTrackIsDancer DEF Sync, Selecting
<1>2. CASE q.selTrack = q.track /\ q.selLevel # q.level
  <2>1. Sync(q) = Difficulty(q, q.selLevel)
    BY <1>2 DEF Sync
  <2>2. DOMAIN DanceTracks[q.track] \subseteq DanceDifficulty
    BY DanceAssumption DEF Selecting
  <2> QED BY <1>2, <2>1, <2>2, DifficultyChooses DEF Selecting, Dancer, Chosen
<1>3. CASE q.selTrack = q.track /\ q.selLevel = q.level
  BY <1>3 DEF Sync, Selecting, Dancer, Chosen
<1> QED BY <1>1, <1>2, <1>3

(* Nothing of the dance changes.                                           *)
SameDance(r, q) ==
  /\ DancerFields \subseteq DOMAIN r
  /\ r.chart = q.chart /\ r.it = q.it /\ r.hit = q.hit /\ r.released = q.released
  /\ r.pays = q.pays /\ r.active = q.active /\ r.pressed = q.pressed
  /\ r.score = q.score /\ r.base = q.base /\ r.left = q.left

(* What a key in the menu leaves is a selection carried out, or nobody.    *)
LEMMA MenuKeyOutcomes ==
  ASSUME NEW q, Dancer(q), q.open = TRUE, NEW e, NEW r \in MenuKey(q, e)
  PROVE  \/ \E s : /\ r = Sync(s) /\ Selecting(s) /\ SameDance(s, q)
                   /\ s.selTrack = s.track \/ s.open = TRUE
         \/ r = UnjoinDance(q) /\ Sync(q) = q
<1> DEFINE closed == [q EXCEPT !.open = FALSE]
<1>1. Selecting(closed) /\ closed.selTrack = closed.track /\ SameDance(closed, q)
  BY DEF Selecting, Dancer, Chosen, DancerFields, SameDance
<1>2. Selecting(q) /\ q.selTrack = q.track /\ SameDance(q, q)
  BY DEF Selecting, Dancer, Chosen, SameDance
<1>3. ASSUME NEW t \in DOMAIN DanceTracks \ {q.selTrack}
      PROVE  LET s == [q EXCEPT !.selTrack = t, !.choices = @ + 1]
             IN  Selecting(s) /\ s.open = TRUE /\ SameDance(s, q)
  BY <1>3 DEF Selecting, Dancer, DancerFields, SameDance
<1>4. ASSUME NEW l \in DOMAIN DanceTracks[q.track] \ {q.selLevel}
      PROVE  LET s == [q EXCEPT !.selLevel = l, !.choices = @ + 1]
             IN  Selecting(s) /\ s.selTrack = s.track /\ SameDance(s, q)
  BY <1>4 DEF Selecting, Dancer, Chosen, DancerFields, SameDance
<1>5. ASSUME NEW s \in MenuActions(q) \cup {closed}
      PROVE  Selecting(s) /\ SameDance(s, q) /\ (s.selTrack = s.track \/ s.open = TRUE)
  <2>1. \/ s = closed \/ s = q
        \/ \E t \in DOMAIN DanceTracks \ {q.selTrack} :
             s = [q EXCEPT !.selTrack = t, !.choices = @ + 1]
        \/ \E l \in DOMAIN DanceTracks[q.track] \ {q.selLevel} :
             s = [q EXCEPT !.selLevel = l, !.choices = @ + 1]
    BY <1>5, Zenon DEF MenuActions
  <2> QED BY <1>1, <1>2, <1>3, <1>4, <2>1
<1>6. \/ \E s \in MenuActions(q) \cup {closed} : r = Sync(s)
      \/ r = UnjoinDance(q) /\ Sync(q) = q
  BY Zenon DEF MenuKey
<1> QED BY <1>5, <1>6

(* A key in the menu: who leaves the menu by it dances what was chosen.    *)
LEMMA MenuKeyChooses ==
  ASSUME NEW q, Dancer(q), q.open = TRUE, NEW e, NEW r \in MenuKey(q, e)
  PROVE  Dancer(r) /\ (Chosen(r) \/ r.open = TRUE)
<1>1. ASSUME NEW s, Selecting(s), s.selTrack = s.track \/ s.open = TRUE
      PROVE  Dancer(Sync(s)) /\ (Chosen(Sync(s)) \/ Sync(s).open = TRUE)
  BY <1>1, SyncChooses
<1>2. ASSUME Sync(q) = q
      PROVE  Dancer(UnjoinDance(q)) /\ Chosen(UnjoinDance(q))
  <2>1. Selecting(q) /\ q.selTrack = q.track
    BY DEF Selecting, Dancer, Chosen
  <2>2. Chosen(q)
    BY <2>1, <1>2, SyncChooses
  <2>3. q.level \in DOMAIN DanceTracks[q.track]
    BY <2>2 DEF Dancer, Chosen
  <2> QED BY <2>2, <2>3 DEF UnjoinDance, SetupJoinMenu, DancerFields, Dancer, Chosen
<1>3. \/ \E s : r = Sync(s) /\ Selecting(s) /\ (s.selTrack = s.track \/ s.open = TRUE)
      \/ r = UnjoinDance(q) /\ Sync(q) = q
  BY MenuKeyOutcomes
<1> QED BY <1>1, <1>2, <1>3

(* Presses, releases, arrows gone by and mines leave the choice alone.     *)
LEMMA DancingKeepsTheChoice ==
  ASSUME NEW q, DancerFields \subseteq DOMAIN q, NEW e
  PROVE  SameChoice(Dance(q, e), q)
<1>1. ASSUME NEW u, DancerFields \subseteq DOMAIN u
      PROVE  SameChoice(Press(u, e.pad), u)
  <2> DEFINE a == Arrows(u.chart)
             S == {i \in Reached(u) : /\ Hittable(u, i) /\ a[i].pad = e.pad
                                      /\ AbsDiff(Now, a[i].begin) <= HitTolerance}
             i == Min(S)
             hit == [u EXCEPT !.hit[i] = TRUE, !.active[e.pad] = i]
             fine == IF MinePenalty THEN ArrowPoints(0) ELSE 0
             points == ArrowPoints(AbsDiff(Now, a[i].begin))
  <2>1. \/ Press(u, e.pad) = u
        \/ Press(u, e.pad) = [hit EXCEPT !.streak = 0, !.score = @ - fine]
        \/ Press(u, e.pad) = [hit EXCEPT !.streak = @ + 1, !.pays[i] = points]
    BY Zenon DEF Press
  <2> HIDE DEF i, fine, points
  <2>2. SameChoice(hit, u)
    BY <1>1 DEF SameChoice, DancerFields
  <2> HIDE DEF hit
  <2> QED BY <1>1, <2>1, <2>2 DEF SameChoice, DancerFields
<1>2. ASSUME NEW u, DancerFields \subseteq DOMAIN u
      PROVE  SameChoice(Release(u, e.pad), u)
  <2>1. \/ Release(u, e.pad) = u
        \/ Release(u, e.pad) =
             [u EXCEPT !.released[u.active[e.pad]] = TRUE, !.pays[u.active[e.pad]] = 0, !.streak = 0]
    BY Zenon DEF Release
  <2> QED BY <1>2, <2>1 DEF SameChoice, DancerFields
<1> DEFINE on == [q EXCEPT !.pressed = @ \cup {e.pad}]
           off == [q EXCEPT !.pressed = @ \ {e.pad}]
<1>3. SameChoice(on, q) /\ SameChoice(off, q)
  BY DEF SameChoice, DancerFields
<1>4. Dance(q, e) = q \/ Dance(q, e) = Press(on, e.pad) \/ Dance(q, e) = Release(off, e.pad)
  BY Zenon DEF Dance
<1> HIDE DEF on, off
<1> QED BY <1>1, <1>2, <1>3, <1>4 DEF SameChoice

(* So do the arrows that a frame lets go by, and the mines.                *)
LEMMA PassingKeepsTheChoice ==
  ASSUME NEW q, DancerFields \subseteq DOMAIN q, NEW touched
  PROVE  /\ SameChoice(GoneBy(q, touched), q)
         /\ SameChoice(StandOnMines(q), q)
<1>1. SameChoice(GoneBy(q, touched), q)
  BY DEF GoneBy, SameChoice, DancerFields
<1>2. SameChoice(StandOnMines(q), q)
  BY DEF StandOnMines, SameChoice, DancerFields
<1> QED BY <1>1, <1>2

(* So who dances on has chosen as before.                                  *)
LEMMA DancingIsDancing ==
  ASSUME NEW q, Dancer(q), NEW e
  PROVE  /\ Dancer(Dance(q, e)) /\ Dance(q, e).open = q.open
         /\ Chosen(q) => Chosen(Dance(q, e))
<1>1. SameChoice(Dance(q, e), q)
  BY DancingKeepsTheChoice DEF Dancer
<1> QED BY <1>1, SameChoiceIsDancer DEF SameChoice

(* Being ready is no choice.                                               *)
LEMMA ReadyKeepsTheChoice ==
  ASSUME NEW q, DancerFields \subseteq DOMAIN q
  PROVE  SameChoice(ReadyDance(q), q)
BY DEF ReadyDance, SameChoice, DancerFields

(* One event: whoever has not chosen has been in the menu, and still is.   *)
LEMMA EventChooses ==
  ASSUME NEW q, Dancer(q), NEW over \in BOOLEAN, q.open = over, Chosen(q) \/ over,
         NEW e, NEW r \in HandleDanceEvent(q, e)
  PROVE  Dancer(r) /\ (Chosen(r) \/ (over /\ r.open = TRUE))
<1> DEFINE alive == [q EXCEPT !.dead = 0, !.idle = 0]
           opens == e.key = "start"
           opened == [alive EXCEPT !.open = opens]
<1>1. SameChoice(alive, q)
  BY DEF SameChoice, Dancer, DancerFields
<1>2. Dancer(alive) /\ alive.open = over /\ (Chosen(alive) \/ over)
  BY <1>1, SameChoiceIsDancer DEF SameChoice
<1>3. CASE e.key = "release"
  <2>1. r = Dance(alive, e)
    BY <1>3, Zenon DEF HandleDanceEvent
  <2> HIDE DEF alive
  <2>2. CASE over
    BY <1>2, <2>1, <2>2, DancingIsDancing
  <2>3. CASE ~over
    BY <1>2, <2>1, <2>3, DancingIsDancing
  <2> QED BY <2>2, <2>3
<1>4. CASE e.key # "release" /\ over
  <2>1. PICK s \in MenuKey(alive, e) : r = Dance(s, e)
    BY <1>2, <1>4 DEF HandleDanceEvent
  <2>2. Dancer(s) /\ (Chosen(s) \/ s.open = TRUE)
    BY <1>2, <1>4, MenuKeyChooses
  <2> QED BY <1>4, <2>1, <2>2, DancingIsDancing
<1>5. CASE e.key # "release" /\ ~over
  <2>1. r = Dance(opened, e)
    BY <1>2, <1>5 DEF HandleDanceEvent
  <2>2. opens \in BOOLEAN
    BY Zenon
  <2> HIDE DEF opens, alive
  <2>3. Dancer(opened) /\ Chosen(opened)
    BY <1>2, <1>5, <2>2 DEF Dancer, Chosen, DancerFields
  <2> HIDE DEF opened
  <2> QED BY <2>1, <2>3, DancingIsDancing
<1> QED BY <1>3, <1>4, <1>5

(* What a frame leaves of the dancer: the events of the frame before that  *)
(* are past, and the menu is as it was left.                               *)
LEMMA FrameChooses ==
  ASSUME NEW over \in BOOLEAN, d.open = over, DanceInv, dancing,
         NEW outcomes, NEW touched, DanceFrame(outcomes, touched),
         \A r \in outcomes : Dancer(r) /\ (Chosen(r) \/ (over /\ r.open = TRUE /\ ~global)),
         global' = global
  PROVE  DanceInv'
<1>1. PICK q \in outcomes :
        d' = [StandOnMines(GoneBy(q, touched)) EXCEPT
                !.idle = IF JoiningDance(q) \/ touched THEN @ ELSE @ + Idle(q)]
  BY DEF DanceFrame
<1> DEFINE left == StandOnMines(GoneBy(q, touched))
           idle == IF JoiningDance(q) \/ touched THEN left.idle ELSE left.idle + Idle(q)
<1>2. Dancer(q) /\ (Chosen(q) \/ (over /\ q.open = TRUE /\ ~global))
  OBVIOUS
<1>3. SameChoice(GoneBy(q, touched), q)
  BY <1>2, PassingKeepsTheChoice DEF Dancer
<1>4. SameChoice(left, GoneBy(q, touched))
  BY <1>3, PassingKeepsTheChoice DEF SameChoice
<1>5. d' = [left EXCEPT !.idle = idle]
  BY <1>1
<1> HIDE DEF left, idle
<1>6. SameChoice(d', q)
  BY <1>3, <1>4, <1>5 DEF SameChoice, DancerFields
<1>7. Dancer(d') /\ (Chosen(d') \/ (over /\ d'.open = TRUE /\ ~global))
  BY <1>2, <1>6, SameChoiceIsDancer DEF SameChoice
<1>8. halted' = (over \/ global)
  BY Zenon DEF DanceFrame
<1>9. CASE over
  <2>1. halted' = TRUE
    BY <1>8, <1>9, Zenon
  <2> QED BY <1>7, <2>1 DEF DanceInv
<1>10. CASE ~over
  <2>1. halted' = global
    BY <1>8, <1>10, Zenon DEF DanceInv
  <2> QED BY <1>7, <1>10, <2>1 DEF DanceInv
<1> QED BY <1>9, <1>10

(* Every step keeps what was chosen.                                       *)
LEMMA ChoiceStep == DanceInv /\ [DanceNext]_danceVars => DanceInv'
<1> SUFFICES ASSUME DanceInv, [DanceNext]_danceVars
             PROVE  DanceInv'
  OBVIOUS
<1>1. CASE JoinDance
  BY <1>1, NewDancerIsDancer DEF JoinDance, DanceInv
<1>2. CASE QuietDance
  <2>1. /\ dancing /\ Dancer(d) /\ UNCHANGED global
        /\ Chosen(d) \/ (d.open /\ ~global)
        /\ DanceFrame({ReadyDance(d)}, FALSE)
    BY <1>2 DEF QuietDance, DanceFrame, DanceInv
  <2>2. PICK over \in BOOLEAN : d.open = over
    BY <2>1 DEF Dancer
  <2>3. SameChoice(ReadyDance(d), d)
    BY <2>1, ReadyKeepsTheChoice DEF Dancer
  <2>4. /\ Dancer(ReadyDance(d)) /\ ReadyDance(d).open = over
        /\ Chosen(d) => Chosen(ReadyDance(d))
    BY <2>1, <2>2, <2>3, SameChoiceIsDancer DEF SameChoice
  <2>5. Chosen(ReadyDance(d)) \/ (ReadyDance(d).open = TRUE /\ over /\ ~global)
    <3>1. CASE over
      BY <2>1, <2>4, <3>1
    <3>2. CASE ~over
      BY <2>1, <2>2, <2>4, <3>2
    <3> QED BY <3>1, <3>2
  <2> DEFINE quiet == {ReadyDance(d)}
  <2>6. \A r \in quiet : Dancer(r) /\ (Chosen(r) \/ (over /\ r.open = TRUE /\ ~global))
    BY <2>4, <2>5, Zenon
  <2>7. DanceFrame(quiet, FALSE)
    BY <2>1
  <2> HIDE DEF quiet
  <2> QED BY <2>1, <2>2, <2>6, <2>7, FrameChooses, Zenon
<1>3. CASE DanceStep
  <2>1. PICK e \in PadEvents :
          /\ ~global /\ UNCHANGED global
          /\ DanceFrame(HandleDanceEvent(ReadyDance(d), e),
                        ReadyDance(d).open /\ e.key # "release")
    BY <1>3, Zenon DEF DanceStep
  <2>2. dancing /\ Dancer(d) /\ (Chosen(d) \/ d.open)
    BY <2>1 DEF DanceFrame, DanceInv
  <2>3. PICK over \in BOOLEAN : d.open = over
    BY <2>2 DEF Dancer
  <2>4. SameChoice(ReadyDance(d), d)
    BY <2>2, ReadyKeepsTheChoice DEF Dancer
  <2>5. /\ Dancer(ReadyDance(d)) /\ ReadyDance(d).open = over
        /\ Chosen(ReadyDance(d)) \/ over
    BY <2>2, <2>3, <2>4, SameChoiceIsDancer DEF SameChoice
  <2>6. \A r \in HandleDanceEvent(ReadyDance(d), e) :
          Dancer(r) /\ (Chosen(r) \/ (over /\ r.open = TRUE))
    BY <2>5, EventChooses
  <2> QED BY <2>1, <2>2, <2>3, <2>6, FrameChooses
<1>4. CASE OpenGlobal
  BY <1>4 DEF OpenGlobal, DanceInv, Dancer, Chosen, DancerFields
<1>5. CASE MoveUnseen
  BY <1>5 DEF MoveUnseen, DanceInv
<1>6. CASE CloseGlobal
  BY <1>6 DEF CloseGlobal, DanceInv
<1>7. CASE RemoveDancer
  BY <1>7 DEF RemoveDancer, DanceInv
<1>8. CASE NobodyDances
  BY <1>8 DEF NobodyDances, DanceInv
<1>9. CASE UNCHANGED danceVars
  BY <1>9 DEF danceVars, DanceInv
<1> QED BY <1>1, <1>2, <1>3, <1>4, <1>5, <1>6, <1>7, <1>8, <1>9 DEF DanceNext

(* The menu shows what is danced (ChartAsChosen), whatever tracks and      *)
(* levels a song has.                                                      *)
THEOREM WhatIsChosenIsDanced == DanceSpec => []ChartAsChosen
<1>1. DanceInit => DanceInv
  BY DEF DanceInit, DanceInv
<1>2. DanceInv /\ [DanceNext]_danceVars => DanceInv'
  BY ChoiceStep
<1>3. DanceInv => ChartAsChosen
  BY DEF DanceInv, ChartAsChosen, Chosen
<1> QED BY <1>1, <1>2, <1>3, PTL DEF DanceSpec

(* The time of the chart.  What the stops before the i-th hold it back.    *)
StopsBefore(i) == SumFunctionOnSet([j \in DOMAIN Stops |-> Stops[j].len], 1 .. i - 1)

(* The stops before one hold the time back by their lengths.               *)
LEMMA StopsAddUp ==
  /\ Len(Stops) \in Nat /\ DOMAIN Stops = 1 .. Len(Stops)
  /\ \A i \in DOMAIN Stops : Stops[i].at \in Int /\ Stops[i].len \in Int
  /\ \A i \in 1 .. Len(Stops) + 1 : StopsBefore(i) \in Int
  /\ \A i \in DOMAIN Stops : StopsBefore(i + 1) = Stops[i].len + StopsBefore(i)
<1> DEFINE lens == [j \in DOMAIN Stops |-> Stops[j].len]
<1>1. /\ Len(Stops) \in Nat /\ DOMAIN Stops = 1 .. Len(Stops)
      /\ \A i \in DOMAIN Stops : Stops[i].at \in Int /\ Stops[i].len \in Int
  <2> DEFINE R == [at : Int, len : Int]
  <2>0. Stops \in Seq(R)
    BY DanceAssumption
  <2> HIDE DEF R
  <2>1. /\ Len(Stops) \in Nat /\ DOMAIN Stops = 1 .. Len(Stops)
        /\ \A i \in DOMAIN Stops : Stops[i] \in R
    BY <2>0
  <2> QED BY <2>1 DEF R
<1>2. \A j \in 1 .. Len(Stops) : lens[j] = Stops[j].len /\ lens[j] \in Int
  BY <1>1
<1> HIDE DEF lens
<1>3. ASSUME NEW i \in 1 .. Len(Stops) + 1 PROVE StopsBefore(i) \in Int
  <2>1. i - 1 \in Int /\ 1 .. i - 1 \subseteq 1 .. Len(Stops)
    BY <1>1
  <2>2. IsFiniteSet(1 .. i - 1) /\ \A j \in 1 .. i - 1 : lens[j] \in Int
    BY <1>2, <2>1, Intervals
  <2>3. SumFunctionOnSet(lens, 1 .. i - 1) \in Int
    BY <2>2, SumType
  <2> QED BY <2>3 DEF StopsBefore, lens
<1>4. ASSUME NEW i \in 1 .. Len(Stops) PROVE StopsBefore(i + 1) = Stops[i].len + StopsBefore(i)
  <2>1. i \in 1 .. i /\ 1 .. i \subseteq 1 .. Len(Stops) /\ (1 .. i) \ {i} = 1 .. i - 1
        /\ (i + 1) - 1 = i
    BY <1>1
  <2>2. IsFiniteSet(1 .. i) /\ \A j \in 1 .. i : lens[j] \in Int
    BY <1>2, <2>1, Intervals
  <2>3. SumFunctionOnSet(lens, 1 .. i) = lens[i] + SumFunctionOnSet(lens, (1 .. i) \ {i})
    BY <2>1, <2>2, SumInsert
  <2>4. lens[i] = Stops[i].len
    BY <1>2
  <2> QED BY <2>1, <2>3, <2>4 DEF StopsBefore, lens
<1> QED BY <1>1, <1>3, <1>4

(* The n-th stop is the next one at time t: those before it are over.      *)
Over(t, i) == LET left == t - StopsBefore(i)
              IN  left > Stops[i].at /\ left >= Stops[i].at + Stops[i].len
NextStop(t, n) ==
  /\ n \in 1 .. Len(Stops) + 1
  /\ \A i \in 1 .. n - 1 : Over(t, i)
  /\ n <= Len(Stops) => ~Over(t, n)
TimeAt(t, n) ==
  LET left == t - StopsBefore(n)
  IN  IF n > Len(Stops) \/ left < Stops[n].at THEN left ELSE Stops[n].at

(* The loop over the stops ends at the next one.                           *)
LEMMA ChartTimeIs ==
  ASSUME NEW t \in DanceStart .. DanceEnd
  PROVE  \E n : NextStop(t, n) /\ ChartTime[t] = TimeAt(t, n)
<1> DEFINE Left(u, i) == u - SumFunctionOnSet([j \in DOMAIN Stops |-> Stops[j].len], 1 .. i - 1)
           ahead(u) == {i \in DOMAIN Stops : \/ Left(u, i) <= Stops[i].at
                                            \/ Left(u, i) < Stops[i].at + Stops[i].len}
           At(u, i) == IF i > Len(Stops) THEN Left(u, i) ELSE Min({Stops[i].at, Left(u, i)})
           n == Min(ahead(t) \cup {Len(Stops) + 1})
<1>1. ChartTime[t] = At(t, n)
  BY DEF ChartTime
<1>2. \A i : Left(t, i) = t - StopsBefore(i)
  BY DEF StopsBefore
<1>3. t \in Int
  BY DanceAssumption
<1>4. \A i \in DOMAIN Stops : i \in ahead(t) <=> ~Over(t, i)
  <2> HIDE DEF Left
  <2> QED BY <1>2, <1>3, StopsAddUp DEF Over
<1> HIDE DEF Left
<1>5. ahead(t) \cup {Len(Stops) + 1} \in SUBSET (1 .. Len(Stops) + 1)
  BY StopsAddUp
<1> HIDE DEF ahead
<1>6. n \in ahead(t) \cup {Len(Stops) + 1} /\ \A i \in ahead(t) : n <= i
  <2>1. 1 .. Len(Stops) + 1 \subseteq Nat
    BY StopsAddUp
  <2> QED BY <1>5, <2>1, MinOf
<1> HIDE DEF n
<1>7. NextStop(t, n)
  <2>1. n \in 1 .. Len(Stops) + 1
    BY <1>5, <1>6
  <2>2. ASSUME NEW i \in 1 .. n - 1 PROVE Over(t, i)
    <3>1. i \in DOMAIN Stops /\ ~(n <= i)
      BY <2>1, StopsAddUp
    <3> QED BY <3>1, <1>4, <1>6
  <2>3. ASSUME n <= Len(Stops) PROVE ~Over(t, n)
    BY <2>1, <2>3, <1>4, <1>6, StopsAddUp
  <2> QED BY <2>1, <2>2, <2>3 DEF NextStop
<1>8. At(t, n) = TimeAt(t, n)
  <2> DEFINE left == t - StopsBefore(n)
  <2>1. Left(t, n) = left /\ left \in Int /\ n \in 1 .. Len(Stops) + 1
    BY <1>2, <1>3, <1>7, StopsAddUp DEF NextStop
  <2>2. CASE n > Len(Stops)
    BY <2>1, <2>2 DEF TimeAt
  <2>3. CASE ~(n > Len(Stops))
    <3>1. Stops[n].at \in Int
      BY <2>1, <2>3, StopsAddUp
    <3> HIDE DEF left
    <3>2. Min({Stops[n].at, left}) = IF Stops[n].at <= left THEN Stops[n].at ELSE left
      BY <2>1, <3>1, MinOfTwo
    <3> QED BY <2>1, <2>3, <3>1, <3>2 DEF TimeAt, left
  <2> QED BY <2>2, <2>3
<1> QED BY <1>1, <1>7, <1>8

(* The time of the chart is a number.                                      *)
LEMMA ChartTimeType ==
  ASSUME NEW t \in DanceStart .. DanceEnd
  PROVE  t \in Int /\ ChartTime[t] \in Int
<1>1. PICK n : NextStop(t, n) /\ ChartTime[t] = TimeAt(t, n)
  BY ChartTimeIs
<1>2. t \in Int
  BY DanceAssumption
<1>3. n \in 1 .. Len(Stops) + 1 /\ StopsBefore(n) \in Int
  BY <1>1, StopsAddUp DEF NextStop
<1>4. CASE n > Len(Stops)
  BY <1>1, <1>2, <1>3, <1>4 DEF TimeAt
<1>5. CASE ~(n > Len(Stops))
  <2>1. Stops[n].at \in Int
    BY <1>3, <1>5, StopsAddUp
  <2> QED BY <1>1, <1>2, <1>3, <2>1 DEF TimeAt
<1> QED BY <1>2, <1>4, <1>5

(* The time of the chart never goes back while that of the music goes on.  *)
LEMMA ChartTimeGoesOn ==
  ASSUME StopsInOrder, NEW t \in DanceStart .. DanceEnd, NEW u \in DanceStart .. DanceEnd, t <= u
  PROVE  ChartTime[t] <= ChartTime[u]
<1>1. PICK n : NextStop(t, n) /\ ChartTime[t] = TimeAt(t, n)
  BY ChartTimeIs
<1>2. PICK m : NextStop(u, m) /\ ChartTime[u] = TimeAt(u, m)
  BY ChartTimeIs
<1>3. t \in Int /\ u \in Int /\ Len(Stops) \in Nat
  BY ChartTimeType, StopsAddUp
<1>4. n \in 1 .. Len(Stops) + 1 /\ m \in 1 .. Len(Stops) + 1
  BY <1>1, <1>2 DEF NextStop
<1>5. \A i \in 1 .. Len(Stops) : Over(t, i) => Over(u, i)
  BY <1>3, StopsAddUp, SMTT(30) DEF Over
<1>6. n <= m
  <2> SUFFICES ASSUME m < n PROVE FALSE
    BY <1>3, <1>4
  <2>1. m \in 1 .. n - 1 /\ m \in 1 .. Len(Stops)
    BY <1>3, <1>4
  <2>2. Over(t, m)
    BY <1>1, <2>1 DEF NextStop
  <2> QED BY <1>2, <1>3, <1>5, <2>1, <2>2 DEF NextStop
<1>7. CASE n = m
  <2>1. StopsBefore(n) \in Int
    BY <1>4, StopsAddUp
  <2>2. CASE n > Len(Stops)
    BY <1>1, <1>2, <1>3, <1>7, <2>1, <2>2 DEF TimeAt
  <2>3. CASE ~(n > Len(Stops))
    <3>1. Stops[n].at \in Int
      BY <1>4, <2>3, <1>3, StopsAddUp
    <3> QED BY <1>1, <1>2, <1>3, <1>7, <2>1, <3>1 DEF TimeAt
  <2> QED BY <2>2, <2>3
<1>8. CASE n < m
  <2> DEFINE k == m - 1
  <2>1. n \in 1 .. Len(Stops) /\ k \in 1 .. Len(Stops) /\ k \in 1 .. m - 1 /\ k + 1 = m /\ n <= k
    BY <1>3, <1>4, <1>8
  <2>2. /\ Stops[n].at \in Int /\ Stops[k].at \in Int /\ Stops[k].len \in Int
        /\ StopsBefore(n) \in Int /\ StopsBefore(k) \in Int /\ StopsBefore(m) \in Int
        /\ StopsBefore(m) = Stops[k].len + StopsBefore(k)
    <3> HIDE DEF k
    <3>1. n \in 1 .. Len(Stops) + 1 /\ k \in 1 .. Len(Stops) + 1
      BY <1>4, <2>1, <1>3
    <3> QED BY <2>1, <3>1, <1>4, StopsAddUp
  <2>3. Stops[n].at <= Stops[k].at
    <3> HIDE DEF k
    <3>1. n < k => Stops[n].at <= Stops[k].at
      BY <2>1, StopsAddUp DEF StopsInOrder
    <3>2. n = k \/ n < k
      BY <2>1, <1>3
    <3> QED BY <2>2, <3>1, <3>2
  <2>4. Over(u, k)
    BY <1>2, <2>1 DEF NextStop
  <2>5. u - StopsBefore(m) >= Stops[k].at
    BY <2>2, <2>4, <1>3 DEF Over
  <2>6. ChartTime[t] <= Stops[n].at /\ ChartTime[t] \in Int
    <3>1. ~(n > Len(Stops))
      BY <2>1, <1>3
    <3> QED BY <1>1, <1>3, <2>2, <3>1 DEF TimeAt
  <2>7. ChartTime[u] >= Stops[k].at
    <3>1. CASE m > Len(Stops)
      BY <3>1, <1>2, <2>2, <2>5, <1>3 DEF TimeAt
    <3>2. CASE ~(m > Len(Stops))
      <4>1. m \in 1 .. Len(Stops) /\ k < m
        BY <3>2, <1>3, <1>4, <2>1
      <4>2. Stops[m].at \in Int /\ Stops[k].at <= Stops[m].at
        <5> HIDE DEF k
        <5> QED BY <4>1, <2>1, StopsAddUp DEF StopsInOrder
      <4> QED BY <4>2, <1>2, <2>2, <2>5, <1>3 DEF TimeAt
    <3> QED BY <3>1, <3>2
  <2>8. ChartTime[u] \in Int
    BY ChartTimeType
  <2> QED BY <2>2, <2>3, <2>6, <2>7, <2>8
<1> QED BY <1>3, <1>4, <1>6, <1>7, <1>8

(* A chart: its arrows in the order of their ends, those of a panel one    *)
(* after the other.                                                        *)
IsChart(a) ==
  /\ Len(a) \in Nat /\ DOMAIN a = 1 .. Len(a)
  /\ \A i \in DOMAIN a : /\ a[i].pad \in Panels /\ a[i].begin \in Int /\ a[i].end \in Int
                         /\ a[i].begin <= a[i].end /\ a[i].mine \in BOOLEAN
  /\ \A i, j \in DOMAIN a : i < j => a[i].end <= a[j].end
  /\ \A i, j \in DOMAIN a : i # j /\ a[i].pad = a[j].pad =>
                              a[i].end < a[j].begin \/ a[j].end < a[i].begin

(* A sequence of all elements of a set in the order of their ends.         *)
InOrder(s, S) ==
  /\ s \in [1 .. Cardinality(S) -> S] /\ IsInjective(s)
  /\ \A i, j \in DOMAIN s : i < j => s[i].end <= s[j].end

(* Among finitely many arrows one ends last.                               *)
LEMMA LastArrow ==
  ASSUME NEW S, IsFiniteSet(S), \A a \in S : a.end \in Int
  PROVE  S # {} => \E x \in S : \A y \in S : y.end <= x.end
<1> DEFINE P == {s \in SUBSET S : s # {} => \E x \in s : \A y \in s : y.end <= x.end}
<1>1. {} \in P
  OBVIOUS
<1>2. ASSUME NEW s \in SUBSET S, NEW z \in S, s \in P, z \notin s PROVE s \cup {z} \in P
  <2>1. CASE s = {}
    BY <2>1
  <2>2. CASE s # {}
    <3>1. PICK x \in s : \A y \in s : y.end <= x.end
      BY <1>2, <2>2
    <3>2. x.end \in Int /\ z.end \in Int /\ \A y \in s : y.end \in Int
      OBVIOUS
    <3>3. CASE x.end <= z.end
      BY <3>1, <3>2, <3>3
    <3>4. CASE ~(x.end <= z.end)
      BY <3>1, <3>2, <3>4
    <3> QED BY <3>3, <3>4
  <2> QED BY <2>1, <2>2
<1>3. S \in P
  <2> HIDE DEF P
  <2> QED BY <1>1, <1>2, SetInduction
<1> QED BY <1>3

(* Finitely many arrows can be put in order.                               *)
LEMMA OrderExists ==
  ASSUME NEW S, IsFiniteSet(S), \A a \in S : a.end \in Int
  PROVE  \E s : InOrder(s, S)
<1> DEFINE N == {n \in Nat : \A T \in SUBSET S : Cardinality(T) = n => \E s : InOrder(s, T)}
<1>1. 0 \in N
  <2> SUFFICES ASSUME NEW T \in SUBSET S, Cardinality(T) = 0 PROVE \E s : InOrder(s, T)
    OBVIOUS
  <2>1. T = {}
    BY FS_Subset, FS_EmptySet
  <2>2. InOrder([i \in {} |-> 0], T)
    BY <2>1 DEF InOrder, IsInjective
  <2> QED BY <2>2
<1>2. ASSUME NEW n \in Nat, n \in N PROVE n + 1 \in N
  <2> SUFFICES ASSUME NEW T \in SUBSET S, Cardinality(T) = n + 1 PROVE \E s : InOrder(s, T)
    OBVIOUS
  <2>1. IsFiniteSet(T) /\ T # {}
    BY FS_Subset, OneLess
  <2>2. PICK x \in T : \A y \in T : y.end <= x.end
    BY <2>1, LastArrow
  <2>3. Cardinality(T \ {x}) = n
    BY <2>1, OneLess
  <2>4. PICK s : InOrder(s, T \ {x})
    BY <2>3, <1>2, T \ {x} \in SUBSET S
  <2> DEFINE r == [i \in 1 .. n + 1 |-> IF i <= n THEN s[i] ELSE x]
  <2>5. /\ s \in [1 .. n -> T \ {x}] /\ \A i, j \in 1 .. n : s[i] = s[j] => i = j
        /\ \A i, j \in 1 .. n : i < j => s[i].end <= s[j].end
    BY <2>3, <2>4 DEF InOrder, IsInjective
  <2>6. /\ \A i \in 1 .. n : r[i] = s[i] /\ r[i] \in T \ {x}
        /\ r[n + 1] = x /\ DOMAIN r = 1 .. n + 1
        /\ \A i \in 1 .. n + 1 : i \in 1 .. n \/ i = n + 1
    BY <2>5
  <2>7. r \in [1 .. n + 1 -> T]
    BY <2>5
  <2> HIDE DEF r
  <2>8. \A i, j \in 1 .. n + 1 : r[i] = r[j] => i = j
    BY <2>5, <2>6
  <2>9. \A i, j \in 1 .. n + 1 : i < j => r[i].end <= r[j].end
    BY <2>2, <2>5, <2>6
  <2>10. InOrder(r, T)
    BY <2>6, <2>7, <2>8, <2>9 DEF InOrder, IsInjective
  <2> QED BY <2>10
<1>3. Cardinality(S) \in N
  <2> HIDE DEF N
  <2> QED BY <1>1, <1>2, Induction, FS_CardinalityType
<1> QED BY <1>3

(* So difficulty() has a chart for every level of every track.             *)
LEMMA SortedIsChart ==
  ASSUME NEW t \in DOMAIN DanceTracks, NEW l \in DOMAIN DanceTracks[t]
  PROVE  IsChart(Arrows(<<t, l>>))
<1> DEFINE S == DanceTracks[t][l]
           Orders(U) == {s \in [1 .. Cardinality(U) -> U] : IsInjective(s)}
           EndsFirst(s) == \A i, j \in DOMAIN s : i < j => s[i].end <= s[j].end
           a == CHOOSE s \in Orders(S) : EndsFirst(s)
<1>1. /\ IsFiniteSet(S)
      /\ \A x \in S : /\ x.pad \in Panels /\ x.begin \in Int /\ x.end \in Int
                      /\ x.begin <= x.end /\ x.mine \in BOOLEAN
      /\ \A x, y \in S : x # y /\ x.pad = y.pad => x.end < y.begin \/ y.end < x.begin
  BY DanceAssumption
<1>2. Arrows(<<t, l>>) = a
  BY DEF Arrows, Sorted
<1> HIDE DEF S
<1>3. PICK s : InOrder(s, S)
  BY <1>1, OrderExists
<1>4. s \in Orders(S) /\ EndsFirst(s)
  BY <1>3 DEF InOrder
<1>5. a \in Orders(S) /\ EndsFirst(a)
  <2> HIDE DEF Orders, EndsFirst
  <2> QED BY <1>4
<1> HIDE DEF a
<1>6. Cardinality(S) \in Nat
  BY <1>1, FS_CardinalityType
<1>7. /\ Len(a) = Cardinality(S) /\ DOMAIN a = 1 .. Cardinality(S)
      /\ \A i \in DOMAIN a : a[i] \in S
      /\ \A i, j \in DOMAIN a : a[i] = a[j] => i = j
      /\ \A i, j \in DOMAIN a : i < j => a[i].end <= a[j].end
  BY <1>5, <1>6 DEF IsInjective
<1>8. IsChart(a)
  BY <1>1, <1>6, <1>7 DEF IsChart
<1> QED BY <1>2, <1>8

(* The account of a dancer: what was hit and has gone by is paid and can   *)
(* no longer be released, every mine has cost its penalty.                 *)
Penalty == IF MinePenalty THEN ArrowPoints(0) ELSE 0
Hits(a, hit, mine) == {i \in DOMAIN a : hit[i] /\ a[i].mine = mine}
PaidHits(a, it, hit) == {i \in Hits(a, hit, FALSE) : i < it}
Account(a, it, hit, released, pays, score, base) ==
  /\ it \in 1 .. Len(a) + 1
  /\ hit \in [DOMAIN a -> BOOLEAN] /\ released \in [DOMAIN a -> BOOLEAN]
  /\ pays \in [DOMAIN a -> Int] /\ score \in Int /\ base \in Int
  /\ \A i \in DOMAIN a : i < it /\ hit[i] => released[i]
  /\ score = base + SumFunctionOnSet(pays, PaidHits(a, it, hit))
                  - Penalty * Cardinality(Hits(a, hit, TRUE))

(* The parts of an account are numbers of finitely many arrows.            *)
LEMMA AccountTypes ==
  ASSUME NEW a, IsChart(a), NEW it, NEW hit, NEW pays \in [DOMAIN a -> Int]
  PROVE  /\ IsFiniteSet(DOMAIN a) /\ PaidHits(a, it, hit) \in SUBSET DOMAIN a
         /\ IsFiniteSet(PaidHits(a, it, hit))
         /\ SumFunctionOnSet(pays, PaidHits(a, it, hit)) \in Int
         /\ \A mine : IsFiniteSet(Hits(a, hit, mine)) /\ Cardinality(Hits(a, hit, mine)) \in Nat
         /\ Penalty \in {0, 50}
<1>1. IsFiniteSet(DOMAIN a)
  BY Intervals DEF IsChart
<1>2. \A mine : Hits(a, hit, mine) \in SUBSET DOMAIN a
  BY DEF Hits
<1>3. PaidHits(a, it, hit) \in SUBSET DOMAIN a
  BY <1>2 DEF PaidHits
<1>4. Penalty \in {0, 50}
  <2>1. ArrowPoints(0) = 50
    BY DEF ArrowPoints
  <2> QED BY <2>1 DEF Penalty
<1>5. IsFiniteSet(PaidHits(a, it, hit))
  BY <1>1, <1>3, FS_Subset
<1>6. SumFunctionOnSet(pays, PaidHits(a, it, hit)) \in Int
  BY <1>3, <1>5, SumType
<1>7. \A mine : IsFiniteSet(Hits(a, hit, mine)) /\ Cardinality(Hits(a, hit, mine)) \in Nat
  BY <1>1, <1>2, FS_Subset, FS_CardinalityType
<1> QED BY <1>1, <1>3, <1>4, <1>5, <1>6, <1>7

(* Some mines more cost as often as they are.                              *)
LEMMA MinesCost ==
  ASSUME NEW a, IsChart(a), NEW hit, NEW M \in SUBSET DOMAIN a,
         \A i \in M : ~hit[i] /\ a[i].mine = TRUE,
         NEW more, \A i \in DOMAIN a : more[i] <=> (hit[i] \/ i \in M)
  PROVE  /\ Hits(a, more, FALSE) = Hits(a, hit, FALSE)
         /\ Cardinality(M) \in Nat
         /\ Cardinality(Hits(a, more, TRUE)) = Cardinality(Hits(a, hit, TRUE)) + Cardinality(M)
<1>1. Hits(a, more, FALSE) = Hits(a, hit, FALSE)
  BY DEF Hits
<1>2. Hits(a, more, TRUE) = Hits(a, hit, TRUE) \cup M /\ Hits(a, hit, TRUE) \cap M = {}
  BY DEF Hits
<1>3. IsFiniteSet(DOMAIN a) /\ Hits(a, hit, TRUE) \in SUBSET DOMAIN a
  BY Intervals DEF IsChart, Hits
<1>4. IsFiniteSet(Hits(a, hit, TRUE)) /\ IsFiniteSet(M)
  BY <1>3, FS_Subset
<1>5. Cardinality(Hits(a, hit, TRUE) \cup M) = Cardinality(Hits(a, hit, TRUE)) + Cardinality(M)
  BY <1>2, <1>4, DisjointUnion
<1> QED BY <1>1, <1>2, <1>4, <1>5, FS_CardinalityType

(* An arrow hit is not paid yet.                                           *)
LEMMA HitArrow ==
  ASSUME NEW a, IsChart(a), NEW it, NEW hit, NEW released, NEW pays, NEW score, NEW base,
         Account(a, it, hit, released, pays, score, base),
         NEW i \in DOMAIN a, i >= it, ~hit[i], a[i].mine = FALSE, NEW p \in Int
  PROVE  Account(a, it, [hit EXCEPT ![i] = TRUE], released, [pays EXCEPT ![i] = p], score, base)
<1> DEFINE hit2 == [hit EXCEPT ![i] = TRUE]
           pays2 == [pays EXCEPT ![i] = p]
<1>0. i \in Int /\ it \in Int /\ \A j \in DOMAIN a : j \in Int
  BY DEF Account, IsChart
<1>1. /\ hit2 \in [DOMAIN a -> BOOLEAN] /\ pays2 \in [DOMAIN a -> Int]
      /\ \A j \in DOMAIN a : j # i => hit2[j] = hit[j] /\ pays2[j] = pays[j]
  BY DEF Account
<1>2. Hits(a, hit2, TRUE) = Hits(a, hit, TRUE)
  BY <1>1 DEF Hits
<1>3. PaidHits(a, it, hit2) = PaidHits(a, it, hit) /\ i \notin PaidHits(a, it, hit)
  BY <1>0, <1>1 DEF PaidHits, Hits
<1> HIDE DEF hit2, pays2
<1>4. SumFunctionOnSet(pays, PaidHits(a, it, hit)) = SumFunctionOnSet(pays2, PaidHits(a, it, hit))
  <2> DEFINE P == PaidHits(a, it, hit)
  <2>1. IsFiniteSet(P) /\ P \in SUBSET DOMAIN a
    BY AccountTypes DEF Account
  <2>2. \A j \in P : pays[j] \in Int /\ pays[j] = pays2[j]
    BY <2>1, <1>1, <1>3 DEF Account
  <2> HIDE DEF P
  <2>3. SumFunctionOnSet(pays, P) = SumFunctionOnSet(pays2, P)
    BY <2>1, <2>2, SumEqual
  <2> QED BY <2>3 DEF P
<1>5. \A j \in DOMAIN a : j < it /\ hit2[j] => released[j]
  BY <1>0, <1>1 DEF Account
<1>6. Account(a, it, hit2, released, pays2, score, base)
  BY <1>1, <1>2, <1>3, <1>4, <1>5 DEF Account
<1> QED BY <1>6 DEF hit2, pays2

(* Mines cost at once.                                                     *)
LEMMA HitMines ==
  ASSUME NEW a, IsChart(a), NEW it, NEW hit, NEW released, NEW pays, NEW score, NEW base,
         Account(a, it, hit, released, pays, score, base),
         NEW M \in SUBSET DOMAIN a, \A i \in M : i >= it /\ ~hit[i] /\ a[i].mine = TRUE,
         NEW more \in [DOMAIN a -> BOOLEAN],
         \A i \in DOMAIN a : more[i] <=> (hit[i] \/ i \in M)
  PROVE  Account(a, it, more, released, pays, score - Penalty * Cardinality(M), base)
<1> DEFINE m == Cardinality(M)
           k == Cardinality(Hits(a, hit, TRUE))
           paid == SumFunctionOnSet(pays, PaidHits(a, it, hit))
           points == score - Penalty * m
<1>0. it \in Int /\ \A j \in DOMAIN a : j \in Int
  BY DEF Account, IsChart
<1>1. /\ Hits(a, more, FALSE) = Hits(a, hit, FALSE)
      /\ m \in Nat /\ Cardinality(Hits(a, more, TRUE)) = k + m
  <2>1. \A i \in M : ~hit[i] /\ a[i].mine = TRUE
    OBVIOUS
  <2> QED BY <2>1, MinesCost, ZenonT(60)
<1>2. k \in Nat /\ paid \in Int /\ Penalty \in {0, 50}
  BY AccountTypes DEF Account
<1>3. PaidHits(a, it, more) = PaidHits(a, it, hit)
  BY <1>1 DEF PaidHits
<1>4. \A j \in DOMAIN a : j < it /\ more[j] => released[j]
  BY <1>0 DEF Account
<1>5. score = base + paid - Penalty * k /\ score \in Int /\ base \in Int
  BY DEF Account
<1> HIDE DEF m, k, paid
<1>6. points \in Int /\ points = base + paid - Penalty * (k + m)
  <2>1. CASE Penalty = 0
    BY <1>1, <1>2, <1>5, <2>1
  <2>2. CASE Penalty = 50
    BY <1>1, <1>2, <1>5, <2>2
  <2> QED BY <1>2, <2>1, <2>2
<1> HIDE DEF points
<1>7. Account(a, it, more, released, pays, points, base)
  BY <1>1, <1>3, <1>4, <1>6 DEF Account, paid
<1> QED BY <1>7 DEF points, m

(* A hold that is left too early has not gone by.                          *)
LEMMA LeaveHold ==
  ASSUME NEW a, IsChart(a), NEW it, NEW hit, NEW released, NEW pays, NEW score, NEW base,
         Account(a, it, hit, released, pays, score, base), NEW i \in DOMAIN a, ~released[i]
  PROVE  Account(a, it, hit, [released EXCEPT ![i] = TRUE], [pays EXCEPT ![i] = 0], score, base)
<1> DEFINE released2 == [released EXCEPT ![i] = TRUE]
           pays2 == [pays EXCEPT ![i] = 0]
           P == PaidHits(a, it, hit)
<1>1. /\ released2 \in [DOMAIN a -> BOOLEAN] /\ pays2 \in [DOMAIN a -> Int]
      /\ \A j \in DOMAIN a : (released[j] => released2[j]) /\ (j # i => pays2[j] = pays[j])
  BY DEF Account
<1>2. i \notin P
  BY DEF PaidHits, Hits, Account
<1>3. IsFiniteSet(P) /\ P \in SUBSET DOMAIN a
  BY AccountTypes DEF Account
<1> HIDE DEF released2, pays2, P
<1>4. \A j \in P : pays[j] \in Int /\ pays[j] = pays2[j]
  BY <1>1, <1>2, <1>3 DEF Account
<1>5. SumFunctionOnSet(pays, P) = SumFunctionOnSet(pays2, P)
  BY <1>3, <1>4, SumEqual
<1>6. \A j \in DOMAIN a : j < it /\ hit[j] => released2[j]
  BY <1>1 DEF Account
<1>7. Account(a, it, hit, released2, pays2, score, base)
  BY <1>1, <1>5, <1>6 DEF Account, P
<1> QED BY <1>7 DEF released2, pays2

(* The arrows that have gone away by time u are the next ones.             *)
Gone(a, it, u) == {i \in it .. Len(a) : a[i].end + HitTolerance < u}

LEMMA GoneAreNext ==
  ASSUME NEW a, IsChart(a), NEW it \in 1 .. Len(a) + 1, NEW u \in Int
  PROVE  LET next == it + Cardinality(Gone(a, it, u))
         IN  /\ Gone(a, it, u) = it .. next - 1 /\ next \in 1 .. Len(a) + 1 /\ it <= next
             /\ Cardinality(Gone(a, it, u)) \in Nat
<1> DEFINE gone == Gone(a, it, u)
           n == Cardinality(gone)
<1>0. /\ gone \in SUBSET (0 .. Len(a)) /\ Len(a) \in Nat /\ it \in Nat
      /\ \A i \in gone : i \in it .. Len(a) /\ a[i].end + HitTolerance < u
      /\ \A i \in it .. Len(a) : a[i].end + HitTolerance < u => i \in gone
      /\ \A i \in it .. Len(a) : i \in DOMAIN a /\ a[i].end \in Int
  BY DEF Gone, IsChart
<1> HIDE DEF gone
<1>1. CASE gone = {}
  <2>1. n = 0
    BY <1>1, FS_EmptySet
  <2>2. it .. it + 0 - 1 = {}
    BY <1>0
  <2> HIDE DEF n
  <2>3. n \in Nat /\ gone = it .. it + n - 1 /\ it + n \in 1 .. Len(a) + 1 /\ it <= it + n
    BY <1>0, <1>1, <2>1, <2>2
  <2> QED BY <2>3 DEF n, gone
<1>2. CASE gone # {}
  <2> DEFINE m == Max(gone)
  <2>1. m \in gone /\ \A i \in gone : i <= m
    BY <1>0, <1>2, GreatestOf
  <2> HIDE DEF m
  <2>2. m \in it .. Len(a) /\ it \in Int /\ m \in Int
    BY <1>0, <2>1
  <2>3. ASSUME NEW i \in it .. m PROVE i \in gone
    <3>1. i \in it .. Len(a) /\ m \in DOMAIN a /\ i \in DOMAIN a /\ (i = m \/ i < m)
      BY <1>0, <2>2
    <3>2. a[i].end <= a[m].end /\ a[i].end \in Int /\ a[m].end \in Int
      BY <3>1, <1>0, <2>2 DEF IsChart
    <3>3. a[m].end + HitTolerance < u
      BY <1>0, <2>1
    <3>4. a[i].end + HitTolerance < u
      BY <3>2, <3>3 DEF HitTolerance
    <3> QED BY <1>0, <3>1, <3>4
  <2>4. \A i \in gone : i \in it .. m
    BY <1>0, <2>1, <2>2
  <2>5. gone = it .. m
    BY <2>3, <2>4
  <2>6. n = m - it + 1
    <3>1. Cardinality(it .. m) = IF it > m THEN 0 ELSE m - it + 1
      BY <2>2, FS_Interval
    <3> QED BY <2>2, <2>5, <3>1
  <2> HIDE DEF n
  <2>7. n \in Nat /\ it + n - 1 = m /\ it + n \in 1 .. Len(a) + 1 /\ it <= it + n
    BY <1>0, <2>2, <2>6
  <2>8. gone = it .. it + n - 1
    BY <2>5, <2>7
  <2> QED BY <2>7, <2>8 DEF n, gone
<1> QED BY <1>1, <1>2

(* They are paid as they go, if they were hit.                             *)
LEMMA ArrowsGoBy ==
  ASSUME NEW a, IsChart(a), NEW it, NEW hit, NEW released, NEW pays, NEW score, NEW base,
         Account(a, it, hit, released, pays, score, base), NEW u \in Int,
         NEW later, later = [i \in DOMAIN a |-> released[i] \/ (i \in Gone(a, it, u) /\ hit[i])],
         NEW arrows, arrows = {i \in Gone(a, it, u) : ~a[i].mine},
         NEW paid, paid = [i \in arrows |-> IF hit[i] THEN pays[i] ELSE 0]
  PROVE  Account(a, it + Cardinality(Gone(a, it, u)), hit, later, pays,
                 score + SumFunctionOnSet(paid, arrows), base)
<1> DEFINE gone == Gone(a, it, u)
           next == it + Cardinality(gone)
           old == PaidHits(a, it, hit)
           new == PaidHits(a, next, hit)
           T == {i \in arrows : hit[i]}
<1>1. /\ gone = it .. next - 1 /\ next \in 1 .. Len(a) + 1 /\ it <= next
      /\ Cardinality(gone) \in Nat
  <2>1. it \in 1 .. Len(a) + 1
    BY DEF Account
  <2> QED BY <2>1, GoneAreNext, Zenon
<1>2. /\ it \in Int /\ next \in Int /\ Len(a) \in Nat /\ DOMAIN a = 1 .. Len(a)
      /\ \A i \in DOMAIN a : a[i].mine \in BOOLEAN
      /\ hit \in [DOMAIN a -> BOOLEAN] /\ pays \in [DOMAIN a -> Int]
      /\ it \in 1 .. Len(a) + 1
  BY <1>1 DEF Account, IsChart
<1>3. gone \in SUBSET DOMAIN a /\ arrows \in SUBSET gone
  <2> HIDE DEF next
  <2>1. gone \in SUBSET DOMAIN a
    BY <1>1, <1>2
  <2> QED BY <2>1
<1>4. \A i \in DOMAIN a : i \in gone <=> (i >= it /\ i < next)
  <2> HIDE DEF next, gone
  <2> QED BY <1>1, <1>2
<1>5. old \in SUBSET new /\ new \ old = T
  <2>1. \A i \in DOMAIN a : i < it => i < next
    <3> HIDE DEF next
    <3> QED BY <1>1, <1>2
  <2>2. \A i : i \in new <=> i \in DOMAIN a /\ hit[i] /\ a[i].mine = FALSE /\ i < next
    BY DEF PaidHits, Hits
  <2>3. \A i : i \in old <=> i \in DOMAIN a /\ hit[i] /\ a[i].mine = FALSE /\ i < it
    BY DEF PaidHits, Hits
  <2>4. \A i : i \in T <=> i \in gone /\ a[i].mine = FALSE /\ hit[i]
    BY <1>2, <1>3
  <2>5. \A i \in DOMAIN a : i >= it <=> ~(i < it)
    BY <1>2
  <2> HIDE DEF next, new, old, T, gone
  <2> QED BY <2>1, <2>2, <2>3, <2>4, <2>5, <1>3, <1>4
<1> HIDE DEF next
<1>6. SumFunctionOnSet(pays, new) = SumFunctionOnSet(pays, old) + SumFunctionOnSet(pays, T)
  <2>1. IsFiniteSet(new) /\ new \in SUBSET DOMAIN a
    BY <1>2, AccountTypes
  <2>2. \A i \in new : pays[i] \in Int
    BY <1>2, <2>1
  <2> HIDE DEF new, old, T
  <2> QED BY <1>5, <2>1, <2>2, SumSplit
<1>7. SumFunctionOnSet(paid, arrows) = SumFunctionOnSet(pays, T) /\ SumFunctionOnSet(pays, T) \in Int
  <2>1. IsFiniteSet(arrows) /\ T \in SUBSET arrows
    <3>1. IsFiniteSet(DOMAIN a)
      BY <1>2, Intervals
    <3> QED BY <3>1, <1>3, FS_Subset
  <2>2. IsFiniteSet(T) /\ IsFiniteSet(arrows \ T)
    BY <2>1, FS_Subset
  <2>3. \A i \in arrows : paid[i] = (IF hit[i] THEN pays[i] ELSE 0) /\ pays[i] \in Int /\ paid[i] \in Int
    BY <1>2, <1>3
  <2>4. SumFunctionOnSet(paid, arrows)
          = SumFunctionOnSet(paid, T) + SumFunctionOnSet(paid, arrows \ T)
    <3> HIDE DEF T
    <3> QED BY <2>1, <2>3, SumSplit, ZenonT(60)
  <2>5. SumFunctionOnSet(paid, arrows \ T) = 0
    <3>1. \A i \in arrows \ T : paid[i] = 0
      BY <2>3
    <3> QED BY <2>2, <3>1, SumOfZeros
  <2>6. SumFunctionOnSet(pays, T) = SumFunctionOnSet(paid, T)
    <3>1. \A i \in T : pays[i] \in Int /\ pays[i] = paid[i]
      BY <2>3
    <3> QED BY <2>2, <3>1, SumEqual
  <2>7. SumFunctionOnSet(pays, T) \in Int
    <3>1. \A i \in T : pays[i] \in Int
      BY <2>3
    <3> QED BY <2>2, <3>1, SumType
  <2> QED BY <2>4, <2>5, <2>6, <2>7
<1>8. later \in [DOMAIN a -> BOOLEAN] /\ \A i \in DOMAIN a : i < next /\ hit[i] => later[i]
  <2>1. \A i \in DOMAIN a : later[i] <=> (released[i] \/ (i \in gone /\ hit[i]))
    OBVIOUS
  <2>2. later \in [DOMAIN a -> BOOLEAN]
    OBVIOUS
  <2>3. \A i \in DOMAIN a : i >= it <=> ~(i < it)
    BY <1>2
  <2>4. \A i \in DOMAIN a : i < it /\ hit[i] => released[i]
    BY DEF Account
  <2> HIDE DEF gone
  <2> QED BY <1>4, <2>1, <2>2, <2>3, <2>4
<1>9. /\ score = base + SumFunctionOnSet(pays, old) - Penalty * Cardinality(Hits(a, hit, TRUE))
      /\ score \in Int /\ base \in Int
  BY DEF Account
<1> DEFINE o == SumFunctionOnSet(pays, old)
           s == SumFunctionOnSet(pays, T)
           c == Penalty * Cardinality(Hits(a, hit, TRUE))
<1>10. o \in Int /\ c \in Int
  <2>1. Penalty \in {0, 50} /\ Cardinality(Hits(a, hit, TRUE)) \in Nat /\ o \in Int
    BY <1>2, AccountTypes
  <2>2. \A p \in {0, 50}, n \in Nat : p * n \in Int
    OBVIOUS
  <2> QED BY <2>1, <2>2
<1>11. score + s = base + (o + s) - c /\ score + s \in Int
  <2>1. s \in Int /\ score = base + o - c
    BY <1>7, <1>9
  <2> HIDE DEF o, s, c
  <2> QED BY <2>1, <1>9, <1>10
<1>12. Account(a, next, hit, later, pays, score + s, base)
  <2>1. score + s = base + SumFunctionOnSet(pays, new) - c
    BY <1>6, <1>11
  <2> HIDE DEF o, s, old
  <2> QED BY <1>1, <1>2, <1>8, <1>9, <1>11, <2>1 DEF Account
<1> QED BY <1>7, <1>12 DEF next

(* A hold that is still to be paid at time u is the one its pad is active  *)
(* with, the pad is pressed, and an arrow of the panel that was not hit    *)
(* before it is too old to be hit now.                                     *)
Holding(a, u, hit, released, i) == hit[i] /\ ~released[i] /\ a[i].end > u + HitTolerance
Passed(a, u, it, hit, i) ==
  \A k \in DOMAIN a :
    it <= k /\ k < i /\ ~hit[k] /\ a[k].pad = a[i].pad => a[k].begin + HitTolerance < u
Held(a, u, it, hit, released, active, pressed) ==
  /\ active \in [Panels -> {0} \cup DOMAIN a]
  /\ \A i \in DOMAIN a : Holding(a, u, hit, released, i) =>
       active[a[i].pad] = i /\ a[i].pad \in pressed /\ Passed(a, u, it, hit, i)

(* It stays so while time goes on, arrows go by and are released, hit or   *)
(* stood on when they have ended.                                          *)
LEMMA HeldLater ==
  ASSUME NEW a, IsChart(a), NEW u \in Int, NEW v \in Int, u <= v,
         NEW it \in Nat, NEW next \in Nat, it <= next, NEW hit, NEW more, NEW released, NEW later,
         \A i \in DOMAIN a : /\ hit[i] => more[i]
                             /\ released[i] => later[i]
                             /\ more[i] /\ ~hit[i] => a[i].end <= v + HitTolerance,
         NEW active, NEW pressed, Held(a, u, it, hit, released, active, pressed)
  PROVE  Held(a, v, next, more, later, active, pressed)
<1>1. ASSUME NEW i \in DOMAIN a, Holding(a, v, more, later, i)
      PROVE  /\ active[a[i].pad] = i /\ a[i].pad \in pressed
             /\ Passed(a, v, next, more, i)
  <2>0. \A k \in DOMAIN a : k \in Int /\ a[k].end \in Int /\ a[k].begin \in Int
    BY DEF IsChart
  <2>1. hit[i]
    BY <1>1, <2>0 DEF Holding, HitTolerance
  <2>2. Holding(a, u, hit, released, i)
    BY <1>1, <2>0, <2>1 DEF Holding, HitTolerance
  <2>3. active[a[i].pad] = i /\ a[i].pad \in pressed /\ Passed(a, u, it, hit, i)
    BY <2>2 DEF Held
  <2>4. ASSUME NEW k \in DOMAIN a, next <= k, k < i, ~more[k], a[k].pad = a[i].pad
        PROVE  a[k].begin + HitTolerance < v
    <3>1. it <= k /\ ~hit[k]
      BY <2>4, <2>0
    <3>2. a[k].begin + HitTolerance < u
      BY <2>3, <2>4, <3>1 DEF Passed
    <3> QED BY <2>0, <3>2 DEF HitTolerance
  <2> QED BY <2>3, <2>4 DEF Passed
<1> QED BY <1>1 DEF Held

(* The next hit of a pad ends no hold: two arrows of a panel do not        *)
(* overlap, and the one before is too old.                                 *)
LEMMA HitHolds ==
  ASSUME NEW a, IsChart(a), NEW u \in Int, NEW it \in 1 .. Len(a) + 1,
         NEW hit \in [DOMAIN a -> BOOLEAN], NEW released,
         NEW active, NEW pressed, Held(a, u, it, hit, released, active, pressed),
         NEW n \in DOMAIN a, it <= n, ~hit[n], a[n].pad \in pressed,
         AbsDiff(u, a[n].begin) <= HitTolerance,
         \A k \in DOMAIN a : it <= k /\ k < n /\ ~hit[k] /\ a[k].pad = a[n].pad =>
                               ~(AbsDiff(u, a[k].begin) <= HitTolerance)
  PROVE  Held(a, u, it, [hit EXCEPT ![n] = TRUE], released, [active EXCEPT ![a[n].pad] = n], pressed)
<1> DEFINE pad == a[n].pad
           hit2 == [hit EXCEPT ![n] = TRUE]
           active2 == [active EXCEPT ![pad] = n]
<1>0. /\ Len(a) \in Nat /\ DOMAIN a = 1 .. Len(a)
      /\ \A k \in DOMAIN a : k \in Int /\ a[k].end \in Int /\ a[k].begin \in Int /\ a[k].begin <= a[k].end
  BY DEF IsChart
<1>2. u - a[n].begin <= 3 /\ a[n].begin - u <= 3
  <2>1. a[n].begin \in Int
    BY <1>0
  <2> QED BY <2>1 DEF AbsDiff, HitTolerance
<1>3. /\ hit2[n] = TRUE
      /\ \A k \in DOMAIN a : k # n => hit2[k] = hit[k]
  OBVIOUS
<1>4. /\ active \in [Panels -> {0} \cup DOMAIN a] /\ pad \in Panels
      /\ active2 \in [Panels -> {0} \cup DOMAIN a]
      /\ active2[pad] = n /\ \A x \in Panels : x # pad => active2[x] = active[x]
  <2>1. active \in [Panels -> {0} \cup DOMAIN a] /\ pad \in Panels
    BY DEF Held, IsChart
  <2> QED BY <2>1
<1> HIDE DEF hit2, active2
<1>5. Passed(a, u, it, hit2, n)
  <2> SUFFICES ASSUME NEW k \in DOMAIN a, it <= k, k < n, ~hit2[k], a[k].pad = pad
               PROVE  a[k].begin + HitTolerance < u
    BY <1>2 DEF Passed
  <2>1. ~hit[k] /\ k # n /\ k \in Int /\ n \in Int
    BY <1>0, <1>3
  <2>3. ~(AbsDiff(u, a[k].begin) <= HitTolerance)
    BY <2>1
  <2>4. /\ a[k].end < a[n].begin \/ a[n].end < a[k].begin
        /\ a[k].end <= a[n].end
    BY <1>2, <2>1 DEF IsChart
  <2>5. /\ a[k].begin \in Int /\ a[k].end \in Int /\ a[n].begin \in Int /\ a[n].end \in Int
        /\ a[k].begin <= a[k].end
    BY <1>0, <1>2
  <2>6. a[k].begin < a[n].begin
    BY <2>4, <2>5
  <2> QED BY <1>2, <2>3, <2>5, <2>6 DEF AbsDiff, HitTolerance
<1>6. ASSUME NEW i \in DOMAIN a, Holding(a, u, hit2, released, i)
      PROVE  active2[a[i].pad] = i /\ a[i].pad \in pressed /\ Passed(a, u, it, hit2, i)
  <2>1. CASE i = n
    BY <2>1, <1>2, <1>4, <1>5
  <2>2. CASE i # n
    <3>1. Holding(a, u, hit, released, i)
      BY <1>3, <1>6, <2>2 DEF Holding
    <3>2. active[a[i].pad] = i /\ a[i].pad \in pressed /\ Passed(a, u, it, hit, i)
      BY <3>1 DEF Held
    <3>3. a[i].pad # pad
      <4> SUFFICES ASSUME a[i].pad = pad PROVE FALSE
        OBVIOUS
      <4>1. /\ a[i].begin \in Int /\ a[i].end \in Int /\ a[n].begin \in Int /\ a[n].end \in Int
            /\ a[n].begin <= a[n].end /\ a[i].begin <= a[i].end /\ i \in Int /\ n \in Int
        BY <1>0, <1>2
      <4>2. a[i].end > u + 3
        BY <3>1 DEF Holding, HitTolerance
      <4>3. a[i].end < a[n].begin \/ a[n].end < a[i].begin
        BY <1>2, <2>2 DEF IsChart
      <4>4. a[n].end < a[i].begin
        BY <1>2, <4>1, <4>2, <4>3
      <4>5. n < i
        <5>1. i < n => a[i].end <= a[n].end
          BY <1>2 DEF IsChart
        <5> QED BY <2>2, <4>1, <4>4, <5>1
      <4>6. a[n].begin + HitTolerance < u
        <5>1. it <= n
          BY <1>2
        <5> QED BY <1>2, <3>2, <4>5, <5>1 DEF Passed
      <4> QED BY <1>2, <4>1, <4>6 DEF HitTolerance
    <3>4. Passed(a, u, it, hit2, i)
      <4>1. \A k \in DOMAIN a : ~hit2[k] => ~hit[k]
        BY <1>3
      <4> QED BY <3>2, <4>1 DEF Passed
    <3>5. a[i].pad \in Panels
      BY DEF IsChart
    <3> QED BY <1>4, <3>2, <3>3, <3>4, <3>5
  <2> QED BY <2>1, <2>2
<1>7. Held(a, u, it, hit2, released, active2, pressed)
  BY <1>4, <1>6 DEF Held
<1> QED BY <1>7 DEF hit2, active2

(* Who leaves the pad of a hold too early releases the hold.               *)
LEMMA ReleaseHolds ==
  ASSUME NEW a, IsChart(a), NEW u \in Int, NEW it, NEW hit,
         NEW released \in [DOMAIN a -> BOOLEAN], NEW later \in [DOMAIN a -> BOOLEAN],
         NEW active, NEW pressed, Held(a, u, it, hit, released, active, pressed), NEW pad,
         \A i \in DOMAIN a :
           /\ released[i] => later[i]
           /\ active[pad] = i /\ ~released[i] /\ a[i].end > u + HitTolerance => later[i]
  PROVE  Held(a, u, it, hit, later, active, pressed \ {pad})
<1>1. ASSUME NEW i \in DOMAIN a, Holding(a, u, hit, later, i)
      PROVE  /\ active[a[i].pad] = i /\ a[i].pad \in pressed \ {pad}
             /\ Passed(a, u, it, hit, i)
  <2>1. ~later[i] /\ ~released[i] /\ a[i].end > u + HitTolerance /\ hit[i]
    BY <1>1 DEF Holding
  <2>2. Holding(a, u, hit, released, i)
    BY <2>1 DEF Holding
  <2>3. active[a[i].pad] = i /\ a[i].pad \in pressed /\ Passed(a, u, it, hit, i)
    BY <2>2 DEF Held
  <2>4. a[i].pad # pad
    BY <2>1, <2>3
  <2> QED BY <2>3, <2>4
<1> QED BY <1>1 DEF Held

(* A dancer who is there: the account is right, and while the time of the  *)
(* chart goes on holds are held.                                           *)
Playing(q, u) ==
  LET a == Arrows(q.chart)
  IN  /\ IsChart(a)
      /\ Account(a, q.it, q.hit, q.released, q.pays, q.score, q.base)
      /\ q.active \in [Panels -> {0} \cup DOMAIN a]
      /\ StopsInOrder => Held(a, u, q.it, q.hit, q.released, q.active, q.pressed)
Good(q, u) == DancerFields \subseteq DOMAIN q /\ q.left \in BOOLEAN /\ (~q.left => Playing(q, u))

(* Where nothing of the dance changes the dancer is as good as before.     *)
LEMMA SameDanceIsGood ==
  ASSUME NEW u, NEW q, NEW r, Good(q, u), SameDance(r, q)
  PROVE  Good(r, u)
<1>1. q.left => r.left
  BY DEF SameDance
<1>2. ASSUME ~q.left PROVE Playing(r, u)
  <2>1. Playing(q, u)
    BY <1>2 DEF Good
  <2> QED BY <2>1 DEF Playing, SameDance
<1> QED BY <1>1, <1>2 DEF Good, SameDance

(* A new chart is good: nothing was hit.                                   *)
LEMMA DifficultyIsGood ==
  ASSUME NEW u \in Int, NEW q, DancerFields \subseteq DOMAIN q, q.left \in BOOLEAN,
         ~q.left => q.score \in Int,
         q.track \in DOMAIN DanceTracks, NEW l \in DOMAIN DanceTracks[q.track]
  PROVE  /\ Good(Difficulty(q, l), u)
         /\ Difficulty(q, l).left = q.left /\ Difficulty(q, l).pressed = q.pressed
<1> DEFINE chart == <<q.track, l>>
           a == Arrows(chart)
           none == [i \in DOMAIN a |-> FALSE]
           pays == [i \in DOMAIN none |-> 0]
           active == [x \in Panels |-> 0]
           r == Difficulty(q, l)
<1>1. r = [q EXCEPT !.level = l, !.chart = chart, !.it = 1, !.hit = none, !.released = none,
                    !.pays = pays, !.active = active, !.base = q.score]
  BY DEF Difficulty
<1>2. IsChart(a)
  BY SortedIsChart
<1>3. /\ none \in [DOMAIN a -> BOOLEAN] /\ pays \in [DOMAIN a -> Int]
      /\ \A i \in DOMAIN a : ~none[i]
      /\ active \in [Panels -> {0} \cup DOMAIN a]
  OBVIOUS
<1> HIDE DEF none, pays, active, chart, r
<1>4. /\ DancerFields \subseteq DOMAIN r /\ r.chart = chart /\ r.it = 1 /\ r.hit = none
      /\ r.released = none /\ r.pays = pays /\ r.active = active /\ r.base = q.score
      /\ r.score = q.score /\ r.left = q.left /\ r.pressed = q.pressed
  BY <1>1 DEF DancerFields
<1> HIDE DEF a
<1>5. ASSUME ~q.left PROVE Account(a, 1, none, none, pays, q.score, q.score)
  <2>1. Hits(a, none, TRUE) = {} /\ PaidHits(a, 1, none) = {}
    BY <1>3 DEF PaidHits, Hits
  <2>2. SumFunctionOnSet(pays, PaidHits(a, 1, none)) = 0
    BY <2>1, SumOfNone
  <2>3. Cardinality(Hits(a, none, TRUE)) = 0
    BY <2>1, FS_EmptySet
  <2>4. Penalty \in {0, 50}
    BY <1>2, <1>3, AccountTypes
  <2>5. Penalty * 0 = 0
    BY <2>4
  <2>6. q.score = q.score + SumFunctionOnSet(pays, PaidHits(a, 1, none))
                   - Penalty * Cardinality(Hits(a, none, TRUE))
    <3>1. \A n \in Int : n = n + 0 - 0
      OBVIOUS
    <3> QED BY <1>5, <2>2, <2>3, <2>5, <3>1
  <2>7. 1 \in 1 .. Len(a) + 1
    BY <1>2 DEF IsChart
  <2> QED BY <1>3, <1>5, <2>6, <2>7 DEF Account
<1>6. Held(a, u, 1, none, none, active, q.pressed)
  BY <1>3 DEF Held, Holding
<1>7. ASSUME ~q.left PROVE Playing(r, u)
  BY <1>2, <1>3, <1>4, <1>5, <1>6, <1>7 DEF Playing, a
<1>8. Good(r, u)
  BY <1>4, <1>7 DEF Good
<1> QED BY <1>4, <1>8 DEF r

(* A new track brings a new chart, or leaves the old one till a level is   *)
(* chosen.                                                                 *)
LEMMA SetTrackIsGood ==
  ASSUME NEW u \in Int, NEW q, DancerFields \subseteq DOMAIN q, q.left \in BOOLEAN,
         q.level \in DanceDifficulty, NEW t \in DOMAIN DanceTracks,
         Good(q, u) \/ (q.level = 0 /\ q.score \in Int)
  PROVE  /\ Good(SetTrack(q, t), u)
         /\ SetTrack(q, t).left = q.left /\ SetTrack(q, t).pressed = q.pressed
<1> DEFINE r == [q EXCEPT !.track = t]
           harder == {l \in DOMAIN DanceTracks[t] : l >= q.level}
           s == ChangeDifficulty(r)
<1>1. /\ DancerFields \subseteq DOMAIN r /\ r.track = t /\ r.level = q.level
      /\ r.left = q.left /\ r.pressed = q.pressed /\ r.score = q.score /\ SameDance(r, q)
  BY DEF DancerFields, SameDance
<1>2. ~q.left => q.score \in Int
  BY DEF Good, Playing, Account
<1>3. DOMAIN DanceTracks[t] \subseteq DanceDifficulty /\ DOMAIN DanceTracks[t] # {}
  BY DanceAssumption
<1>4. Good(s, u) /\ s.left = q.left /\ s.pressed = q.pressed
  <2>1. CASE harder = {}
    <3>1. s = r
      BY <1>1, <2>1 DEF ChangeDifficulty
    <3>2. q.level # 0
      BY <1>3, <2>1 DEF DanceDifficulty
    <3> QED BY <1>1, <3>1, <3>2, SameDanceIsGood
  <2>2. CASE harder # {}
    <3>1. s = Difficulty(r, Min(harder))
      BY <1>1, <2>2 DEF ChangeDifficulty
    <3>2. Min(harder) \in harder
      BY <1>3, <2>2, MinOfLevels
    <3> HIDE DEF r
    <3> QED BY <1>1, <1>2, <3>1, <3>2, DifficultyIsGood
  <2> QED BY <2>1, <2>2
<1> HIDE DEF s
<1>5. SameDance(SetupJoinMenu(s), s)
  BY <1>4 DEF SetupJoinMenu, SameDance, DancerFields, Good
<1>6. SetTrack(q, t) = SetupJoinMenu(s)
  BY DEF SetTrack, s
<1>7. Good(SetupJoinMenu(s), u)
  BY <1>4, <1>5, SameDanceIsGood
<1> QED BY <1>4, <1>5, <1>6, <1>7 DEF SameDance

(* A player who joins has a chart and stands nowhere.                      *)
LEMMA NewDancerIsGood ==
  ASSUME NEW u \in Int, NEW t
  PROVE  Good(NewDancer(t), u) /\ NewDancer(t).left = FALSE /\ NewDancer(t).pressed = {}
<1> DEFINE join == IF t < 0 THEN DanceJoinEarly ELSE t + DanceJoinDelay
           q == [track |-> FirstTrack, level |-> 0, chart |-> <<>>, it |-> 1, hit |-> <<>>,
                 released |-> <<>>, pays |-> <<>>, active |-> <<>>, pressed |-> {}, score |-> 0,
                 streak |-> 0, dead |-> 0, left |-> FALSE, ready |-> FALSE, open |-> TRUE,
                 menu |-> "join", selTrack |-> FirstTrack, selLevel |-> 0, choices |-> 0,
                 joinTime |-> join, base |-> 0, idle |-> 0]
<1>1. NewDancer(t) = SetTrack(q, FirstTrack)
  BY Zenon DEF NewDancer
<1> HIDE DEF join
<1>2. /\ DancerFields \subseteq DOMAIN q /\ q.left = FALSE
      /\ q.level = 0 /\ q.score = 0 /\ q.pressed = {}
  BY DEF DancerFields
<1> HIDE DEF q
<1>3. q.left \in BOOLEAN /\ q.level \in DanceDifficulty /\ q.level = 0 /\ q.score \in Int
  <2>1. q.left \in BOOLEAN
    BY <1>2, Zenon
  <2>2. q.level \in DanceDifficulty /\ q.score \in Int
    BY <1>2 DEF DanceDifficulty
  <2> QED BY <1>2, <2>1, <2>2
<1>4. FirstTrack \in DOMAIN DanceTracks
  BY DanceAssumption
<1>5. /\ Good(SetTrack(q, FirstTrack), u)
      /\ SetTrack(q, FirstTrack).left = q.left /\ SetTrack(q, FirstTrack).pressed = q.pressed
  BY <1>2, <1>3, <1>4, SetTrackIsGood
<1> QED BY <1>1, <1>2, <1>5

(* Whatever the menu selects, the chart that it brings is good.            *)
LEMMA SyncIsGood ==
  ASSUME NEW u \in Int, NEW q, Selecting(q), Good(q, u)
  PROVE  Good(Sync(q), u) /\ Sync(q).left = q.left /\ Sync(q).pressed = q.pressed
<1>1. CASE q.selTrack # q.track
  <2>1. Sync(q) = SetTrack(q, q.selTrack)
    BY <1>1 DEF Sync
  <2> QED BY <2>1, SetTrackIsGood DEF Selecting, Good
<1>2. CASE q.selTrack = q.track /\ q.selLevel # q.level
  <2>1. Sync(q) = Difficulty(q, q.selLevel)
    BY <1>2 DEF Sync
  <2>2. ~q.left => q.score \in Int
    BY DEF Good, Playing, Account
  <2>3. /\ q.track \in DOMAIN DanceTracks /\ q.selLevel \in DOMAIN DanceTracks[q.track]
        /\ DancerFields \subseteq DOMAIN q /\ q.left \in BOOLEAN
    BY <1>2 DEF Selecting, Good
  <2> QED BY <2>1, <2>2, <2>3, DifficultyIsGood
<1>3. CASE q.selTrack = q.track /\ q.selLevel = q.level
  BY <1>3 DEF Sync
<1> QED BY <1>1, <1>2, <1>3

(* A key in the menu: who stays keeps standing where they stood.           *)
LEMMA MenuKeyIsGood ==
  ASSUME NEW u \in Int, NEW q, Dancer(q), q.open = TRUE, Good(q, u), NEW e, NEW r \in MenuKey(q, e)
  PROVE  Good(r, u) /\ (~r.left => ~q.left /\ r.pressed = q.pressed)
<1>1. CASE r = UnjoinDance(q)
  <2>1. DancerFields \subseteq DOMAIN r /\ r.left = TRUE
    BY <1>1 DEF UnjoinDance, SetupJoinMenu, DancerFields, Dancer
  <2> QED BY <2>1 DEF Good
<1>2. ASSUME NEW s, r = Sync(s), Selecting(s), SameDance(s, q)
      PROVE  Good(r, u) /\ r.pressed = q.pressed /\ r.left = q.left
  <2>1. Good(s, u) /\ s.pressed = q.pressed /\ s.left = q.left
    BY <1>2, SameDanceIsGood DEF SameDance
  <2>2. Good(Sync(s), u) /\ Sync(s).pressed = s.pressed /\ Sync(s).left = s.left
    BY <1>2, <2>1, SyncIsGood
  <2> QED BY <1>2, <2>1, <2>2
<1>3. \/ \E s : r = Sync(s) /\ Selecting(s) /\ SameDance(s, q)
      \/ r = UnjoinDance(q)
  BY MenuKeyOutcomes
<1>4. CASE \E s : r = Sync(s) /\ Selecting(s) /\ SameDance(s, q)
  BY <1>2, <1>4
<1> QED BY <1>1, <1>3, <1>4

(* A loop that ends at the first of some arrows ends in the chart.         *)
LEMMA EndOfLoop ==
  ASSUME NEW n \in Nat, NEW i \in 1 .. n + 1, NEW G \in SUBSET (i .. n)
  PROVE  Min(G \cup {n + 1}) - 1 \in Int /\ Min(G \cup {n + 1}) - 1 <= n
<1>1. G \cup {n + 1} \in SUBSET Nat /\ \A k \in G \cup {n + 1} : k \in Nat /\ k <= n + 1
  OBVIOUS
<1>2. Min(G \cup {n + 1}) \in G \cup {n + 1}
  BY <1>1, MinOf
<1>3. Min(G \cup {n + 1}) \in Nat /\ Min(G \cup {n + 1}) <= n + 1
  BY <1>1, <1>2
<1> QED BY <1>3

(* The loop over arrows begins with the next one, and ends before the last *)
(* one of the chart does.                                                  *)
LEMMA ReachedIs ==
  ASSUME Now \in Int, NEW q, IsChart(Arrows(q.chart)), q.it \in 1 .. Len(Arrows(q.chart)) + 1
  PROVE  \E m \in Int : m <= Len(Arrows(q.chart)) /\ Reached(q) = q.it .. m
<1> DEFINE a == Arrows(q.chart)
           gone == {i \in q.it .. Len(a) : a[i].end + HitTolerance < Now}
           m == Min(gone \cup {Len(a) + 1}) - 1
<1>2. Len(a) \in Nat /\ q.it \in 1 .. Len(a) + 1 /\ gone \in SUBSET (q.it .. Len(a))
  BY DEF IsChart
<1>3. Reached(q) = q.it .. m
  BY DEF Reached
<1> HIDE DEF gone
<1>4. m \in Int /\ m <= Len(a)
  BY <1>2, EndOfLoop
<1> QED BY <1>3, <1>4

(* A pad pressed: the first arrow of its panel that can be hit now is hit. *)
LEMMA PressIsGood ==
  ASSUME Now \in Int, NEW q, Good(q, Now), NEW pad \in q.pressed
  PROVE  Good(Press(q, pad), Now) /\ Press(q, pad).pressed = q.pressed
<1> DEFINE a == Arrows(q.chart)
           S == {i \in Reached(q) : /\ Hittable(q, i) /\ a[i].pad = pad
                                    /\ AbsDiff(Now, a[i].begin) <= HitTolerance}
           n == Min(S)
           hit == [q.hit EXCEPT ![n] = TRUE]
           active == [q.active EXCEPT ![pad] = n]
           points == ArrowPoints(AbsDiff(Now, a[n].begin))
           pays == [q.pays EXCEPT ![n] = points]
           r == Press(q, pad)
<1>1. CASE S = {}
  <2>1. r = q
    BY <1>1 DEF Press
  <2> QED BY <2>1
<1>2. CASE S # {}
  <2> DEFINE mine == a[n].mine
  <2>1. r = IF mine THEN [q EXCEPT !.hit = hit, !.active = active, !.streak = 0,
                                   !.score = @ - Penalty]
            ELSE [q EXCEPT !.hit = hit, !.active = active, !.streak = @ + 1, !.pays = pays]
    <3>1. r = IF mine
              THEN [[q EXCEPT !.hit[n] = TRUE, !.active[pad] = n]
                      EXCEPT !.streak = 0, !.score = @ - IF MinePenalty THEN ArrowPoints(0) ELSE 0]
              ELSE [[q EXCEPT !.hit[n] = TRUE, !.active[pad] = n]
                      EXCEPT !.streak = @ + 1, !.pays[n] = points]
      BY <1>2, Zenon DEF Press
    <3> HIDE DEF n, points
    <3> QED BY <3>1 DEF Penalty, Good, DancerFields
  <2> HIDE DEF n, hit, active, pays, points, r
  <2>2. /\ DancerFields \subseteq DOMAIN r /\ r.chart = q.chart /\ r.it = q.it /\ r.hit = hit
        /\ r.released = q.released /\ r.active = active /\ r.pressed = q.pressed
        /\ r.base = q.base /\ r.left = q.left
        /\ mine => r.pays = q.pays /\ r.score = q.score - Penalty
        /\ ~mine => r.pays = pays /\ r.score = q.score
    BY <2>1 DEF Good, DancerFields
  <2>3. ASSUME ~q.left PROVE Playing(r, Now)
    <3>1. /\ IsChart(a) /\ q.it \in 1 .. Len(a) + 1 /\ q.hit \in [DOMAIN a -> BOOLEAN]
          /\ Account(a, q.it, q.hit, q.released, q.pays, q.score, q.base)
          /\ q.active \in [Panels -> {0} \cup DOMAIN a]
          /\ StopsInOrder => Held(a, Now, q.it, q.hit, q.released, q.active, q.pressed)
      BY <2>3 DEF Good, Playing, Account
    <3>2. PICK m \in Int : m <= Len(a) /\ Reached(q) = q.it .. m
      BY <3>1, ReachedIs
    <3>3. S = {i \in q.it .. m : /\ ~q.hit[i] /\ a[i].pad = pad
                                 /\ AbsDiff(Now, a[i].begin) <= HitTolerance}
      BY <3>2 DEF Hittable
    <3> HIDE DEF S, a
    <3>4. n \in S /\ n \in Nat /\ \A k \in S : ~(k < n)
      <4>1. S \in SUBSET Nat
        BY <3>1, <3>3 DEF IsChart
      <4>2. n \in S /\ \A k \in S : n <= k
        BY <1>2, <4>1, MinOf DEF n
      <4> QED BY <4>1, <4>2
    <3>5. n \in DOMAIN a /\ n >= q.it /\ ~q.hit[n] /\ a[n].pad = pad
      BY <3>1, <3>2, <3>3, <3>4 DEF IsChart
    <3>6. StopsInOrder => Held(a, Now, q.it, hit, q.released, active, q.pressed)
      <4> SUFFICES ASSUME StopsInOrder
                   PROVE  Held(a, Now, q.it, hit, q.released, active, q.pressed)
        OBVIOUS
      <4>1. Held(a, Now, q.it, q.hit, q.released, q.active, q.pressed)
        BY <3>1
      <4>2. AbsDiff(Now, a[n].begin) <= HitTolerance
        BY <3>3, <3>4
      <4>3. ASSUME NEW k \in DOMAIN a, q.it <= k, k < n, ~q.hit[k], a[k].pad = a[n].pad
            PROVE  ~(AbsDiff(Now, a[k].begin) <= HitTolerance)
        <5>1. k \notin S
          BY <3>4, <4>3, <3>1 DEF IsChart
        <5>2. k \in q.it .. m
          <6>1. n \in q.it .. m /\ k \in Int /\ q.it \in Int
            BY <3>1, <3>3, <3>4 DEF IsChart
          <6> QED BY <3>2, <4>3, <6>1
        <5> QED BY <3>3, <3>5, <4>3, <5>1, <5>2
      <4>4. Held(a, Now, q.it, [q.hit EXCEPT ![n] = TRUE], q.released,
                 [q.active EXCEPT ![a[n].pad] = n], q.pressed)
        BY <3>1, <3>5, <4>1, <4>2, <4>3, HitHolds
      <4> QED BY <3>5, <4>4 DEF hit, active
    <3>7. active \in [Panels -> {0} \cup DOMAIN a]
      BY <3>1, <3>5 DEF active
    <3>8. Account(a, r.it, r.hit, r.released, r.pays, r.score, r.base)
      <4>1. CASE mine
        <5> DEFINE M == {n}
        <5>1. Cardinality(M) = 1
          BY FS_Singleton
        <5>2. a[n].mine = TRUE
          BY <3>1, <3>5, <4>1 DEF IsChart
        <5>3. hit \in [DOMAIN a -> BOOLEAN] /\ \A i \in DOMAIN a : hit[i] <=> (q.hit[i] \/ i \in M)
          BY <3>1, <3>5 DEF hit
        <5>4. M \in SUBSET DOMAIN a /\ \A i \in M : i >= q.it /\ ~q.hit[i] /\ a[i].mine = TRUE
          BY <3>5, <5>2
        <5> HIDE DEF M
        <5>5. Account(a, q.it, hit, q.released, q.pays, q.score - Penalty * Cardinality(M), q.base)
          BY <3>1, <5>3, <5>4, HitMines
        <5>6. Penalty * 1 = Penalty
          <6>1. Penalty \in {0, 50}
            BY <3>1, AccountTypes DEF Account
          <6> QED BY <6>1
        <5> QED BY <2>2, <4>1, <5>1, <5>5, <5>6
      <4>2. CASE ~mine
        <5>1. a[n].mine = FALSE
          BY <3>1, <3>5, <4>2 DEF IsChart
        <5>2. points \in Int
          BY DEF points, ArrowPoints
        <5>3. Account(a, q.it, [q.hit EXCEPT ![n] = TRUE], q.released,
                      [q.pays EXCEPT ![n] = points], q.score, q.base)
          BY <3>1, <3>5, <5>1, <5>2, HitArrow
        <5> QED BY <2>2, <4>2, <5>3 DEF hit, pays
      <4> QED BY <4>1, <4>2
    <3> QED BY <2>2, <3>1, <3>6, <3>7, <3>8 DEF Playing, a
  <2>4. Good(r, Now)
    BY <2>2, <2>3 DEF Good
  <2> QED BY <2>2, <2>4 DEF r
<1> QED BY <1>1, <1>2

(* A pad left: the hold it is active with is no longer paid.               *)
LEMMA ReleaseIsGood ==
  ASSUME Now \in Int, NEW q, Good(q, Now), NEW pad, ~q.left => pad \in Panels
  PROVE  LET off == [q EXCEPT !.pressed = @ \ {pad}]
             r == Release(off, pad)
         IN  Good(r, Now) /\ r.pressed = q.pressed \ {pad} /\ r.left = q.left
<1> DEFINE off == [q EXCEPT !.pressed = @ \ {pad}]
           n == q.active[pad]
           a == Arrows(q.chart)
           early == n # 0 /\ ~q.released[n] /\ a[n].end > Now + HitTolerance
           released == [q.released EXCEPT ![n] = TRUE]
           pays == [q.pays EXCEPT ![n] = 0]
           r == Release(off, pad)
<1>1. /\ DancerFields \subseteq DOMAIN off /\ off.chart = q.chart /\ off.it = q.it /\ off.hit = q.hit
      /\ off.released = q.released /\ off.pays = q.pays /\ off.active = q.active
      /\ off.pressed = q.pressed \ {pad} /\ off.score = q.score /\ off.base = q.base
      /\ off.left = q.left
  BY DEF Good, DancerFields
<1>2. r = IF early THEN [off EXCEPT !.released = released, !.pays = pays, !.streak = 0] ELSE off
  <2>1. r = IF off.active[pad] # 0 /\ TooEarly(off, off.active[pad])
            THEN [off EXCEPT !.released[off.active[pad]] = TRUE, !.pays[off.active[pad]] = 0,
                             !.streak = 0]
            ELSE off
    BY Zenon DEF Release
  <2>2. TooEarly(off, n) <=> ~q.released[n] /\ a[n].end > Now + HitTolerance
    <3> HIDE DEF off
    <3> QED BY <1>1 DEF TooEarly
  <2> HIDE DEF off
  <2>3. [off EXCEPT !.released[n] = TRUE, !.pays[n] = 0, !.streak = 0]
          = [off EXCEPT !.released = released, !.pays = pays, !.streak = 0]
    <3> HIDE DEF n
    <3> QED BY <1>1 DEF DancerFields
  <2> QED BY <1>1, <2>1, <2>2, <2>3
<1> HIDE DEF off, released, pays, r
<1>3. /\ DancerFields \subseteq DOMAIN r /\ r.chart = q.chart /\ r.it = q.it /\ r.hit = q.hit
      /\ r.released = (IF early THEN released ELSE q.released)
      /\ r.pays = (IF early THEN pays ELSE q.pays) /\ r.active = q.active
      /\ r.pressed = q.pressed \ {pad} /\ r.score = q.score /\ r.base = q.base
      /\ r.left = q.left
  <2>1. CASE early
    <3> HIDE DEF early
    <3> QED BY <1>1, <1>2, <2>1 DEF DancerFields
  <2>2. CASE ~early
    <3> HIDE DEF early
    <3> QED BY <1>1, <1>2, <2>2
  <2> QED BY <2>1, <2>2
<1>4. ASSUME ~q.left PROVE Playing(r, Now)
  <2>1. /\ IsChart(a) /\ q.released \in [DOMAIN a -> BOOLEAN]
        /\ Account(a, q.it, q.hit, q.released, q.pays, q.score, q.base)
        /\ q.active \in [Panels -> {0} \cup DOMAIN a] /\ pad \in Panels
        /\ StopsInOrder => Held(a, Now, q.it, q.hit, q.released, q.active, q.pressed)
    BY <1>4 DEF Good, Playing, Account
  <2>2. n # 0 => n \in DOMAIN a
    BY <2>1
  <2> HIDE DEF n, a
  <2>3. Account(a, r.it, r.hit, r.released, r.pays, r.score, r.base)
    <3>1. CASE early
      <4>1. Account(a, q.it, q.hit, [q.released EXCEPT ![n] = TRUE], [q.pays EXCEPT ![n] = 0],
                    q.score, q.base)
        BY <2>1, <2>2, <3>1, LeaveHold
      <4> QED BY <1>3, <3>1, <4>1 DEF released, pays
    <3>2. CASE ~early
      <4> HIDE DEF early
      <4> QED BY <1>3, <2>1, <3>2
    <3> QED BY <3>1, <3>2
  <2>4. StopsInOrder => Held(a, Now, r.it, r.hit, r.released, r.active, r.pressed)
    <3> SUFFICES ASSUME StopsInOrder
                 PROVE  Held(a, Now, q.it, q.hit, r.released, q.active, q.pressed \ {pad})
      BY <1>3
    <3>1. r.released \in [DOMAIN a -> BOOLEAN] /\ \A i \in DOMAIN a : q.released[i] => r.released[i]
      <4>1. released \in [DOMAIN a -> BOOLEAN] /\ \A i \in DOMAIN a : q.released[i] => released[i]
        BY <2>1 DEF released
      <4> HIDE DEF early
      <4> QED BY <1>3, <2>1, <4>1
    <3>2. ASSUME NEW i \in DOMAIN a, q.active[pad] = i, ~q.released[i], a[i].end > Now + HitTolerance
          PROVE  r.released[i]
      <4>1. i = n /\ n # 0
        BY <2>1, <3>2 DEF n, IsChart
      <4>2. early
        BY <3>2, <4>1
      <4>3. released[n]
        BY <2>1, <2>2, <4>1 DEF released
      <4> HIDE DEF early
      <4> QED BY <1>3, <4>1, <4>2, <4>3
    <3>3. Held(a, Now, q.it, q.hit, q.released, q.active, q.pressed)
      BY <2>1
    <3> QED BY <2>1, <3>1, <3>2, <3>3, ReleaseHolds
  <2> QED BY <1>3, <2>1, <2>3, <2>4 DEF Playing, a
<1>5. Good(r, Now)
  BY <1>3, <1>4 DEF Good
<1> QED BY <1>3, <1>5 DEF r, off

(* One event of a pad: who is there stands on it, or no longer.            *)
Stands(P, e) == CASE e.key = "press" -> P \cup {e.pad} [] e.key = "release" -> P \ {e.pad}
                  [] OTHER -> P

(* A pad event reaches the chart, whatever the menu made of it.            *)
LEMMA DanceIsGood ==
  ASSUME Now \in Int, NEW q, Good(q, Now), NEW e, e.key = "release" => e.pad \in Panels
  PROVE  LET r == Dance(q, e)
         IN  Good(r, Now) /\ r.left = q.left /\ r.pressed = Stands(q.pressed, e)
<1> DEFINE on == [q EXCEPT !.pressed = @ \cup {e.pad}]
           off == [q EXCEPT !.pressed = @ \ {e.pad}]
<1>1. CASE e.key = "press"
  <2>1. Dance(q, e) = Press(on, e.pad)
    BY <1>1 DEF Dance
  <2>2. /\ DancerFields \subseteq DOMAIN on /\ on.pressed = q.pressed \cup {e.pad} /\ on.left = q.left
        /\ on.chart = q.chart /\ on.it = q.it /\ on.hit = q.hit /\ on.released = q.released
        /\ on.pays = q.pays /\ on.active = q.active /\ on.score = q.score /\ on.base = q.base
    BY DEF Good, DancerFields
  <2> HIDE DEF on
  <2>3. Good(on, Now)
    <3>1. ASSUME ~q.left PROVE Playing(on, Now)
      <4>1. Playing(q, Now)
        BY <3>1 DEF Good
      <4>2. StopsInOrder => Held(Arrows(q.chart), Now, q.it, q.hit, q.released, q.active, on.pressed)
        BY <4>1, <2>2 DEF Playing, Held
      <4> QED BY <2>2, <4>1, <4>2 DEF Playing
    <3> QED BY <2>2, <3>1 DEF Good
  <2>4. e.pad \in on.pressed
    BY <2>2
  <2>5. Good(Press(on, e.pad), Now) /\ Press(on, e.pad).pressed = on.pressed
    BY <2>3, <2>4, PressIsGood
  <2>6. SameChoice(Dance(q, e), q)
    BY DancingKeepsTheChoice DEF Good
  <2> QED BY <1>1, <2>1, <2>2, <2>5, <2>6 DEF Stands, SameChoice
<1>2. CASE e.key = "release"
  <2>1. Dance(q, e) = Release(off, e.pad)
    BY <1>2 DEF Dance
  <2>2. LET r == Release(off, e.pad)
        IN  Good(r, Now) /\ r.pressed = q.pressed \ {e.pad} /\ r.left = q.left
    BY <1>2, ReleaseIsGood
  <2> QED BY <1>2, <2>1, <2>2 DEF Stands
<1>3. CASE e.key # "press" /\ e.key # "release"
  BY <1>3 DEF Dance, Stands
<1> QED BY <1>1, <1>2, <1>3

(* An event: the menu has it first, if it is open.                         *)
LEMMA EventIsGood ==
  ASSUME Now \in Int, NEW q, Dancer(q), Good(q, Now), NEW e, e.key = "release" => e.pad \in Panels,
         NEW r \in HandleDanceEvent(q, e)
  PROVE  Good(r, Now) /\ (~r.left => ~q.left /\ r.pressed = Stands(q.pressed, e))
<1> DEFINE alive == [q EXCEPT !.dead = 0, !.idle = 0]
           opens == e.key = "start"
           opened == [alive EXCEPT !.open = opens]
<1>1. SameChoice(alive, q) /\ SameDance(alive, q)
  BY DEF SameChoice, SameDance, Dancer, DancerFields
<1>2. Dancer(alive) /\ Good(alive, Now) /\ alive.pressed = q.pressed /\ alive.left = q.left
  BY <1>1, SameChoiceIsDancer, SameDanceIsGood DEF SameDance
<1>3. CASE e.key = "release"
  <2>1. r = Dance(alive, e)
    BY <1>3, Zenon DEF HandleDanceEvent
  <2> HIDE DEF alive
  <2> QED BY <1>2, <2>1, DanceIsGood
<1>4. CASE e.key # "release" /\ q.open
  <2>1. alive.open = TRUE
    BY <1>1, <1>4 DEF SameChoice, Dancer
  <2>2. PICK s \in MenuKey(alive, e) : r = Dance(s, e)
    BY <1>4, <2>1 DEF HandleDanceEvent
  <2> HIDE DEF alive
  <2>3. Good(s, Now) /\ (~s.left => ~q.left /\ s.pressed = q.pressed)
    BY <1>2, <2>1, MenuKeyIsGood
  <2>4. Good(r, Now) /\ r.left = s.left /\ r.pressed = Stands(s.pressed, e)
    BY <2>2, <2>3, DanceIsGood
  <2> QED BY <2>3, <2>4
<1>5. CASE e.key # "release" /\ ~q.open
  <2>1. r = Dance(opened, e)
    BY <1>1, <1>5 DEF HandleDanceEvent, SameChoice
  <2> HIDE DEF opens
  <2>2. SameDance(opened, q)
    BY <1>1 DEF SameDance, DancerFields
  <2> HIDE DEF opened
  <2>3. Good(opened, Now) /\ opened.pressed = q.pressed /\ opened.left = q.left
    BY <2>2, SameDanceIsGood DEF SameDance
  <2> QED BY <2>1, <2>3, DanceIsGood
<1> QED BY <1>3, <1>4, <1>5

(* Arrows go by.                                                           *)
LEMMA GoneByIsGood ==
  ASSUME Now \in Int, NEW q, Good(q, Now), NEW touched
  PROVE  LET r == GoneBy(q, touched)
         IN  Good(r, Now) /\ r.left = q.left /\ r.pressed = q.pressed
<1> DEFINE a == Arrows(q.chart)
           gone == Gone(a, q.it, Now)
           arrows == {i \in gone : ~a[i].mine}
           paid == [i \in arrows |-> IF q.hit[i] THEN q.pays[i] ELSE 0]
           next == q.it + Cardinality(gone)
           score == q.score + SumFunctionOnSet(paid, arrows)
           later == [i \in DOMAIN a |-> q.released[i] \/ (i \in gone /\ q.hit[i])]
           streak == IF \E i \in arrows : ~q.hit[i] THEN 0 ELSE q.streak
           dead == IF touched THEN 0 ELSE q.dead + Away(q, Cardinality(gone))
           r == GoneBy(q, touched)
<1>1. r = [q EXCEPT !.it = next, !.score = score, !.released = later, !.streak = streak, !.dead = dead]
  BY DEF GoneBy, Payment, Gone
<1> HIDE DEF next, score, later, streak, dead, r
<1>2. /\ DancerFields \subseteq DOMAIN r /\ r.chart = q.chart /\ r.it = next /\ r.hit = q.hit
      /\ r.released = later /\ r.pays = q.pays /\ r.active = q.active /\ r.pressed = q.pressed
      /\ r.score = score /\ r.base = q.base /\ r.left = q.left
  BY <1>1 DEF Good, DancerFields
<1>3. ASSUME ~q.left PROVE Playing(r, Now)
  <2>1. /\ IsChart(a) /\ q.it \in 1 .. Len(a) + 1 /\ Len(a) \in Nat
        /\ Account(a, q.it, q.hit, q.released, q.pays, q.score, q.base)
        /\ q.active \in [Panels -> {0} \cup DOMAIN a]
        /\ StopsInOrder => Held(a, Now, q.it, q.hit, q.released, q.active, q.pressed)
    BY <1>3 DEF Good, Playing, Account, IsChart
  <2>2. Account(a, next, q.hit, later, q.pays, score, q.base)
    <3>1. later = [i \in DOMAIN a |-> q.released[i] \/ (i \in Gone(a, q.it, Now) /\ q.hit[i])]
      BY DEF later
    <3> DEFINE A == arrows
               P == paid
    <3>2. A = {i \in Gone(a, q.it, Now) : ~a[i].mine}
      OBVIOUS
    <3>3. P = [i \in A |-> IF q.hit[i] THEN q.pays[i] ELSE 0]
      OBVIOUS
    <3>4. score = q.score + SumFunctionOnSet(P, A) /\ next = q.it + Cardinality(Gone(a, q.it, Now))
      BY DEF score, next
    <3> HIDE DEF A, P, a, arrows, paid, gone
    <3>5. Account(a, q.it + Cardinality(Gone(a, q.it, Now)), q.hit, later, q.pays,
                  q.score + SumFunctionOnSet(P, A), q.base)
      BY <2>1, <3>1, <3>2, <3>3, ArrowsGoBy
    <3> QED BY <3>4, <3>5
  <2>3. StopsInOrder => Held(a, Now, next, q.hit, later, q.active, q.pressed)
    <3> SUFFICES ASSUME StopsInOrder PROVE Held(a, Now, next, q.hit, later, q.active, q.pressed)
      OBVIOUS
    <3>1. \A i \in DOMAIN a : /\ q.hit[i] => q.hit[i]
                              /\ q.released[i] => later[i]
                              /\ q.hit[i] /\ ~q.hit[i] => a[i].end <= Now + HitTolerance
      BY DEF later
    <3>2. /\ next \in 1 .. Len(a) + 1 /\ q.it <= next
      <4>1. LET n == q.it + Cardinality(Gone(a, q.it, Now)) IN n \in 1 .. Len(a) + 1 /\ q.it <= n
        <5> HIDE DEF a
        <5> QED BY <2>1, GoneAreNext, Zenon
      <4> QED BY <4>1 DEF next
    <3>3. next \in Nat /\ q.it \in Nat /\ Now <= Now
      BY <2>1, <3>2
    <3>4. Held(a, Now, q.it, q.hit, q.released, q.active, q.pressed)
      BY <2>1
    <3> HIDE DEF a
    <3> QED BY <2>1, <3>1, <3>2, <3>3, <3>4, HeldLater
  <2> QED BY <1>2, <2>1, <2>2, <2>3 DEF Playing
<1>4. Good(r, Now)
  BY <1>2, <1>3 DEF Good
<1> QED BY <1>2, <1>4 DEF r

(* Mines under the feet go off.                                            *)
LEMMA MinesAreGood ==
  ASSUME Now \in Int, NEW q, Good(q, Now)
  PROVE  LET r == StandOnMines(q)
         IN  Good(r, Now) /\ r.left = q.left /\ r.pressed = q.pressed
<1> DEFINE a == Arrows(q.chart)
           old == {i \in q.it .. Len(a) : a[i].begin + HitTolerance < Now}
           last == Min(old \cup {Len(a) + 1}) - 1
           mines == {i \in q.it .. last : /\ ~q.hit[i] /\ a[i].mine /\ a[i].pad \in q.pressed
                                          /\ a[i].begin + HitTolerance >= Now
                                          /\ a[i].end <= Now + HitTolerance}
           charge == IF MinePenalty THEN ArrowPoints(0) * Cardinality(mines) ELSE 0
           hit == [i \in DOMAIN a |-> q.hit[i] \/ i \in mines]
           r == StandOnMines(q)
<1>1. r = [q EXCEPT !.hit = hit, !.score = @ - charge]
  BY DEF StandOnMines
<1> HIDE DEF hit, charge, r
<1>2. /\ DancerFields \subseteq DOMAIN r /\ r.chart = q.chart /\ r.it = q.it /\ r.hit = hit
      /\ r.released = q.released /\ r.pays = q.pays /\ r.active = q.active /\ r.pressed = q.pressed
      /\ r.score = q.score - charge /\ r.base = q.base /\ r.left = q.left
  BY <1>1 DEF Good, DancerFields
<1>3. ASSUME ~q.left PROVE Playing(r, Now)
  <2>1. /\ IsChart(a) /\ q.it \in 1 .. Len(a) + 1 /\ Len(a) \in Nat /\ DOMAIN a = 1 .. Len(a)
        /\ Account(a, q.it, q.hit, q.released, q.pays, q.score, q.base)
        /\ q.active \in [Panels -> {0} \cup DOMAIN a]
        /\ StopsInOrder => Held(a, Now, q.it, q.hit, q.released, q.active, q.pressed)
    BY <1>3 DEF Good, Playing, Account, IsChart
  <2>2. last \in Int /\ last <= Len(a)
    <3>1. old \in SUBSET (q.it .. Len(a))
      OBVIOUS
    <3> HIDE DEF old, a
    <3> QED BY <2>1, <3>1, EndOfLoop
  <2> HIDE DEF last
  <2>3. \A i \in mines : /\ i \in DOMAIN a /\ i >= q.it /\ ~q.hit[i] /\ a[i].mine
                         /\ a[i].end <= Now + HitTolerance
    <3> HIDE DEF a
    <3> QED BY <2>1, <2>2
  <2>4. hit \in [DOMAIN a -> BOOLEAN] /\ \A i \in DOMAIN a : hit[i] <=> (q.hit[i] \/ i \in mines)
    BY DEF hit
  <2> HIDE DEF mines, a
  <2>5. charge = Penalty * Cardinality(mines)
    <3>1. ArrowPoints(0) = 50
      BY DEF ArrowPoints
    <3>2. IsFiniteSet(mines)
      <4>1. mines \in SUBSET DOMAIN a
        BY <2>3
      <4>2. IsFiniteSet(DOMAIN a)
        BY <2>1, Intervals
      <4> QED BY <4>1, <4>2, FS_Subset
    <3>3. Cardinality(mines) \in Nat
      BY <3>2, FS_CardinalityType
    <3>4. \A n \in Nat : 0 * n = 0
      OBVIOUS
    <3> QED BY <3>1, <3>3, <3>4 DEF charge, Penalty
  <2>6. Account(a, q.it, hit, q.released, q.pays, q.score - charge, q.base)
    <3>1. \A i \in mines : i >= q.it /\ ~q.hit[i] /\ a[i].mine = TRUE
      BY <2>1, <2>3 DEF IsChart
    <3>2. mines \in SUBSET DOMAIN a
      BY <2>3
    <3>3. Account(a, q.it, hit, q.released, q.pays, q.score - Penalty * Cardinality(mines), q.base)
      BY <2>1, <2>4, <3>1, <3>2, HitMines
    <3> QED BY <2>5, <3>3
  <2>7. StopsInOrder => Held(a, Now, q.it, hit, q.released, q.active, q.pressed)
    <3> SUFFICES ASSUME StopsInOrder PROVE Held(a, Now, q.it, hit, q.released, q.active, q.pressed)
      OBVIOUS
    <3>1. \A i \in DOMAIN a : /\ q.hit[i] => hit[i]
                              /\ q.released[i] => q.released[i]
                              /\ hit[i] /\ ~q.hit[i] => a[i].end <= Now + HitTolerance
      BY <2>3, <2>4
    <3>2. q.it \in Nat /\ q.it <= q.it /\ Now <= Now
      BY <2>1
    <3>3. Held(a, Now, q.it, q.hit, q.released, q.active, q.pressed)
      BY <2>1
    <3> QED BY <2>1, <3>1, <3>2, <3>3, HeldLater
  <2> QED BY <1>2, <2>1, <2>6, <2>7 DEF Playing, a
<1>4. Good(r, Now)
  BY <1>2, <1>3 DEF Good
<1> QED BY <1>2, <1>4 DEF r

(* Time goes on.                                                           *)
LEMMA GoodLater ==
  ASSUME NEW u \in Int, NEW v \in Int, StopsInOrder => u <= v, NEW q, Good(q, u)
  PROVE  Good(q, v)
<1>1. ASSUME ~q.left PROVE Playing(q, v)
  <2> DEFINE a == Arrows(q.chart)
  <2>1. /\ IsChart(a) /\ q.it \in 1 .. Len(a) + 1
        /\ Account(a, q.it, q.hit, q.released, q.pays, q.score, q.base)
        /\ q.active \in [Panels -> {0} \cup DOMAIN a]
        /\ StopsInOrder => Held(a, u, q.it, q.hit, q.released, q.active, q.pressed)
    BY <1>1 DEF Good, Playing, Account
  <2> HIDE DEF a
  <2>2. ASSUME StopsInOrder PROVE Held(a, v, q.it, q.hit, q.released, q.active, q.pressed)
    <3>1. q.it \in Nat /\ q.it <= q.it
      BY <2>1
    <3>2. \A i \in DOMAIN a : q.hit[i] /\ ~q.hit[i] => a[i].end <= v + HitTolerance
      OBVIOUS
    <3>3. Held(a, u, q.it, q.hit, q.released, q.active, q.pressed) /\ u <= v
      BY <2>1, <2>2
    <3> QED BY <2>1, <3>1, <3>2, <3>3, HeldLater
  <2> QED BY <2>1, <2>2 DEF Playing, a
<1> QED BY <1>1 DEF Good

(* The points on the stage, and that whoever presses a pad stands on it.   *)
StageInv ==
  /\ DanceInv /\ clock \in DanceStart .. DanceEnd /\ down \subseteq Panels
  /\ dancing => Good(d, ChartTime[clock])
  /\ dancing /\ ~d.left => d.pressed \subseteq down \cup lost

(* In a frame the time of the chart does not go back.                      *)
LEMMA FrameTime ==
  ASSUME clock \in DanceStart .. DanceEnd, NEW outcomes, NEW touched, DanceFrame(outcomes, touched)
  PROVE  /\ clock' \in DanceStart .. DanceEnd /\ Now \in Int
         /\ ChartTime[clock] \in Int /\ (StopsInOrder => ChartTime[clock] <= Now)
<1>1. clock' = clock \/ (clock # DanceEnd /\ clock' = clock + 1)
  BY DEF DanceFrame
<1>2. DanceStart \in Int /\ DanceEnd \in Int
  BY DanceAssumption
<1>3. clock' \in DanceStart .. DanceEnd /\ clock <= clock'
  BY <1>1, <1>2
<1>4. ChartTime[clock] \in Int /\ ChartTime[clock'] \in Int
  BY <1>3, ChartTimeType
<1>5. StopsInOrder => ChartTime[clock] <= ChartTime[clock']
  BY <1>3, ChartTimeGoesOn
<1> QED BY <1>3, <1>4, <1>5 DEF Now

(* What a frame leaves of a dancer.                                        *)
LEMMA FrameIsGood ==
  ASSUME clock \in DanceStart .. DanceEnd, NEW outcomes, NEW touched, DanceFrame(outcomes, touched),
         \A r \in outcomes : Good(r, Now) /\ (~r.left => r.pressed \subseteq down' \cup lost')
  PROVE  /\ clock' \in DanceStart .. DanceEnd /\ Good(d', ChartTime[clock'])
         /\ ~d'.left => d'.pressed \subseteq down' \cup lost'
<1>1. PICK q \in outcomes :
        d' = [StandOnMines(GoneBy(q, touched)) EXCEPT
                !.idle = IF JoiningDance(q) \/ touched THEN @ ELSE @ + Idle(q)]
  BY DEF DanceFrame
<1> DEFINE gone == GoneBy(q, touched)
           r == StandOnMines(gone)
           idle == IF JoiningDance(q) \/ touched THEN r.idle ELSE r.idle + Idle(q)
<1>2. clock' \in DanceStart .. DanceEnd /\ Now \in Int
  BY FrameTime
<1>3. Good(gone, Now) /\ gone.left = q.left /\ gone.pressed = q.pressed
  BY <1>2, GoneByIsGood
<1>4. Good(r, Now) /\ r.left = q.left /\ r.pressed = q.pressed
  <2> HIDE DEF gone
  <2> QED BY <1>2, <1>3, MinesAreGood
<1>5. d' = [r EXCEPT !.idle = idle]
  BY <1>1
<1> HIDE DEF gone, r, idle
<1>6. SameDance(d', r)
  BY <1>4, <1>5 DEF SameDance, Good, DancerFields
<1>7. Good(d', Now) /\ d'.left = q.left /\ d'.pressed = q.pressed
  BY <1>4, <1>6, SameDanceIsGood DEF SameDance
<1> QED BY <1>2, <1>7 DEF Now

(* Every step leaves a stage of good dancers.                              *)
LEMMA StageStep == StageInv /\ [DanceNext]_danceVars => StageInv'
<1> SUFFICES ASSUME StageInv, [DanceNext]_danceVars
             PROVE  /\ clock' \in DanceStart .. DanceEnd /\ down' \subseteq Panels
                    /\ dancing' => /\ Good(d', ChartTime[clock'])
                                   /\ ~d'.left => d'.pressed \subseteq down' \cup lost'
  BY ChoiceStep DEF StageInv
<1>0. /\ DanceInv /\ clock \in DanceStart .. DanceEnd /\ ChartTime[clock] \in Int
      /\ down \subseteq Panels
      /\ dancing => Good(d, ChartTime[clock]) /\ Dancer(d)
      /\ dancing /\ ~d.left => d.pressed \subseteq down \cup lost
  BY ChartTimeType DEF StageInv, DanceInv
<1>1. CASE JoinDance
  <2>1. UNCHANGED <<clock, down>> /\ d' = NewDancer(clock)
    BY <1>1 DEF JoinDance
  <2> QED BY <1>0, <2>1, NewDancerIsGood
<1>2. CASE QuietDance
  <2>1. DanceFrame({ReadyDance(d)}, FALSE) /\ UNCHANGED <<down, lost>> /\ dancing
    BY <1>2 DEF QuietDance, DanceFrame
  <2>2. Now \in Int /\ (StopsInOrder => ChartTime[clock] <= Now)
    BY <1>0, <2>1, FrameTime
  <2>3. Good(d, Now)
    BY <1>0, <2>1, <2>2, GoodLater
  <2>4. Good(ReadyDance(d), Now) /\ ReadyDance(d).pressed = d.pressed /\ ReadyDance(d).left = d.left
    <3>1. SameDance(ReadyDance(d), d)
      BY <2>3 DEF ReadyDance, SameDance, Good, DancerFields
    <3> QED BY <2>3, <3>1, SameDanceIsGood DEF SameDance
  <2> DEFINE quiet == {ReadyDance(d)}
  <2>5. \A r \in quiet : Good(r, Now) /\ (~r.left => r.pressed \subseteq down' \cup lost')
    BY <1>0, <2>1, <2>4
  <2>6. DanceFrame(quiet, FALSE)
    BY <2>1
  <2> HIDE DEF quiet
  <2> QED BY <1>0, <2>1, <2>5, <2>6, FrameIsGood
<1>3. CASE DanceStep
  <2> DEFINE q == ReadyDance(d)
  <2>1. PICK e \in PadEvents :
          /\ DanceFrame(HandleDanceEvent(q, e), q.open /\ e.key # "release")
          /\ StepOn(e)
          /\ lost' = IF e.key = "start" THEN lost ELSE lost \ {e.pad}
    BY <1>3, Zenon DEF DanceStep
  <2>2. dancing
    BY <2>1 DEF DanceFrame
  <2>3. Now \in Int /\ (StopsInOrder => ChartTime[clock] <= Now)
    BY <1>0, <2>1, FrameTime
  <2>4. Good(d, Now)
    BY <1>0, <2>2, <2>3, GoodLater
  <2>5. Good(q, Now) /\ q.pressed = d.pressed /\ q.left = d.left /\ Dancer(q)
    <3>1. SameDance(q, d) /\ SameChoice(q, d)
      BY <2>4 DEF ReadyDance, SameDance, SameChoice, Good, DancerFields
    <3> QED BY <1>0, <2>2, <2>4, <3>1, SameDanceIsGood, SameChoiceIsDancer DEF SameDance
  <2> HIDE DEF q
  <2>6. /\ e.key \in {"press", "release"} => e.pad \in Panels
        /\ e.key \in {"press", "release", "start"}
    BY <1>0 DEF PadEvents
  <2>7. ASSUME NEW r \in HandleDanceEvent(q, e)
        PROVE  Good(r, Now) /\ (~r.left => r.pressed \subseteq down' \cup lost')
    <3>1. Good(r, Now) /\ (~r.left => ~q.left /\ r.pressed = Stands(q.pressed, e))
      BY <2>3, <2>5, <2>6, <2>7, EventIsGood
    <3>2. ~r.left => d.pressed \subseteq down \cup lost
      BY <1>0, <2>2, <2>5, <3>1
    <3>3. CASE e.key = "press"
      BY <1>0, <2>1, <2>5, <3>1, <3>2, <3>3 DEF Stands, StepOn
    <3>4. CASE e.key = "release"
      BY <1>0, <2>1, <2>5, <3>1, <3>2, <3>4 DEF Stands, StepOn
    <3>5. CASE e.key = "start"
      BY <1>0, <2>1, <2>5, <3>1, <3>2, <3>5 DEF Stands, StepOn
    <3> QED BY <2>6, <3>3, <3>4, <3>5
  <2>8. down' \subseteq Panels
    <3>1. CASE e.key = "press"
      BY <1>0, <2>1, <2>6, <3>1 DEF StepOn
    <3>2. CASE e.key # "press"
      BY <1>0, <2>1, <2>6, <3>2 DEF StepOn
    <3> QED BY <3>1, <3>2
  <2> DEFINE outcomes == HandleDanceEvent(q, e)
             touched == q.open /\ e.key # "release"
  <2>9. DanceFrame(outcomes, touched)
    BY <2>1
  <2>10. \A r \in outcomes : Good(r, Now) /\ (~r.left => r.pressed \subseteq down' \cup lost')
    BY <2>7
  <2> HIDE DEF outcomes, touched
  <2> QED BY <1>0, <2>8, <2>9, <2>10, FrameIsGood
<1>4. CASE OpenGlobal
  <2>1. UNCHANGED <<clock, down, dancing, lost>> /\ dancing
        /\ d' = IF clock < d.joinTime THEN d ELSE [d EXCEPT !.open = FALSE]
    BY <1>4 DEF OpenGlobal
  <2>2. SameDance(d', d)
    BY <1>0, <2>1 DEF SameDance, Good, DancerFields
  <2> QED BY <1>0, <2>1, <2>2, SameDanceIsGood DEF SameDance
<1>5. CASE MoveUnseen
  <2>1. PICK e \in PadEvents \ [key : {"start"}, pad : {0}] :
          StepOn(e) /\ lost' = IF e.key = "release" THEN lost \cup ({e.pad} \cap d.pressed) ELSE lost
    BY <1>5 DEF MoveUnseen
  <2>2. UNCHANGED <<clock, dancing, d>>
    BY <1>5 DEF MoveUnseen
  <2>3. /\ d.pressed \subseteq down \cup lost => d.pressed \subseteq down' \cup lost'
        /\ down' \subseteq Panels
    <3>1. CASE e.key = "press"
      BY <1>0, <2>1, <3>1 DEF StepOn, PadEvents
    <3>2. CASE e.key = "release"
      BY <1>0, <2>1, <3>2 DEF StepOn, PadEvents
    <3> QED BY <3>1, <3>2 DEF PadEvents
  <2> QED BY <1>0, <2>2, <2>3
<1>6. CASE CloseGlobal
  BY <1>0, <1>6 DEF CloseGlobal
<1>7. CASE RemoveDancer
  BY <1>0, <1>7 DEF RemoveDancer
<1>8. CASE NobodyDances
  <2>1. clock' = clock \/ (clock # DanceEnd /\ clock' = clock + 1)
    BY <1>8 DEF NobodyDances
  <2>2. ~dancing' /\ UNCHANGED down
    BY <1>8 DEF NobodyDances
  <2> QED BY <1>0, <2>1, <2>2, DanceAssumption
<1>9. CASE UNCHANGED danceVars
  BY <1>0, <1>9 DEF danceVars
<1> QED BY <1>1, <1>2, <1>3, <1>4, <1>5, <1>6, <1>7, <1>8, <1>9 DEF DanceNext

(* Every arrow hit is paid once, every mine costs once, and a hold is paid *)
(* only while somebody stands on its pad (DancePaid), for any chart, any   *)
(* stops of the song and any steps.                                        *)
THEOREM DancersGetTheirPoints == DanceSpec => []DancePaid
<1>1. DanceInit => StageInv
  <2>1. DanceInit => DanceInv
    BY DEF DanceInit, DanceInv
  <2>2. DanceInit => clock \in DanceStart .. DanceEnd /\ ~dancing /\ down = {}
    BY DanceAssumption DEF DanceInit
  <2> QED BY <2>1, <2>2 DEF StageInv
<1>2. StageInv /\ [DanceNext]_danceVars => StageInv'
  BY StageStep
<1>3. StageInv => DancePaid
  <2> SUFFICES ASSUME StageInv, dancing, ~d.left PROVE DancePaid
    BY DEF DancePaid, PaidOnce, HoldsAreHeld
  <2> DEFINE a == Arrows(d.chart)
  <2>1. /\ Playing(d, ChartTime[clock]) /\ d.pressed \subseteq down \cup lost
    BY DEF StageInv, Good
  <2>2. PaidOnce
    <3>1. Account(a, d.it, d.hit, d.released, d.pays, d.score, d.base)
      BY <2>1 DEF Playing
    <3> QED BY <3>1 DEF PaidOnce, Account, PaidHits, Hits, Penalty
  <2>3. HoldsAreHeld
    <3> SUFFICES ASSUME StopsInOrder, NEW i \in DOMAIN a, d.hit[i], ~d.released[i],
                        a[i].end > ChartTime[clock] + HitTolerance
                 PROVE  a[i].pad \in down \cup lost
      BY DEF HoldsAreHeld
    <3>1. Held(a, ChartTime[clock], d.it, d.hit, d.released, d.active, d.pressed)
      BY <2>1 DEF Playing
    <3> HIDE DEF a
    <3>2. a[i].pad \in d.pressed
      BY <3>1 DEF Held, Holding
    <3> QED BY <2>1, <3>2
  <2> QED BY <2>2, <2>3 DEF DancePaid
<1> QED BY <1>1, <1>2, <1>3, PTL DEF DanceSpec

-----------------------------------------------------------------------------
(* The profiler's log.                                                     *)

LogTypes ==
  /\ env \in Computers /\ launches \in 0 .. MaxLaunches[env]
  /\ stage # "off" \/ rotating # -1 => launches >= 1
  /\ rotating \in -2 .. MaxRotate - 1
  /\ logs \in [0 .. MaxRotate -> 0 .. launches]
  /\ turns \in [1 .. MaxLaunches[env] -> Int]

(* The logs are in order, and the file moved next finds its place free.    *)
NewestFirst ==
  \A i, j \in 0 .. MaxRotate : i < j /\ logs[i] # NoLog /\ logs[j] # NoLog => logs[i] >= logs[j]
NextIsFree == rotating \in 0 .. MaxRotate - 2 => logs[rotating + 1] = NoLog

(* How far the log of start s has come: behind the file that is moved next *)
(* it has its new place.                                                   *)
HasItsPlace(s, i) ==
  CASE rotating = -1 -> i <= turns[s]
    [] rotating = -2 -> 1 <= i /\ i <= turns[s]
    [] OTHER -> \/ i <= rotating /\ i < turns[s]
                \/ i >= rotating + 2 /\ i <= turns[s]

OldLogsKept ==
  \A s \in 1 .. launches - 1 : turns[s] \in 0 .. MaxRotate =>
    \E i \in 0 .. MaxRotate : logs[i] = s /\ HasItsPlace(s, i)

(* The log of this start is in front as soon as there is one.              *)
ThisLogKept ==
  /\ \A s \in launches .. MaxLaunches[env] : s # 0 => turns[s] \in {-1, 0}
  /\ \A s \in launches + 1 .. MaxLaunches[env] : turns[s] = -1
  /\ launches # 0 /\ turns[launches] = 0 => logs[0] = launches

LogInv == LogTypes /\ NewestFirst /\ NextIsFree /\ OldLogsKept /\ ThisLogKept

LEMMA LogInit == PathsInit => LogInv
<1> SUFFICES ASSUME PathsInit PROVE LogInv
  OBVIOUS
<1> USE DEF MaxRotate, NoLog
<1>1. /\ env \in Computers /\ MaxLaunches[env] \in Nat /\ stage = "off"
      /\ launches = 0 /\ rotating = -1 /\ logs = [i \in 0 .. MaxRotate |-> 0]
      /\ turns = [s \in 1 .. MaxLaunches[env] |-> -1]
  BY PathAssumption DEF PathsInit
<1>2. LogTypes
  BY <1>1 DEF LogTypes
<1>3. NewestFirst /\ NextIsFree /\ OldLogsKept
  BY <1>1 DEF NewestFirst, NextIsFree, OldLogsKept
<1>4. ThisLogKept
  BY <1>1 DEF ThisLogKept
<1> QED BY <1>2, <1>3, <1>4 DEF LogInv

(* One more start: the log of the one before is an old one now.            *)
LEMMA BootKeepsLogs == LogInv /\ Boot => LogInv'
<1> SUFFICES ASSUME LogInv, Boot PROVE LogInv'
  OBVIOUS
<1> USE DEF MaxRotate, NoLog
<1>1. /\ launches' = launches + 1 /\ launches < MaxLaunches[env] /\ rotating = -1
      /\ UNCHANGED <<env, logs, rotating, turns>>
  BY DEF Boot, logVars
<1>2. LogTypes'
  BY <1>1, PathAssumption DEF LogInv, LogTypes
<1>3. NewestFirst' /\ NextIsFree'
  BY <1>1 DEF LogInv, NewestFirst, NextIsFree
<1>4. OldLogsKept'
  <2> SUFFICES ASSUME NEW s \in 1 .. launches, turns[s] \in 0 .. MaxRotate
               PROVE  \E i \in 0 .. MaxRotate : logs[i] = s /\ i <= turns[s]
    BY <1>1 DEF OldLogsKept, HasItsPlace, LogInv, LogTypes
  <2>1. CASE s = launches
    BY <2>1, <1>1, PathAssumption DEF LogInv, LogTypes, ThisLogKept
  <2>2. CASE s # launches
    BY <2>2, <1>1, PathAssumption, SMTT(30) DEF LogInv, LogTypes, OldLogsKept, HasItsPlace
  <2> QED BY <2>1, <2>2
<1>5. ThisLogKept'
  BY <1>1, PathAssumption DEF LogInv, LogTypes, ThisLogKept
<1> QED BY <1>2, <1>3, <1>4, <1>5 DEF LogInv

(* All old logs but the last are to be moved by one.                       *)
LEMMA BeginKeepsLogs ==
  ASSUME NEW why, LogInv, rotating = -1, stage # "off", UNCHANGED <<pathsVars, launches>>,
         BeginRotation(why)
  PROVE  LogInv'
<1> USE DEF MaxRotate, NoLog
<1>1. /\ rotating' = 4 /\ UNCHANGED <<env, logs, launches>> /\ launches >= 1 /\ launches \in Nat
      /\ launches <= MaxLaunches[env] /\ MaxLaunches[env] \in Nat
      /\ turns' = [s \in 1 .. MaxLaunches[env] |->
                    IF s < launches /\ turns[s] \in 0 .. MaxRotate THEN turns[s] + 1 ELSE turns[s]]
  BY PathAssumption DEF BeginRotation, pathsVars, LogInv, LogTypes
<1>2. LogTypes'
  BY <1>1 DEF LogInv, LogTypes
<1>3. NewestFirst' /\ NextIsFree'
  BY <1>1 DEF LogInv, NewestFirst, NextIsFree
<1>4. OldLogsKept'
  <2> SUFFICES ASSUME NEW s \in 1 .. launches - 1, turns'[s] \in 0 .. MaxRotate
               PROVE  \E i \in 0 .. MaxRotate : logs[i] = s /\ HasItsPlace(s, i)'
    BY <1>1 DEF OldLogsKept
  <2>1. turns[s] \in 0 .. MaxRotate - 1 /\ turns'[s] = turns[s] + 1
    BY <1>1 DEF LogInv, LogTypes
  <2>2. PICK i \in 0 .. MaxRotate : logs[i] = s /\ i <= turns[s]
    BY <2>1 DEF LogInv, OldLogsKept, HasItsPlace
  <2> QED BY <1>1, <2>1, <2>2 DEF HasItsPlace
<1>5. ThisLogKept'
  BY <1>1 DEF LogInv, LogTypes, ThisLogKept
<1> QED BY <1>2, <1>3, <1>4, <1>5 DEF LogInv

(* A file goes up by one, where the last one was dropped or made room.     *)
LEMMA RotateKeepsLogs == LogInv /\ Rotate => LogInv'
<1> SUFFICES ASSUME LogInv, Rotate PROVE LogInv'
  OBVIOUS
<1> USE DEF MaxRotate, NoLog
<1>1. /\ rotating \in 1 .. 4 /\ rotating' = rotating - 1 /\ UNCHANGED <<stage, env, launches, turns>>
      /\ launches \in Nat /\ launches >= 1 /\ logs \in [0 .. MaxRotate -> 0 .. launches]
  BY PathAssumption DEF Rotate, pathsVars, LogInv, LogTypes
<1>2. /\ logs' \in [0 .. MaxRotate -> 0 .. launches]
      /\ logs'[rotating] = NoLog
      /\ \A i \in 0 .. MaxRotate : i # rotating /\ i # rotating + 1 => logs'[i] = logs[i]
      /\ logs[rotating] # NoLog => logs'[rotating + 1] = logs[rotating]
      /\ logs[rotating] = NoLog => logs'[rotating + 1] = logs[rotating + 1]
  BY <1>1 DEF Rotate
<1>3. LogTypes'
  BY <1>1, <1>2 DEF LogInv, LogTypes
<1>4. NewestFirst' /\ NextIsFree'
  BY <1>1, <1>2 DEF LogInv, NewestFirst, NextIsFree
<1>5. OldLogsKept'
  <2> SUFFICES ASSUME NEW s \in 1 .. launches - 1, turns[s] \in 0 .. MaxRotate
               PROVE  \E i \in 0 .. MaxRotate : logs'[i] = s /\ HasItsPlace(s, i)'
    BY <1>1 DEF OldLogsKept
  <2>1. PICK i \in 0 .. MaxRotate : logs[i] = s /\ HasItsPlace(s, i)
    BY DEF LogInv, OldLogsKept
  <2>2. CASE i = rotating
    <3>1. logs'[i + 1] = s /\ i + 1 \in 0 .. MaxRotate /\ i + 1 <= turns[s]
      BY <1>1, <1>2, <2>1, <2>2 DEF HasItsPlace
    <3> QED BY <1>1, <2>2, <3>1 DEF HasItsPlace
  <2>3. CASE i # rotating
    <3>1. i # rotating + 1
      BY <1>1, <2>1, <2>3 DEF HasItsPlace
    <3> QED BY <1>1, <1>2, <2>1, <2>3, <3>1 DEF HasItsPlace
  <2> QED BY <2>2, <2>3
<1>6. ThisLogKept'
  BY <1>1, <1>2 DEF LogInv, ThisLogKept
<1> QED BY <1>3, <1>4, <1>5, <1>6 DEF LogInv

(* The log in front is copied, then overwritten.                           *)
LEMMA CopyKeepsLogs == LogInv /\ CopyLog => LogInv'
<1> SUFFICES ASSUME LogInv, CopyLog PROVE LogInv'
  OBVIOUS
<1> USE DEF MaxRotate, NoLog
<1>1. /\ rotating = 0 /\ rotating' = -2 /\ UNCHANGED <<stage, env, launches, turns>>
      /\ launches \in Nat /\ launches >= 1 /\ logs \in [0 .. MaxRotate -> 0 .. launches]
      /\ logs[1] = NoLog
  BY PathAssumption DEF CopyLog, pathsVars, LogInv, LogTypes, NextIsFree
<1>2. /\ logs' \in [0 .. MaxRotate -> 0 .. launches] /\ logs'[1] = logs[0]
      /\ \A i \in 0 .. MaxRotate : i # 1 => logs'[i] = logs[i]
  BY <1>1 DEF CopyLog
<1>3. LogTypes'
  BY <1>1, <1>2 DEF LogInv, LogTypes
<1>4. NewestFirst' /\ NextIsFree'
  BY <1>1, <1>2 DEF LogInv, NewestFirst, NextIsFree
<1>5. OldLogsKept'
  <2> SUFFICES ASSUME NEW s \in 1 .. launches - 1, turns[s] \in 0 .. MaxRotate
               PROVE  \E i \in 0 .. MaxRotate : logs'[i] = s /\ HasItsPlace(s, i)'
    BY <1>1 DEF OldLogsKept
  <2>1. PICK i \in 0 .. MaxRotate : logs[i] = s /\ HasItsPlace(s, i)
    BY DEF LogInv, OldLogsKept
  <2>2. CASE i = 0
    BY <1>1, <1>2, <2>1, <2>2 DEF HasItsPlace
  <2>3. CASE i # 0
    BY <1>1, <1>2, <2>1, <2>3 DEF HasItsPlace
  <2> QED BY <2>2, <2>3
<1>6. ThisLogKept'
  BY <1>1, <1>2 DEF LogInv, ThisLogKept
<1> QED BY <1>3, <1>4, <1>5, <1>6 DEF LogInv

LEMMA EmptyKeepsLogs == LogInv /\ EmptyLog => LogInv'
<1> SUFFICES ASSUME LogInv, EmptyLog PROVE LogInv'
  OBVIOUS
<1> USE DEF MaxRotate, NoLog
<1>1. /\ rotating = -2 /\ rotating' = -1 /\ UNCHANGED <<stage, env, launches>>
      /\ logs' = [logs EXCEPT ![0] = launches] /\ turns' = [turns EXCEPT ![launches] = 0]
      /\ launches \in Nat /\ launches >= 1 /\ logs \in [0 .. MaxRotate -> 0 .. launches]
      /\ launches <= MaxLaunches[env] /\ MaxLaunches[env] \in Nat
  BY PathAssumption DEF EmptyLog, pathsVars, LogInv, LogTypes
<1>2. LogTypes'
  BY <1>1 DEF LogInv, LogTypes
<1>3. NewestFirst' /\ NextIsFree'
  BY <1>1 DEF LogInv, NewestFirst, NextIsFree
<1>4. OldLogsKept'
  <2> SUFFICES ASSUME NEW s \in 1 .. launches - 1, turns'[s] \in 0 .. MaxRotate
               PROVE  \E i \in 0 .. MaxRotate : logs'[i] = s /\ i <= turns'[s]
    BY <1>1 DEF OldLogsKept, HasItsPlace
  <2>1. turns'[s] = turns[s]
    BY <1>1 DEF LogInv, LogTypes
  <2>2. PICK i \in 0 .. MaxRotate : logs[i] = s /\ 1 <= i /\ i <= turns[s]
    BY <1>1, <2>1 DEF LogInv, OldLogsKept, HasItsPlace
  <2> QED BY <1>1, <2>1, <2>2
<1>5. ThisLogKept'
  BY <1>1 DEF LogInv, LogTypes, ThisLogKept
<1> QED BY <1>2, <1>3, <1>4, <1>5 DEF LogInv

(* Killed at any moment, every log has a place for it.                     *)
LEMMA SwitchOffKeepsLogs == LogInv /\ SwitchOff => LogInv'
<1> SUFFICES ASSUME LogInv, SwitchOff PROVE LogInv'
  OBVIOUS
<1> USE DEF MaxRotate, NoLog
<1>1. rotating' = -1 /\ stage' = "off" /\ UNCHANGED <<env, logs, launches, turns>>
  BY DEF SwitchOff
<1>2. LogTypes' /\ NewestFirst' /\ NextIsFree' /\ ThisLogKept'
  BY <1>1 DEF LogInv, LogTypes, NewestFirst, NextIsFree, ThisLogKept
<1>3. OldLogsKept'
  <2> SUFFICES ASSUME NEW s \in 1 .. launches - 1, turns[s] \in 0 .. MaxRotate
               PROVE  \E i \in 0 .. MaxRotate : logs[i] = s /\ i <= turns[s]
    BY <1>1 DEF OldLogsKept, HasItsPlace
  <2>1. PICK i \in 0 .. MaxRotate : logs[i] = s /\ HasItsPlace(s, i)
    BY DEF LogInv, OldLogsKept
  <2>2. s \in 1 .. MaxLaunches[env] /\ turns[s] \in Int
    BY PathAssumption DEF LogInv, LogTypes
  <2> QED BY <2>1, <2>2 DEF HasItsPlace
<1> QED BY <1>2, <1>3 DEF LogInv

(* The logs of the last starts are kept in order (LogsKept), for any       *)
(* number of starts and wherever each was killed.                          *)
THEOREM LastLogsAreKept == PathsSpec => []LogsKept
<1>1. LogInv /\ [PathsNext]_pathCacheVars => LogInv'
  <2> SUFFICES ASSUME LogInv, [PathsNext]_pathCacheVars PROVE LogInv'
    OBVIOUS
  <2>1. CASE InitPaths
    <3>1. UNCHANGED <<env, logs, rotating, launches, turns>> /\ stage = "booted" /\ stage' = "ready"
      BY <2>1, Zenon DEF InitPaths, logVars
    <3> QED BY <3>1 DEF LogInv, LogTypes, NewestFirst, NextIsFree, OldLogsKept, HasItsPlace, ThisLogKept
  <2>2. CASE MakeSinks
    BY <2>2, BeginKeepsLogs DEF MakeSinks
  <2>3. CASE StartProfiler
    BY <2>3, BeginKeepsLogs DEF StartProfiler
  <2>4. CASE StopProfiler \/ UNCHANGED pathCacheVars
    <3>1. UNCHANGED <<env, stage, logs, rotating, launches, turns>>
      BY <2>4 DEF StopProfiler, pathCacheVars, pathsVars, logVars
    <3> QED BY <3>1 DEF LogInv, LogTypes, NewestFirst, NextIsFree, OldLogsKept, HasItsPlace, ThisLogKept
  <2> QED BY <2>1, <2>2, <2>3, <2>4, BootKeepsLogs, RotateKeepsLogs, CopyKeepsLogs, EmptyKeepsLogs,
             SwitchOffKeepsLogs DEF PathsNext
<1>2. LogInv => LogsKept
  <2> SUFFICES ASSUME LogInv, NEW s \in 1 .. launches, turns[s] \in 0 .. MaxRotate
               PROVE  s \in Range(logs)
    BY DEF LogInv, NewestFirst, LogsKept
  <2>1. logs \in [0 .. MaxRotate -> 0 .. launches] /\ launches \in Nat
    BY PathAssumption DEF LogInv, LogTypes
  <2>2. \E i \in 0 .. MaxRotate : logs[i] = s
    <3>1. CASE s = launches
      BY <2>1, <3>1, PathAssumption DEF LogInv, LogTypes, ThisLogKept, MaxRotate
    <3>2. CASE s # launches
      BY <2>1, <3>2 DEF LogInv, OldLogsKept
    <3> QED BY <3>1, <3>2
  <2> QED BY <2>1, <2>2 DEF Range
<1> QED BY LogInit, <1>1, <1>2, PTL DEF PathsSpec
-----------------------------------------------------------------------------
(* Textures.                                                              *)

(* What every step keeps about the texture, the job and the image at an    *)
(* address, and about the file the loader is reading.                      *)
JobsMatch ==
  \A a \in jobs : name[a] \in {None, texture[a]} /\ bitmap[a] \in {None, texture[a]}

ReadingMatches ==
  pc = "load" => texture[target] \in {None, reading}

OwnImageInv == LoaderTypeOK /\ NoDanglingUpload /\ OwnImage /\ JobsMatch /\ ReadingMatches

USE DEF Files, None, Nowhere, Steps, loaderVars, mainVars

(* Every variable keeps its type.                                          *)
LEMMA TypeInit == Init => LoaderTypeOK
<1> SUFFICES ASSUME Init PROVE LoaderTypeOK
  OBVIOUS
<1>1. quit \in BOOLEAN /\ joining \in BOOLEAN
  BY DEF Init
<1> QED BY <1>1, LoaderAssumption DEF Init, LoaderTypeOK, LoaderAssumption

LEMMA TypeStep ==
  ASSUME LoaderTypeOK, [Next]_vars
  PROVE  LoaderTypeOK'
<1> USE LoaderAssumption DEF LoaderTypeOK
<1>1. ASSUME NEW a \in Addresses, Create(a) PROVE LoaderTypeOK'
  <2>1. /\ created' = created + 1 /\ created + 1 \in 0 .. MaxFiles
        /\ jobs' \subseteq Addresses
        /\ texture' \in [Addresses -> 0 .. MaxFiles]
        /\ shown' \in [Addresses -> 0 .. MaxFiles]
        /\ name' \in [Addresses -> 0 .. MaxFiles]
        /\ bitmap' \in [Addresses -> 0 .. MaxFiles]
    BY <1>1 DEF Create
  <2>2. pc' \in Steps /\ (pc' = "load" => target' # Nowhere /\ reading' # None)
    BY <1>1 DEF Create, NotifyOne
  <2>3. quit' \in BOOLEAN /\ joining' \in BOOLEAN
    BY <1>1 DEF Create
  <2> QED BY <2>1, <2>2, <2>3, <1>1 DEF Create
<1>2. ASSUME NEW a \in Addresses, Delete(a) PROVE LoaderTypeOK'
  BY <1>2 DEF Delete
<1>3. CASE Apply
  BY <1>3 DEF Apply, Completed
<1>4. CASE Quit \/ Join
  <2>1. quit' \in BOOLEAN /\ joining' \in BOOLEAN
    BY <1>4 DEF Quit, Join
  <2>2. /\ pc' \in Steps /\ (pc' = "load" => target' # Nowhere /\ reading' # None)
        /\ UNCHANGED <<created, texture, shown, name, jobs, bitmap, target, reading>>
    BY <1>4 DEF Quit, Join, NotifyOne
  <2> QED BY <2>1, <2>2
<1>5. CASE Check \/ Wait \/ SpuriousWake
  BY <1>5 DEF Check, Wait, SpuriousWake
<1>6. CASE Take
  BY <1>6 DEF Take, Pending
<1>7. CASE Store
  BY <1>7 DEF Store
<1>8. CASE UNCHANGED vars \/ Finished
  BY <1>8 DEF vars, Finished
<1> QED BY <1>1, <1>2, <1>3, <1>4, <1>5, <1>6, <1>7, <1>8 DEF Next, Loader

(* The invariant behind both theorems is kept by every step.               *)
LEMMA OwnImageStep ==
  ASSUME ReuseWhileLoading = FALSE, OwnImageInv, [Next]_vars
  PROVE  OwnImageInv'
<1> USE LoaderAssumption DEF OwnImageInv, LoaderTypeOK, NoDanglingUpload, OwnImage,
        JobsMatch, ReadingMatches
<1>0. LoaderTypeOK'
  BY TypeStep
<1> SUFFICES NoDanglingUpload' /\ OwnImage' /\ JobsMatch' /\ ReadingMatches'
  BY <1>0
<1>1. ASSUME NEW a \in Addresses, Create(a)
      PROVE NoDanglingUpload' /\ OwnImage' /\ JobsMatch' /\ ReadingMatches'
  <2>1. NoDanglingUpload' /\ OwnImage' /\ JobsMatch'
    BY <1>1 DEF Create
  <2>2. pc' = "load" => pc = "load" /\ target # a
    BY <1>1 DEF Create, NotifyOne
  <2>3. ReadingMatches'
    BY <1>1, <2>2 DEF Create
  <2> QED BY <2>1, <2>3
<1>2. ASSUME NEW a \in Addresses, Delete(a)
      PROVE NoDanglingUpload' /\ OwnImage' /\ JobsMatch' /\ ReadingMatches'
  BY <1>2 DEF Delete
<1>3. CASE Apply
  BY <1>3 DEF Apply, Completed
<1>4. CASE Quit \/ Join
  BY <1>4 DEF Quit, Join, NotifyOne
<1>5. CASE Check \/ Wait \/ SpuriousWake
  BY <1>5 DEF Check, Wait, SpuriousWake
<1>6. CASE Take
  BY <1>6 DEF Take, Pending
<1>7. CASE Store
  BY <1>7 DEF Store
<1>8. CASE UNCHANGED vars \/ Finished
  BY <1>8 DEF vars, Finished
<1> QED BY <1>1, <1>2, <1>3, <1>4, <1>5, <1>6, <1>7, <1>8 DEF Next, Loader

(* Every texture shows the image of its own file, provided no address is   *)
(* reused while its old file is read (OwnImage fails without the premise). *)
THEOREM TexturesShowTheirFile ==
  ASSUME ReuseWhileLoading = FALSE
  PROVE  Spec => []OwnImage
<1>1. Init => OwnImageInv
  BY TypeInit DEF Init, OwnImageInv, NoDanglingUpload, OwnImage, JobsMatch, ReadingMatches
<1>2. OwnImageInv /\ [Next]_vars => OwnImageInv'
  BY OwnImageStep
<1>3. OwnImageInv => OwnImage
  BY DEF OwnImageInv
<1> QED BY <1>1, <1>2, <1>3, PTL DEF Spec

(* No upload goes through the pointer of a destroyed Texture, whatever the *)
(* allocator does: jobs and textures come and go together.                 *)
THEOREM UploadsReachLiveTextures == Spec => []NoDanglingUpload
<1> DEFINE Inv == LoaderTypeOK /\ NoDanglingUpload
<1>1. Init => Inv
  BY TypeInit DEF Init, NoDanglingUpload
<1>2. Inv /\ [Next]_vars => Inv'
  <2> SUFFICES ASSUME Inv, [Next]_vars PROVE NoDanglingUpload'
    BY TypeStep
  <2>1. ASSUME NEW a \in Addresses, Create(a) PROVE NoDanglingUpload'
    BY <2>1 DEF Create, LoaderTypeOK, NoDanglingUpload
  <2>4. ASSUME NEW a \in Addresses, Delete(a) PROVE NoDanglingUpload'
    BY <2>4 DEF Delete, LoaderTypeOK, NoDanglingUpload
  <2>2. CASE Apply
    BY <2>2 DEF Apply, Completed, NoDanglingUpload
  <2>3. CASE ~(Apply \/ \E a \in Addresses : Create(a) \/ Delete(a))
    <3>1. texture' = texture /\ jobs' = jobs
      BY <2>3 DEF Next, Quit, Join, Loader, Check, Take, Wait, Store, SpuriousWake, Finished, vars
    <3> QED BY <3>1 DEF NoDanglingUpload
  <2> QED BY <2>1, <2>2, <2>3, <2>4
<1>3. Inv => NoDanglingUpload
  OBVIOUS
<1> QED BY <1>1, <1>2, <1>3, PTL DEF Spec

-----------------------------------------------------------------------------
(* Guitar and drums.                                                       *)

PlayerFields ==
  {"level", "it", "status", "earned", "notes", "holds", "pressed", "score", "streak", "dead",
   "left", "joinTime", "ready", "menu", "open", "changes", "idle", "rewound"}

(* The chords of a level.                                                  *)
LEMMA ChordsOfALevel ==
  ASSUME NEW l \in Levels
  PROVE  /\ Len(Chart(l)) \in Nat /\ DOMAIN Chart(l) = 1 .. Len(Chart(l))
         /\ IsFiniteSet(DOMAIN Chart(l))
<1>1. Len(Charts[l]) \in Nat /\ DOMAIN Charts[l] = 1 .. Len(Charts[l])
  BY ChartAssumption, Zenon
<1> QED BY <1>1, Intervals DEF Chart

(* Chords have a time and frets, each with a duration.                     *)
LEMMA ChordIs ==
  ASSUME NEW l \in Levels, NEW i \in DOMAIN Chart(l)
  PROVE  /\ Chart(l)[i].begin \in Nat
         /\ \A j \in 1 .. i : Chart(l)[j].begin <= Chart(l)[i].begin
         /\ DOMAIN Chart(l)[i].len \in SUBSET Pads /\ DOMAIN Chart(l)[i].len # {}
         /\ \A f \in DOMAIN Chart(l)[i].len : Chart(l)[i].len[f] \in Nat
BY ChartAssumption, Zenon DEF Chart

LEMMA PolyIs ==
  ASSUME NEW l \in Levels, NEW i \in DOMAIN Chart(l)
  PROVE  /\ IsFiniteSet(DOMAIN Chart(l)[i].len)
         /\ Poly(Chart(l)[i]) \in Nat /\ Poly(Chart(l)[i]) >= 1
<1> DEFINE D == DOMAIN Chart(l)[i].len
<1>1. IsFiniteSet(D) /\ D # {}
  BY ChordIs, ChartAssumption, FS_Subset
<1> HIDE DEF D
<1>2. Cardinality(D) \in Nat /\ Cardinality(D) # 0
  BY <1>1, FS_CardinalityType, FS_EmptySet
<1> QED BY <1>1, <1>2 DEF D, Poly

(* A chord of one note has one fret.                                       *)
LEMMA OnlyFret ==
  ASSUME NEW l \in Levels, NEW i \in DOMAIN Chart(l), Poly(Chart(l)[i]) = 1
  PROVE  \E f \in Pads : DOMAIN Chart(l)[i].len = {f}
<1> DEFINE D == DOMAIN Chart(l)[i].len
<1>1. PICK f : D = {f}
  BY PolyIs, FS_Singleton DEF Poly
<1> QED BY <1>1, ChordIs

Chords(q) == DOMAIN Chart(q.level)
ChordOf(q, i) == Chart(q.level)[i]

HoldTypes(q) ==
  \A f \in Pads : \/ q.holds[f] = NoHold
                  \/ /\ q.holds[f] \in [end : Nat, since : Nat]
                     /\ q.holds[f].since <= q.holds[f].end

(* What is played: chords not reached yet have not been hit.               *)
PlayTypes(q) ==
  /\ PlayerFields \subseteq DOMAIN q
  /\ q.level \in Levels /\ q.it \in 1 .. Len(Chart(q.level)) + 1
  /\ q.status \in [Chords(q) -> Nat] /\ q.earned \in [Chords(q) -> Nat]
  /\ q.holds = [f \in Pads |-> q.holds[f]] /\ HoldTypes(q)
  /\ q.score \in Nat /\ q.streak \in Nat
  /\ \A i \in Chords(q) : i > q.it => q.status[i] = 0

(* On a guitar a hit chord has earned something, and only a tappable note  *)
(* is tapped.                                                              *)
GuitarTypes(q) ==
  \A i \in Chords(q) :
     /\ q.status[i] \in 0 .. 2 /\ (q.status[i] = 1 => Tappable(q.level, i))
     /\ q.earned[i] <= 100 * Poly(ChordOf(q, i)) /\ (q.earned[i] = 0 => q.status[i] = 0)

Complete(q, i) == q.status[i] >= Poly(ChordOf(q, i))
MissedBefore(q) == {i \in 1 .. q.it - 1 : ~Complete(q, i)}
StreakChords(q) ==
  {i \in Chords(q) : IF drums THEN i > Max(MissedBefore(q) \cup {0}) /\ Complete(q, i)
                     ELSE q.status[i] # 0}

(* What holds still bring, and what the chords hit are worth.              *)
Owed(h) == IF h = NoHold THEN 0 ELSE 5 * (h.end - h.since)
OwedFor(q, S) == SumFunctionOnSet([f \in Pads |-> Owed(q.holds[f])], S)
WorthOf(q, S) == SumFunctionOnSet([i \in Chords(q) |-> Worth(q, i)], S)

(* The note tapped last can be picked as well.  Of its hold n steps have   *)
(* been paid, none from before it began; but for those it has not brought  *)
(* more than it has earned.                                                *)
HoldOf(c, f, n, h) == h # NoHold => h.end = c.begin + c.len[f] /\ h.since = c.begin + n
TapSoFar(q, f, n) ==
  /\ HoldOf(ChordOf(q, q.it), f, n, q.holds[f])
  /\ q.score + OwedFor(q, Pads \ {f}) <= WorthOf(q, Chords(q) \ {q.it}) + q.earned[q.it] + 5 * n
TapPaid(q, t) ==
  q.it \in Chords(q) /\ q.status[q.it] = 1 =>
    \A f \in DOMAIN ChordOf(q, q.it).len : \E n \in Nat :
       TapSoFar(q, f, n) /\ (n = 0 \/ n <= t - ChordOf(q, q.it).begin)

GuitarPaid(q, t) ==
  GuitarTypes(q) /\ q.score + OwedFor(q, Pads) <= WorthOf(q, Chords(q)) /\ TapPaid(q, t)

(* Drums have no holds.  On the kids' level each hit counts, on others     *)
(* each note once.                                                         *)
NotesHit(q, i) == {f \in DOMAIN ChordOf(q, i).len : <<q.level, i, f>> \in q.notes}
KidsPaid(q) ==
  /\ \A i \in Chords(q) : q.status[i] <= Poly(ChordOf(q, i))
  /\ q.score <= SumFunctionOnSet([i \in Chords(q) |-> 100 * q.status[i]], Chords(q))
NotesPaid(q) ==
  /\ \A i \in Chords(q) : q.status[i] = 0 => NotesHit(q, i) = {}
  /\ q.score <= SumFunctionOnSet([i \in Chords(q) |-> 100 * Cardinality(NotesHit(q, i))], Chords(q))
                  + IF NoPad \in q.notes THEN 100 ELSE 0
DrumsPaid(q) ==
  /\ q.holds = [f \in Pads |-> NoHold]
  /\ IF q.level = Kids THEN KidsPaid(q) ELSE NotesPaid(q)

Books(q, t) ==
  /\ PlayTypes(q) /\ q.streak <= Cardinality(StreakChords(q))
  /\ IF drums THEN DrumsPaid(q) ELSE GuitarPaid(q, t)

(* The books depend on nothing else.                                       *)
SamePlay(r, q) ==
  /\ PlayerFields \subseteq DOMAIN r
  /\ r.level = q.level /\ r.it = q.it /\ r.status = q.status /\ r.earned = q.earned
  /\ r.notes = q.notes /\ r.holds = q.holds /\ r.score = q.score /\ r.streak = q.streak

LEMMA SamePlaySameBooks ==
  ASSUME NEW q, NEW r, NEW t, Books(q, t), SamePlay(r, q)
  PROVE  Books(r, t)
<1>1. Chords(r) = Chords(q) /\ \A i : ChordOf(r, i) = ChordOf(q, i)
  BY DEF SamePlay, Chords, ChordOf
<1>2. PlayTypes(r)
  BY <1>1, Zenon DEF Books, PlayTypes, SamePlay, HoldTypes
<1>3. \A i : Worth(r, i) = Worth(q, i)
  BY Zenon DEF SamePlay, Worth
<1>4. \A S : WorthOf(r, S) = WorthOf(q, S) /\ OwedFor(r, S) = OwedFor(q, S)
  BY <1>1, <1>3, Zenon DEF WorthOf, OwedFor, SamePlay
<1>5. \A i : (Complete(r, i) <=> Complete(q, i)) /\ NotesHit(r, i) = NotesHit(q, i)
  BY <1>1 DEF SamePlay, Complete, NotesHit
<1>6. StreakChords(r) = StreakChords(q)
  <2>1. MissedBefore(r) = MissedBefore(q)
    BY <1>5, Zenon DEF SamePlay, MissedBefore
  <2> QED BY <1>1, <1>5, <2>1 DEF StreakChords, SamePlay
<1>7. r.streak <= Cardinality(StreakChords(r))
  BY <1>6, Zenon DEF Books, SamePlay
<1>8. drums => DrumsPaid(r)
  <2>1. [i \in Chords(r) |-> 100 * Cardinality(NotesHit(r, i))]
          = [i \in Chords(q) |-> 100 * Cardinality(NotesHit(q, i))]
    BY <1>1, <1>5, Zenon
  <2> QED BY <1>1, <1>5, <2>1, Zenon DEF Books, DrumsPaid, KidsPaid, NotesPaid, SamePlay
<1>9. ~drums => GuitarPaid(r, t)
  <2>1. ~drums => GuitarTypes(r)
    BY <1>1, Zenon DEF Books, GuitarPaid, GuitarTypes, SamePlay
  <2>2. \A f, n : TapSoFar(r, f, n) <=> TapSoFar(q, f, n)
    BY <1>1, <1>4, Zenon DEF TapSoFar, SamePlay
  <2>3. ~drums => TapPaid(r, t)
    BY <1>1, <2>2, Zenon DEF Books, GuitarPaid, TapPaid, SamePlay
  <2> QED BY <1>1, <1>4, <2>1, <2>3, Zenon DEF Books, GuitarPaid, SamePlay
<1> QED BY <1>2, <1>7, <1>8, <1>9 DEF Books

(* Time that goes on changes nothing.                                      *)
LEMMA BooksLater ==
  ASSUME NEW q, NEW t \in Int, NEW u \in Int, t <= u, Books(q, t)
  PROVE  Books(q, u)
<1>1. ASSUME ~drums PROVE TapPaid(q, u)
  <2>1. TapPaid(q, t) /\ PlayTypes(q)
    BY <1>1 DEF Books, GuitarPaid
  <2> DEFINE c == ChordOf(q, q.it)
  <2>2. SUFFICES ASSUME q.it \in Chords(q), q.status[q.it] = 1, NEW f \in DOMAIN c.len
                 PROVE  \E n \in Nat : TapSoFar(q, f, n) /\ (n = 0 \/ n <= u - c.begin)
    BY DEF TapPaid
  <2>3. PICK n \in Nat : TapSoFar(q, f, n) /\ (n = 0 \/ n <= t - c.begin)
    BY <2>1, <2>2 DEF TapPaid
  <2>4. c.begin \in Nat
    BY <2>1, <2>2, ChordIs DEF PlayTypes, Chords, ChordOf
  <2> HIDE DEF c
  <2> QED BY <2>3, <2>4
<1> QED BY <1>1 DEF Books, GuitarPaid

(* The points of a hit, and what a chord is worth.                         *)
LEMMA PointsAre ==
  ASSUME NEW e \in Nat
  PROVE  Points(e) \in 0 .. 100 /\ (e < Tolerance => Points(e) > 0) /\ Points(0) = 100
BY DEF Points, Tolerance

HoldsWorth(c) == SumFunctionOnSet([f \in DOMAIN c.len |-> 5 * c.len[f]], DOMAIN c.len)

LEMMA HoldsWorthIs ==
  ASSUME NEW l \in Levels, NEW i \in DOMAIN Chart(l)
  PROVE  HoldsWorth(Chart(l)[i]) \in Nat
<1> DEFINE c == Chart(l)[i]
           D == DOMAIN c.len
           g == [f \in D |-> 5 * c.len[f]]
<1>1. IsFiniteSet(D) /\ \A f \in D : g[f] \in Nat
  <2>1. \A f \in D : c.len[f] \in Nat
    BY ChordIs
  <2>2. \A f \in D : 5 * c.len[f] \in Nat
    <3> HIDE DEF c
    <3> QED BY <2>1
  <2> QED BY <2>2, PolyIs
<1>2. D \in SUBSET D
  OBVIOUS
<1>3. SumFunctionOnSet(g, D) \in Nat
  <2> HIDE DEF g, D
  <2> QED BY <1>1, <1>2, NaturalSum
<1> QED BY <1>3, Zenon DEF HoldsWorth

LEMMA WorthIs ==
  ASSUME NEW q, PlayTypes(q), NEW i \in Chords(q)
  PROVE  /\ Worth(q, i) \in Nat
         /\ q.status[i] = 0 => Worth(q, i) = 0
         /\ q.status[i] # 0 =>
              Worth(q, i) = 100 * Poly(ChordOf(q, i))
                              + IF drums THEN 0
                                ELSE HoldsWorth(ChordOf(q, i))
                                       + IF Tappable(q.level, i) /\ q.status[i] = 2 THEN 10 ELSE 0
<1>1. q.level \in Levels /\ i \in DOMAIN Chart(q.level)
  BY DEF PlayTypes, Chords
<1>2. HoldsWorth(ChordOf(q, i)) \in Nat /\ Poly(ChordOf(q, i)) \in Nat
  BY <1>1, HoldsWorthIs, PolyIs DEF ChordOf
<1> DEFINE w == HoldsWorth(ChordOf(q, i))
           n == Poly(ChordOf(q, i))
<1>3. Worth(q, i) = IF q.status[i] = 0 THEN 0
                    ELSE Points(0) * n
                           + (IF drums THEN 0
                              ELSE w + IF Tappable(q.level, i) /\ q.status[i] = 2
                                       THEN 5 * (Tolerance - 1) ELSE 0)
  BY Zenon DEF Worth, HoldsWorth, ChordOf
<1>4. Points(0) = 100 /\ 5 * (Tolerance - 1) = 10
  BY PointsAre DEF Tolerance
<1>5. w \in Nat /\ n \in Nat
  BY <1>2
<1> HIDE DEF w, n
<1>6. 100 * n \in Nat
  BY <1>5
<1> QED BY <1>3, <1>4, <1>5, <1>6 DEF w, n

(* Sums of what chords are worth, and of what is owed for frets.           *)
LEMMA OwedIs ==
  ASSUME NEW q, PlayTypes(q)
  PROVE  /\ \A f \in Pads : Owed(q.holds[f]) \in Nat
         /\ \A S \in SUBSET Pads : OwedFor(q, S) \in Nat /\ OwedFor(q, S) <= OwedFor(q, Pads)
<1> DEFINE g == [f \in Pads |-> Owed(q.holds[f])]
<1>1. ASSUME NEW f \in Pads PROVE Owed(q.holds[f]) \in Nat
  <2>1. PICK h : h = q.holds[f]
    OBVIOUS
  <2>2. h = NoHold \/ (h \in [end : Nat, since : Nat] /\ h.since <= h.end)
    BY <2>1 DEF PlayTypes, HoldTypes
  <2>3. CASE h = NoHold
    BY <2>1, <2>3 DEF Owed
  <2>4. CASE h \in [end : Nat, since : Nat] /\ h.since <= h.end
    <3>1. 5 * (h.end - h.since) \in Nat
      BY <2>4
    <3> QED BY <2>1, <3>1 DEF Owed
  <2> QED BY <2>2, <2>3, <2>4
<1>2. IsFiniteSet(Pads) /\ \A f \in Pads : g[f] \in Nat
  BY <1>1, ChartAssumption
<1>3. ASSUME NEW S \in SUBSET Pads
      PROVE  OwedFor(q, S) \in Nat /\ OwedFor(q, S) <= OwedFor(q, Pads)
  <2> HIDE DEF g
  <2>1. /\ SumFunctionOnSet(g, S) \in Nat
        /\ SumFunctionOnSet(g, S) <= SumFunctionOnSet(g, Pads)
    BY <1>2, NaturalSum
  <2> QED BY <2>1, Zenon DEF OwedFor, g
<1> QED BY <1>1, <1>3

LEMMA WorthSumIs ==
  ASSUME NEW q, PlayTypes(q)
  PROVE  /\ \A S \in SUBSET Chords(q) : WorthOf(q, S) \in Nat
         /\ \A i \in Chords(q) :
              WorthOf(q, Chords(q)) = Worth(q, i) + WorthOf(q, Chords(q) \ {i})
<1> DEFINE D == Chords(q)
           g == [i \in D |-> Worth(q, i)]
<1>1. IsFiniteSet(D) /\ \A i \in D : g[i] \in Nat /\ g[i] = Worth(q, i)
  BY WorthIs, ChordsOfALevel DEF PlayTypes, Chords
<1>2. \A S : WorthOf(q, S) = SumFunctionOnSet(g, S)
  BY Zenon DEF WorthOf
<1> HIDE DEF g, D
<1>3. \A S \in SUBSET D : SumFunctionOnSet(g, S) \in Nat
  BY <1>1, NaturalSum
<1>4. \A i \in D : SumFunctionOnSet(g, D) = g[i] + SumFunctionOnSet(g, D \ {i})
  BY <1>1, SumInsert
<1> QED BY <1>1, <1>2, <1>3, <1>4 DEF D

(* Less score, less of a streak or fewer holds: the books stay in order.   *)
LEMMA LessKeepsBooks ==
  ASSUME NEW q, NEW r, NEW t, Books(q, t), PlayerFields \subseteq DOMAIN r,
         r.level = q.level, r.it = q.it, r.status = q.status, r.earned = q.earned,
         r.notes = q.notes, r.score \in Nat, r.score <= q.score,
         r.streak \in Nat, r.streak <= q.streak, r.holds = [f \in Pads |-> r.holds[f]],
         \A f \in Pads : r.holds[f] = q.holds[f] \/ r.holds[f] = NoHold
  PROVE  Books(r, t)
<1>0. PlayTypes(q)
  BY DEF Books
<1>1. Chords(r) = Chords(q) /\ \A i : ChordOf(r, i) = ChordOf(q, i)
  BY DEF Chords, ChordOf
<1>2. PlayTypes(r)
  <2>1. HoldTypes(r)
    BY <1>0 DEF PlayTypes, HoldTypes
  <2> QED BY <1>0, <1>1, <2>1, Zenon DEF PlayTypes
<1>3. \A i : Worth(r, i) = Worth(q, i)
  BY Zenon DEF Worth
<1>4. \A S : WorthOf(r, S) = WorthOf(q, S)
  BY <1>1, <1>3, Zenon DEF WorthOf
<1>5. \A i : (Complete(r, i) <=> Complete(q, i)) /\ NotesHit(r, i) = NotesHit(q, i)
  BY <1>1 DEF Complete, NotesHit
<1>6. r.streak <= Cardinality(StreakChords(r))
  <2>1. MissedBefore(r) = MissedBefore(q)
    BY <1>5, Zenon DEF MissedBefore
  <2>2. StreakChords(r) = StreakChords(q)
    BY <1>1, <1>5, <2>1 DEF StreakChords
  <2>3. Cardinality(StreakChords(q)) \in Nat
    <3>1. StreakChords(q) \in SUBSET Chords(q) /\ IsFiniteSet(Chords(q))
      BY <1>0, ChordsOfALevel DEF StreakChords, PlayTypes, Chords
    <3> QED BY <3>1, FS_Subset, FS_CardinalityType
  <2>4. q.streak \in Nat /\ q.streak <= Cardinality(StreakChords(q))
    BY <1>0 DEF Books, PlayTypes
  <2> QED BY <2>2, <2>3, <2>4
<1>7. \A S \in SUBSET Pads : OwedFor(r, S) \in Nat /\ OwedFor(r, S) <= OwedFor(q, S)
  <2> SUFFICES ASSUME NEW S \in SUBSET Pads
               PROVE  OwedFor(r, S) \in Nat /\ OwedFor(r, S) <= OwedFor(q, S)
    OBVIOUS
  <2> DEFINE g == [f \in Pads |-> Owed(q.holds[f])]
             h == [f \in Pads |-> Owed(r.holds[f])]
  <2>1. \A f \in Pads : Owed(q.holds[f]) \in Nat /\ Owed(r.holds[f]) \in Nat
    BY <1>0, <1>2, OwedIs
  <2>2. ASSUME NEW f \in Pads PROVE Owed(r.holds[f]) <= Owed(q.holds[f])
    <3>1. CASE r.holds[f] = q.holds[f]
      BY <2>1, <3>1
    <3>2. CASE r.holds[f] = NoHold
      <4>1. Owed(r.holds[f]) = 0
        BY <3>2 DEF Owed
      <4> QED BY <2>1, <4>1
    <3> QED BY <3>1, <3>2
  <2>3. IsFiniteSet(S) /\ \A f \in S : h[f] \in Int /\ g[f] \in Int /\ h[f] <= g[f]
    BY <2>1, <2>2, ChartAssumption, FS_Subset
  <2>4. SumFunctionOnSet(h, S) <= SumFunctionOnSet(g, S)
    <3> HIDE DEF g, h
    <3> QED BY <2>3, SumMonotone
  <2>5. OwedFor(r, S) = SumFunctionOnSet(h, S) /\ OwedFor(q, S) = SumFunctionOnSet(g, S)
    BY Zenon DEF OwedFor
  <2> QED BY <1>2, <2>4, <2>5, OwedIs
<1>8. ASSUME drums PROVE DrumsPaid(r)
  <2>1. r.holds = [f \in Pads |-> NoHold]
    BY <1>8 DEF Books, DrumsPaid
  <2>2. q.score \in Nat
    BY <1>0 DEF PlayTypes
  <2>3. CASE q.level = Kids
    <3>1. KidsPaid(q)
      BY <1>8, <2>3 DEF Books, DrumsPaid
    <3> DEFINE s == SumFunctionOnSet([i \in Chords(q) |-> 100 * q.status[i]], Chords(q))
    <3>2. s \in Int
      <4> DEFINE g == [i \in Chords(q) |-> 100 * q.status[i]]
      <4>1. \A i \in Chords(q) : q.status[i] \in Nat
        BY <1>0 DEF PlayTypes
      <4>2. IsFiniteSet(Chords(q)) /\ \A i \in Chords(q) : g[i] \in Int
        BY <1>0, <4>1, ChordsOfALevel DEF PlayTypes, Chords
      <4> HIDE DEF g
      <4>3. SumFunctionOnSet(g, Chords(q)) \in Int
        BY <4>2, SumType
      <4> QED BY <4>3 DEF g
    <3>3. s = SumFunctionOnSet([i \in Chords(r) |-> 100 * r.status[i]], Chords(r))
      BY <1>1
    <3>4. q.score <= s
      BY <3>1 DEF KidsPaid
    <3> HIDE DEF s
    <3>5. r.score <= s
      BY <2>2, <3>2, <3>4
    <3>6. KidsPaid(r)
      BY <1>1, <3>1, <3>3, <3>5, Zenon DEF KidsPaid
    <3> QED BY <2>1, <2>3, <3>6 DEF DrumsPaid
  <2>4. CASE q.level # Kids
    <3>1. NotesPaid(q)
      BY <1>8, <2>4 DEF Books, DrumsPaid
    <3> DEFINE s == SumFunctionOnSet([i \in Chords(q) |-> 100 * Cardinality(NotesHit(q, i))], Chords(q))
               x == IF NoPad \in q.notes THEN 100 ELSE 0
    <3>2. s \in Int
      <4> DEFINE g == [i \in Chords(q) |-> 100 * Cardinality(NotesHit(q, i))]
      <4>1. ASSUME NEW i \in Chords(q) PROVE Cardinality(NotesHit(q, i)) \in Nat
        <5>1. IsFiniteSet(NotesHit(q, i))
          BY <1>0, PolyIs, FS_Subset DEF PlayTypes, Chords, ChordOf, NotesHit
        <5> QED BY <5>1, FS_CardinalityType
      <4>2. IsFiniteSet(Chords(q)) /\ \A i \in Chords(q) : g[i] \in Int
        BY <1>0, <4>1, ChordsOfALevel DEF PlayTypes, Chords
      <4> HIDE DEF g
      <4>3. SumFunctionOnSet(g, Chords(q)) \in Int
        BY <4>2, SumType
      <4> QED BY <4>3 DEF g
    <3>3. s = SumFunctionOnSet([i \in Chords(r) |-> 100 * Cardinality(NotesHit(r, i))], Chords(r))
      BY <1>1, <1>5, Zenon
    <3>4. q.score <= s + x
      BY <3>1 DEF NotesPaid
    <3>5. x \in Int
      OBVIOUS
    <3> HIDE DEF s, x
    <3>6. r.score <= s + x
      BY <2>2, <3>2, <3>4, <3>5
    <3>7. NotesPaid(r)
      <4>1. \A i \in Chords(r) : r.status[i] = 0 => NotesHit(r, i) = {}
        BY <1>1, <1>5, <3>1, Zenon DEF NotesPaid
      <4>2. x = IF NoPad \in r.notes THEN 100 ELSE 0
        BY DEF x
      <4> QED BY <3>3, <3>6, <4>1, <4>2, Zenon DEF NotesPaid
    <3> QED BY <2>1, <2>4, <3>7 DEF DrumsPaid
  <2> QED BY <2>3, <2>4
<1>9. ASSUME ~drums PROVE GuitarPaid(r, t)
  <2>1. GuitarTypes(q) /\ TapPaid(q, t) /\ q.score + OwedFor(q, Pads) <= WorthOf(q, Chords(q))
    BY <1>9 DEF Books, GuitarPaid
  <2>2. GuitarTypes(r)
    BY <1>1, <2>1, Zenon DEF GuitarTypes
  <2>3. /\ \A S \in SUBSET Chords(q) : WorthOf(q, S) \in Nat
        /\ \A S \in SUBSET Pads : OwedFor(q, S) \in Nat
    BY <1>0, WorthSumIs, OwedIs
  <2>4. q.score \in Nat
    BY <1>0 DEF PlayTypes
  <2>5. r.score + OwedFor(r, Pads) <= WorthOf(r, Chords(r))
    <3>1. WorthOf(r, Chords(r)) = WorthOf(q, Chords(q)) /\ WorthOf(q, Chords(q)) \in Nat
      BY <1>1, <1>4, <2>3
    <3>2. /\ OwedFor(r, Pads) \in Nat /\ OwedFor(q, Pads) \in Nat
          /\ OwedFor(r, Pads) <= OwedFor(q, Pads)
      BY <1>7, <2>3
    <3> QED BY <2>1, <2>4, <3>1, <3>2
  <2>6. TapPaid(r, t)
    <3> SUFFICES ASSUME q.it \in Chords(q), q.status[q.it] = 1,
                        NEW f \in DOMAIN ChordOf(q, q.it).len
                 PROVE  \E n \in Nat : TapSoFar(r, f, n)
                          /\ (n = 0 \/ n <= t - ChordOf(q, q.it).begin)
      BY <1>1 DEF TapPaid
    <3>1. PICK n \in Nat : TapSoFar(q, f, n) /\ (n = 0 \/ n <= t - ChordOf(q, q.it).begin)
      BY <2>1 DEF TapPaid
    <3>2. f \in Pads /\ Pads \ {f} \in SUBSET Pads
      BY <1>0, ChordIs DEF PlayTypes, Chords, ChordOf
    <3>3. HoldOf(ChordOf(r, r.it), f, n, r.holds[f])
      <4>1. HoldOf(ChordOf(q, q.it), f, n, q.holds[f])
        BY <3>1, Zenon DEF TapSoFar
      <4>2. r.holds[f] = q.holds[f] \/ r.holds[f] = NoHold
        BY <3>2
      <4>3. HoldOf(ChordOf(q, q.it), f, n, NoHold)
        BY Zenon DEF HoldOf
      <4> QED BY <1>1, <4>1, <4>2, <4>3, Zenon
    <3> DEFINE e == q.earned[q.it]
               w == WorthOf(q, Chords(q) \ {q.it})
    <3>4. e \in Nat /\ w \in Nat
      BY <1>0, <2>3 DEF PlayTypes
    <3>5. q.score + OwedFor(q, Pads \ {f}) <= w + e + 5 * n
      BY <3>1, Zenon DEF TapSoFar
    <3>6. /\ OwedFor(r, Pads \ {f}) \in Nat /\ OwedFor(q, Pads \ {f}) \in Nat
          /\ OwedFor(r, Pads \ {f}) <= OwedFor(q, Pads \ {f})
      BY <1>7, <2>3, <3>2
    <3>7. w = WorthOf(r, Chords(r) \ {r.it}) /\ e = r.earned[r.it]
      BY <1>1, <1>4
    <3> HIDE DEF e, w
    <3>8. r.score + OwedFor(r, Pads \ {f}) <= w + e + 5 * n
      BY <2>4, <3>4, <3>5, <3>6
    <3>9. TapSoFar(r, f, n)
      BY <3>3, <3>7, <3>8, Zenon DEF TapSoFar
    <3> QED BY <3>1, <3>9
  <2> QED BY <2>2, <2>5, <2>6 DEF GuitarPaid
<1> QED BY <1>2, <1>6, <1>8, <1>9 DEF Books

(* A hold as time goes on: what it brings in a frame is no longer owed.    *)
Due(h) == h # NoHold /\ Min({time', h.end}) >= h.since
Brings(h) == IF Due(h) THEN 5 * (Min({time', h.end}) - h.since) ELSE 0
After(h) == IF ~Due(h) THEN h
            ELSE IF Min({time', h.end}) = h.end THEN NoHold ELSE [h EXCEPT !.since = time']

LEMMA HoldGoesOn ==
  ASSUME time' \in Int, NEW h,
         h = NoHold \/ (h \in [end : Nat, since : Nat] /\ h.since <= h.end)
  PROVE  /\ Brings(h) \in Nat /\ Owed(h) = Owed(After(h)) + Brings(h)
         /\ \/ After(h) = NoHold
            \/ After(h) \in [end : Nat, since : Nat] /\ After(h).since <= After(h).end
         /\ \A c, f, n : c.begin \in Nat /\ n \in Nat /\ HoldOf(c, f, n, h)
                         /\ (n = 0 \/ n <= time' - c.begin) =>
              \E m \in Nat : /\ HoldOf(c, f, m, After(h)) /\ (m = 0 \/ m <= time' - c.begin)
                             /\ 5 * n + Brings(h) <= 5 * m
<1>1. CASE ~Due(h)
  <2>1. Brings(h) = 0 /\ After(h) = h
    BY <1>1, Zenon DEF Brings, After
  <2>2. Owed(h) \in Int
    <3>1. h # NoHold => 5 * (h.end - h.since) \in Int
      OBVIOUS
    <3> QED BY <3>1 DEF Owed
  <2>3. \A n \in Nat : 5 * n + Brings(h) <= 5 * n
    BY <2>1
  <2>4. Brings(h) \in Nat /\ Owed(h) = Owed(After(h)) + Brings(h)
    BY <2>1, <2>2
  <2>5. \/ After(h) = NoHold
        \/ After(h) \in [end : Nat, since : Nat] /\ After(h).since <= After(h).end
    BY <2>1
  <2> QED BY <2>1, <2>3, <2>4, <2>5, Zenon
<1>2. CASE Due(h)
  <2> DEFINE l == Min({time', h.end})
  <2>1. /\ h # NoHold /\ h \in [end : Nat, since : Nat] /\ h.since <= h.end /\ l >= h.since
        /\ Brings(h) = 5 * (l - h.since) /\ Owed(h) = 5 * (h.end - h.since)
        /\ After(h) = IF l = h.end THEN NoHold ELSE [h EXCEPT !.since = time']
    BY <1>2 DEF Due, Brings, After, Owed
  <2>2. h.end \in Nat /\ h.since \in Nat
    BY <2>1
  <2>3. l = IF time' <= h.end THEN time' ELSE h.end
    BY <2>2, MinOfTwo
  <2> HIDE DEF l
  <2>4. Brings(h) \in Nat
    BY <2>1, <2>2, <2>3
  <2>5. CASE l = h.end
    <3>1. After(h) = NoHold /\ Owed(After(h)) = 0
      BY <2>1, <2>5 DEF Owed
    <3>2. ASSUME NEW c, NEW f, NEW n, c.begin \in Nat, n \in Nat, HoldOf(c, f, n, h)
          PROVE  \E m \in Nat : /\ HoldOf(c, f, m, After(h)) /\ (m = 0 \/ m <= time' - c.begin)
                                /\ 5 * n + Brings(h) <= 5 * m
      <4> DEFINE m == h.end - c.begin
      <4>1. h.since = c.begin + n
        BY <2>1, <3>2 DEF HoldOf
      <4>2. m \in Nat /\ m <= time' - c.begin /\ 5 * n + Brings(h) = 5 * m
        BY <2>1, <2>2, <2>3, <2>5, <3>2, <4>1
      <4>3. HoldOf(c, f, m, After(h))
        BY <3>1 DEF HoldOf
      <4> HIDE DEF m
      <4>4. 5 * n + Brings(h) <= 5 * m
        BY <4>2
      <4> QED BY <4>2, <4>3, <4>4
    <3> QED BY <2>1, <2>4, <2>5, <3>1, <3>2
  <2>6. CASE l # h.end
    <3>1. l = time' /\ time' \in Nat /\ time' < h.end
      BY <2>1, <2>2, <2>3, <2>6
    <3>2. /\ After(h) \in [end : Nat, since : Nat] /\ After(h).end = h.end
          /\ After(h).since = time' /\ After(h) # NoHold
      <4>1. After(h) = [h EXCEPT !.since = time']
        BY <2>1, <2>6
      <4>2. After(h) \in [end : Nat, since : Nat] /\ After(h).end = h.end /\ After(h).since = time'
        BY <2>1, <3>1, <4>1
      <4>3. After(h).since # NoHold.since
        BY <3>1, <4>2 DEF NoHold
      <4> QED BY <4>2, <4>3
    <3>3. Owed(After(h)) = 5 * (h.end - time')
      BY <3>2 DEF Owed
    <3>4. ASSUME NEW c, NEW f, NEW n, c.begin \in Nat, n \in Nat, HoldOf(c, f, n, h)
          PROVE  \E m \in Nat : /\ HoldOf(c, f, m, After(h)) /\ (m = 0 \/ m <= time' - c.begin)
                                /\ 5 * n + Brings(h) <= 5 * m
      <4> DEFINE m == time' - c.begin
      <4>1. h.since = c.begin + n /\ h.end = c.begin + c.len[f]
        BY <2>1, <3>4 DEF HoldOf
      <4>2. m \in Nat /\ m <= time' - c.begin /\ 5 * n + Brings(h) = 5 * m
        BY <2>1, <2>2, <3>1, <3>4, <4>1
      <4>3. HoldOf(c, f, m, After(h))
        BY <3>2, <3>4, <4>1 DEF HoldOf
      <4> HIDE DEF m
      <4>4. 5 * n + Brings(h) <= 5 * m
        BY <4>2
      <4> QED BY <4>2, <4>3, <4>4
    <3>5. Owed(h) = Owed(After(h)) + Brings(h)
      BY <2>1, <2>2, <3>1, <3>3
    <3> QED BY <2>4, <3>1, <3>2, <3>4, <3>5
  <2> QED BY <2>5, <2>6
<1> QED BY <1>1, <1>2

(* What playing leaves alone.                                              *)
SameStay(r, q) ==
  /\ PlayerFields \subseteq DOMAIN r
  /\ r.level = q.level /\ r.left = q.left /\ r.ready = q.ready /\ r.menu = q.menu
  /\ r.joinTime = q.joinTime /\ r.rewound = q.rewound /\ r.open = q.open

LEMMA HoldsAreLeft ==
  ASSUME NEW q, PlayerFields \subseteq DOMAIN q
  PROVE  /\ SameStay(ProcessHolds(q), q)
         /\ ProcessHolds(q).dead = q.dead /\ ProcessHolds(q).idle = q.idle
         /\ ProcessHolds(q).it = q.it
<1>1. PICK s, h : ProcessHolds(q) = [q EXCEPT !.score = s, !.holds = h]
  BY Zenon DEF ProcessHolds
<1> QED BY <1>1 DEF PlayerFields, SameStay

(* Paying holds: what they bring is no longer owed.                        *)
LEMMA HoldsKeepBooks ==
  ASSUME time' \in Int, NEW q, Books(q, time')
  PROVE  Books(ProcessHolds(q), time')
<1> DEFINE due == {f \in Pads : Due(q.holds[f])}
           B == [f \in Pads |-> Brings(q.holds[f])]
           r == ProcessHolds(q)
<1>0. PlayTypes(q)
  BY DEF Books
<1>1. PlayerFields \subseteq DOMAIN q
  BY <1>0 DEF PlayTypes
<1>2. \A f \in Pads : q.holds[f] = NoHold \/ ( /\ q.holds[f] \in [end : Nat, since : Nat]
                                               /\ q.holds[f].since <= q.holds[f].end)
  BY <1>0 DEF PlayTypes, HoldTypes
<1>3. \A f \in Pads : B[f] \in Nat /\ (f \notin due => B[f] = 0)
  <2> SUFFICES ASSUME NEW f \in Pads PROVE B[f] \in Nat /\ (f \notin due => B[f] = 0)
    OBVIOUS
  <2>1. Brings(q.holds[f]) \in Nat
    BY <1>2, HoldGoesOn
  <2>2. f \notin due => Brings(q.holds[f]) = 0
    BY DEF Brings
  <2> QED BY <2>1, <2>2
<1>4. r = [q EXCEPT !.score = q.score + SumFunctionOnSet(B, Pads),
                    !.holds = [f \in Pads |-> After(q.holds[f])]]
  <2> DEFINE last(f) == Min({time', q.holds[f].end})
             pay == [f \in due |-> 5 * (last(f) - q.holds[f].since)]
             next == [f \in Pads |-> IF f \notin due THEN q.holds[f]
                                     ELSE IF last(f) = q.holds[f].end THEN NoHold
                                     ELSE [q.holds[f] EXCEPT !.since = time']]
  <2>1. due = {f \in Pads : q.holds[f] # NoHold /\ last(f) >= q.holds[f].since}
    BY Zenon DEF Due
  <2>2. r = [q EXCEPT !.score = q.score + SumFunctionOnSet(pay, due), !.holds = next]
    BY <2>1, Zenon DEF ProcessHolds
  <2>3. next = [f \in Pads |-> After(q.holds[f])]
    <3>1. \A f \in Pads : f \in due <=> Due(q.holds[f])
      OBVIOUS
    <3> HIDE DEF due
    <3> QED BY <3>1, Zenon DEF After
  <2>4. SumFunctionOnSet(pay, due) = SumFunctionOnSet(B, Pads)
    <3>1. IsFiniteSet(Pads) /\ IsFiniteSet(due) /\ IsFiniteSet(Pads \ due) /\ due \in SUBSET Pads
      BY ChartAssumption, FS_Subset
    <3>2. \A f \in due : B[f] \in Int /\ B[f] = pay[f]
      <4> SUFFICES ASSUME NEW f \in due PROVE B[f] \in Int /\ B[f] = pay[f]
        OBVIOUS
      <4>1. B[f] \in Nat /\ B[f] = Brings(q.holds[f])
        BY <1>3
      <4>2. Due(q.holds[f])
        OBVIOUS
      <4>3. Brings(q.holds[f]) = 5 * (last(f) - q.holds[f].since)
        BY <4>2, Zenon DEF Brings
      <4>4. pay[f] = 5 * (last(f) - q.holds[f].since)
        BY Zenon
      <4> HIDE DEF B, due, pay, last
      <4> QED BY <4>1, <4>3, <4>4
    <3> HIDE DEF B, due, pay
    <3>3. SumFunctionOnSet(B, due) = SumFunctionOnSet(pay, due)
      BY <3>1, <3>2, SumEqual
    <3>4. SumFunctionOnSet(B, Pads) = SumFunctionOnSet(B, due) + SumFunctionOnSet(B, Pads \ due)
      BY <1>3, <3>1, SumSplit
    <3>5. SumFunctionOnSet(B, Pads \ due) = 0
      BY <1>3, <3>1, SumOfZeros
    <3>6. SumFunctionOnSet(B, due) \in Int
      BY <1>3, <3>1, SumType
    <3> QED BY <3>3, <3>4, <3>5, <3>6
  <2> QED BY <2>2, <2>3, <2>4, Zenon
<1> HIDE DEF r, B, due
<1>5. /\ PlayerFields \subseteq DOMAIN r /\ r.level = q.level /\ r.it = q.it
      /\ r.status = q.status /\ r.earned = q.earned /\ r.notes = q.notes /\ r.streak = q.streak
      /\ r.score = q.score + SumFunctionOnSet(B, Pads)
      /\ r.holds = [f \in Pads |-> After(q.holds[f])]
  BY <1>1, <1>4 DEF PlayerFields
<1>6. \A S \in SUBSET Pads : SumFunctionOnSet(B, S) \in Nat
  BY <1>3, ChartAssumption, NaturalSum
<1>7. q.score \in Nat /\ SumFunctionOnSet(B, Pads) \in Nat
  <2>1. Pads \in SUBSET Pads
    OBVIOUS
  <2> QED BY <1>0, <1>6, <2>1 DEF PlayTypes
<1>8. CASE drums
  <2>1. q.holds = [f \in Pads |-> NoHold]
    BY <1>8 DEF Books, DrumsPaid
  <2>2. \A f \in Pads : q.holds[f] = NoHold /\ After(q.holds[f]) = NoHold /\ Brings(q.holds[f]) = 0
    BY <2>1 DEF After, Brings, Due
  <2>3. SumFunctionOnSet(B, Pads) = 0
    <3>1. \A f \in Pads : B[f] = 0
      BY <2>2 DEF B
    <3> QED BY <3>1, ChartAssumption, SumOfZeros
  <2>4. r.holds = q.holds
    BY <1>5, <2>1, <2>2
  <2>5. r.score = q.score
    BY <1>5, <1>7, <2>3
  <2>6. SamePlay(r, q)
    BY <1>5, <2>4, <2>5 DEF SamePlay
  <2> QED BY <2>6, SamePlaySameBooks DEF r
<1>9. CASE ~drums
  <2>1. Chords(r) = Chords(q) /\ \A i : ChordOf(r, i) = ChordOf(q, i)
    BY <1>5 DEF Chords, ChordOf
  <2>2. \A f \in Pads : r.holds[f] = After(q.holds[f])
    BY <1>5
  <2>3. PlayTypes(r)
    <3>1. HoldTypes(r)
      BY <1>2, <2>2, HoldGoesOn DEF HoldTypes
    <3>2. r.holds = [f \in Pads |-> r.holds[f]]
      BY <1>5
    <3>3. r.score \in Nat /\ r.streak \in Nat
      BY <1>0, <1>5, <1>7 DEF PlayTypes
    <3> QED BY <1>0, <1>5, <2>1, <3>1, <3>2, <3>3, Zenon DEF PlayTypes
  <2>4. ASSUME NEW S \in SUBSET Pads
        PROVE  OwedFor(q, S) = OwedFor(r, S) + SumFunctionOnSet(B, S)
    <3> DEFINE g == [f \in Pads |-> Owed(q.holds[f])]
               h == [f \in Pads |-> Owed(r.holds[f])]
    <3>1. \A f \in Pads : Owed(q.holds[f]) = Owed(r.holds[f]) + Brings(q.holds[f])
      BY <1>2, <2>2, HoldGoesOn
    <3>2. \A f \in Pads : Owed(r.holds[f]) \in Nat
      BY <2>3, OwedIs
    <3>3. IsFiniteSet(S) /\ \A f \in S : h[f] \in Int /\ B[f] \in Int /\ g[f] = h[f] + B[f]
      BY <1>3, <3>1, <3>2, ChartAssumption, FS_Subset DEF B
    <3>4. OwedFor(q, S) = SumFunctionOnSet(g, S) /\ OwedFor(r, S) = SumFunctionOnSet(h, S)
      BY Zenon DEF OwedFor
    <3> HIDE DEF g, h
    <3> QED BY <3>3, <3>4, SumOfSums
  <2>5. \A i : Worth(r, i) = Worth(q, i)
    BY <1>5, Zenon DEF Worth
  <2>6. \A S : WorthOf(r, S) = WorthOf(q, S)
    BY <2>1, <2>5, Zenon DEF WorthOf
  <2>7. GuitarTypes(q) /\ TapPaid(q, time') /\ q.score + OwedFor(q, Pads) <= WorthOf(q, Chords(q))
    BY <1>9 DEF Books, GuitarPaid
  <2>8. GuitarTypes(r)
    BY <1>5, <2>1, <2>7, Zenon DEF GuitarTypes
  <2>9. r.score + OwedFor(r, Pads) <= WorthOf(r, Chords(r))
    <3>1. OwedFor(q, Pads) = OwedFor(r, Pads) + SumFunctionOnSet(B, Pads)
      BY <2>4, Pads \in SUBSET Pads
    <3>2. OwedFor(r, Pads) \in Nat
      BY <2>3, OwedIs, Pads \in SUBSET Pads
    <3>3. r.score + OwedFor(r, Pads) = q.score + OwedFor(q, Pads)
      BY <1>5, <1>7, <3>1, <3>2
    <3> QED BY <2>1, <2>6, <2>7, <3>3
  <2>10. TapPaid(r, time')
    <3> SUFFICES ASSUME q.it \in Chords(q), q.status[q.it] = 1,
                        NEW f \in DOMAIN ChordOf(q, q.it).len
                 PROVE  \E m \in Nat : TapSoFar(r, f, m)
                          /\ (m = 0 \/ m <= time' - ChordOf(q, q.it).begin)
      BY <1>5, <2>1 DEF TapPaid
    <3> DEFINE c == ChordOf(q, q.it)
               T == Pads \ {f}
               e == q.earned[q.it]
               w == WorthOf(q, Chords(q) \ {q.it})
    <3>1. PICK n \in Nat : TapSoFar(q, f, n) /\ (n = 0 \/ n <= time' - c.begin)
      BY <2>7 DEF TapPaid
    <3>2. f \in Pads /\ T \in SUBSET Pads /\ c.begin \in Nat
      BY <1>0, ChordIs DEF PlayTypes, Chords, ChordOf
    <3>3. HoldOf(c, f, n, q.holds[f]) /\ q.score + OwedFor(q, T) <= w + e + 5 * n
      BY <3>1, Zenon DEF TapSoFar
    <3> HIDE DEF c
    <3>4. PICK m \in Nat : /\ HoldOf(c, f, m, After(q.holds[f]))
                           /\ m = 0 \/ m <= time' - c.begin
                           /\ 5 * n + Brings(q.holds[f]) <= 5 * m
      BY <1>2, <3>1, <3>2, <3>3, HoldGoesOn
    <3>5. e \in Nat /\ w \in Nat
      BY <1>0, WorthSumIs DEF PlayTypes
    <3>6. /\ OwedFor(q, T) = OwedFor(r, T) + SumFunctionOnSet(B, T)
          /\ OwedFor(r, T) \in Nat /\ SumFunctionOnSet(B, T) \in Nat
      BY <1>6, <2>3, <2>4, <3>2, OwedIs
    <3>7. SumFunctionOnSet(B, Pads) = B[f] + SumFunctionOnSet(B, T)
      <4>1. \A x \in Pads : B[x] \in Int
        BY <1>3
      <4> QED BY <3>2, <4>1, ChartAssumption, SumInsert
    <3>8. B[f] = Brings(q.holds[f]) /\ B[f] \in Nat
      BY <1>3, <3>2 DEF B
    <3> HIDE DEF e, w, T
    <3>9. r.score + OwedFor(r, T) <= w + e + 5 * m
      BY <1>5, <1>7, <3>3, <3>4, <3>5, <3>6, <3>7, <3>8
    <3>10. TapSoFar(r, f, m)
      <4>1. w = WorthOf(r, Chords(r) \ {r.it}) /\ e = r.earned[r.it] /\ c = ChordOf(r, r.it)
        BY <1>5, <2>1, <2>6 DEF w, e, c
      <4>2. HoldOf(c, f, m, r.holds[f])
        BY <2>2, <3>2, <3>4
      <4>3. r.score + OwedFor(r, Pads \ {f}) <= w + e + 5 * m
        BY <3>9 DEF T
      <4> QED BY <4>1, <4>2, <4>3, Zenon DEF TapSoFar
    <3> QED BY <3>4, <3>10 DEF c
  <2>11. r.streak <= Cardinality(StreakChords(r))
    <3>1. StreakChords(r) = StreakChords(q)
      BY <1>5, <1>9, <2>1 DEF StreakChords
    <3> QED BY <1>5, <3>1 DEF Books
  <2> QED BY <1>9, <2>3, <2>8, <2>9, <2>10, <2>11 DEF Books, GuitarPaid, r
<1> QED BY <1>8, <1>9

(* A streak has finitely many chords, and begins after the last one missed. *)
LEMMA StreakIs ==
  ASSUME NEW q, PlayTypes(q)
  PROVE  /\ IsFiniteSet(StreakChords(q)) /\ Cardinality(StreakChords(q)) \in Nat
         /\ drums => \E m \in Nat : /\ m < q.it /\ (m = 0 \/ m \in MissedBefore(q))
                                    /\ \A i \in MissedBefore(q) : i <= m
                                    /\ m = Max(MissedBefore(q) \cup {0})
                                    /\ StreakChords(q) = {i \in Chords(q) : i > m /\ Complete(q, i)}
<1>1. IsFiniteSet(StreakChords(q)) /\ Cardinality(StreakChords(q)) \in Nat
  <2>1. StreakChords(q) \in SUBSET Chords(q) /\ IsFiniteSet(Chords(q))
    BY ChordsOfALevel DEF StreakChords, PlayTypes, Chords
  <2> QED BY <2>1, FS_Subset, FS_CardinalityType
<1> DEFINE S == MissedBefore(q) \cup {0}
<1>2. q.it \in Nat /\ q.it >= 1
  <2>1. Len(Chart(q.level)) \in Nat /\ q.it \in 1 .. Len(Chart(q.level)) + 1
    BY ChordsOfALevel DEF PlayTypes
  <2> QED BY <2>1
<1>3. S \in SUBSET (0 .. q.it - 1) /\ S # {} /\ q.it - 1 \in Nat
  BY <1>2 DEF MissedBefore
<1>4. Max(S) \in S /\ \A i \in S : i <= Max(S)
  BY <1>3, GreatestOf
<1>5. Max(S) \in Nat /\ Max(S) < q.it /\ (Max(S) = 0 \/ Max(S) \in MissedBefore(q))
  BY <1>2, <1>3, <1>4
<1>6. drums => StreakChords(q) = {i \in Chords(q) : i > Max(S) /\ Complete(q, i)}
  BY Zenon DEF StreakChords
<1> QED BY <1>1, <1>4, <1>5, <1>6

(* Chords too old to be played.                                            *)
Past(q) == {i \in q.it .. Len(Chart(q.level)) : Chart(q.level)[i].begin + Tolerance < time'}

LEMMA SkipIs ==
  ASSUME NEW q, PlayerFields \subseteq DOMAIN q
  PROVE  LET r == SkipMissed(q)
         IN  /\ SameStay(r, q) /\ r.idle = q.idle /\ r.score = q.score
             /\ r.level = q.level /\ r.status = q.status /\ r.earned = q.earned
             /\ r.notes = q.notes /\ r.holds = q.holds
             /\ r.it = q.it + Cardinality(Past(q))
             /\ r.streak = IF \E i \in Past(q) : Missed(q, i) THEN 0 ELSE q.streak
             /\ r.dead = q.dead + Absence(q, Cardinality(Past(q)))
<1>1. SkipMissed(q) = [q EXCEPT !.it = @ + Cardinality(Past(q)),
                                !.streak = IF \E i \in Past(q) : Missed(q, i) THEN 0 ELSE @,
                                !.dead = @ + Absence(q, Cardinality(Past(q)))]
  BY Zenon DEF SkipMissed, Past
<1> DEFINE n == Cardinality(Past(q))
           B == \E i \in Past(q) : Missed(q, i)
           a == Absence(q, Cardinality(Past(q)))
<1>2. SkipMissed(q) = [q EXCEPT !.it = @ + n, !.streak = IF B THEN 0 ELSE @, !.dead = @ + a]
  BY <1>1
<1> HIDE DEF n, B, a
<1>3. LET r == SkipMissed(q)
      IN  /\ SameStay(r, q) /\ r.idle = q.idle /\ r.score = q.score
          /\ r.level = q.level /\ r.status = q.status /\ r.earned = q.earned
          /\ r.notes = q.notes /\ r.holds = q.holds
          /\ r.it = q.it + n /\ r.streak = (IF B THEN 0 ELSE q.streak) /\ r.dead = q.dead + a
  BY <1>2 DEF PlayerFields, SameStay
<1> QED BY <1>3, Zenon DEF n, B, a

(* They are the next ones, and those after them can still be played.       *)
LEMMA PastAreNext ==
  ASSUME time' \in Int, NEW q, PlayTypes(q)
  PROVE  LET n == Cardinality(Past(q))
         IN  /\ n \in Nat /\ q.it + n \in 1 .. Len(Chart(q.level)) + 1
             /\ Past(q) = q.it .. q.it + n - 1
             /\ \A i \in Chords(q) : i >= q.it + n => ChordOf(q, i).begin + Tolerance >= time'
<1> DEFINE l == q.level
           len == Len(Chart(q.level))
           n == Cardinality(Past(q))
<1>1. l \in Levels /\ len \in Nat /\ q.it \in 1 .. len + 1 /\ Chords(q) = 1 .. len
  BY ChordsOfALevel DEF PlayTypes, Chords
<1>2. \A i \in Chords(q) : /\ ChordOf(q, i).begin \in Nat
                           /\ \A j \in 1 .. i : ChordOf(q, j).begin <= ChordOf(q, i).begin
  BY <1>1, ChordIs DEF Chords, ChordOf
<1>3. Past(q) = {i \in q.it .. len : ChordOf(q, i).begin + Tolerance < time'}
  BY Zenon DEF Past, ChordOf
<1> HIDE DEF l, len
<1>4. ASSUME NEW i \in Past(q), NEW j \in q.it .. i PROVE j \in Past(q)
  <2>1. i \in Chords(q) /\ j \in Chords(q) /\ j \in 1 .. i /\ j \in q.it .. len
    BY <1>1, <1>3
  <2>2. ChordOf(q, j).begin <= ChordOf(q, i).begin /\ ChordOf(q, j).begin \in Nat
        /\ ChordOf(q, i).begin \in Nat
    BY <1>2, <2>1
  <2>3. ChordOf(q, i).begin + Tolerance < time'
    BY <1>3
  <2> QED BY <1>3, <2>1, <2>2, <2>3 DEF Tolerance
<1>5. Past(q) \in SUBSET (q.it .. len) /\ q.it \in Nat /\ q.it <= len + 1
  BY <1>1, <1>3
<1>6. n \in Nat /\ q.it + n <= len + 1 /\ Past(q) = q.it .. q.it + n - 1
  BY <1>1, <1>4, <1>5, FirstPart
<1> HIDE DEF n
<1>7. ASSUME NEW i \in Chords(q), i >= q.it + n PROVE ChordOf(q, i).begin + Tolerance >= time'
  <2>1. i \in q.it .. len /\ i \notin Past(q)
    BY <1>1, <1>6, <1>7
  <2>2. ~(ChordOf(q, i).begin + Tolerance < time') /\ ChordOf(q, i).begin \in Nat
    BY <1>2, <1>3, <2>1
  <2> QED BY <2>2 DEF Tolerance
<1>8. q.it + n \in 1 .. len + 1
  BY <1>1, <1>6
<1> QED BY <1>6, <1>7, <1>8 DEF n, len

(* Chords that are skipped do not change the books, but for the streak.    *)
LEMMA SkipKeepsBooks ==
  ASSUME time' \in Int, NEW q, Books(q, time')
  PROVE  Books(SkipMissed(q), time')
<1> DEFINE r == SkipMissed(q)
           n == Cardinality(Past(q))
<1>0. PlayTypes(q) /\ PlayerFields \subseteq DOMAIN q
  BY DEF Books, PlayTypes
<1>1. /\ SameStay(r, q) /\ r.score = q.score
      /\ r.level = q.level /\ r.status = q.status /\ r.earned = q.earned
      /\ r.notes = q.notes /\ r.holds = q.holds /\ r.it = q.it + n
      /\ r.streak = IF \E i \in Past(q) : Missed(q, i) THEN 0 ELSE q.streak
  BY <1>0, SkipIs, Zenon
<1>2. /\ n \in Nat /\ q.it + n \in 1 .. Len(Chart(q.level)) + 1
      /\ Past(q) = q.it .. q.it + n - 1
  BY <1>0, PastAreNext, Zenon
<1> HIDE DEF r, n
<1>3. Chords(r) = Chords(q) /\ \A i : ChordOf(r, i) = ChordOf(q, i)
  BY <1>1 DEF Chords, ChordOf
<1>4. q.it \in Nat /\ q.it >= 1 /\ q.it <= r.it /\ Chords(q) \in SUBSET Nat /\ r.it \in Nat
  <2>1. q.it \in 1 .. Len(Chart(q.level)) + 1 /\ Len(Chart(q.level)) \in Nat
        /\ Chords(q) = 1 .. Len(Chart(q.level))
    BY <1>0, ChordsOfALevel DEF PlayTypes, Chords
  <2> QED BY <1>1, <1>2, <2>1
<1>5. PlayTypes(r)
  <2>1. r.it \in 1 .. Len(Chart(r.level)) + 1 /\ HoldTypes(r)
    BY <1>0, <1>1, <1>2 DEF PlayTypes, HoldTypes
  <2>2. \A i \in Chords(r) : i > r.it => r.status[i] = 0
    <3>1. \A i \in Chords(q) : i > q.it => q.status[i] = 0
      BY <1>0 DEF PlayTypes
    <3> QED BY <1>1, <1>3, <1>4, <3>1
  <2>3. r.streak \in Nat
    BY <1>0, <1>1 DEF PlayTypes
  <2>4. PlayerFields \subseteq DOMAIN r
    BY <1>1 DEF SameStay
  <2> QED BY <1>0, <1>1, <1>3, <2>1, <2>2, <2>3, <2>4, Zenon DEF PlayTypes
<1>6. \A i : /\ Worth(r, i) = Worth(q, i) /\ NotesHit(r, i) = NotesHit(q, i)
             /\ Complete(r, i) <=> Complete(q, i)
  <2>1. \A i : Worth(r, i) = Worth(q, i)
    BY <1>1, Zenon DEF Worth
  <2>2. \A i : NotesHit(r, i) = NotesHit(q, i)
    BY <1>1, <1>3 DEF NotesHit
  <2>3. \A i : Complete(r, i) <=> Complete(q, i)
    BY <1>1, <1>3 DEF Complete
  <2> QED BY <2>1, <2>2, <2>3
<1>7. \A S : WorthOf(r, S) = WorthOf(q, S) /\ OwedFor(r, S) = OwedFor(q, S)
  BY <1>1, <1>3, <1>6, Zenon DEF WorthOf, OwedFor
<1>8. r.streak <= Cardinality(StreakChords(r))
  <2>1. Cardinality(StreakChords(r)) \in Nat
    BY <1>5, StreakIs
  <2>2. q.streak <= Cardinality(StreakChords(q))
    BY DEF Books
  <2>3. CASE \E i \in Past(q) : Missed(q, i)
    BY <1>1, <2>1, <2>3
  <2>4. CASE drums /\ ~ \E i \in Past(q) : Missed(q, i)
    <3>1. ASSUME NEW i \in 1 .. r.it - 1, i \notin 1 .. q.it - 1 PROVE Complete(q, i)
      <4>1. i \in Past(q)
        BY <1>1, <1>2, <1>4, <3>1
      <4>2. ~(q.status[i] < Poly(Chart(q.level)[i]))
        BY <2>4, <4>1 DEF Missed
      <4>3. i \in Chords(q) /\ q.level \in Levels
        BY <1>0, <1>1, <1>2, <1>4, <3>1, ChordsOfALevel DEF PlayTypes, Chords
      <4>4. q.status[i] \in Nat /\ Poly(ChordOf(q, i)) \in Nat
        BY <1>0, <4>3, PolyIs DEF PlayTypes, Chords, ChordOf
      <4> QED BY <4>2, <4>4 DEF Complete, ChordOf
    <3>2. 1 .. q.it - 1 \in SUBSET (1 .. r.it - 1)
      BY <1>4
    <3>3. MissedBefore(r) = MissedBefore(q)
      BY <1>6, <3>1, <3>2 DEF MissedBefore
    <3>4. StreakChords(r) = StreakChords(q)
      BY <1>3, <1>6, <2>4, <3>3 DEF StreakChords
    <3> QED BY <1>1, <2>2, <2>4, <3>4
  <2>5. CASE ~drums /\ ~ \E i \in Past(q) : Missed(q, i)
    <3>1. StreakChords(r) = StreakChords(q)
      BY <1>1, <1>3, <2>5 DEF StreakChords
    <3> QED BY <1>1, <2>2, <2>5, <3>1
  <2> QED BY <2>3, <2>4, <2>5
<1>9. ASSUME drums PROVE DrumsPaid(r)
  <2>1. [i \in Chords(r) |-> 100 * Cardinality(NotesHit(r, i))]
          = [i \in Chords(q) |-> 100 * Cardinality(NotesHit(q, i))]
    BY <1>3, <1>6, Zenon
  <2> QED BY <1>1, <1>3, <1>6, <1>9, <2>1, Zenon DEF Books, DrumsPaid, KidsPaid, NotesPaid
<1>10. ASSUME ~drums PROVE GuitarPaid(r, time')
  <2>1. GuitarTypes(q) /\ TapPaid(q, time') /\ q.score + OwedFor(q, Pads) <= WorthOf(q, Chords(q))
    BY <1>10 DEF Books, GuitarPaid
  <2>2. GuitarTypes(r)
    BY <1>1, <1>3, <2>1, Zenon DEF GuitarTypes
  <2>3. TapPaid(r, time')
    <3>1. CASE r.it = q.it
      <4>1. \A f, m : TapSoFar(r, f, m) <=> TapSoFar(q, f, m)
        BY <1>1, <1>3, <1>7, <3>1, Zenon DEF TapSoFar
      <4> QED BY <1>1, <1>3, <2>1, <3>1, <4>1, Zenon DEF TapPaid
    <3>2. CASE r.it # q.it
      <4>1. r.it > q.it
        BY <1>4, <3>2
      <4>2. r.it \in Chords(q) => q.status[r.it] = 0
        BY <1>0, <4>1 DEF PlayTypes
      <4> QED BY <1>1, <1>3, <4>2 DEF TapPaid
    <3> QED BY <3>1, <3>2
  <2> QED BY <1>1, <1>3, <1>7, <2>1, <2>2, <2>3, Zenon DEF GuitarPaid
<1> QED BY <1>5, <1>8, <1>9, <1>10 DEF Books, r

(* The chord that is hit is one of those that can be.                      *)
ErrorOf(q, i) == Abs(ChordOf(q, i).begin - time')

LEMMA ErrorIs ==
  ASSUME time' \in Int, NEW q, PlayTypes(q), NEW i \in Chords(q)
  PROVE  /\ ErrorOf(q, i) \in Nat /\ (i \in InReach(q) => ErrorOf(q, i) < Tolerance)
         /\ i \in InReach(q) => time' - ChordOf(q, i).begin < Tolerance
<1>1. ChordOf(q, i).begin \in Nat
  BY ChordIs DEF PlayTypes, Chords, ChordOf
<1>2. i \in InReach(q) => ErrorOf(q, i) < Tolerance
  BY Zenon DEF InReach, ErrorOf, ChordOf
<1>3. ErrorOf(q, i) \in Nat /\ time' - ChordOf(q, i).begin <= ErrorOf(q, i)
  BY <1>1 DEF ErrorOf, Abs
<1> QED BY <1>1, <1>2, <1>3 DEF Tolerance

LEMMA ReachIs ==
  ASSUME NEW q, PlayTypes(q)
  PROVE  /\ \A i \in InReach(q) : i \in Chords(q) /\ i \in Nat /\ i >= q.it
         /\ q.it \in Nat /\ q.it >= 1 /\ (q.it <= Len(Chart(q.level)) => q.it \in Chords(q))
<1>1. /\ Len(Chart(q.level)) \in Nat /\ q.it \in 1 .. Len(Chart(q.level)) + 1
      /\ Chords(q) = 1 .. Len(Chart(q.level))
  BY ChordsOfALevel DEF PlayTypes, Chords
<1>2. InReach(q) \in SUBSET (q.it .. Len(Chart(q.level)))
  BY DEF InReach
<1> QED BY <1>1, <1>2

LEMMA NearestIs ==
  ASSUME time' \in Int, NEW q, PlayTypes(q), NEW S \in SUBSET InReach(q), S # {}
  PROVE  Nearest(q, S) \in S
<1> DEFINE E(i) == Abs(Chart(q.level)[i].begin - time')
           errors == {E(i) : i \in S}
<1>1. \A i \in S : E(i) \in Nat /\ i \in Nat
  BY ReachIs, ErrorIs DEF ErrorOf, ChordOf
<1>2. errors \in SUBSET Nat /\ errors # {}
  BY <1>1
<1>3. PICK e \in errors : \A x \in errors : e <= x
  <2> HIDE DEF errors
  <2> QED BY <1>2, LeastNumber
<1> DEFINE T == {i \in S : E(i) = e}
<1>4. T \in SUBSET Nat /\ T # {}
  BY <1>1
<1>5. PICK i \in T : \A j \in T : i <= j
  <2> HIDE DEF T
  <2> QED BY <1>4, LeastNumber
<1>6. ASSUME NEW j \in S PROVE E(i) < E(j) \/ (E(i) = E(j) /\ i <= j)
  <2>1. E(i) = e /\ e <= E(j) /\ e \in Nat /\ E(j) \in Nat
    BY <1>1, <1>3
  <2>2. E(j) = e => i <= j
    BY <1>5
  <2> HIDE DEF E
  <2> QED BY <2>1, <2>2
<1>7. \E k \in S : \A j \in S : E(k) < E(j) \/ (E(k) = E(j) /\ k <= j)
  <2>1. i \in S
    OBVIOUS
  <2> QED BY <1>6, <2>1, Zenon
<1>8. Nearest(q, S) = CHOOSE k \in S : \A j \in S : E(k) < E(j) \/ (E(k) = E(j) /\ k <= j)
  BY Zenon DEF Nearest
<1> HIDE DEF E
<1> QED BY <1>7, <1>8

(* Mistakes, and points that may not fall below zero.                      *)
Charge(q) == IF ~MissPenalty THEN 0 ELSE IF q.level = Kids THEN Points(0) \div 2 ELSE Points(0)

LEMMA FailIs ==
  ASSUME NEW q, PlayerFields \subseteq DOMAIN q, NEW endHolds
  PROVE  LET r == NoDebt(Fail(q, endHolds))
         IN  /\ SameStay(r, q) /\ r.dead = q.dead /\ r.idle = q.idle /\ r.it = q.it
             /\ r.status = q.status /\ r.earned = q.earned /\ r.notes = q.notes
             /\ r.score = Max({0, q.score - Charge(q)}) /\ r.streak = 0
             /\ r.holds = IF endHolds THEN [f \in Pads |-> NoHold] ELSE q.holds
<1> DEFINE c == Charge(q)
           h == IF endHolds THEN [f \in Pads |-> NoHold] ELSE q.holds
           r == NoDebt(Fail(q, endHolds))
<1>1. Fail(q, endHolds) = EndStreak([q EXCEPT !.score = @ - c, !.holds = h])
  BY Zenon DEF Fail, Charge
<1> HIDE DEF c, h
<1>2. r = [[[q EXCEPT !.score = @ - c, !.holds = h] EXCEPT !.streak = 0]
             EXCEPT !.score = Max({0, @})]
  BY <1>1, Zenon DEF EndStreak, NoDebt
<1>3. /\ SameStay(r, q) /\ r.dead = q.dead /\ r.idle = q.idle /\ r.it = q.it
      /\ r.status = q.status /\ r.earned = q.earned /\ r.notes = q.notes
      /\ r.score = Max({0, q.score - c}) /\ r.streak = 0 /\ r.holds = h
  BY <1>2 DEF PlayerFields, SameStay
<1> QED BY <1>3, Zenon DEF c, h

LEMMA ChargeIs ==
  ASSUME NEW q, q.score \in Nat
  PROVE  Max({0, q.score - Charge(q)}) \in Nat /\ Max({0, q.score - Charge(q)}) <= q.score
<1> DEFINE c == Charge(q)
<1>1. c \in Nat
  BY DEF Charge, Points
<1> HIDE DEF c
<1>2. Max({0, q.score - c}) = IF q.score - c >= 0 THEN q.score - c ELSE 0
  BY <1>1, MaxOfTwo
<1> QED BY <1>1, <1>2 DEF c

LEMMA FailKeepsBooks ==
  ASSUME NEW q, NEW t, NEW endHolds, Books(q, t)
  PROVE  LET r == NoDebt(Fail(q, endHolds))
         IN  Books(r, t) /\ SameStay(r, q) /\ r.dead = q.dead /\ r.idle = q.idle /\ r.it = q.it
<1> DEFINE r == NoDebt(Fail(q, endHolds))
<1>1. PlayerFields \subseteq DOMAIN q /\ q.score \in Nat /\ q.streak \in Nat
      /\ q.holds = [f \in Pads |-> q.holds[f]]
  BY DEF Books, PlayTypes
<1>2. /\ SameStay(r, q) /\ r.dead = q.dead /\ r.idle = q.idle /\ r.it = q.it
      /\ r.status = q.status /\ r.earned = q.earned /\ r.notes = q.notes
      /\ r.score = Max({0, q.score - Charge(q)}) /\ r.streak = 0
      /\ r.holds = IF endHolds THEN [f \in Pads |-> NoHold] ELSE q.holds
  BY <1>1, FailIs, Zenon
<1> HIDE DEF r
<1>3. r.level = q.level /\ PlayerFields \subseteq DOMAIN r
  BY <1>2 DEF SameStay
<1>4. r.score \in Nat /\ r.score <= q.score /\ r.streak \in Nat /\ r.streak <= q.streak
  BY <1>1, <1>2, ChargeIs
<1>5. r.holds = [f \in Pads |-> r.holds[f]]
      /\ \A f \in Pads : r.holds[f] = q.holds[f] \/ r.holds[f] = NoHold
  BY <1>1, <1>2
<1>6. Books(r, t)
  BY <1>2, <1>3, <1>4, <1>5, LessKeepsBooks
<1> QED BY <1>2, <1>6 DEF r

(* A chord hit on a guitar, by a tap (1) or a pick (2).                    *)
HeldNote(c, f) == [end |-> c.begin + c.len[f], since |-> c.begin]
Strummed(q, r, best, k, gain) ==
  /\ SameStay(r, q) /\ r.dead = q.dead /\ r.idle = q.idle
  /\ r.level = q.level /\ r.it = best /\ r.notes = q.notes
  /\ r.status = [q.status EXCEPT ![best] = k] /\ r.earned = [q.earned EXCEPT ![best] = gain]
  /\ r.score = Max({0, q.score - q.earned[best] + gain})
  /\ r.streak = IF q.earned[best] = 0 THEN q.streak + 1 ELSE q.streak
  /\ r.holds = [f \in Pads |-> IF f \in DOMAIN ChordOf(q, best).len
                               THEN HeldNote(ChordOf(q, best), f) ELSE q.holds[f]]

LEMMA GuitarPlayIs ==
  ASSUME NEW q, PlayTypes(q), NEW frets, NEW picked \in BOOLEAN, NEW S,
         S = GuitarCandidates(q, frets, picked), S # {}, NEW best, best = Nearest(q, S)
  PROVE  Strummed(q, NoDebt(GuitarPlay(q, frets, picked)), best, IF picked THEN 2 ELSE 1,
                  Points(ErrorOf(q, best)) * Poly(ChordOf(q, best)))
<1> DEFINE gain == Points(ErrorOf(q, best)) * Poly(ChordOf(q, best))
           k == IF picked THEN 2 ELSE 1
           e == q.earned[best]
           s == q.score - e + gain
           n == IF e = 0 THEN q.streak + 1 ELSE q.streak
           h == [f \in Pads |-> IF f \in DOMAIN ChordOf(q, best).len
                                THEN HeldNote(ChordOf(q, best), f) ELSE q.holds[f]]
           p == GuitarPlay(q, frets, picked)
           r == NoDebt(p)
<1>0. PlayerFields \subseteq DOMAIN q
  BY DEF PlayTypes
<1>1. p = [q EXCEPT !.it = best, !.status[best] = k, !.score = @ - e + gain,
                    !.earned[best] = gain, !.streak = IF e = 0 THEN @ + 1 ELSE @,
                    !.holds = [f \in Pads |-> IF f \in DOMAIN ChordOf(q, best).len
                                              THEN HeldNote(ChordOf(q, best), f) ELSE @[f]]]
  BY Zenon DEF GuitarPlay, TakenBack, ErrorOf, ChordOf, HeldNote
<1> HIDE DEF p, gain, k, e
<1>2. /\ SameStay(p, q) /\ p.dead = q.dead /\ p.idle = q.idle
      /\ p.level = q.level /\ p.it = best /\ p.notes = q.notes
      /\ p.status = [q.status EXCEPT ![best] = k] /\ p.earned = [q.earned EXCEPT ![best] = gain]
      /\ p.score = s /\ p.streak = n /\ p.holds = h
  BY <1>0, <1>1 DEF PlayerFields, SameStay
<1>3. r = [p EXCEPT !.score = Max({0, @})]
  BY Zenon DEF NoDebt
<1> HIDE DEF r, s, n, h
<1>4. /\ SameStay(r, p) /\ r.dead = p.dead /\ r.idle = p.idle
      /\ r.level = p.level /\ r.it = p.it /\ r.notes = p.notes
      /\ r.status = p.status /\ r.earned = p.earned
      /\ r.score = Max({0, p.score}) /\ r.streak = p.streak /\ r.holds = p.holds
  BY <1>2, <1>3 DEF PlayerFields, SameStay
<1>5. SameStay(r, q)
  BY <1>2, <1>4 DEF SameStay
<1>6. r.score = Max({0, s})
  BY <1>2, <1>4
<1> QED BY <1>2, <1>4, <1>5, <1>6, Zenon DEF Strummed, r, p, s, n, h, e, k, gain

LEMMA StrumKeepsBooks ==
  ASSUME time' \in Int, ~drums, NEW q, Books(q, time'), NEW best \in InReach(q),
         NEW k \in 1 .. 2, q.status[best] <= k - 1, k = 1 => Tappable(q.level, best),
         NEW r, Strummed(q, r, best, k, Points(ErrorOf(q, best)) * Poly(ChordOf(q, best)))
  PROVE  Books(r, time')
<1> DEFINE c == ChordOf(q, best)
           D == DOMAIN c.len
           gain == Points(ErrorOf(q, best)) * Poly(c)
           e == q.earned[best]
<1>0. PlayTypes(q) /\ GuitarTypes(q) /\ TapPaid(q, time')
      /\ q.score + OwedFor(q, Pads) <= WorthOf(q, Chords(q))
      /\ q.streak <= Cardinality(StreakChords(q))
  BY DEF Books, GuitarPaid
<1>1. best \in Chords(q) /\ best >= q.it /\ best \in Nat /\ q.it \in Nat
  BY <1>0, ReachIs
<1>2. /\ PlayerFields \subseteq DOMAIN r /\ r.level = q.level /\ r.it = best /\ r.notes = q.notes
      /\ r.status = [q.status EXCEPT ![best] = k] /\ r.earned = [q.earned EXCEPT ![best] = gain]
      /\ r.score = Max({0, q.score - e + gain})
      /\ r.streak = IF e = 0 THEN q.streak + 1 ELSE q.streak
      /\ r.holds = [f \in Pads |-> IF f \in D THEN HeldNote(c, f) ELSE q.holds[f]]
  BY DEF Strummed, SameStay
<1>3. Chords(r) = Chords(q) /\ \A i : ChordOf(r, i) = ChordOf(q, i)
  BY <1>2 DEF Chords, ChordOf
<1>4. /\ q.level \in Levels /\ q.status \in [Chords(q) -> Nat] /\ q.earned \in [Chords(q) -> Nat]
      /\ q.score \in Nat /\ q.streak \in Nat /\ e \in Nat
  BY <1>0, <1>1 DEF PlayTypes
<1>5. /\ c.begin \in Nat /\ D \in SUBSET Pads /\ (\A f \in D : c.len[f] \in Nat)
      /\ Poly(c) \in Nat /\ Poly(c) >= 1 /\ HoldsWorth(c) \in Nat /\ IsFiniteSet(D)
      /\ time' - c.begin < Tolerance
  <2>1. best \in DOMAIN Chart(q.level) /\ c = Chart(q.level)[best]
    BY <1>1 DEF Chords, ChordOf
  <2>2. time' - c.begin < Tolerance
    BY <1>0, <1>1, ErrorIs
  <2>3. /\ c.begin \in Nat /\ D \in SUBSET Pads /\ (\A f \in D : c.len[f] \in Nat)
    BY <1>4, <2>1, ChordIs
  <2>4. Poly(c) \in Nat /\ Poly(c) >= 1 /\ HoldsWorth(c) \in Nat /\ IsFiniteSet(D)
    BY <1>4, <2>1, PolyIs, HoldsWorthIs
  <2> QED BY <2>2, <2>3, <2>4
<1>6. gain \in Nat /\ gain > 0 /\ gain <= 100 * Poly(c)
  <2> DEFINE x == Points(ErrorOf(q, best))
             y == Poly(c)
  <2>1. ErrorOf(q, best) \in Nat /\ ErrorOf(q, best) < Tolerance
    BY <1>0, <1>1, ErrorIs
  <2>2. x \in 0 .. 100 /\ x > 0 /\ y \in Nat /\ y >= 1
    BY <1>5, <2>1, PointsAre
  <2> HIDE DEF x, y
  <2>3. x * y \in Nat /\ x * y > 0 /\ x * y <= 100 * y
    BY <2>2
  <2> QED BY <2>3 DEF x, y
<1> HIDE DEF gain, D, c, e
<1>7. PlayTypes(r)
  <2>1. r.it \in 1 .. Len(Chart(r.level)) + 1
    BY <1>1, <1>2, <1>4, ChordsOfALevel DEF Chords
  <2>2. r.status \in [Chords(r) -> Nat] /\ r.earned \in [Chords(r) -> Nat]
    <3>1. k \in Nat
      OBVIOUS
    <3>2. /\ [q.status EXCEPT ![best] = k] \in [Chords(q) -> Nat]
          /\ [q.earned EXCEPT ![best] = gain] \in [Chords(q) -> Nat]
      BY <1>4, <1>6, <3>1
    <3> QED BY <1>2, <1>3, <3>2
  <2>3. ASSUME NEW f \in Pads
        PROVE  \/ r.holds[f] = NoHold
               \/ /\ r.holds[f] \in [end : Nat, since : Nat]
                  /\ r.holds[f].since <= r.holds[f].end
    <3>1. CASE f \in D
      <4>1. r.holds[f] = [end |-> c.begin + c.len[f], since |-> c.begin]
        BY <1>2, <3>1 DEF HeldNote
      <4>2. c.begin \in Nat /\ c.len[f] \in Nat
        BY <1>5, <3>1
      <4> QED BY <4>1, <4>2
    <3>2. CASE f \notin D
      <4>1. r.holds[f] = q.holds[f]
        BY <1>2, <3>2
      <4> QED BY <1>0, <4>1 DEF PlayTypes, HoldTypes
    <3> QED BY <3>1, <3>2
  <2>4. r.score \in Nat /\ r.streak \in Nat
    <3>1. Max({0, q.score - e + gain}) \in Nat
      <4> DEFINE x == q.score - e + gain
      <4>1. x \in Int
        BY <1>4, <1>6
      <4> HIDE DEF x
      <4>2. Max({0, x}) = IF x >= 0 THEN x ELSE 0
        BY <4>1, MaxOfTwo
      <4> QED BY <4>1, <4>2 DEF x
    <3> QED BY <1>2, <1>4, <3>1
  <2>5. \A i \in Chords(r) : i > r.it => r.status[i] = 0
    <3> SUFFICES ASSUME NEW i \in Chords(q), i > best PROVE r.status[i] = 0
      BY <1>2, <1>3
    <3>1. i \in Nat
      BY <1>4, ChordsOfALevel DEF Chords
    <3>2. i > q.it /\ i # best
      BY <1>1, <3>1
    <3>3. q.status[i] = 0
      BY <1>0, <3>2 DEF PlayTypes
    <3> QED BY <1>2, <1>4, <3>2, <3>3
  <2>6. r.holds = [f \in Pads |-> r.holds[f]]
    BY <1>2
  <2> QED BY <1>2, <1>4, <2>1, <2>2, <2>3, <2>4, <2>5, <2>6 DEF PlayTypes, HoldTypes
<1>8. GuitarTypes(r)
  <2> SUFFICES ASSUME NEW i \in Chords(q)
               PROVE  /\ r.status[i] \in 0 .. 2 /\ (r.status[i] = 1 => Tappable(q.level, i))
                      /\ r.earned[i] <= 100 * Poly(ChordOf(q, i))
                      /\ (r.earned[i] = 0 => r.status[i] = 0)
    BY <1>2, <1>3 DEF GuitarTypes
  <2>1. CASE i = best
    <3>1. r.status[i] = k /\ r.earned[i] = gain
      BY <1>1, <1>2, <1>4, <2>1
    <3>2. r.earned[i] <= 100 * Poly(ChordOf(q, i)) /\ r.earned[i] # 0
      BY <1>6, <2>1, <3>1 DEF c
    <3> QED BY <2>1, <3>1, <3>2
  <2>2. CASE i # best
    <3>1. r.status[i] = q.status[i] /\ r.earned[i] = q.earned[i]
      BY <1>2, <1>4, <2>2
    <3> QED BY <1>0, <3>1 DEF GuitarTypes
  <2> QED BY <2>1, <2>2
<1>9. r.streak <= Cardinality(StreakChords(r))
  <2>1. /\ StreakChords(q) = {i \in Chords(q) : q.status[i] # 0}
        /\ StreakChords(r) = {i \in Chords(q) : r.status[i] # 0}
    BY <1>3, Zenon DEF StreakChords
  <2>2. StreakChords(r) = StreakChords(q) \cup {best}
    BY <1>1, <1>2, <1>4, <2>1
  <2>3. IsFiniteSet(StreakChords(q)) /\ Cardinality(StreakChords(q)) \in Nat
    BY <1>0, StreakIs
  <2>4. Cardinality(StreakChords(r)) = IF best \in StreakChords(q) THEN Cardinality(StreakChords(q))
                                       ELSE Cardinality(StreakChords(q)) + 1
    BY <2>2, <2>3, FS_AddElement
  <2>5. e = 0 => best \notin StreakChords(q)
    <3>1. e = 0 => q.status[best] = 0
      BY <1>0, <1>1 DEF GuitarTypes, e
    <3> QED BY <2>1, <3>1
  <2> QED BY <1>0, <1>2, <1>4, <2>3, <2>4, <2>5
(* What is owed and what chords are worth, before and after.               *)
<1>10. \A S \in SUBSET (Pads \ D) : OwedFor(r, S) = OwedFor(q, S)
  <2> SUFFICES ASSUME NEW S \in SUBSET (Pads \ D) PROVE OwedFor(r, S) = OwedFor(q, S)
    OBVIOUS
  <2> DEFINE g == [f \in Pads |-> Owed(q.holds[f])]
             h == [f \in Pads |-> Owed(r.holds[f])]
  <2>1. \A f \in Pads : Owed(q.holds[f]) \in Nat
    BY <1>0, OwedIs
  <2>2. \A f \in S : r.holds[f] = q.holds[f] /\ f \in Pads
    BY <1>2
  <2>3. \A f \in S : h[f] \in Int /\ h[f] = g[f]
    BY <2>1, <2>2
  <2>4. IsFiniteSet(S)
    <3>1. S \in SUBSET Pads
      OBVIOUS
    <3> QED BY <3>1, ChartAssumption, FS_Subset
  <2>5. OwedFor(r, S) = SumFunctionOnSet(h, S) /\ OwedFor(q, S) = SumFunctionOnSet(g, S)
    BY Zenon DEF OwedFor
  <2> HIDE DEF g, h
  <2> QED BY <2>3, <2>4, <2>5, SumEqual
<1>11. OwedFor(r, Pads) = HoldsWorth(c) + OwedFor(q, Pads \ D)
  <2> DEFINE h == [f \in Pads |-> Owed(r.holds[f])]
             g == [f \in DOMAIN c.len |-> 5 * c.len[f]]
  <2>1. \A f \in Pads : h[f] \in Int
    BY <1>7, OwedIs
  <2>2. ASSUME NEW f \in D PROVE h[f] = g[f]
    <3>1. f \in Pads /\ c.begin \in Nat /\ c.len[f] \in Nat
      BY <1>5, <2>2
    <3>2. r.holds[f] = [end |-> c.begin + c.len[f], since |-> c.begin]
      BY <1>2, <2>2, <3>1 DEF HeldNote
    <3>3. r.holds[f] # NoHold
      <4>1. r.holds[f].since = c.begin /\ NoHold.since = -1
        BY <3>2 DEF NoHold
      <4> QED BY <3>1, <4>1
    <3>4. r.holds[f].end = c.begin + c.len[f] /\ r.holds[f].since = c.begin
      BY <3>2
    <3>5. Owed(r.holds[f]) = 5 * c.len[f]
      <4>1. Owed(r.holds[f]) = 5 * (r.holds[f].end - r.holds[f].since)
        BY <3>3, Zenon DEF Owed
      <4> QED BY <3>1, <3>4, <4>1
    <3>6. g[f] = 5 * c.len[f]
      BY <2>2 DEF D
    <3> QED BY <3>1, <3>5, <3>6
  <2>3. OwedFor(r, Pads) = SumFunctionOnSet(h, Pads)
        /\ OwedFor(r, Pads \ D) = SumFunctionOnSet(h, Pads \ D)
    BY Zenon DEF OwedFor
  <2>4. HoldsWorth(c) = SumFunctionOnSet(g, D)
    BY Zenon DEF HoldsWorth, D
  <2>5. D \in SUBSET Pads /\ IsFiniteSet(Pads) /\ IsFiniteSet(D)
    BY <1>5, ChartAssumption
  <2> HIDE DEF h, g
  <2>6. SumFunctionOnSet(h, Pads) = SumFunctionOnSet(h, D) + SumFunctionOnSet(h, Pads \ D)
    BY <2>1, <2>5, SumSplit
  <2>7. SumFunctionOnSet(h, D) = SumFunctionOnSet(g, D)
    <3>1. \A f \in D : h[f] \in Int /\ h[f] = g[f]
      BY <2>1, <2>2, <2>5
    <3> QED BY <2>5, <3>1, SumEqual
  <2>8. OwedFor(r, Pads \ D) = OwedFor(q, Pads \ D)
    BY <1>10
  <2> QED BY <2>3, <2>4, <2>6, <2>7, <2>8
<1> DEFINE others == WorthOf(q, Chords(q) \ {best})
<1>12. WorthOf(r, Chords(r) \ {best}) = others
  <2> DEFINE g == [i \in Chords(q) |-> Worth(q, i)]
             h == [i \in Chords(r) |-> Worth(r, i)]
             S == Chords(q) \ {best}
  <2>1. ASSUME NEW i \in S PROVE h[i] \in Int /\ h[i] = g[i]
    <3>1. r.status[i] = q.status[i]
      BY <1>2, <1>4
    <3>2. Worth(r, i) = Worth(q, i)
      BY <1>2, <3>1, Zenon DEF Worth
    <3>3. Worth(q, i) \in Nat
      BY <1>0, WorthIs
    <3> QED BY <1>3, <3>2, <3>3
  <2>2. IsFiniteSet(S)
    BY <1>4, ChordsOfALevel, FS_Subset DEF Chords
  <2>3. WorthOf(r, Chords(r) \ {best}) = SumFunctionOnSet(h, S) /\ others = SumFunctionOnSet(g, S)
    BY <1>3, Zenon DEF WorthOf
  <2> HIDE DEF g, h, S
  <2> QED BY <2>1, <2>2, <2>3, SumEqual
<1>13. /\ WorthOf(r, Chords(r)) = Worth(r, best) + others /\ others \in Nat
       /\ WorthOf(q, Chords(q)) = Worth(q, best) + others
  BY <1>0, <1>1, <1>3, <1>7, <1>12, WorthSumIs
<1>14. /\ Worth(r, best) = 100 * Poly(c) + HoldsWorth(c)
                             + IF Tappable(q.level, best) /\ k = 2 THEN 10 ELSE 0
       /\ q.status[best] = 0 => Worth(q, best) = 0
  <2>1. r.status[best] = k /\ k # 0
    BY <1>1, <1>2, <1>4
  <2>2. c = ChordOf(r, best) /\ best \in Chords(r)
    BY <1>1, <1>3 DEF c
  <2>3. Worth(r, best) = 100 * Poly(ChordOf(r, best))
                           + IF drums THEN 0
                             ELSE HoldsWorth(ChordOf(r, best))
                                    + IF Tappable(r.level, best) /\ r.status[best] = 2 THEN 10 ELSE 0
    BY <1>7, <2>1, <2>2, WorthIs
  <2>4. q.status[best] = 0 => Worth(q, best) = 0
    BY <1>0, <1>1, WorthIs
  <2>5. HoldsWorth(c) \in Nat /\ Poly(c) \in Nat
    BY <1>5
  <2>6. Worth(r, best) = 100 * Poly(c)
                           + (HoldsWorth(c) + IF Tappable(q.level, best) /\ k = 2 THEN 10 ELSE 0)
    BY <1>2, <2>1, <2>2, <2>3, Zenon
  <2> DEFINE a == IF Tappable(q.level, best) /\ k = 2 THEN 10 ELSE 0
             w == HoldsWorth(c)
             y == Poly(c)
  <2>7. Worth(r, best) = 100 * y + (w + a) /\ w \in Nat /\ y \in Nat /\ a \in Nat
    BY <2>5, <2>6
  <2> HIDE DEF a, w, y
  <2>8. Worth(r, best) = 100 * y + w + a
    BY <2>7
  <2> QED BY <2>4, <2>8 DEF a, w, y
<1>15. OwedFor(q, Pads \ D) \in Nat /\ OwedFor(q, Pads \ D) <= OwedFor(q, Pads)
       /\ OwedFor(q, Pads) \in Nat
  <2>1. Pads \ D \in SUBSET Pads /\ Pads \in SUBSET Pads
    OBVIOUS
  <2> QED BY <1>0, <2>1, OwedIs
<1>16. r.score = IF q.score - e + gain >= 0 THEN q.score - e + gain ELSE 0
  <2> DEFINE x == q.score - e + gain
  <2>1. x \in Int
    BY <1>4, <1>6
  <2> HIDE DEF x
  <2>2. Max({0, x}) = IF x >= 0 THEN x ELSE 0
    BY <2>1, MaxOfTwo
  <2> QED BY <1>2, <2>2 DEF x
<1> DEFINE owed == OwedFor(q, Pads \ D)
           w == HoldsWorth(c)
           y == Poly(c)
           again == IF Tappable(q.level, best) /\ k = 2 THEN 10 ELSE 0
<1>17. owed \in Nat /\ w \in Nat /\ y \in Nat /\ others \in Nat /\ again \in Nat
  BY <1>5, <1>13, <1>15
<1>18. q.status[best] = 0 => q.score + owed <= others
  <2> SUFFICES ASSUME q.status[best] = 0 PROVE q.score + owed <= others
    OBVIOUS
  <2>1. WorthOf(q, Chords(q)) = others
    BY <1>13, <1>14
  <2> HIDE DEF owed, others
  <2> QED BY <1>0, <1>4, <1>15, <1>17, <2>1 DEF owed
<1>19. r.score + OwedFor(r, Pads) <= WorthOf(r, Chords(r))
  <2>1. OwedFor(r, Pads) = w + owed /\ WorthOf(r, Chords(r)) = (100 * y + w + again) + others
    BY <1>11, <1>13, <1>14
  <2>2. CASE q.status[best] = 0
    <3>1. q.score + owed <= others
      BY <1>18, <2>2
    <3>2. gain <= 100 * y
      BY <1>6
    <3> HIDE DEF owed, w, y, again, others
    <3> QED BY <1>4, <1>6, <1>16, <1>17, <2>1, <3>1, <3>2
  <2>3. CASE q.status[best] # 0
    <3>1. q.status[best] = 1 /\ k = 2
      BY <1>1, <1>4, <2>3
    <3>2. best = q.it
      <4>1. best > q.it => q.status[best] = 0
        BY <1>0, <1>1 DEF PlayTypes
      <4> QED BY <1>1, <2>3, <4>1
    <3>3. Tappable(q.level, best)
      BY <1>0, <1>1, <3>1 DEF GuitarTypes
    <3>4. y = 1
      BY <3>3 DEF Tappable, c, ChordOf
    <3>5. PICK f \in Pads : D = {f}
      <4>1. best \in DOMAIN Chart(q.level) /\ Poly(Chart(q.level)[best]) = 1
        BY <1>1, <3>4 DEF Chords, c, ChordOf
      <4> QED BY <1>4, <4>1, OnlyFret DEF D, c, ChordOf
    <3>6. PICK n \in Nat : TapSoFar(q, f, n) /\ (n = 0 \/ n <= time' - c.begin)
      BY <1>0, <1>1, <3>1, <3>2, <3>5 DEF TapPaid, c, D
    <3>7. q.score + owed <= others + e + 5 * n
      BY <3>2, <3>5, <3>6, Zenon DEF TapSoFar, e
    <3>8. n <= 2
      BY <1>5, <3>6 DEF Tolerance
    <3>9. e <= 100
      <4>1. e <= 100 * y
        BY <1>0, <1>1 DEF GuitarTypes, e, c
      <4> QED BY <3>4, <4>1
    <3>10. again = 10 /\ gain <= 100
      BY <1>6, <3>1, <3>3, <3>4
    <3> HIDE DEF owed, w, y, again, others
    <3> QED BY <1>4, <1>6, <1>16, <1>17, <2>1, <3>4, <3>6, <3>7, <3>8, <3>9, <3>10
  <2> QED BY <2>2, <2>3
<1>20. TapPaid(r, time')
  <2> SUFFICES ASSUME k = 1, NEW f \in D
               PROVE  TapSoFar(r, f, 0)
    <3>1. r.status[r.it] = k /\ ChordOf(r, r.it) = c
      BY <1>1, <1>2, <1>3, <1>4 DEF c
    <3> QED BY <3>1 DEF TapPaid, D
  <2>1. Tappable(q.level, best) /\ q.status[best] = 0
    BY <1>1, <1>4
  <2>2. D = {f}
    <3>1. Poly(Chart(q.level)[best]) = 1 /\ best \in DOMAIN Chart(q.level)
      BY <1>1, <2>1 DEF Tappable, Chords
    <3>2. PICK x \in Pads : D = {x}
      BY <1>4, <3>1, OnlyFret DEF D, c, ChordOf
    <3> QED BY <3>2
  <2>3. HoldOf(c, f, 0, r.holds[f])
    <3>1. r.holds[f] = [end |-> c.begin + c.len[f], since |-> c.begin]
      BY <1>2, <1>5 DEF HeldNote
    <3>2. c.begin = c.begin + 0
      BY <1>5
    <3> QED BY <3>1, <3>2 DEF HoldOf
  <2>4. OwedFor(r, Pads \ {f}) = owed
    BY <1>10, <2>2
  <2>5. r.score + owed <= others + gain + 5 * 0
    <3>1. q.score + owed <= others
      BY <1>18, <2>1
    <3> HIDE DEF owed, others
    <3> QED BY <1>4, <1>6, <1>16, <1>17, <3>1
  <2>6. r.earned[r.it] = gain /\ ChordOf(r, r.it) = c /\ r.it = best
    BY <1>1, <1>2, <1>3, <1>4 DEF c
  <2> QED BY <1>12, <2>3, <2>4, <2>5, <2>6, Zenon DEF TapSoFar
<1> QED BY <1>7, <1>8, <1>9, <1>19, <1>20 DEF Books, GuitarPaid

LEMMA NoDebtKeepsBooks ==
  ASSUME NEW q, NEW t, Books(q, t)
  PROVE  LET r == NoDebt(q)
         IN  Books(r, t) /\ SameStay(r, q) /\ r.dead = q.dead /\ r.idle = q.idle /\ r.it = q.it
<1> DEFINE r == NoDebt(q)
<1>0. PlayerFields \subseteq DOMAIN q /\ q.score \in Nat
  BY DEF Books, PlayTypes
<1>1. Max({0, q.score}) = q.score
  BY <1>0, MaxOfTwo
<1>2. r = [q EXCEPT !.score = Max({0, @})]
  BY Zenon DEF NoDebt
<1>3. /\ SameStay(r, q) /\ r.dead = q.dead /\ r.idle = q.idle /\ r.it = q.it /\ SamePlay(r, q)
  BY <1>0, <1>1, <1>2 DEF PlayerFields, SameStay, SamePlay
<1> QED BY <1>3, SamePlaySameBooks

LEMMA GuitarKeepsBooks ==
  ASSUME time' \in Int, ~drums, NEW q, Books(q, time'), NEW frets, NEW picked \in BOOLEAN
  PROVE  LET r == NoDebt(GuitarPlay(q, frets, picked))
         IN  Books(r, time') /\ SameStay(r, q) /\ r.dead = q.dead /\ r.idle = q.idle /\ r.it >= q.it
<1> DEFINE S == GuitarCandidates(q, frets, picked)
           best == Nearest(q, S)
           r == NoDebt(GuitarPlay(q, frets, picked))
<1>0. PlayTypes(q) /\ q.it \in Nat
  BY ReachIs DEF Books
<1>1. CASE S = {}
  <2>1. GuitarPlay(q, frets, picked) = IF picked THEN Fail(q, TRUE) ELSE q
    BY <1>1, Zenon DEF GuitarPlay
  <2>2. CASE picked
    <3>1. r = NoDebt(Fail(q, TRUE))
      BY <2>1, <2>2
    <3> HIDE DEF r
    <3>2. Books(r, time') /\ SameStay(r, q) /\ r.dead = q.dead /\ r.idle = q.idle /\ r.it = q.it
      BY <3>1, FailKeepsBooks, Zenon
    <3> QED BY <1>0, <3>2 DEF r
  <2>3. CASE ~picked
    <3>1. r = NoDebt(q)
      BY <2>1, <2>3
    <3> HIDE DEF r
    <3>2. Books(r, time') /\ SameStay(r, q) /\ r.dead = q.dead /\ r.idle = q.idle /\ r.it = q.it
      BY <3>1, NoDebtKeepsBooks, Zenon
    <3> QED BY <1>0, <3>2 DEF r
  <2> QED BY <2>2, <2>3
<1>2. CASE S # {}
  <2> DEFINE k == IF picked THEN 2 ELSE 1
  <2>1. Strummed(q, r, best, k, Points(ErrorOf(q, best)) * Poly(ChordOf(q, best)))
    BY <1>0, <1>2, GuitarPlayIs
  <2>2. best \in S
    <3>1. S \in SUBSET InReach(q)
      BY DEF GuitarCandidates
    <3> HIDE DEF S
    <3> QED BY <1>0, <1>2, <3>1, NearestIs
  <2>3. best \in InReach(q) /\ q.status[best] <= (IF picked THEN 1 ELSE 0)
        /\ (picked \/ Tappable(q.level, best))
    <3> HIDE DEF best
    <3> QED BY <2>2 DEF GuitarCandidates
  <2>4. k \in 1 .. 2 /\ q.status[best] <= k - 1 /\ (k = 1 => Tappable(q.level, best))
    <3> HIDE DEF best
    <3> QED BY <2>3
  <2> HIDE DEF r, best, k
  <2>5. Books(r, time')
    BY <2>1, <2>3, <2>4, StrumKeepsBooks
  <2>6. SameStay(r, q) /\ r.dead = q.dead /\ r.idle = q.idle /\ r.it = best
    BY <2>1 DEF Strummed
  <2>7. best >= q.it
    BY <1>0, <2>3, ReachIs
  <2> QED BY <2>5, <2>6, <2>7 DEF r
<1> QED BY <1>1, <1>2

(* A pad of the drums hit.                                                 *)
Struck(q, r, best, pad, gain) ==
  /\ SameStay(r, q) /\ r.dead = q.dead /\ r.idle = q.idle
  /\ r.level = q.level /\ r.it = best /\ r.holds = q.holds
  /\ r.status = [q.status EXCEPT ![best] = @ + 1]
  /\ r.earned = [q.earned EXCEPT ![best] = @ + gain]
  /\ r.notes = q.notes \cup {NoteKey(q.level, best, pad)}
  /\ r.score = Max({0, q.score + gain})
  /\ r.streak = KeptStreak(q, best) + IF q.status[best] + 1 = Poly(ChordOf(q, best)) THEN 1 ELSE 0

StrikeGain(q, best) ==
  IF q.level = Kids THEN Points(ErrorOf(q, best) \div 2) ELSE Points(ErrorOf(q, best))

LEMMA DrumHitIs ==
  ASSUME NEW q, PlayTypes(q), NEW pad, NEW S, S = DrumCandidates(q, pad), S # {},
         q.it <= Len(Chart(q.level)), NEW best, best = Nearest(q, S)
  PROVE  Struck(q, NoDebt(DrumHit(q, pad)), best, pad, StrikeGain(q, best))
<1> DEFINE gain == StrikeGain(q, best)
           kept == KeptStreak(q, best)
           hits == q.status[best] + 1
           n == IF hits = Poly(ChordOf(q, best)) THEN kept + 1 ELSE kept
           key == NoteKey(q.level, best, pad)
           p == DrumHit(q, pad)
           r == NoDebt(p)
<1>0. PlayerFields \subseteq DOMAIN q
  BY DEF PlayTypes
<1>1. ~(q.it > Len(Chart(q.level)))
  <2>1. q.it \in 1 .. Len(Chart(q.level)) + 1 /\ Len(Chart(q.level)) \in Nat
    BY ChordsOfALevel DEF PlayTypes
  <2> QED BY <2>1
<1>2. p = [q EXCEPT !.it = best, !.status[best] = hits, !.earned[best] = @ + gain,
                    !.score = @ + gain, !.notes = @ \cup {key}, !.streak = n]
  BY <1>1, Zenon DEF DrumHit, StrikeGain, ErrorOf, ChordOf
<1> HIDE DEF p, gain, kept, n, key
<1>3. /\ SameStay(p, q) /\ p.dead = q.dead /\ p.idle = q.idle
      /\ p.level = q.level /\ p.it = best /\ p.holds = q.holds
      /\ p.status = [q.status EXCEPT ![best] = hits] /\ p.earned = [q.earned EXCEPT ![best] = @ + gain]
      /\ p.notes = q.notes \cup {key} /\ p.score = q.score + gain /\ p.streak = n
  BY <1>0, <1>2 DEF PlayerFields, SameStay
<1>4. r = [p EXCEPT !.score = Max({0, @})]
  BY Zenon DEF NoDebt
<1> HIDE DEF r
<1>5. /\ SameStay(r, p) /\ r.dead = p.dead /\ r.idle = p.idle
      /\ r.level = p.level /\ r.it = p.it /\ r.holds = p.holds
      /\ r.status = p.status /\ r.earned = p.earned /\ r.notes = p.notes
      /\ r.score = Max({0, p.score}) /\ r.streak = p.streak
  BY <1>3, <1>4 DEF PlayerFields, SameStay
<1>6. SameStay(r, q)
  BY <1>3, <1>5 DEF SameStay
<1>7. kept \in Nat
  BY DEF kept, KeptStreak, PlayTypes
<1>8. n = kept + IF hits = Poly(ChordOf(q, best)) THEN 1 ELSE 0
  BY <1>7 DEF n
<1>9. r.score = Max({0, q.score + gain}) /\ r.streak = n
  BY <1>3, <1>5
<1> HIDE DEF hits
<1>10. Struck(q, r, best, pad, gain)
  BY <1>3, <1>5, <1>6, <1>8, <1>9, Zenon DEF Struck, kept, hits, key
<1> QED BY <1>10 DEF gain, r, p

LEMMA StrikeGainIs ==
  ASSUME time' \in Int, NEW q, PlayTypes(q), NEW best \in InReach(q)
  PROVE  StrikeGain(q, best) \in 0 .. 100
<1>1. ErrorOf(q, best) \in Nat
  BY ReachIs, ErrorIs
<1>2. ErrorOf(q, best) \div 2 \in Nat
  BY <1>1
<1> QED BY <1>1, <1>2, PointsAre DEF StrikeGain

LEMMA StrikeTypes ==
  ASSUME time' \in Int, NEW q, PlayTypes(q), NEW best \in InReach(q), NEW pad, NEW r,
         Struck(q, r, best, pad, StrikeGain(q, best))
  PROVE  /\ PlayTypes(r) /\ Chords(r) = Chords(q) /\ \A i : ChordOf(r, i) = ChordOf(q, i)
         /\ r.score \in Nat /\ r.score <= q.score + 100
<1> DEFINE gain == StrikeGain(q, best)
<1>0. best \in Chords(q) /\ best >= q.it /\ best \in Nat /\ q.it \in Nat
  BY ReachIs
<1>1. Chords(r) = Chords(q) /\ \A i : ChordOf(r, i) = ChordOf(q, i)
  BY DEF Struck, Chords, ChordOf
<1>2. gain \in 0 .. 100
  BY StrikeGainIs
<1> HIDE DEF gain
<1>3. /\ q.level \in Levels /\ q.status \in [Chords(q) -> Nat] /\ q.earned \in [Chords(q) -> Nat]
      /\ q.score \in Nat
  BY DEF PlayTypes
<1>4. /\ r.level = q.level /\ r.it = best /\ r.holds = q.holds
      /\ r.status = [q.status EXCEPT ![best] = @ + 1]
      /\ r.earned = [q.earned EXCEPT ![best] = @ + gain]
      /\ r.score = Max({0, q.score + gain}) /\ PlayerFields \subseteq DOMAIN r
  BY DEF Struck, SameStay, gain
<1>5. r.status \in [Chords(r) -> Nat] /\ r.earned \in [Chords(r) -> Nat]
  <2>1. q.status[best] + 1 \in Nat /\ q.earned[best] + gain \in Nat
    BY <1>0, <1>2, <1>3
  <2>2. /\ [q.status EXCEPT ![best] = @ + 1] \in [Chords(q) -> Nat]
        /\ [q.earned EXCEPT ![best] = @ + gain] \in [Chords(q) -> Nat]
    BY <1>3, <2>1
  <2> QED BY <1>1, <1>4, <2>2
<1>6. r.score \in Nat /\ r.score <= q.score + 100
  <2>1. q.score + gain \in Nat
    BY <1>2, <1>3
  <2>2. Max({0, q.score + gain}) = IF q.score + gain >= 0 THEN q.score + gain ELSE 0
    BY <2>1, MaxOfTwo
  <2> QED BY <1>2, <1>3, <1>4, <2>1, <2>2
<1>7. r.it \in 1 .. Len(Chart(r.level)) + 1
  BY <1>0, <1>3, <1>4, ChordsOfALevel DEF Chords
<1>8. r.streak \in Nat
  <2>1. KeptStreak(q, best) \in Nat
    BY DEF KeptStreak, PlayTypes
  <2>2. r.streak = KeptStreak(q, best) + IF q.status[best] + 1 = Poly(ChordOf(q, best)) THEN 1 ELSE 0
    BY DEF Struck
  <2> QED BY <2>1, <2>2
<1>9. \A i \in Chords(r) : i > r.it => r.status[i] = 0
  <2> SUFFICES ASSUME NEW i \in Chords(q), i > best PROVE r.status[i] = 0
    BY <1>1, <1>4
  <2>1. i \in Nat
    BY <1>3, ChordsOfALevel DEF Chords
  <2>2. i > q.it /\ i # best
    BY <1>0, <2>1
  <2>3. q.status[i] = 0
    BY <2>2 DEF PlayTypes
  <2> QED BY <1>3, <1>4, <2>2, <2>3
<1>10. HoldTypes(r) /\ r.holds = [f \in Pads |-> r.holds[f]]
  BY <1>4 DEF HoldTypes, PlayTypes
<1>11. PlayTypes(r)
  BY <1>1, <1>3, <1>4, <1>5, <1>6, <1>7, <1>8, <1>9, <1>10, Zenon DEF PlayTypes
<1> QED BY <1>1, <1>6, <1>11

(* Skipping an incomplete chord ends the streak; a chord completed is one  *)
(* that was not complete before.                                           *)
LEMMA StrikeStreak ==
  ASSUME time' \in Int, drums, NEW q, PlayTypes(q), q.streak <= Cardinality(StreakChords(q)),
         NEW best \in InReach(q), NEW pad, NEW r,
         Struck(q, r, best, pad, StrikeGain(q, best))
  PROVE  r.streak <= Cardinality(StreakChords(r))
<1>1. /\ PlayTypes(r) /\ Chords(r) = Chords(q) /\ \A i : ChordOf(r, i) = ChordOf(q, i)
  BY StrikeTypes
<1>2. best \in Chords(q) /\ best >= q.it /\ best \in Nat /\ q.it \in Nat
  BY ReachIs
<1>3. /\ r.it = best /\ r.status = [q.status EXCEPT ![best] = @ + 1]
      /\ r.streak = KeptStreak(q, best) + IF q.status[best] + 1 = Poly(ChordOf(q, best)) THEN 1 ELSE 0
  BY DEF Struck
<1>4. /\ q.level \in Levels /\ q.status \in [Chords(q) -> Nat] /\ q.streak \in Nat
      /\ Chords(q) = 1 .. Len(Chart(q.level)) /\ Len(Chart(q.level)) \in Nat
      /\ \A i \in Chords(q) : Poly(ChordOf(q, i)) \in Nat
  <2>1. q.level \in Levels /\ q.status \in [Chords(q) -> Nat] /\ q.streak \in Nat
    BY DEF PlayTypes
  <2> QED BY <2>1, ChordsOfALevel, PolyIs DEF Chords, ChordOf
<1>5. \A i \in Chords(q) : i # best => (Complete(r, i) <=> Complete(q, i))
  <2> SUFFICES ASSUME NEW i \in Chords(q), i # best PROVE r.status[i] = q.status[i]
    BY <1>1 DEF Complete
  <2> QED BY <1>3, <1>4
<1>6. Complete(q, best) => Complete(r, best)
  <2>1. r.status[best] = q.status[best] + 1 /\ q.status[best] \in Nat
    BY <1>2, <1>3, <1>4
  <2> QED BY <1>1, <1>2, <1>4, <2>1 DEF Complete
<1>7. MissedBefore(r) = MissedBefore(q) \cup {i \in q.it .. best - 1 : ~Complete(q, i)}
  <2>1. \A i \in 1 .. best - 1 : i \in Chords(q) /\ i # best
    BY <1>2, <1>4
  <2>2. \A i \in 1 .. best - 1 : Complete(r, i) <=> Complete(q, i)
    BY <1>5, <2>1
  <2>3. MissedBefore(r) = {i \in 1 .. best - 1 : ~Complete(q, i)}
    BY <1>3, <2>2 DEF MissedBefore
  <2>4. q.it >= 1
    BY ReachIs
  <2>5. \A i : i \in 1 .. best - 1 <=> (i \in 1 .. q.it - 1 \/ i \in q.it .. best - 1)
    BY <1>2, <2>4
  <2> QED BY <2>3, <2>5 DEF MissedBefore
<1>8. PICK m \in Nat : /\ m < r.it /\ (m = 0 \/ m \in MissedBefore(r))
                       /\ StreakChords(r) = {i \in Chords(r) : i > m /\ Complete(r, i)}
  BY <1>1, StreakIs
<1>9. Cardinality(StreakChords(r)) \in Nat /\ IsFiniteSet(StreakChords(r))
      /\ Cardinality(StreakChords(q)) \in Nat /\ IsFiniteSet(StreakChords(q))
  BY <1>1, StreakIs
<1> DEFINE full == q.status[best] + 1 = Poly(ChordOf(q, best))
<1>10. ASSUME full
       PROVE  /\ best \notin StreakChords(q) /\ best \in StreakChords(r)
              /\ Cardinality(StreakChords(r)) >= 1
  <2>1. r.status[best] = q.status[best] + 1 /\ q.status[best] \in Nat
    BY <1>2, <1>3, <1>4
  <2>2. Complete(r, best) /\ ~Complete(q, best)
    BY <1>1, <1>2, <1>4, <1>10, <2>1 DEF Complete
  <2>3. best \in StreakChords(r)
    BY <1>1, <1>2, <1>3, <1>8, <2>2
  <2>4. best \notin StreakChords(q)
    BY <2>2 DEF StreakChords
  <2>5. Cardinality(StreakChords(r)) # 0
    BY <1>9, <2>3, FS_EmptySet
  <2> QED BY <1>9, <2>3, <2>4, <2>5
<1>11. CASE \E i \in q.it .. best - 1 : q.status[i] < Poly(Chart(q.level)[i])
  <2>1. KeptStreak(q, best) = 0
    BY <1>11 DEF KeptStreak
  <2>2. r.streak = IF full THEN 1 ELSE 0
    BY <1>3, <2>1
  <2> HIDE DEF full
  <2> QED BY <1>9, <1>10, <2>2
<1>12. CASE ~ \E i \in q.it .. best - 1 : q.status[i] < Poly(Chart(q.level)[i])
  <2>1. KeptStreak(q, best) = q.streak
    BY <1>12, Zenon DEF KeptStreak
  <2>2. ASSUME NEW i \in q.it .. best - 1 PROVE Complete(q, i)
    <3>1. i \in Chords(q) /\ q.status[i] \in Nat
      <4>1. q.it >= 1
        BY ReachIs
      <4> QED BY <1>2, <1>4, <4>1
    <3>2. ~(q.status[i] < Poly(ChordOf(q, i)))
      BY <1>12 DEF ChordOf
    <3> QED BY <1>4, <3>1, <3>2 DEF Complete
  <2>3. MissedBefore(r) = MissedBefore(q)
    BY <1>7, <2>2
  <2>4. StreakChords(q) \in SUBSET StreakChords(r)
    <3>1. \A i \in Chords(q) : Complete(q, i) => Complete(r, i)
      BY <1>5, <1>6
    <3> QED BY <1>1, <2>3, <3>1 DEF StreakChords
  <2>5. CASE full
    <3>1. StreakChords(q) \cup {best} \in SUBSET StreakChords(r)
      BY <1>10, <2>4, <2>5
    <3>2. Cardinality(StreakChords(q) \cup {best}) = Cardinality(StreakChords(q)) + 1
      BY <1>9, <1>10, <2>5, FS_AddElement
    <3>3. Cardinality(StreakChords(q) \cup {best}) <= Cardinality(StreakChords(r))
      BY <1>9, <3>1, FS_Subset
    <3>4. r.streak = q.streak + 1
      BY <1>3, <2>1, <2>5
    <3> QED BY <1>4, <1>9, <3>2, <3>3, <3>4
  <2>6. CASE ~full
    <3>1. Cardinality(StreakChords(q)) <= Cardinality(StreakChords(r))
      BY <1>9, <2>4, FS_Subset
    <3>2. r.streak = q.streak
      BY <1>3, <1>4, <2>1, <2>6
    <3> QED BY <1>4, <1>9, <3>1, <3>2
  <2> QED BY <2>5, <2>6
<1> QED BY <1>11, <1>12

(* On the kids' level a chord is hit at most as often as it has notes.     *)
LEMMA StrikeKids ==
  ASSUME time' \in Int, NEW q, PlayTypes(q), KidsPaid(q), NEW best \in InReach(q),
         q.status[q.it] # Poly(ChordOf(q, q.it)), q.it \in Chords(q), NEW pad, NEW r,
         Struck(q, r, best, pad, StrikeGain(q, best))
  PROVE  KidsPaid(r)
<1>1. /\ PlayTypes(r) /\ Chords(r) = Chords(q) /\ \A i : ChordOf(r, i) = ChordOf(q, i)
      /\ r.score \in Nat /\ r.score <= q.score + 100
  BY StrikeTypes
<1>2. best \in Chords(q) /\ best >= q.it /\ best \in Nat /\ q.it \in Nat
  BY ReachIs
<1>3. /\ q.status \in [Chords(q) -> Nat] /\ q.score \in Nat /\ IsFiniteSet(Chords(q))
      /\ \A i \in Chords(q) : Poly(ChordOf(q, i)) \in Nat /\ Poly(ChordOf(q, i)) >= 1
  BY ChordsOfALevel, PolyIs DEF PlayTypes, Chords, ChordOf
<1>4. r.status = [q.status EXCEPT ![best] = @ + 1]
  BY DEF Struck
<1>5. q.status[best] < Poly(ChordOf(q, best))
  <2>1. CASE best = q.it
    <3>1. q.status[best] <= Poly(ChordOf(q, best)) /\ q.status[best] # Poly(ChordOf(q, best))
      BY <1>2, <2>1 DEF KidsPaid
    <3> QED BY <1>2, <1>3, <3>1
  <2>2. CASE best # q.it
    <3>1. best > q.it
      BY <1>2, <2>2
    <3>2. q.status[best] = 0
      BY <1>2, <3>1 DEF PlayTypes
    <3> QED BY <1>2, <1>3, <3>2
  <2> QED BY <2>1, <2>2
<1>6. ASSUME NEW i \in Chords(r) PROVE r.status[i] <= Poly(ChordOf(r, i))
  <2>1. CASE i = best
    <3>1. r.status[i] = q.status[best] + 1
      BY <1>2, <1>3, <1>4, <2>1
    <3> QED BY <1>1, <1>2, <1>3, <1>5, <2>1, <3>1
  <2>2. CASE i # best
    <3>1. r.status[i] = q.status[i]
      BY <1>1, <1>3, <1>4, <2>2
    <3> QED BY <1>1, <3>1 DEF KidsPaid
  <2> QED BY <2>1, <2>2
<1> DEFINE g == [i \in Chords(q) |-> 100 * q.status[i]]
           h == [i \in Chords(q) |-> 100 * r.status[i]]
<1>7. \A i \in Chords(q) : /\ g[i] \in Int /\ h[i] \in Int
                           /\ i # best => g[i] = h[i]
                           /\ i = best => h[i] = g[i] + 100
  <2> SUFFICES ASSUME NEW i \in Chords(q)
               PROVE  /\ g[i] \in Int /\ h[i] \in Int
                      /\ i # best => g[i] = h[i]
                      /\ i = best => h[i] = g[i] + 100
    OBVIOUS
  <2>1. q.status[i] \in Nat /\ r.status[i] = IF i = best THEN q.status[i] + 1 ELSE q.status[i]
    BY <1>3, <1>4
  <2> QED BY <2>1
<1>8. q.score <= SumFunctionOnSet(g, Chords(q))
  BY DEF KidsPaid
<1> HIDE DEF g, h
<1>9. SumFunctionOnSet(h, Chords(q)) = SumFunctionOnSet(g, Chords(q)) - g[best] + h[best]
  <2>1. \A i \in Chords(q) : g[i] \in Int /\ h[i] \in Int /\ (i # best => g[i] = h[i])
    BY <1>7
  <2>2. IsFiniteSet(Chords(q)) /\ best \in Chords(q)
    BY <1>2, <1>3
  <2> QED BY ONLY <2>1, <2>2, SumChanges
<1>10. SumFunctionOnSet(g, Chords(q)) \in Int
  BY <1>3, <1>7, SumType
<1>11. r.score <= SumFunctionOnSet(h, Chords(q))
  BY <1>1, <1>2, <1>3, <1>7, <1>8, <1>9, <1>10
<1>12. h = [i \in Chords(r) |-> 100 * r.status[i]]
  BY <1>1 DEF h
<1> QED BY <1>1, <1>6, <1>11, <1>12, Zenon DEF KidsPaid

(* On other levels each note is hit once, and once a pad that has no note. *)
LEMMA StrikeNotes ==
  ASSUME time' \in Int, NEW q, PlayTypes(q), NotesPaid(q), NEW best \in InReach(q), NEW pad,
         NoteKey(q.level, best, pad) \notin q.notes, NEW r,
         Struck(q, r, best, pad, StrikeGain(q, best))
  PROVE  NotesPaid(r)
<1> DEFINE key == NoteKey(q.level, best, pad)
           D == DOMAIN ChordOf(q, best).len
<1>1. /\ PlayTypes(r) /\ Chords(r) = Chords(q) /\ \A i : ChordOf(r, i) = ChordOf(q, i)
      /\ r.score \in Nat /\ r.score <= q.score + 100
  BY StrikeTypes
<1>2. best \in Chords(q)
  BY ReachIs
<1>3. /\ q.status \in [Chords(q) -> Nat] /\ q.score \in Nat /\ IsFiniteSet(Chords(q))
      /\ \A i \in Chords(q) : IsFiniteSet(DOMAIN ChordOf(q, i).len)
  BY ChordsOfALevel, PolyIs DEF PlayTypes, Chords, ChordOf
<1>4. /\ r.status = [q.status EXCEPT ![best] = @ + 1] /\ r.level = q.level
      /\ r.notes = q.notes \cup {key}
  BY DEF Struck
<1>5. key = IF pad \in D THEN <<q.level, best, pad>> ELSE NoPad
  BY Zenon DEF NoteKey, ChordOf
<1>6. \A i, f : <<q.level, i, f>> # NoPad
  BY DEF NoPad
<1> HIDE DEF key, D
<1>7. \A i \in Chords(q) : NotesHit(r, i) = {f \in DOMAIN ChordOf(q, i).len :
                                               <<q.level, i, f>> \in q.notes \cup {key}}
  BY <1>1, <1>4 DEF NotesHit
<1>8. \A i \in Chords(q) : NotesHit(r, i) = IF i = best /\ pad \in D THEN NotesHit(q, i) \cup {pad}
                                            ELSE NotesHit(q, i)
  <2> SUFFICES ASSUME NEW i \in Chords(q)
               PROVE  NotesHit(r, i) = IF i = best /\ pad \in D THEN NotesHit(q, i) \cup {pad}
                                       ELSE NotesHit(q, i)
    OBVIOUS
  <2>1. CASE i = best /\ pad \in D
    <3>1. \A f : <<q.level, i, f>> \in q.notes \cup {key} <=> (<<q.level, i, f>> \in q.notes \/ f = pad)
      BY <1>5, <2>1
    <3>2. pad \in DOMAIN ChordOf(q, i).len
      BY <2>1 DEF D
    <3> QED BY <1>7, <2>1, <3>1, <3>2 DEF NotesHit
  <2>2. CASE ~(i = best /\ pad \in D)
    <3>1. \A f : <<q.level, i, f>> # key
      BY <1>5, <1>6, <2>2
    <3> QED BY <1>7, <2>2, <3>1 DEF NotesHit
  <2> QED BY <2>1, <2>2
<1>9. \A i \in Chords(q) : IsFiniteSet(NotesHit(q, i)) /\ Cardinality(NotesHit(q, i)) \in Nat
  <2>1. \A i \in Chords(q) : NotesHit(q, i) \in SUBSET (DOMAIN ChordOf(q, i).len)
    BY DEF NotesHit
  <2> QED BY <1>3, <2>1, FS_Subset, FS_CardinalityType
<1>10. pad \in D => pad \notin NotesHit(q, best)
  <2> SUFFICES ASSUME pad \in D, pad \in NotesHit(q, best) PROVE FALSE
    OBVIOUS
  <2>1. <<q.level, best, pad>> \in q.notes /\ key = <<q.level, best, pad>>
    BY <1>5 DEF NotesHit
  <2> QED BY <2>1 DEF key
<1>11. ASSUME NEW i \in Chords(r), r.status[i] = 0 PROVE NotesHit(r, i) = {}
  <2>1. i # best /\ q.status[i] = 0
    BY <1>1, <1>2, <1>3, <1>4, <1>11
  <2> QED BY <1>1, <1>8, <2>1 DEF NotesPaid
<1> DEFINE g == [i \in Chords(q) |-> 100 * Cardinality(NotesHit(q, i))]
           h == [i \in Chords(q) |-> 100 * Cardinality(NotesHit(r, i))]
           x == IF NoPad \in q.notes THEN 100 ELSE 0
           y == IF NoPad \in r.notes THEN 100 ELSE 0
<1>12. \A i \in Chords(q) : /\ g[i] \in Int /\ h[i] \in Int
                            /\ i # best => g[i] = h[i]
                            /\ i = best => h[i] = g[i] + IF pad \in D THEN 100 ELSE 0
  <2> SUFFICES ASSUME NEW i \in Chords(q)
               PROVE  /\ g[i] \in Int /\ h[i] \in Int
                      /\ i # best => g[i] = h[i]
                      /\ i = best => h[i] = g[i] + IF pad \in D THEN 100 ELSE 0
    OBVIOUS
  <2> DEFINE c == Cardinality(NotesHit(q, i))
             m == Cardinality(NotesHit(r, i))
  <2>1. c \in Nat /\ m = IF i = best /\ pad \in D THEN c + 1 ELSE c
    <3>1. CASE i = best /\ pad \in D
      BY <1>8, <1>9, <1>10, <3>1, FS_AddElement
    <3>2. CASE ~(i = best /\ pad \in D)
      BY <1>8, <1>9, <3>2
    <3> QED BY <3>1, <3>2
  <2>2. g[i] = 100 * c /\ h[i] = 100 * m
    OBVIOUS
  <2> HIDE DEF c, m, g, h
  <2> QED BY <2>1, <2>2
<1>13. q.score <= SumFunctionOnSet(g, Chords(q)) + x
  BY DEF NotesPaid
<1> HIDE DEF g, h
<1>14. SumFunctionOnSet(h, Chords(q)) = SumFunctionOnSet(g, Chords(q)) - g[best] + h[best]
  BY <1>2, <1>3, <1>12, SumChanges
<1>15. SumFunctionOnSet(g, Chords(q)) \in Int
  BY <1>3, <1>12, SumType
<1>16. pad \in D => x = y
  BY <1>4, <1>5, <1>6
<1>17. pad \notin D => x = 0 /\ y = 100
  <2> SUFFICES ASSUME pad \notin D PROVE x = 0 /\ y = 100
    OBVIOUS
  <2>1. key = NoPad
    BY <1>5
  <2>2. NoPad \notin q.notes /\ NoPad \in r.notes
    BY <1>4, <2>1 DEF key
  <2> QED BY <2>2
<1>18. x \in Int /\ y \in Int
  OBVIOUS
<1> HIDE DEF x, y
<1>19. r.score <= SumFunctionOnSet(h, Chords(q)) + y
  BY <1>1, <1>2, <1>3, <1>12, <1>13, <1>14, <1>15, <1>16, <1>17, <1>18
<1>20. h = [i \in Chords(r) |-> 100 * Cardinality(NotesHit(r, i))]
  BY <1>1 DEF h
<1> QED BY <1>1, <1>11, <1>19, <1>20, Zenon DEF NotesPaid, y

LEMMA DrumsKeepBooks ==
  ASSUME time' \in Int, drums, NEW q, Books(q, time'), NEW pad
  PROVE  LET r == NoDebt(DrumHit(q, pad))
         IN  Books(r, time') /\ SameStay(r, q) /\ r.dead = q.dead /\ r.idle = q.idle /\ r.it >= q.it
<1> DEFINE S == DrumCandidates(q, pad)
           best == Nearest(q, S)
           r == NoDebt(DrumHit(q, pad))
<1>0. PlayTypes(q) /\ q.it \in Nat /\ q.it >= 1 /\ (q.it <= Len(Chart(q.level)) => q.it \in Chords(q))
      /\ Len(Chart(q.level)) \in Nat
  BY ReachIs, ChordsOfALevel DEF Books, PlayTypes
<1>1. CASE q.it > Len(Chart(q.level)) \/ S = {}
  <2>1. DrumHit(q, pad) = Fail(q, FALSE)
    BY <1>1, Zenon DEF DrumHit
  <2>2. r = NoDebt(Fail(q, FALSE))
    BY <2>1
  <2> HIDE DEF r
  <2>3. Books(r, time') /\ SameStay(r, q) /\ r.dead = q.dead /\ r.idle = q.idle /\ r.it = q.it
    BY <2>2, FailKeepsBooks, Zenon
  <2> QED BY <1>0, <2>3 DEF r
<1>2. CASE q.it <= Len(Chart(q.level)) /\ S # {}
  <2>1. Struck(q, r, best, pad, StrikeGain(q, best))
    BY <1>0, <1>2, DrumHitIs
  <2>2. S \in SUBSET InReach(q)
    BY DEF DrumCandidates
  <2>3. best \in S
    <3> HIDE DEF S
    <3> QED BY <1>0, <1>2, <2>2, NearestIs
  <2>4. best \in InReach(q)
    <3> HIDE DEF S, best
    <3> QED BY <2>2, <2>3
  <2>5. q.level = Kids => q.status[q.it] # Poly(ChordOf(q, q.it))
    BY <1>2 DEF DrumCandidates, ChordOf
  <2>6. q.level # Kids => NoteKey(q.level, best, pad) \notin q.notes
    <3> HIDE DEF best
    <3> QED BY <2>3 DEF DrumCandidates
  <2> HIDE DEF r, best, S
  <2>7. PlayTypes(r) /\ r.streak <= Cardinality(StreakChords(r))
    BY <1>0, <2>1, <2>4, StrikeTypes, StrikeStreak DEF Books
  <2>8. DrumsPaid(r)
    <3>1. DrumsPaid(q)
      BY DEF Books
    <3>2. r.holds = q.holds /\ r.level = q.level
      BY <2>1 DEF Struck
    <3>3. q.level = Kids => KidsPaid(r)
      BY <1>0, <1>2, <2>1, <2>4, <2>5, <3>1, StrikeKids DEF DrumsPaid
    <3>4. q.level # Kids => NotesPaid(r)
      BY <1>0, <2>1, <2>4, <2>6, <3>1, StrikeNotes DEF DrumsPaid
    <3> QED BY <3>1, <3>2, <3>3, <3>4 DEF DrumsPaid
  <2>9. SameStay(r, q) /\ r.dead = q.dead /\ r.idle = q.idle /\ r.it = best
    BY <2>1 DEF Struck
  <2>10. best >= q.it
    BY <1>0, <2>4, ReachIs
  <2>11. Books(r, time')
    BY <2>7, <2>8 DEF Books
  <2> QED BY <2>9, <2>10, <2>11 DEF r
<1>3. q.it > Len(Chart(q.level)) \/ q.it <= Len(Chart(q.level))
  BY <1>0
<1> QED BY <1>1, <1>2, <1>3

(* Everything an event may do to a game that is played.                    *)
Played(r, q) == SameStay(r, q) /\ r.dead = q.dead /\ r.idle = q.idle /\ r.it \in Nat /\ r.it >= q.it

LEMMA ReleaseKeepsBooks ==
  ASSUME NEW q, NEW t, NEW pad, Books(q, t)
  PROVE  LET r == NoDebt(EndHold(q, pad))
         IN  Books(r, t) /\ Played(r, q)
<1> DEFINE p == EndHold(q, pad)
           r == NoDebt(p)
<1>1. PlayTypes(q) /\ PlayerFields \subseteq DOMAIN q /\ q.score \in Nat /\ q.streak \in Nat
      /\ q.holds = [f \in Pads |-> q.holds[f]] /\ q.it \in Nat
  BY ReachIs DEF Books, PlayTypes
<1>2. p = [q EXCEPT !.holds = [q.holds EXCEPT ![pad] = NoHold]]
  BY Zenon DEF EndHold
<1> HIDE DEF p, r
<1>3. /\ SameStay(p, q) /\ p.dead = q.dead /\ p.idle = q.idle /\ p.it = q.it
      /\ p.status = q.status /\ p.earned = q.earned /\ p.notes = q.notes
      /\ p.score = q.score /\ p.streak = q.streak
      /\ p.holds = [q.holds EXCEPT ![pad] = NoHold]
  BY <1>1, <1>2 DEF PlayerFields, SameStay
<1>4. p.level = q.level /\ PlayerFields \subseteq DOMAIN p
  BY <1>3 DEF SameStay
<1>5. p.holds = [f \in Pads |-> p.holds[f]]
      /\ \A f \in Pads : p.holds[f] = q.holds[f] \/ p.holds[f] = NoHold
  BY <1>1, <1>3
<1>6. Books(p, t)
  BY <1>1, <1>3, <1>4, <1>5, LessKeepsBooks
<1>7. Books(r, t) /\ SameStay(r, p) /\ r.dead = p.dead /\ r.idle = p.idle /\ r.it = p.it
  BY <1>6, NoDebtKeepsBooks, Zenon DEF r
<1>8. SameStay(r, q)
  BY <1>3, <1>7 DEF SameStay
<1>9. r.dead = q.dead /\ r.idle = q.idle /\ r.it = q.it
  BY <1>3, <1>7
<1>10. Played(r, q)
  BY <1>1, <1>8, <1>9 DEF Played
<1> QED BY <1>7, <1>10 DEF r, p

LEMMA EventIs ==
  ASSUME NEW e \in Events
  PROVE  /\ e.key \in {"press", "release", "start", "pick"} /\ (e.key = "pick" => ~drums)
         /\ e.key \in {"press", "release"} => e.pad \in Pads \cup player.pressed
<1>1. \/ e \in [key : {"press"}, pad : Pads \ player.pressed]
      \/ e \in [key : {"release"}, pad : player.pressed]
      \/ e = [key |-> "start"]
      \/ ~drums /\ e \in {[key |-> "pick"]}
  BY DEF Events
<1>2. CASE e \in [key : {"press"}, pad : Pads \ player.pressed]
  BY <1>2
<1>3. CASE e \in [key : {"release"}, pad : player.pressed]
  BY <1>3
<1>4. CASE e = [key |-> "start"]
  BY <1>4
<1>5. CASE ~drums /\ e \in {[key |-> "pick"]}
  BY <1>5
<1> QED BY <1>1, <1>2, <1>3, <1>4, <1>5

LEMMA PlayKeepsBooks ==
  ASSUME time' \in Int, NEW q, Books(q, time'), NEW e \in Events, NEW s \in Play(q, e)
  PROVE  LET r == NoDebt(s)
         IN  Books(r, time') /\ Played(r, q)
<1> DEFINE r == NoDebt(s)
<1>0. q.it \in Nat /\ PlayTypes(q)
  BY ReachIs DEF Books
<1>1. \/ drums /\ s = DrumHit(q, e.pad)
      \/ s = q
      \/ ~drums /\ s = GuitarPlay(q, {e.pad}, FALSE)
      \/ s = EndHold(q, e.pad)
      \/ ~drums /\ s = GuitarPlay(q, q.pressed, TRUE)
  BY EventIs, Zenon DEF Play
<1>2. CASE drums /\ s = DrumHit(q, e.pad)
  <2>1. r = NoDebt(DrumHit(q, e.pad))
    BY <1>2
  <2> HIDE DEF r
  <2>2. Books(r, time') /\ SameStay(r, q) /\ r.dead = q.dead /\ r.idle = q.idle /\ r.it >= q.it
    BY <1>2, <2>1, DrumsKeepBooks, Zenon
  <2>3. r.it \in Nat
    BY <2>2, ReachIs DEF Books
  <2> QED BY <2>2, <2>3 DEF Played, r
<1>3. CASE s = q
  BY <1>0, <1>3, NoDebtKeepsBooks DEF Played
<1>4. CASE ~drums /\ s = GuitarPlay(q, {e.pad}, FALSE)
  <2>1. r = NoDebt(GuitarPlay(q, {e.pad}, FALSE))
    BY <1>4
  <2> HIDE DEF r
  <2>2. Books(r, time') /\ SameStay(r, q) /\ r.dead = q.dead /\ r.idle = q.idle /\ r.it >= q.it
    BY <1>4, <2>1, GuitarKeepsBooks, Zenon
  <2>3. r.it \in Nat
    BY <2>2, ReachIs DEF Books
  <2> QED BY <2>2, <2>3 DEF Played, r
<1>5. CASE s = EndHold(q, e.pad)
  BY <1>5, ReleaseKeepsBooks
<1>6. CASE ~drums /\ s = GuitarPlay(q, q.pressed, TRUE)
  <2>1. r = NoDebt(GuitarPlay(q, q.pressed, TRUE))
    BY <1>6
  <2> HIDE DEF r
  <2>2. Books(r, time') /\ SameStay(r, q) /\ r.dead = q.dead /\ r.idle = q.idle /\ r.it >= q.it
    BY <1>6, <2>1, GuitarKeepsBooks, Zenon
  <2>3. r.it \in Nat
    BY <2>2, ReachIs DEF Books
  <2> QED BY <2>2, <2>3 DEF Played, r
<1> QED BY <1>1, <1>2, <1>3, <1>4, <1>5, <1>6

(* A game in which nothing has been played.                                *)
Unplayed(q) ==
  /\ PlayerFields \subseteq DOMAIN q /\ q.level \in Levels
  /\ q.score = 0 /\ q.streak = 0 /\ q.notes = {}
  /\ q.status = FreshStatus(q.level) /\ q.earned = FreshStatus(q.level)
  /\ q.holds = [f \in Pads |-> NoHold]

LEMMA UnplayedBooks ==
  ASSUME NEW q, NEW t, Unplayed(q), q.it \in 1 .. Len(Chart(q.level)) + 1
  PROVE  Books(q, t)
<1>1. /\ PlayerFields \subseteq DOMAIN q /\ q.level \in Levels
      /\ q.score = 0 /\ q.streak = 0 /\ q.notes = {}
      /\ q.status = FreshStatus(q.level) /\ q.earned = FreshStatus(q.level)
      /\ q.holds = [f \in Pads |-> NoHold]
  BY Zenon DEF Unplayed
<1>2. /\ q.status \in [Chords(q) -> Nat] /\ q.earned \in [Chords(q) -> Nat]
      /\ \A i \in Chords(q) : q.status[i] = 0 /\ q.earned[i] = 0
  BY <1>1 DEF FreshStatus, Chords
<1>3. HoldTypes(q) /\ q.holds = [f \in Pads |-> q.holds[f]]
  BY <1>1 DEF HoldTypes
<1>4. PlayTypes(q)
  BY <1>1, <1>2, <1>3 DEF PlayTypes
<1>5. q.streak <= Cardinality(StreakChords(q))
  <2>1. Cardinality(StreakChords(q)) \in Nat
    BY <1>4, StreakIs, Zenon
  <2> QED BY <1>1, <2>1
<1>6. \A i \in Chords(q) : Poly(ChordOf(q, i)) \in Nat
  BY <1>1, PolyIs DEF Chords, ChordOf
<1>7. IsFiniteSet(Chords(q))
  BY <1>1, ChordsOfALevel DEF Chords
<1>8. CASE drums
  <2>1. KidsPaid(q)
    <3> DEFINE g == [i \in Chords(q) |-> 100 * q.status[i]]
    <3>1. \A i \in Chords(q) : g[i] \in Nat
      BY <1>2
    <3>2. SumFunctionOnSet(g, Chords(q)) \in Nat
      <4> HIDE DEF g
      <4> QED BY <1>7, <3>1, NaturalSum
    <3> HIDE DEF g
    <3>3. q.score <= SumFunctionOnSet(g, Chords(q))
      BY <1>1, <3>2
    <3> QED BY <1>2, <1>6, <3>3 DEF KidsPaid, g
  <2>2. NotesPaid(q)
    <3> DEFINE g == [i \in Chords(q) |-> 100 * Cardinality(NotesHit(q, i))]
    <3>1. \A i \in Chords(q) : NotesHit(q, i) = {}
      BY <1>1 DEF NotesHit
    <3>2. Cardinality({}) = 0
      BY FS_EmptySet
    <3>3. \A i \in Chords(q) : g[i] \in Nat
      <4> TAKE i \in Chords(q)
      <4>1. Cardinality(NotesHit(q, i)) = 0
        BY <3>1, <3>2, Zenon
      <4>2. g[i] = 100 * Cardinality(NotesHit(q, i))
        BY Zenon
      <4> HIDE DEF g
      <4> QED BY <4>1, <4>2
    <3>4. SumFunctionOnSet(g, Chords(q)) \in Nat
      <4> HIDE DEF g
      <4> QED BY <1>7, <3>3, NaturalSum
    <3> HIDE DEF g
    <3>5. q.score <= SumFunctionOnSet(g, Chords(q)) + IF NoPad \in q.notes THEN 100 ELSE 0
      BY <1>1, <3>4
    <3> QED BY <3>1, <3>5 DEF NotesPaid, g
  <2> QED BY <1>1, <1>4, <1>5, <1>8, <2>1, <2>2 DEF Books, DrumsPaid
<1>9. CASE ~drums
  <2>1. GuitarTypes(q)
    BY <1>2, <1>6 DEF GuitarTypes
  <2>2. OwedFor(q, Pads) = 0
    <3> DEFINE g == [f \in Pads |-> Owed(q.holds[f])]
    <3>1. IsFiniteSet(Pads)
      BY ChartAssumption, Zenon
    <3>2. \A f \in Pads : g[f] = 0
      BY <1>1 DEF Owed
    <3> HIDE DEF g
    <3>3. SumFunctionOnSet(g, Pads) = 0
      BY <3>1, <3>2, SumOfZeros
    <3> QED BY <3>3 DEF OwedFor, g
  <2>3. WorthOf(q, Chords(q)) \in Nat
    BY <1>4, WorthSumIs
  <2>4. TapPaid(q, t)
    BY <1>2 DEF TapPaid
  <2> QED BY <1>1, <1>4, <1>5, <1>9, <2>1, <2>2, <2>3, <2>4 DEF Books, GuitarPaid
<1> QED BY <1>8, <1>9

(* Such a game stays so while no chord can be reached.                     *)
LEMMA StaysUnplayed ==
  ASSUME NEW q, Unplayed(q), NEW r, PlayerFields \subseteq DOMAIN r, r.level = q.level,
         r.score = 0, r.streak = 0, r.notes = q.notes, r.status = q.status,
         r.earned = q.earned, r.holds = [f \in Pads |-> NoHold]
  PROVE  Unplayed(r)
BY DEF Unplayed

LEMMA SkipKeepsUnplayed ==
  ASSUME NEW q, Unplayed(q)
  PROVE  Unplayed(SkipMissed(q))
<1> DEFINE r == SkipMissed(q)
<1>1. /\ PlayerFields \subseteq DOMAIN q /\ q.score = 0 /\ q.streak = 0
      /\ q.holds = [f \in Pads |-> NoHold]
  BY DEF Unplayed
<1>2. /\ SameStay(r, q) /\ r.score = q.score /\ r.level = q.level /\ r.status = q.status
      /\ r.earned = q.earned /\ r.notes = q.notes /\ r.holds = q.holds
      /\ r.streak = IF \E i \in Past(q) : Missed(q, i) THEN 0 ELSE q.streak
  BY <1>1, SkipIs, Zenon
<1> HIDE DEF r
<1>3. PlayerFields \subseteq DOMAIN r
  BY <1>2 DEF SameStay
<1>4. r.streak = 0
  BY <1>1, <1>2
<1>5. Unplayed(r)
  BY <1>1, <1>2, <1>3, <1>4, StaysUnplayed
<1> QED BY <1>5 DEF r

LEMMA HoldsKeepUnplayed ==
  ASSUME NEW q, Unplayed(q)
  PROVE  Unplayed(ProcessHolds(q))
<1> DEFINE r == ProcessHolds(q)
           last(f) == Min({time', q.holds[f].end})
           due == {f \in Pads : q.holds[f] # NoHold /\ last(f) >= q.holds[f].since}
           pay == [f \in due |-> 5 * (last(f) - q.holds[f].since)]
           next == [f \in Pads |-> IF f \notin due THEN q.holds[f]
                                   ELSE IF last(f) = q.holds[f].end THEN NoHold
                                   ELSE [q.holds[f] EXCEPT !.since = time']]
           s == q.score + SumFunctionOnSet(pay, due)
<1>1. /\ PlayerFields \subseteq DOMAIN q /\ q.score = 0 /\ q.streak = 0
      /\ q.holds = [f \in Pads |-> NoHold]
  BY DEF Unplayed
<1>2. r = [q EXCEPT !.score = s, !.holds = next]
  BY Zenon DEF ProcessHolds
<1>3. due = {}
  BY <1>1
<1>4. next = [f \in Pads |-> NoHold]
  <2>1. \A f \in Pads : f \notin due /\ q.holds[f] = NoHold
    BY <1>1, <1>3
  <2> QED BY <2>1
<1>5. SumFunctionOnSet(pay, due) = 0
  <2> HIDE DEF pay, due
  <2> QED BY <1>3, SumOfNone
<1>6. s = 0
  BY <1>1, <1>5
<1> HIDE DEF s, next
<1>7. /\ PlayerFields \subseteq DOMAIN r /\ r.level = q.level /\ r.score = s
      /\ r.streak = q.streak /\ r.notes = q.notes /\ r.status = q.status
      /\ r.earned = q.earned /\ r.holds = next
  BY <1>1, <1>2 DEF PlayerFields
<1> HIDE DEF r
<1>8. Unplayed(r)
  BY <1>1, <1>4, <1>6, <1>7, StaysUnplayed
<1> QED BY <1>8 DEF r

LEMMA NoneInReach ==
  ASSUME time' \in Int, time' <= -Tolerance, NEW q, PlayTypes(q)
  PROVE  InReach(q) = {}
<1> SUFFICES ASSUME NEW i \in InReach(q) PROVE FALSE
  OBVIOUS
<1>1. i \in Chords(q) /\ q.level \in Levels
  BY ReachIs DEF PlayTypes
<1>2. ChordOf(q, i).begin \in Nat
  BY <1>1, ChordIs DEF Chords, ChordOf
<1>3. Abs(ChordOf(q, i).begin - time') < Tolerance
  BY DEF InReach, ChordOf
<1> QED BY <1>2, <1>3 DEF Abs, Tolerance

LEMMA FailKeepsUnplayed ==
  ASSUME NEW q, Unplayed(q), NEW endHolds
  PROVE  Unplayed(NoDebt(Fail(q, endHolds)))
<1> DEFINE r == NoDebt(Fail(q, endHolds))
<1>1. /\ PlayerFields \subseteq DOMAIN q /\ q.score = 0
      /\ q.holds = [f \in Pads |-> NoHold]
  BY DEF Unplayed
<1>2. /\ SameStay(r, q) /\ r.status = q.status /\ r.earned = q.earned /\ r.notes = q.notes
      /\ r.score = Max({0, q.score - Charge(q)}) /\ r.streak = 0
      /\ r.holds = IF endHolds THEN [f \in Pads |-> NoHold] ELSE q.holds
  BY <1>1, FailIs, Zenon
<1> HIDE DEF r
<1>3. PlayerFields \subseteq DOMAIN r /\ r.level = q.level
  BY <1>2 DEF SameStay
<1>4. r.score = 0
  <2>1. r.score \in Nat /\ r.score <= q.score
    BY <1>1, <1>2, ChargeIs
  <2> QED BY <1>1, <2>1
<1>5. Unplayed(r)
  BY <1>1, <1>2, <1>3, <1>4, StaysUnplayed
<1> QED BY <1>5 DEF r

LEMMA NoDebtKeepsUnplayed ==
  ASSUME NEW q, Unplayed(q), NEW r, r = [q EXCEPT !.score = Max({0, @})]
  PROVE  Unplayed(r)
<1>1. /\ PlayerFields \subseteq DOMAIN q /\ q.score = 0 /\ q.streak = 0
      /\ q.holds = [f \in Pads |-> NoHold]
  BY DEF Unplayed
<1>2. Max({0, q.score}) = 0
  BY <1>1, MaxOfTwo
<1>3. /\ PlayerFields \subseteq DOMAIN r /\ r.level = q.level /\ r.score = Max({0, q.score})
      /\ r.streak = q.streak /\ r.notes = q.notes /\ r.status = q.status
      /\ r.earned = q.earned /\ r.holds = q.holds
  BY <1>1 DEF PlayerFields
<1> QED BY <1>1, <1>2, <1>3, StaysUnplayed

LEMMA PlayKeepsUnplayed ==
  ASSUME time' \in Int, time' <= -Tolerance, NEW q, Unplayed(q), PlayTypes(q),
         NEW e \in Events, NEW s \in Play(q, e)
  PROVE  Unplayed(NoDebt(s))
<1> DEFINE r == NoDebt(s)
<1>1. InReach(q) = {}
  BY NoneInReach
<1>2. r = [s EXCEPT !.score = Max({0, @})]
  BY Zenon DEF NoDebt
<1>3. q.holds = [f \in Pads |-> NoHold] /\ PlayerFields \subseteq DOMAIN q
      /\ q.score = 0 /\ q.streak = 0
  BY DEF Unplayed
<1>4. \A frets, picked : GuitarCandidates(q, frets, picked) = {}
  BY <1>1 DEF GuitarCandidates
<1>5. \A pad : DrumCandidates(q, pad) = {}
  BY <1>1 DEF DrumCandidates
<1>6. \A frets, picked : GuitarPlay(q, frets, picked) = IF picked THEN Fail(q, TRUE) ELSE q
  BY <1>4, Zenon DEF GuitarPlay
<1>7. \A pad : DrumHit(q, pad) = Fail(q, FALSE)
  BY <1>5, Zenon DEF DrumHit
<1>8. \/ s = q \/ s = Fail(q, FALSE) \/ s = Fail(q, TRUE) \/ s = EndHold(q, e.pad)
  <2>1. \/ s = DrumHit(q, e.pad)
        \/ s = q
        \/ s = GuitarPlay(q, {e.pad}, FALSE)
        \/ s = EndHold(q, e.pad)
        \/ s = GuitarPlay(q, q.pressed, TRUE)
    BY EventIs, Zenon DEF Play
  <2>2. GuitarPlay(q, {e.pad}, FALSE) = q /\ GuitarPlay(q, q.pressed, TRUE) = Fail(q, TRUE)
    BY <1>6
  <2> QED BY <1>7, <2>1, <2>2
<1> HIDE DEF r
<1>9. CASE s = q
  BY <1>2, <1>9, NoDebtKeepsUnplayed DEF r
<1>10. CASE s = Fail(q, FALSE)
  BY <1>10, FailKeepsUnplayed
<1>11. CASE s = Fail(q, TRUE)
  BY <1>11, FailKeepsUnplayed
<1>12. CASE s = EndHold(q, e.pad)
  <2>1. s = [q EXCEPT !.holds = [q.holds EXCEPT ![e.pad] = NoHold]]
    BY <1>12, Zenon DEF EndHold
  <2>2. [q.holds EXCEPT ![e.pad] = NoHold] = [f \in Pads |-> NoHold]
    BY <1>3
  <2>3. /\ PlayerFields \subseteq DOMAIN s /\ s.level = q.level /\ s.score = q.score
        /\ s.streak = q.streak /\ s.notes = q.notes /\ s.status = q.status
        /\ s.earned = q.earned /\ s.holds = [f \in Pads |-> NoHold]
    BY <1>3, <2>1, <2>2 DEF PlayerFields
  <2>4. Unplayed(s)
    BY <1>3, <2>3, StaysUnplayed
  <2> QED BY <1>2, <2>4, NoDebtKeepsUnplayed DEF r
<1> QED BY <1>8, <1>9, <1>10, <1>11, <1>12

-----------------------------------------------------------------------------
(* The game of a player who is fairly judged at time t: who has not begun, *)
(* or could not have hit anything yet, has nothing, and the join menu is   *)
(* shown again only before JoinEarly.                                      *)
Before(q, t) ==
  /\ q.joinTime \in Int /\ (q.joinTime = JoinEarly \/ t >= 0)
  /\ ~q.left /\ ~q.ready => Unplayed(q)
  /\ t <= -Tolerance => Unplayed(q)
  /\ ~q.left /\ q.ready /\ q.menu = "join" => q.joinTime = JoinEarly

(* Only notes that went by while the player did nothing count as missed    *)
(* by somebody who has gone away.                                          *)
Kept(q) == q.dead \in Nat /\ q.idle \in Nat /\ (~q.left => q.dead <= q.idle)

FairGame(q, t) == Books(q, t) /\ Before(q, t) /\ Kept(q)

(* Chords from the iterator on can still be played.                        *)
InTime(q, t) == \A i \in Chords(q) : i >= q.it => ChordOf(q, i).begin + Tolerance >= t

GuitarInv ==
  /\ time \in Int
  /\ joined => /\ PlayerFields \subseteq DOMAIN player
               /\ ~player.rewound =>
                    FairGame(player, time) /\ (InTime(player, time) \/ time < player.joinTime - 1)

(* A game that differs only in fields that say nothing of what was played. *)
LEMMA LikeGame ==
  ASSUME NEW q, NEW t, FairGame(q, t), NEW r, SamePlay(r, q),
         r.left = q.left, r.joinTime = q.joinTime, ~r.ready => ~q.ready,
         ~r.left /\ r.ready /\ r.menu = "join" => r.joinTime = JoinEarly, Kept(r)
  PROVE  FairGame(r, t) /\ \A u : InTime(q, u) => InTime(r, u)
<1>1. Books(r, t)
  BY SamePlaySameBooks DEF FairGame
<1>2. Unplayed(q) => Unplayed(r)
  BY DEF SamePlay, Unplayed
<1>3. Before(r, t)
  <2>1. /\ q.joinTime \in Int /\ (q.joinTime = JoinEarly \/ t >= 0)
        /\ ~q.left /\ ~q.ready => Unplayed(q)
        /\ t <= -Tolerance => Unplayed(q)
    BY DEF FairGame, Before
  <2> QED BY <1>2, <2>1 DEF Before
<1>4. \A u : InTime(q, u) => InTime(r, u)
  BY DEF SamePlay, InTime, Chords, ChordOf
<1> QED BY <1>1, <1>3, <1>4 DEF FairGame

(* What the events of a frame leave to the engine.                         *)
Outcome(q) ==
  /\ PlayerFields \subseteq DOMAIN q
  /\ ~q.rewound =>
       FairGame(q, time') /\ (InTime(q, time) \/ time < q.joinTime - 1 \/ Joining(q))

IdleAfter(q) == IF Joining(q) THEN q.idle ELSE q.idle + Cardinality(LeftBehind(q.level))

(* The engine keeps the game fair.                                         *)
LEMMA EngineIsFair ==
  ASSUME time \in Int, time' \in Int, time <= time', time' <= time + 1, NEW q, Outcome(q),
         NEW p, p = [ProcessHolds(SkipMissed(q)) EXCEPT !.idle = IdleAfter(q)]
  PROVE  /\ PlayerFields \subseteq DOMAIN p
         /\ ~p.rewound => FairGame(p, time') /\ InTime(p, time')
<1> DEFINE s == SkipMissed(q)
           r == ProcessHolds(s)
           n == Cardinality(Past(q))
<1>1. PlayerFields \subseteq DOMAIN q
  BY DEF Outcome
<1>2. /\ SameStay(s, q) /\ s.idle = q.idle /\ s.it = q.it + n
      /\ s.dead = q.dead + Absence(q, n) /\ PlayerFields \subseteq DOMAIN s
  <2>1. /\ SameStay(s, q) /\ s.idle = q.idle /\ s.it = q.it + n
        /\ s.dead = q.dead + Absence(q, n)
    BY <1>1, SkipIs, Zenon
  <2> QED BY <2>1 DEF SameStay
<1>3. /\ SameStay(r, s) /\ r.dead = s.dead /\ r.idle = s.idle /\ r.it = s.it
  <2> HIDE DEF s
  <2> QED BY <1>2, HoldsAreLeft
<1>4. p = [r EXCEPT !.idle = IdleAfter(q)]
  BY Zenon
<1>5. Unplayed(q) => Unplayed(r)
  BY SkipKeepsUnplayed, HoldsKeepUnplayed
<1>6. Books(q, time') => Books(r, time')
  BY SkipKeepsBooks, HoldsKeepBooks
<1> HIDE DEF r, s
<1>7. /\ SameStay(r, q) /\ r.it = q.it + n /\ r.dead = q.dead + Absence(q, n)
      /\ PlayerFields \subseteq DOMAIN r
  BY <1>2, <1>3 DEF SameStay
<1>8. /\ SameStay(p, r) /\ SamePlay(p, r) /\ p.dead = r.dead /\ p.idle = IdleAfter(q)
      /\ PlayerFields \subseteq DOMAIN p
  BY <1>4, <1>7 DEF PlayerFields, SameStay, SamePlay
<1>9. SameStay(p, q) /\ p.it = q.it + n /\ p.dead = q.dead + Absence(q, n)
  BY <1>7, <1>8 DEF SameStay, SamePlay
<1>10. ASSUME ~p.rewound PROVE FairGame(p, time') /\ InTime(p, time')
  <2>1. ~q.rewound
    BY <1>9, <1>10 DEF SameStay
  <2>2. /\ Books(q, time') /\ Before(q, time') /\ Kept(q)
        /\ InTime(q, time) \/ time < q.joinTime - 1 \/ Joining(q)
    BY <2>1 DEF Outcome, FairGame
  <2>3. PlayTypes(q)
    BY <2>2 DEF Books
  <2>4. Books(p, time')
    BY <1>6, <1>8, <2>2, SamePlaySameBooks
  <2>5. Unplayed(q) => Unplayed(p)
    <3>1. Unplayed(q) => Unplayed(r)
      BY <1>5
    <3>2. Unplayed(r) => Unplayed(p)
      BY <1>8 DEF SamePlay, Unplayed
    <3> QED BY <3>1, <3>2
  <2>6. Before(p, time')
    BY <1>9, <2>2, <2>5 DEF Before, SameStay
  <2>7. /\ n \in Nat /\ Past(q) = q.it .. q.it + n - 1 /\ q.it \in Nat
        /\ \A i \in Chords(q) : i >= q.it + n => ChordOf(q, i).begin + Tolerance >= time'
    BY <2>3, PastAreNext, ReachIs
  <2>8. InTime(p, time')
    <3>1. p.level = q.level
      BY <1>9 DEF SameStay
    <3> QED BY <1>9, <2>7, <3>1 DEF InTime, Chords, ChordOf
  <2>9. Kept(p)
    <3>1. CASE Joining(q)
      <4>1. p.dead = q.dead /\ p.idle = q.idle
        BY <1>8, <1>9, <2>2, <3>1 DEF Absence, IdleAfter, Kept
      <4> QED BY <1>9, <2>2, <4>1 DEF Kept, SameStay
    <3>2. CASE ~Joining(q)
      <4>1. p.dead = q.dead + n /\ p.idle = q.idle + Cardinality(LeftBehind(q.level))
        BY <1>8, <1>9, <3>2 DEF Absence, IdleAfter
      <4>2. IsFiniteSet(LeftBehind(q.level)) /\ Cardinality(LeftBehind(q.level)) \in Nat
        <5>1. LeftBehind(q.level) \in SUBSET Chords(q) /\ IsFiniteSet(Chords(q))
          BY <2>3, ChordsOfALevel DEF LeftBehind, Chords, PlayTypes
        <5> QED BY <5>1, FS_Subset, FS_CardinalityType
      <4>3. ~q.left => n <= Cardinality(LeftBehind(q.level))
        <5> SUFFICES ASSUME ~q.left PROVE n <= Cardinality(LeftBehind(q.level))
          OBVIOUS
        <5>1. InTime(q, time)
          BY <2>2, <3>2 DEF Joining, Before
        <5>2. Past(q) \subseteq LeftBehind(q.level)
          <6> SUFFICES ASSUME NEW i \in Past(q) PROVE i \in LeftBehind(q.level)
            OBVIOUS
          <6>1. i \in q.it .. Len(Chart(q.level)) /\ ChordOf(q, i).begin + Tolerance < time'
            BY DEF Past, ChordOf
          <6>2. Chords(q) = 1 .. Len(Chart(q.level)) /\ q.it \in 1 .. Len(Chart(q.level)) + 1
                /\ Len(Chart(q.level)) \in Nat /\ q.level \in Levels
            BY <2>3, ChordsOfALevel DEF PlayTypes, Chords
          <6>3. i \in Chords(q) /\ i >= q.it
            BY <6>1, <6>2
          <6>4. ChordOf(q, i).begin \in Nat /\ ChordOf(q, i).begin + Tolerance >= time
            BY <5>1, <6>2, <6>3, ChordIs DEF InTime, Chords, ChordOf
          <6>5. ChordOf(q, i).begin + Tolerance \in time .. time' - 1
            BY <6>1, <6>4 DEF Tolerance
          <6> QED BY <6>3, <6>5 DEF LeftBehind, Chords, ChordOf
        <5> QED BY <4>2, <5>2, FS_Subset
      <4> QED BY <1>9, <2>2, <2>7, <4>1, <4>2, <4>3 DEF Kept, SameStay
    <3> QED BY <3>1, <3>2
  <2> QED BY <2>4, <2>6, <2>8, <2>9 DEF FairGame
<1> QED BY <1>8, <1>10

(* A frame begins: a player whose menu is closed is ready.                 *)
Begun(q) ==
  /\ PlayerFields \subseteq DOMAIN q /\ (q.open \/ q.ready)
  /\ ~q.rewound => FairGame(q, time') /\ (InTime(q, time) \/ time < q.joinTime - 1)

LEMMA FrameBegins ==
  ASSUME time \in Int, time' \in Int, time <= time', GuitarInv, joined
  PROVE  Begun(DoUpdates(player))
<1> DEFINE r == DoUpdates(player)
<1>1. PlayerFields \subseteq DOMAIN player
  BY DEF GuitarInv
<1>2. /\ PlayerFields \subseteq DOMAIN r /\ SamePlay(r, player)
      /\ r.left = player.left /\ r.joinTime = player.joinTime /\ r.rewound = player.rewound
      /\ r.dead = player.dead /\ r.idle = player.idle
      /\ (r.open \/ r.ready) /\ (~r.ready => ~player.ready)
      /\ r.menu = "pause" \/ (r.ready = player.ready /\ r.menu = player.menu)
  <2>1. r = IF ~player.open /\ ~player.ready THEN [player EXCEPT !.ready = TRUE, !.menu = "pause"]
            ELSE player
    BY Zenon DEF DoUpdates
  <2> HIDE DEF r
  <2>2. CASE ~player.open /\ ~player.ready
    BY <1>1, <2>1, <2>2 DEF PlayerFields, SamePlay
  <2>3. CASE player.open \/ player.ready
    BY <1>1, <2>1, <2>3 DEF PlayerFields, SamePlay
  <2> QED BY <2>2, <2>3
<1> HIDE DEF r
<1>3. ASSUME ~r.rewound
      PROVE  FairGame(r, time') /\ (InTime(r, time) \/ time < r.joinTime - 1)
  <2>1. FairGame(player, time) /\ (InTime(player, time) \/ time < player.joinTime - 1)
    BY <1>2, <1>3 DEF GuitarInv
  <2>2. FairGame(player, time')
    <3>1. Books(player, time')
      BY <2>1, BooksLater DEF FairGame
    <3>2. Before(player, time')
      <4>1. time' <= -Tolerance => time <= -Tolerance
        BY DEF Tolerance
      <4>2. Before(player, time)
        BY <2>1 DEF FairGame
      <4>3. player.joinTime = JoinEarly \/ time' >= 0
        BY <4>2 DEF Before
      <4> HIDE <1>2, <1>3, <3>1
      <4> QED BY <4>1, <4>2, <4>3 DEF Before
    <3> QED BY <2>1, <3>1, <3>2 DEF FairGame
  <2>3. Kept(r)
    BY <1>2, <2>1 DEF FairGame, Kept
  <2>4. ~r.left /\ r.ready /\ r.menu = "join" => r.joinTime = JoinEarly
    BY <1>2, <2>2 DEF FairGame, Before
  <2>5. FairGame(r, time') /\ \A u : InTime(player, u) => InTime(r, u)
    BY <1>2, <2>2, <2>3, <2>4, LikeGame
  <2> QED BY <1>2, <2>1, <2>5
<1> QED BY <1>2, <1>3 DEF Begun, r

(* A change of the level starts the chart again: of a game that has begun  *)
(* this counts as winding it back.                                         *)
LEMMA LevelIsFair ==
  ASSUME time' \in Int, NEW q, Begun(q), q.menu = "join", NEW l \in Levels
  PROVE  Outcome(SetLevel(q, l))
<1> DEFINE r == SetLevel(q, l)
<1>1. PlayerFields \subseteq DOMAIN q
  BY DEF Begun
<1>2. r = [q EXCEPT !.level = l, !.it = 1, !.status = FreshStatus(l), !.earned = FreshStatus(l),
                    !.changes = @ + 1, !.rewound = q.rewound \/ ~Joining(q)]
  BY Zenon DEF SetLevel
<1> HIDE DEF r
<1>3. /\ PlayerFields \subseteq DOMAIN r /\ r.level = l /\ r.it = 1
      /\ r.status = FreshStatus(l) /\ r.earned = FreshStatus(l) /\ r.notes = q.notes
      /\ r.holds = q.holds /\ r.score = q.score /\ r.streak = q.streak
      /\ r.left = q.left /\ r.ready = q.ready /\ r.menu = q.menu /\ r.joinTime = q.joinTime
      /\ r.dead = q.dead /\ r.idle = q.idle
  BY <1>1, <1>2 DEF PlayerFields
<1>4. r.rewound <=> q.rewound \/ ~Joining(q)
  BY <1>1, <1>2 DEF PlayerFields
<1>5. ASSUME ~r.rewound PROVE FairGame(r, time') /\ Joining(r)
  <2>1. ~q.rewound /\ Joining(q) /\ ~q.left /\ time' < q.joinTime
    BY <1>4, <1>5 DEF Joining
  <2>2. Before(q, time') /\ Kept(q)
    BY <2>1 DEF Begun, FairGame
  <2>3. Unplayed(q)
    <3>1. CASE ~q.ready
      BY <2>1, <2>2, <3>1 DEF Before
    <3>2. CASE q.ready
      <4>1. q.joinTime = JoinEarly
        BY <2>1, <2>2, <3>2 DEF Before
      <4>2. JoinEarly \in Int /\ JoinEarly <= 1 - Tolerance
        BY ChartAssumption
      <4>3. time' <= -Tolerance
        BY <2>1, <4>1, <4>2 DEF Tolerance
      <4> QED BY <2>2, <4>3 DEF Before
    <3> QED BY <3>1, <3>2
  <2>4. Unplayed(r)
    BY <1>3, <2>3 DEF Unplayed
  <2>5. Books(r, time')
    <3>1. r.it \in 1 .. Len(Chart(r.level)) + 1
      BY <1>3, ChordsOfALevel
    <3> QED BY <2>4, <3>1, UnplayedBooks
  <2>6. Before(r, time')
    BY <1>3, <2>2, <2>4 DEF Before
  <2>7. Kept(r)
    BY <1>3, <2>2 DEF Kept
  <2> QED BY <1>3, <2>1, <2>5, <2>6, <2>7 DEF FairGame, Joining
<1> QED BY <1>3, <1>5 DEF Outcome, r

(* Who leaves takes no points along.                                       *)
LEMMA LeavingIsFair ==
  ASSUME NEW q, Begun(q)
  PROVE  Outcome(Unjoin(q))
<1> DEFINE r == Unjoin(q)
<1>1. PlayerFields \subseteq DOMAIN q
  BY DEF Begun
<1>2. r = [q EXCEPT !.left = TRUE, !.score = 0, !.streak = 0, !.ready = FALSE, !.menu = "join"]
  BY Zenon DEF Unjoin
<1> HIDE DEF r
<1>3. /\ PlayerFields \subseteq DOMAIN r /\ r.level = q.level /\ r.it = q.it
      /\ r.status = q.status /\ r.earned = q.earned /\ r.notes = q.notes
      /\ r.holds = q.holds /\ r.score = 0 /\ r.streak = 0
      /\ r.left = TRUE /\ r.joinTime = q.joinTime /\ r.rewound = q.rewound
      /\ r.dead = q.dead /\ r.idle = q.idle
  BY <1>1, <1>2 DEF PlayerFields
<1>4. ASSUME ~r.rewound
      PROVE  FairGame(r, time') /\ (InTime(r, time) \/ time < r.joinTime - 1 \/ Joining(r))
  <2>1. /\ Books(q, time') /\ Before(q, time') /\ Kept(q)
        /\ InTime(q, time) \/ time < q.joinTime - 1
    BY <1>3, <1>4 DEF Begun, FairGame
  <2>2. q.score \in Nat /\ q.streak \in Nat /\ q.holds = [f \in Pads |-> q.holds[f]]
    BY <2>1 DEF Books, PlayTypes
  <2>3. Books(r, time')
    <3>1. r.score \in Nat /\ r.score <= q.score /\ r.streak \in Nat /\ r.streak <= q.streak
      BY <1>3, <2>2
    <3>2. r.holds = [f \in Pads |-> r.holds[f]]
          /\ \A f \in Pads : r.holds[f] = q.holds[f] \/ r.holds[f] = NoHold
      BY <1>3, <2>2
    <3> QED BY <1>3, <2>1, <3>1, <3>2, LessKeepsBooks
  <2>4. Unplayed(q) => Unplayed(r)
    BY <1>3 DEF Unplayed
  <2>5. Before(r, time')
    BY <1>3, <2>1, <2>4 DEF Before
  <2>6. Kept(r)
    BY <1>3, <2>1 DEF Kept
  <2>7. InTime(q, time) => InTime(r, time)
    BY <1>3 DEF InTime, Chords, ChordOf
  <2> QED BY <1>3, <2>1, <2>3, <2>5, <2>6, <2>7 DEF FairGame
<1> QED BY <1>3, <1>4 DEF Outcome, r

(* Keys that only move in the menu.                                        *)
LEMMA MenuIsFair ==
  ASSUME time' \in Int, NEW q, Begun(q), NEW r, PlayerFields \subseteq DOMAIN r, SamePlay(r, q),
         r.left = q.left, r.joinTime = q.joinTime, r.rewound = q.rewound, r.ready = q.ready,
         r.menu = q.menu \/ (q.ready /\ time' < EarlyKeys), r.dead = q.dead, r.idle = q.idle
  PROVE  Outcome(r)
<1>1. ASSUME ~r.rewound
      PROVE  FairGame(r, time') /\ (InTime(r, time) \/ time < r.joinTime - 1 \/ Joining(r))
  <2>1. FairGame(q, time') /\ (InTime(q, time) \/ time < q.joinTime - 1)
    BY <1>1 DEF Begun
  <2>2. ~r.left /\ r.ready /\ r.menu = "join" => r.joinTime = JoinEarly
    <3>1. CASE r.menu = q.menu
      BY <2>1, <3>1 DEF FairGame, Before
    <3>2. CASE time' < EarlyKeys
      <4>1. EarlyKeys \in Int /\ JoinEarly \in Int /\ EarlyKeys < JoinEarly /\ JoinEarly <= 1 - Tolerance
        BY ChartAssumption
      <4>2. ~(time' >= 0)
        BY <3>2, <4>1 DEF Tolerance
      <4> QED BY <2>1, <4>2 DEF FairGame, Before
    <3> QED BY <3>1, <3>2
  <2>3. Kept(r)
    BY <2>1 DEF FairGame, Kept
  <2>4. FairGame(r, time') /\ \A u : InTime(q, u) => InTime(r, u)
    BY <2>1, <2>2, <2>3, LikeGame
  <2> QED BY <2>1, <2>4
<1> QED BY <1>1 DEF Outcome

LEMMA TouchIs ==
  ASSUME NEW q0, NEW held, Begun(q0),
         NEW q, q = [q0 EXCEPT !.pressed = held, !.dead = 0, !.idle = 0]
  PROVE  Begun(q)
<1>1. PlayerFields \subseteq DOMAIN q0 /\ (q0.open \/ q0.ready)
  BY DEF Begun
<1>2. /\ PlayerFields \subseteq DOMAIN q /\ SamePlay(q, q0)
      /\ q.left = q0.left /\ q.joinTime = q0.joinTime /\ q.rewound = q0.rewound
      /\ q.ready = q0.ready /\ q.menu = q0.menu /\ q.open = q0.open
      /\ q.dead = 0 /\ q.idle = 0
  BY <1>1 DEF PlayerFields, SamePlay
<1>3. ASSUME ~q.rewound
      PROVE  FairGame(q, time') /\ (InTime(q, time) \/ time < q.joinTime - 1)
  <2>1. FairGame(q0, time') /\ (InTime(q0, time) \/ time < q0.joinTime - 1)
    BY <1>2, <1>3 DEF Begun
  <2>2. Kept(q)
    BY <1>2 DEF Kept
  <2>3. ~q.left /\ q.ready /\ q.menu = "join" => q.joinTime = JoinEarly
    BY <1>2, <2>1 DEF FairGame, Before
  <2>4. FairGame(q, time') /\ \A u : InTime(q0, u) => InTime(q, u)
    BY <1>2, <2>1, <2>2, <2>3, LikeGame
  <2> QED BY <1>2, <2>1, <2>4
<1> QED BY <1>1, <1>2, <1>3 DEF Begun

(* Playing never winds a chart back, nor rewrites that it was.             *)
LEMMA PlayStays ==
  ASSUME NEW q, PlayerFields \subseteq DOMAIN q, NEW e \in Events, NEW s \in Play(q, e)
  PROVE  PlayerFields \subseteq DOMAIN NoDebt(s) /\ NoDebt(s).rewound = q.rewound
<1>1. \/ s = DrumHit(q, e.pad)
      \/ s = q
      \/ s = GuitarPlay(q, {e.pad}, FALSE)
      \/ s = EndHold(q, e.pad)
      \/ s = GuitarPlay(q, q.pressed, TRUE)
  BY EventIs, Zenon DEF Play
<1>2. NoDebt(s) = [s EXCEPT !.score = Max({0, @})]
  BY Zenon DEF NoDebt
<1>3. ASSUME NEW endHolds, NEW r, r = Fail(q, endHolds)
      PROVE  PlayerFields \subseteq DOMAIN r /\ r.rewound = q.rewound
  <2>1. PICK c, h : r = EndStreak([q EXCEPT !.score = c, !.holds = h])
    BY <1>3, Zenon DEF Fail
  <2>2. r = [[q EXCEPT !.score = c, !.holds = h] EXCEPT !.streak = 0]
    BY <2>1, Zenon DEF EndStreak
  <2> QED BY <2>2 DEF PlayerFields
<1>4. ASSUME NEW frets, NEW picked \in BOOLEAN, NEW r, r = GuitarPlay(q, frets, picked)
      PROVE  PlayerFields \subseteq DOMAIN r /\ r.rewound = q.rewound
  <2>1. \/ r = Fail(q, TRUE) \/ r = q
        \/ \E best, k, c, g, n, h :
              r = [q EXCEPT !.it = best, !.status[best] = k, !.score = c, !.earned[best] = g,
                            !.streak = n, !.holds = h]
    BY <1>4, Zenon DEF GuitarPlay
  <2>2. CASE \E best, k, c, g, n, h :
              r = [q EXCEPT !.it = best, !.status[best] = k, !.score = c, !.earned[best] = g,
                            !.streak = n, !.holds = h]
    BY <2>2 DEF PlayerFields
  <2> QED BY <1>3, <2>1, <2>2
<1>5. ASSUME NEW r, r = DrumHit(q, e.pad)
      PROVE  PlayerFields \subseteq DOMAIN r /\ r.rewound = q.rewound
  <2>1. \/ r = Fail(q, FALSE)
        \/ \E best, k, g, c, m, n :
              r = [q EXCEPT !.it = best, !.status[best] = k, !.earned[best] = g, !.score = c,
                            !.notes = m, !.streak = n]
    BY <1>5, Zenon DEF DrumHit
  <2>2. CASE \E best, k, g, c, m, n :
              r = [q EXCEPT !.it = best, !.status[best] = k, !.earned[best] = g, !.score = c,
                            !.notes = m, !.streak = n]
    BY <2>2 DEF PlayerFields
  <2> QED BY <1>3, <2>1, <2>2
<1>6. ASSUME NEW r, r = EndHold(q, e.pad)
      PROVE  PlayerFields \subseteq DOMAIN r /\ r.rewound = q.rewound
  BY <1>6, Zenon DEF EndHold, PlayerFields
<1>7. PlayerFields \subseteq DOMAIN s /\ s.rewound = q.rewound
  <2>1. CASE s = GuitarPlay(q, {e.pad}, FALSE)
    BY <1>4, <2>1
  <2>2. CASE s = GuitarPlay(q, q.pressed, TRUE)
    BY <1>4, <2>2
  <2>3. CASE s = DrumHit(q, e.pad)
    BY <1>5, <2>3
  <2>4. CASE s = EndHold(q, e.pad)
    BY <1>6, <2>4
  <2> QED BY <1>1, <2>1, <2>2, <2>3, <2>4
<1> QED BY <1>2, <1>7 DEF PlayerFields

(* Hits, misses and releases while the game is on.                         *)
LEMMA PlayIsFair ==
  ASSUME time' \in Int, NEW q, Begun(q), ~q.open, NEW e \in Events, NEW s \in Play(q, e)
  PROVE  Outcome(NoDebt(s))
<1> DEFINE r == NoDebt(s)
<1>1. ASSUME ~q.rewound
      PROVE  /\ PlayerFields \subseteq DOMAIN r /\ FairGame(r, time')
             /\ InTime(r, time) \/ time < r.joinTime - 1
  <2>1. /\ Books(q, time') /\ Before(q, time') /\ Kept(q) /\ q.ready
        /\ InTime(q, time) \/ time < q.joinTime - 1
    BY <1>1 DEF Begun, FairGame
  <2>2. PlayTypes(q) /\ q.it \in Nat
    BY <2>1, ReachIs DEF Books
  <2>3. Books(r, time') /\ Played(r, q)
    BY <2>1, PlayKeepsBooks, Zenon
  <2>4. time' <= -Tolerance => Unplayed(r)
    BY <2>1, <2>2, PlayKeepsUnplayed DEF Before
  <2> HIDE DEF r
  <2>5. /\ PlayerFields \subseteq DOMAIN r /\ r.level = q.level /\ r.left = q.left
        /\ r.ready = q.ready /\ r.menu = q.menu /\ r.joinTime = q.joinTime
        /\ r.dead = q.dead /\ r.idle = q.idle /\ r.it \in Nat /\ r.it >= q.it
    BY <2>3 DEF Played, SameStay
  <2>6. Before(r, time')
    BY <2>1, <2>4, <2>5 DEF Before
  <2>7. Kept(r)
    BY <2>1, <2>5 DEF Kept
  <2>8. InTime(q, time) => InTime(r, time)
    <3> SUFFICES ASSUME InTime(q, time), NEW i \in Chords(r), i >= r.it
                 PROVE  ChordOf(r, i).begin + Tolerance >= time
      BY DEF InTime
    <3>1. Chords(r) = Chords(q) /\ ChordOf(r, i) = ChordOf(q, i) /\ i \in Int
      BY <2>2, <2>5, ChordsOfALevel DEF Chords, ChordOf, PlayTypes
    <3> QED BY <2>2, <2>5, <3>1 DEF InTime
  <2> QED BY <2>1, <2>3, <2>5, <2>6, <2>7, <2>8 DEF FairGame, r
<1>2. PlayerFields \subseteq DOMAIN r /\ r.rewound = q.rewound
  <2>1. PlayerFields \subseteq DOMAIN q
    BY DEF Begun
  <2> QED BY <2>1, PlayStays
<1> QED BY <1>1, <1>2 DEF Outcome

(* The events handled in a frame.                                          *)
LEMMA EventIsFair ==
  ASSUME time' \in Int, NEW q0, Begun(q0), NEW e \in Events, NEW r \in HandleEvent(q0, e)
  PROVE  Outcome(r)
<1>1. PICK held : held = CASE e.key = "press" /\ ~drums -> q0.pressed \cup {e.pad}
                           [] e.key = "release" -> q0.pressed \ {e.pad}
                           [] OTHER -> q0.pressed
  OBVIOUS
<1>2. PICK q : q = [q0 EXCEPT !.pressed = held, !.dead = 0, !.idle = 0]
  OBVIOUS
<1>3. Begun(q) /\ PlayerFields \subseteq DOMAIN q /\ (q.open \/ q.ready)
  <2>1. Begun(q)
    BY <1>2, TouchIs
  <2> QED BY <2>1 DEF Begun
<1>4. \/ r = q
      \/ r \in MenuOutcomes(q)
      \/ time' < EarlyKeys /\ ~q.open /\ r = [q EXCEPT !.menu = "join", !.open = TRUE]
      \/ r = [q EXCEPT !.open = TRUE]
      \/ ~q.open /\ r \in {NoDebt(s) : s \in Play(q, e)}
  <2>1. HandleEvent(q0, e)
          = CASE q.open -> IF Pressed(e) THEN MenuOutcomes(q) ELSE {q}
              [] ~q.open /\ time' < EarlyKeys /\ Pressed(e) ->
                   {[q EXCEPT !.menu = "join", !.open = TRUE]}
              [] ~q.open /\ (time' >= EarlyKeys \/ ~Pressed(e)) ->
                   IF e.key = "start" THEN {[q EXCEPT !.open = TRUE]}
                   ELSE IF paused' THEN {q} ELSE {NoDebt(s) : s \in Play(q, e)}
    BY <1>1, <1>2, Zenon DEF HandleEvent
  <2>2. q.open \/ (~q.open /\ time' < EarlyKeys /\ Pressed(e))
               \/ (~q.open /\ (time' >= EarlyKeys \/ ~Pressed(e)))
    <3>1. EarlyKeys \in Int
      BY ChartAssumption
    <3> QED BY <3>1
  <2> QED BY <2>1, <2>2, Zenon
<1>5. ASSUME r = q \/ r = [q EXCEPT !.open = TRUE] \/ r = [q EXCEPT !.open = FALSE]
      PROVE  Outcome(r)
  <2>1. /\ PlayerFields \subseteq DOMAIN r /\ SamePlay(r, q)
        /\ r.left = q.left /\ r.joinTime = q.joinTime /\ r.rewound = q.rewound
        /\ r.ready = q.ready /\ r.menu = q.menu /\ r.dead = q.dead /\ r.idle = q.idle
    BY <1>3, <1>5 DEF PlayerFields, SamePlay
  <2> QED BY <1>3, <2>1, MenuIsFair
<1>6. CASE time' < EarlyKeys /\ ~q.open /\ r = [q EXCEPT !.menu = "join", !.open = TRUE]
  <2>1. /\ PlayerFields \subseteq DOMAIN r /\ SamePlay(r, q)
        /\ r.left = q.left /\ r.joinTime = q.joinTime /\ r.rewound = q.rewound
        /\ r.ready = q.ready /\ r.dead = q.dead /\ r.idle = q.idle
    BY <1>3, <1>6 DEF PlayerFields, SamePlay
  <2> QED BY <1>3, <1>6, <2>1, MenuIsFair
<1>7. CASE r \in MenuOutcomes(q)
  <2>1. \/ r = q \/ r = [q EXCEPT !.open = FALSE]
        \/ q.menu = "join" /\ \E l \in Levels : r = SetLevel(q, l)
        \/ r = Unjoin(q)
    BY <1>7 DEF MenuOutcomes
  <2>2. CASE q.menu = "join" /\ \E l \in Levels : r = SetLevel(q, l)
    BY <1>3, <2>2, LevelIsFair
  <2>3. CASE r = Unjoin(q)
    BY <1>3, <2>3, LeavingIsFair
  <2> QED BY <1>5, <2>1, <2>2, <2>3
<1>8. CASE ~q.open /\ r \in {NoDebt(s) : s \in Play(q, e)}
  BY <1>3, <1>8, PlayIsFair
<1> QED BY <1>4, <1>5, <1>6, <1>7, <1>8

LEMMA MusicIs ==
  ASSUME time \in Int, MusicMoves
  PROVE  time' \in Int /\ time <= time' /\ time' <= time + 1
BY DEF MusicMoves

(* The books are about the instrument, which does not change.              *)
LEMMA SameInstrument ==
  ASSUME UNCHANGED drums
  PROVE  \A q, t : /\ FairGame(q, t)' <=> FairGame(q, t)
                   /\ InTime(q, t)' <=> InTime(q, t)
<1>1. \A l, i : Tappable(l, i)' <=> Tappable(l, i)
  BY DEF Tappable
<1>2. \A q, i : Worth(q, i)' = Worth(q, i)
  BY <1>1 DEF Worth
<1>3. \A q, S : WorthOf(q, S)' = WorthOf(q, S)
  BY <1>2, Zenon DEF WorthOf, Chords
<1>4. \A q : StreakChords(q)' = StreakChords(q)
  BY Zenon DEF StreakChords, Chords, MissedBefore, Complete, ChordOf
<1>5. \A q : GuitarTypes(q)' <=> GuitarTypes(q)
  BY <1>1, Zenon DEF GuitarTypes, Chords, ChordOf
<1>6. \A q, f, n : TapSoFar(q, f, n)' <=> TapSoFar(q, f, n)
  BY <1>3, Zenon DEF TapSoFar, Chords, ChordOf
<1>7. \A q, t : TapPaid(q, t)' <=> TapPaid(q, t)
  BY <1>6, Zenon DEF TapPaid, Chords, ChordOf
<1>8. \A q, t : GuitarPaid(q, t)' <=> GuitarPaid(q, t)
  BY <1>3, <1>5, <1>7, Zenon DEF GuitarPaid, Chords
<1>9. \A q, t : Books(q, t)' <=> Books(q, t)
  BY <1>4, <1>8, Zenon DEF Books
<1>10. \A q, t : Before(q, t)' <=> Before(q, t)
  BY Zenon DEF Before
<1>11. \A q, t : FairGame(q, t)' <=> FairGame(q, t)
  BY <1>9, <1>10, Zenon DEF FairGame, Kept
<1>12. \A q, t : InTime(q, t)' <=> InTime(q, t)
  BY Zenon DEF InTime, Chords, ChordOf
<1> QED BY <1>11, <1>12

LEMMA EngineKeepsInv ==
  ASSUME GuitarInv, NEW outcomes, Engine(outcomes), NEW q \in outcomes, Outcome(q),
         player' = [ProcessHolds(SkipMissed(q)) EXCEPT
                !.idle = IF Joining(q) THEN @ ELSE @ + Cardinality(LeftBehind(q.level))]
  PROVE  GuitarInv'
<1> DEFINE r == ProcessHolds(SkipMissed(q))
<1>1. time \in Int /\ time' \in Int /\ time <= time' /\ time' <= time + 1
  BY MusicIs DEF GuitarInv, Engine
<1>2. PlayerFields \subseteq DOMAIN q
  BY DEF Outcome
<1>3. r.idle = q.idle
  <2>1. SameStay(SkipMissed(q), q) /\ SkipMissed(q).idle = q.idle
    BY <1>2, SkipIs, Zenon
  <2>2. PlayerFields \subseteq DOMAIN SkipMissed(q)
    BY <2>1 DEF SameStay
  <2> QED BY <2>1, <2>2, HoldsAreLeft
<1>4. player' = [r EXCEPT !.idle = IdleAfter(q)]
  <2>1. player' = [r EXCEPT !.idle = IF Joining(q) THEN r.idle
                                     ELSE r.idle + Cardinality(LeftBehind(q.level))]
    BY Zenon
  <2> HIDE DEF r
  <2> QED BY <1>3, <2>1, Zenon DEF IdleAfter
<1>5. /\ PlayerFields \subseteq DOMAIN player'
      /\ ~player'.rewound => FairGame(player', time') /\ InTime(player', time')
  BY <1>1, <1>4, EngineIsFair
<1>6. UNCHANGED drums
  BY DEF Engine
<1> QED BY <1>1, <1>5, <1>6, SameInstrument DEF GuitarInv

LEMMA NewPlayerIsFair ==
  ASSUME NEW t \in Int, NEW l \in Levels, NEW q, q = NewPlayer(t, l)
  PROVE  /\ PlayerFields \subseteq DOMAIN q /\ FairGame(q, t)
         /\ InTime(q, t) \/ t < q.joinTime - 1
<1>1. /\ PlayerFields \subseteq DOMAIN q /\ q.level = l /\ q.it = 1
      /\ q.status = FreshStatus(l) /\ q.earned = FreshStatus(l) /\ q.notes = {}
      /\ q.holds = [f \in Pads |-> NoHold] /\ q.score = 0 /\ q.streak = 0
      /\ q.dead = 0 /\ q.idle = 0 /\ q.joinTime = (IF t < 0 THEN JoinEarly ELSE t + JoinDelay)
      /\ q.ready = FALSE
  BY DEF NewPlayer, PlayerFields
<1>2. JoinEarly \in Int /\ JoinDelay \in Nat /\ JoinDelay >= 2
  BY ChartAssumption
<1>3. Unplayed(q)
  BY <1>1 DEF Unplayed
<1>4. Books(q, t)
  <2>1. q.it \in 1 .. Len(Chart(q.level)) + 1
    BY <1>1, ChordsOfALevel
  <2> QED BY <1>3, <2>1, UnplayedBooks
<1>5. Before(q, t)
  <2>1. q.joinTime \in Int /\ (q.joinTime = JoinEarly \/ t >= 0)
    BY <1>1, <1>2
  <2> QED BY <1>1, <1>3, <2>1 DEF Before
<1>6. Kept(q)
  BY <1>1 DEF Kept
<1>7. InTime(q, t) \/ t < q.joinTime - 1
  <2>1. CASE t < 0
    <3>1. \A i \in Chords(q) : ChordOf(q, i).begin \in Nat
      BY <1>1, ChordIs DEF Chords, ChordOf
    <3> QED BY <2>1, <3>1 DEF InTime, Tolerance
  <2>2. CASE ~(t < 0)
    BY <1>1, <1>2, <2>2
  <2> QED BY <2>1, <2>2
<1> QED BY <1>1, <1>4, <1>5, <1>6, <1>7 DEF FairGame

LEMMA GuitarInvInit == GuitarInit => GuitarInv
<1> SUFFICES ASSUME GuitarInit PROVE GuitarInv
  OBVIOUS
<1>1. StartTime \in Int
  BY ChartAssumption
<1> QED BY <1>1 DEF GuitarInit, GuitarInv

LEMMA GuitarInvNext == GuitarInv /\ [GuitarNext]_guitarVars => GuitarInv'
<1> SUFFICES ASSUME GuitarInv, [GuitarNext]_guitarVars PROVE GuitarInv'
  OBVIOUS
<1>0. time \in Int
  BY DEF GuitarInv
<1>1. CASE GuitarJoin
  <2>1. PICK l \in Levels : player' = NewPlayer(time, l)
    BY <1>1 DEF GuitarJoin
  <2>2. time' = time
    BY <1>1 DEF GuitarJoin
  <2>3. /\ PlayerFields \subseteq DOMAIN player' /\ FairGame(player', time')
        /\ InTime(player', time') \/ time' < player'.joinTime - 1
    BY <1>0, <2>1, <2>2, NewPlayerIsFair
  <2>4. UNCHANGED drums
    BY <1>1 DEF GuitarJoin
  <2> QED BY <1>0, <2>2, <2>3, <2>4, SameInstrument DEF GuitarInv
<1>2. CASE QuietFrame
  <2>1. joined /\ Engine({DoUpdates(player)})
    BY <1>2 DEF QuietFrame, Engine
  <2>2. PICK q \in {DoUpdates(player)} :
           player' = [ProcessHolds(SkipMissed(q)) EXCEPT
                !.idle = IF Joining(q) THEN @ ELSE @ + Cardinality(LeftBehind(q.level))]
    BY <2>1, Zenon DEF Engine
  <2>3. time' \in Int /\ time <= time'
    BY <1>0, <2>1, MusicIs DEF Engine
  <2>4. Outcome(q)
    <3>1. Begun(q)
      BY <1>0, <2>1, <2>2, <2>3, FrameBegins
    <3> QED BY <3>1 DEF Begun, Outcome
  <2> QED BY <2>1, <2>2, <2>4, EngineKeepsInv, Zenon
<1>3. CASE EventFrame
  <2>1. PICK e \in Events : joined /\ Engine(HandleEvent(DoUpdates(player), e))
    BY <1>3 DEF EventFrame, Engine
  <2>2. PICK q \in HandleEvent(DoUpdates(player), e) :
           player' = [ProcessHolds(SkipMissed(q)) EXCEPT
                !.idle = IF Joining(q) THEN @ ELSE @ + Cardinality(LeftBehind(q.level))]
    BY <2>1, Zenon DEF Engine
  <2>3. time' \in Int /\ time <= time'
    BY <1>0, <2>1, MusicIs DEF Engine
  <2>4. Outcome(q)
    BY <1>0, <2>1, <2>3, FrameBegins, EventIsFair
  <2> QED BY <2>1, <2>2, <2>4, EngineKeepsInv, Zenon
<1>4. CASE RemoveDead
  BY <1>0, <1>4 DEF RemoveDead, GuitarInv
<1>5. CASE NobodyPlays
  <2>1. time' \in Int /\ joined' = joined /\ ~joined
    BY <1>0, <1>5, MusicIs DEF NobodyPlays
  <2> QED BY <2>1 DEF GuitarInv
<1>6. CASE UNCHANGED guitarVars
  BY <1>6, SameInstrument DEF guitarVars, GuitarInv
<1> QED BY <1>1, <1>2, <1>3, <1>4, <1>5, <1>6 DEF GuitarNext

LEMMA BooksBoundScore ==
  ASSUME NEW q, NEW t, Books(q, t)
  PROVE  q.score <= WorthOf(q, Chords(q)) + IF NoPad \in q.notes THEN 100 ELSE 0
<1>1. /\ PlayTypes(q) /\ q.score \in Nat /\ q.level \in Levels
      /\ q.status \in [Chords(q) -> Nat]
  BY DEF Books, PlayTypes
<1>2. IsFiniteSet(Chords(q)) /\ WorthOf(q, Chords(q)) \in Nat
  BY <1>1, ChordsOfALevel, WorthSumIs DEF Chords
<1>3. \A i \in Chords(q) : /\ Poly(ChordOf(q, i)) \in Nat
                           /\ IsFiniteSet(DOMAIN ChordOf(q, i).len)
  BY <1>1, PolyIs DEF Chords, ChordOf
<1> DEFINE worth == [i \in Chords(q) |-> Worth(q, i)]
           x == IF NoPad \in q.notes THEN 100 ELSE 0
<1>4. x \in Nat
  OBVIOUS
<1> HIDE DEF x
<1>5. CASE ~drums
  <2>1. q.score + OwedFor(q, Pads) <= WorthOf(q, Chords(q))
    BY <1>5 DEF Books, GuitarPaid
  <2>2. OwedFor(q, Pads) \in Nat
    BY <1>1, OwedIs
  <2> QED BY <1>1, <1>2, <1>4, <2>1, <2>2 DEF x
<1>6. CASE drums
  <2>1. \A i \in Chords(q) : /\ worth[i] \in Nat
                             /\ worth[i] = IF q.status[i] = 0 THEN 0 ELSE 100 * Poly(ChordOf(q, i))
    <3> TAKE i \in Chords(q)
    <3>1. /\ Worth(q, i) \in Nat
          /\ q.status[i] = 0 => Worth(q, i) = 0
          /\ q.status[i] # 0 => Worth(q, i) = 100 * Poly(ChordOf(q, i)) + 0
      BY <1>1, <1>6, WorthIs, Zenon
    <3>2. Poly(ChordOf(q, i)) \in Nat /\ worth[i] = Worth(q, i)
      BY <1>3
    <3> HIDE DEF worth
    <3> QED BY <3>1, <3>2
  <2>2. SumFunctionOnSet(worth, Chords(q)) = WorthOf(q, Chords(q))
    BY DEF WorthOf
  <2> HIDE DEF worth
  <2>3. CASE q.level = Kids
    <3> DEFINE g == [i \in Chords(q) |-> 100 * q.status[i]]
    <3>1. KidsPaid(q)
      BY <1>6, <2>3 DEF Books, DrumsPaid
    <3>2. \A i \in Chords(q) : g[i] \in Int /\ worth[i] \in Int /\ g[i] <= worth[i]
      <4> TAKE i \in Chords(q)
      <4>1. g[i] = 100 * q.status[i] /\ q.status[i] \in Nat
        BY <1>1
      <4>2. q.status[i] <= Poly(ChordOf(q, i)) /\ Poly(ChordOf(q, i)) \in Nat
        BY <1>3, <3>1 DEF KidsPaid
      <4> HIDE DEF g
      <4> QED BY <2>1, <4>1, <4>2
    <3>3. q.score <= SumFunctionOnSet(g, Chords(q))
      BY <3>1 DEF KidsPaid
    <3> HIDE DEF g
    <3>4. SumFunctionOnSet(g, Chords(q)) <= SumFunctionOnSet(worth, Chords(q))
      BY <1>2, <3>2, SumMonotone
    <3>5. SumFunctionOnSet(g, Chords(q)) \in Int
      BY <1>2, <3>2, SumType
    <3> QED BY <1>1, <1>2, <1>4, <2>2, <3>3, <3>4, <3>5 DEF x
  <2>4. CASE q.level # Kids
    <3> DEFINE g == [i \in Chords(q) |-> 100 * Cardinality(NotesHit(q, i))]
    <3>1. NotesPaid(q)
      BY <1>6, <2>4 DEF Books, DrumsPaid
    <3>2. \A i \in Chords(q) : g[i] \in Int /\ worth[i] \in Int /\ g[i] <= worth[i]
      <4> TAKE i \in Chords(q)
      <4>1. g[i] = 100 * Cardinality(NotesHit(q, i))
        OBVIOUS
      <4>2. /\ Cardinality(NotesHit(q, i)) \in Nat
            /\ Cardinality(NotesHit(q, i)) <= Poly(ChordOf(q, i)) /\ Poly(ChordOf(q, i)) \in Nat
        <5>1. NotesHit(q, i) \in SUBSET DOMAIN ChordOf(q, i).len
          BY DEF NotesHit
        <5>2. IsFiniteSet(DOMAIN ChordOf(q, i).len)
          BY <1>3
        <5> QED BY <5>1, <5>2, FS_Subset, FS_CardinalityType DEF Poly
      <4>3. q.status[i] = 0 => Cardinality(NotesHit(q, i)) = 0
        <5>1. q.status[i] = 0 => NotesHit(q, i) = {}
          BY <3>1 DEF NotesPaid
        <5> QED BY <5>1, FS_EmptySet
      <4> HIDE DEF g
      <4> QED BY <2>1, <4>1, <4>2, <4>3
    <3>3. q.score <= SumFunctionOnSet(g, Chords(q)) + x
      BY <3>1 DEF NotesPaid, x
    <3> HIDE DEF g
    <3>4. SumFunctionOnSet(g, Chords(q)) <= SumFunctionOnSet(worth, Chords(q))
      BY <1>2, <3>2, SumMonotone
    <3>5. SumFunctionOnSet(g, Chords(q)) \in Int
      BY <1>2, <3>2, SumType
    <3> QED BY <1>1, <1>2, <1>4, <2>2, <3>3, <3>4, <3>5 DEF x
  <2> QED BY <2>3, <2>4
<1> QED BY <1>5, <1>6

LEMMA GuitarInvMeansFair == GuitarInv => GuitarIsFair
<1> SUFFICES ASSUME GuitarInv PROVE GuitarIsFair
  OBVIOUS
<1>1. ASSUME joined, ~player.rewound
      PROVE  /\ Books(player, time) /\ Kept(player) /\ PlayTypes(player)
             /\ DOMAIN player.status = Chords(player)
  BY <1>1 DEF GuitarInv, FairGame, Books, PlayTypes
<1>2. ScoreWithinChart
  <2> SUFFICES ASSUME joined, ~player.rewound
               PROVE  player.score <= WorthOf(player, Chords(player))
                                        + IF NoPad \in player.notes THEN 100 ELSE 0
    <3>1. Points(0) = 100
      BY PointsAre
    <3>2. DOMAIN [i \in DOMAIN Chart(player.level) |-> Worth(player, i)] = Chords(player)
      BY DEF Chords
    <3> QED BY <3>1, <3>2, Zenon DEF ScoreWithinChart, WorthOf, Chords
  <2> QED BY <1>1, BooksBoundScore
<1>3. StreakUnbroken
  <2>1. joined /\ ~player.rewound => player.streak <= Cardinality(StreakChords(player))
    BY <1>1 DEF Books
  <2>2. joined /\ ~player.rewound => DOMAIN player.status = Chords(player)
    BY <1>1
  <2> QED BY <2>1, <2>2, Zenon DEF StreakUnbroken, StreakChords, MissedBefore, Complete, ChordOf
<1>4. RemovedOnlyIfAway
  <2> SUFFICES ASSUME joined, Dead(player), ~player.rewound
               PROVE  player.left \/ player.idle >= DeathDelay
    BY DEF RemovedOnlyIfAway
  <2>1. Kept(player) /\ DeathDelay \in Nat
    BY <1>1, ChartAssumption
  <2> QED BY <2>1 DEF Kept, Dead
<1> QED BY <1>2, <1>3, <1>4 DEF GuitarIsFair

(* GuitarIsFair: points, streak and the right to stay are earned, for any  *)
(* charts, pads, delays and times, whatever is pressed and whenever.       *)
THEOREM GuitaristsGetTheirDue == GuitarSpec => []GuitarIsFair
<1>1. GuitarInit => GuitarInv
  BY GuitarInvInit
<1>2. GuitarInv /\ [GuitarNext]_guitarVars => GuitarInv'
  BY GuitarInvNext
<1>3. GuitarInv => GuitarIsFair
  BY GuitarInvMeansFair
<1> QED BY <1>1, <1>2, <1>3, PTL DEF GuitarSpec

=============================================================================
