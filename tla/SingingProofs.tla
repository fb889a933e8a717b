--------------------------- MODULE SingingProofs ---------------------------
(***************************************************************************)
(* The grading, for any singers, notes, difficulty, length of a time step  *)
(* and music: points are right, and none change behind the score window.   *)
(*                                                                         *)
(* The invariant says of every player what was paid: for the notes left    *)
(* behind, for the one at hand, and for the row, never more than they are  *)
(* worth up to the time step; and no less to one who sings every tone.     *)
(* It holds from note to note within a step, which is a fold over the      *)
(* notes that the loop of update() looks at, and so from step to step.     *)
(*                                                                         *)
(* Then the lyrics, for any songs in order, frames, seeks and delays: what *)
(* is in view is of the time drawn, and START skips nothing to be sung.    *)
(***************************************************************************)
EXTENDS Scoring, Lyrics, FoldLemmas

-----------------------------------------------------------------------------
(* Notes and what they are worth.                                          *)

NoteCount == Len(track)
Sung(i, now) == 2 * Multiplier(track[i]) * ClampDuration(track[i], 0, now)
TrackOK == track \in Tracks

(* What the assumption about tracks says of the one that is sung.          *)
LEMMA NoteFacts ==
  ASSUME TrackOK
  PROVE  /\ NoteCount \in Nat /\ DOMAIN track = 1 .. NoteCount
         /\ \A i \in 1 .. NoteCount :
              /\ track[i].begin \in Nat /\ track[i].end \in Nat /\ track[i].begin <= track[i].end
              /\ track[i].pitch \in Int /\ track[i].type \in NoteTypes
<1> DEFINE Note == [begin : Nat, end : Nat, type : NoteTypes, pitch : Int]
<1>1. track \in Seq(Note)
  BY ScoringAssumption DEF TrackOK
<1>2. NoteCount \in Nat /\ DOMAIN track = 1 .. NoteCount
  BY <1>1 DEF NoteCount
<1>3. \A i \in DOMAIN track : track[i].begin <= track[i].end
  BY ScoringAssumption DEF TrackOK
<1>4. \A i \in 1 .. NoteCount : track[i] \in Note
  <2> HIDE DEF Note
  <2> QED BY <1>1, <1>2
<1> QED BY <1>2, <1>3, <1>4

(* A sleep is worth nothing.                                               *)
LEMMA MultiplierFacts ==
  ASSUME NEW n, n.type \in NoteTypes
  PROVE  /\ Multiplier(n) \in {0, 1, 2}
         /\ n.type = "sleep" => Multiplier(n) = 0
         /\ n.type \in {"normal", "golden"} => Multiplier(n) # 0
BY DEF Multiplier, NoteTypes

(* A tone brings at most twice the multiplier.                             *)
LEMMA PowerFactorFacts ==
  ASSUME NEW n, n.pitch \in Int, NEW tone \in Nat
  PROVE  PowerFactor(n, tone) \in 0 .. 2
<1> DEFINE d == Distance(n.pitch, tone)
<1>1. d \in Int
  BY DEF Distance, Sooner
<1> HIDE DEF d
<1>2. Clamp(3 - d, 0, 2) \in 0 .. 2 /\ Clamp(4 - 2 * d, 0, 2) \in 0 .. 2
  BY <1>1 DEF Clamp
<1>3. Level \in {"normal", "hard", "perfect"}
  BY ScoringAssumption
<1> QED BY <1>2, <1>3 DEF PowerFactor, d

(* The time of a note is spent once.                                       *)
LEMMA DurationFacts ==
  ASSUME NEW n, n.begin \in Nat, n.end \in Nat, n.begin <= n.end,
         NEW b \in Nat, NEW e \in Nat, b <= e
  PROVE  /\ ClampDuration(n, b, e) \in Nat /\ ClampDuration(n, 0, b) \in Nat
         /\ ClampDuration(n, 0, b) + ClampDuration(n, b, e) = ClampDuration(n, 0, e)
         /\ ClampDuration(n, 0, e) <= n.end - n.begin
         /\ n.end <= e => ClampDuration(n, 0, e) = n.end - n.begin
         /\ e <= n.begin => ClampDuration(n, 0, e) = 0
BY DEF ClampDuration, Later, Sooner

(* A product with one of the few factors there are.                        *)
LEMMA Products ==
  ASSUME NEW m \in {0, 1, 2}, NEW f \in 0 .. 2, NEW c \in Nat, NEW d \in Nat, NEW r \in Nat, c + d = r
  PROVE  /\ m * f * d \in Nat /\ m * f * d <= 2 * m * d
         /\ 2 * m * c + 2 * m * d = 2 * m * r /\ 2 * m * c \in Nat /\ 2 * m * r \in Nat
         /\ 2 * m * c <= 2 * m * r
<1>1. CASE m = 0
  BY <1>1
<1>2. CASE m = 1
  <2>1. f \in {0, 1, 2}
    OBVIOUS
  <2> QED BY <1>2, <2>1
<1>3. CASE m = 2
  <2>1. f \in {0, 1, 2}
    OBVIOUS
  <2> QED BY <1>3, <2>1
<1> QED BY <1>1, <1>2, <1>3

(* What a note pays during a time step, and has paid in all.               *)
LEMMA NotePays ==
  ASSUME TrackOK, NEW i \in 1 .. NoteCount, NEW tone \in Nat, NEW b \in Nat, NEW e \in Nat, b <= e
  PROVE  /\ Score(track[i], tone, b, e) \in Nat
         /\ Sung(i, b) \in Nat /\ Sung(i, e) \in Nat /\ MaxScore(track[i]) \in Nat
         /\ Sung(i, b) <= Sung(i, e) /\ Sung(i, e) <= MaxScore(track[i])
         /\ Sung(i, b) + Score(track[i], tone, b, e) <= Sung(i, e)
         /\ track[i].end <= e => Sung(i, e) = MaxScore(track[i])
         /\ e <= track[i].begin => Sung(i, e) = 0
         /\ track[i].type = "sleep" =>
              Score(track[i], tone, b, e) = 0 /\ Sung(i, e) = 0 /\ MaxScore(track[i]) = 0
         /\ \/ ClampDuration(track[i], b, e) = 0
            \/ PowerFactor(track[i], tone) = 2
            \/ track[i].type = "sleep"
            => Sung(i, b) + Score(track[i], tone, b, e) = Sung(i, e)
<1> DEFINE n == track[i]
           m == Multiplier(n)
           f == PowerFactor(n, tone)
           c == ClampDuration(n, 0, b)
           d == ClampDuration(n, b, e)
           r == ClampDuration(n, 0, e)
           all == n.end - n.begin
<1>1. /\ n.begin \in Nat /\ n.end \in Nat /\ n.begin <= n.end /\ n.pitch \in Int
      /\ n.type \in NoteTypes
  BY NoteFacts
<1>2. /\ m \in {0, 1, 2} /\ f \in 0 .. 2 /\ (n.type = "sleep" => m = 0)
  BY <1>1, MultiplierFacts, PowerFactorFacts
<1>3. /\ c \in Nat /\ d \in Nat /\ c + d = r /\ r <= all
      /\ n.end <= e => r = all
      /\ e <= n.begin => r = 0
  BY <1>1, DurationFacts
<1>4. all \in Nat /\ r \in Nat /\ all - r \in Nat /\ r + (all - r) = all
  BY <1>1, <1>3
<1>5. /\ Score(n, tone, b, e) = m * f * d /\ Sung(i, b) = 2 * m * c /\ Sung(i, e) = 2 * m * r
      /\ MaxScore(n) = 2 * m * all
  BY DEF Score, Sung, MaxScore
<1> HIDE DEF m, f, c, d, r, all
<1>6. /\ m * f * d \in Nat /\ m * f * d <= 2 * m * d
      /\ 2 * m * c + 2 * m * d = 2 * m * r /\ 2 * m * c \in Nat /\ 2 * m * r \in Nat
      /\ 2 * m * c <= 2 * m * r
  BY <1>2, <1>3, <1>4, Products
<1>7. 2 * m * r <= 2 * m * all /\ 2 * m * all \in Nat
  BY <1>2, <1>4, Products
<1>8. 2 * m * d \in Nat
  BY <1>2, <1>3
<1>9. m = 0 => m * f * d = 0 /\ 2 * m * r = 0 /\ 2 * m * all = 0 /\ 2 * m * c = 0
  BY <1>2, <1>3, <1>4
<1>10. d = 0 \/ f = 2 \/ m = 0 => m * f * d = 2 * m * d
  BY <1>2, <1>3
<1> QED BY <1>2, <1>3, <1>5, <1>6, <1>7, <1>8, <1>9, <1>10 DEF d, f

(* A step pays no more than the part of the note in it is worth.           *)
LEMMA ScorePays ==
  ASSUME TrackOK, NEW i \in 1 .. NoteCount, NEW tone \in Nat, NEW b \in Nat, NEW e \in Nat, b <= e
  PROVE  /\ Sung(i, b) + Score(track[i], tone, b, e) <= Sung(i, e)
         /\ track[i].type = "sleep" => Score(track[i], tone, b, e) = 0 /\ Sung(i, e) = 0
<1>1. /\ Score(track[i], tone, b, e) \in Nat
      /\ Sung(i, b) \in Nat /\ Sung(i, e) \in Nat /\ MaxScore(track[i]) \in Nat
      /\ Sung(i, b) <= Sung(i, e) /\ Sung(i, e) <= MaxScore(track[i])
      /\ Sung(i, b) + Score(track[i], tone, b, e) <= Sung(i, e)
  BY NotePays
<1>2. ASSUME track[i].type = "sleep" PROVE Score(track[i], tone, b, e) = 0 /\ Sung(i, e) = 0
  <2> DEFINE n == track[i]
             f == PowerFactor(n, tone)
             d == ClampDuration(n, b, e)
             r == ClampDuration(n, 0, e)
  <2>1. /\ n.begin \in Nat /\ n.end \in Nat /\ n.begin <= n.end /\ n.pitch \in Int
        /\ n.type \in NoteTypes
    BY NoteFacts
  <2>2. Multiplier(n) = 0 /\ f \in 0 .. 2
    BY <1>2, <2>1, MultiplierFacts, PowerFactorFacts
  <2>3. d \in Nat /\ r \in Nat
    <3>1. 0 \in Nat /\ 0 <= e
      OBVIOUS
    <3> QED BY <3>1, <2>1, DurationFacts
  <2>4. Score(n, tone, b, e) = 0 * f * d /\ Sung(i, e) = 2 * 0 * r
    BY <2>2 DEF Score, Sung
  <2> HIDE DEF n, f, d, r
  <2>5. 0 * f * d = 0 /\ 2 * 0 * r = 0
    BY <2>2, <2>3
  <2> QED BY <2>4, <2>5 DEF n
<1> QED BY <1>1, <1>2

(* A note that is over has paid all it can.                                *)
LEMMA NoteWorth ==
  ASSUME TrackOK
  PROVE  /\ \A i \in 1 .. NoteCount : MaxScore(track[i]) \in Nat
         /\ \A i \in 1 .. NoteCount, e \in Nat :
              Sung(i, e) \in Nat /\ (track[i].end <= e => Sung(i, e) = MaxScore(track[i]))
<1>1. ASSUME NEW i \in 1 .. NoteCount, NEW e \in Nat
      PROVE  /\ MaxScore(track[i]) \in Nat /\ Sung(i, e) \in Nat
             /\ track[i].end <= e => Sung(i, e) = MaxScore(track[i])
  <2>1. 0 \in Nat /\ 0 <= e
    OBVIOUS
  <2> QED BY <2>1, NotePays
<1>2. 0 \in Nat
  OBVIOUS
<1> QED BY <1>1, <1>2

(* Notes in a row are worth the sum of each.                               *)
LEMMA WorthType ==
  ASSUME TrackOK, NEW i \in Nat, i >= 1, NEW j \in Int, j <= NoteCount
  PROVE  Worth(i, j) \in Nat
<1> DEFINE f == [k \in DOMAIN track |-> MaxScore(track[k])]
           z == [k \in DOMAIN track |-> 0]
<1>1. /\ IsFiniteSet(i .. j)
      /\ \A k \in i .. j : f[k] \in Nat /\ z[k] = 0
  <2>1. IsFiniteSet(i .. j)
    BY Intervals
  <2>2. \A k \in i .. j : k \in 1 .. NoteCount
    BY NoteFacts
  <2> QED BY <2>1, <2>2, NoteFacts, NoteWorth
<1>2. SumFunctionOnSet(f, i .. j) \in Int
  <2> HIDE DEF f
  <2> QED BY <1>1, SumType
<1>3. SumFunctionOnSet(z, i .. j) <= SumFunctionOnSet(f, i .. j)
  <2> HIDE DEF f, z
  <2> QED BY <1>1, SumMonotone
<1>4. SumFunctionOnSet(z, i .. j) = 0
  <2> HIDE DEF f, z
  <2> QED BY <1>1, SumOfZeros
<1> QED BY <1>2, <1>3, <1>4 DEF Worth

(* No notes, no points.                                                    *)
LEMMA WorthOfNone == ASSUME NEW i \in Int PROVE Worth(i, i - 1) = 0
<1>1. i .. i - 1 = {}
  OBVIOUS
<1> QED BY <1>1, SumOfNone DEF Worth

(* One more note adds what it is worth.                                    *)
LEMMA WorthOfOneMore ==
  ASSUME TrackOK, NEW i \in Nat, i >= 1, NEW j \in Nat, i <= j, j <= NoteCount
  PROVE  Worth(i, j) = Worth(i, j - 1) + MaxScore(track[j])
<1> DEFINE f == [k \in DOMAIN track |-> MaxScore(track[k])]
<1>0. IsFiniteSet(i .. j) /\ j \in i .. j /\ (i .. j) \ {j} = i .. j - 1
  BY Intervals
<1>1. /\ \A k \in i .. j : f[k] \in Int
      /\ f[j] = MaxScore(track[j]) /\ f[j] \in Int
  BY NoteFacts, NoteWorth, SMTT(30)
<1>2. SumFunctionOnSet(f, i .. j) = f[j] + SumFunctionOnSet(f, i .. j - 1)
  <2> HIDE DEF f
  <2> QED BY <1>0, <1>1, SumInsert
<1>3. Worth(i, j - 1) \in Int
  <2>1. j - 1 \in Int /\ j - 1 <= NoteCount
    BY NoteFacts
  <2> QED BY <2>1, WorthType
<1> QED BY <1>1, <1>2, <1>3 DEF Worth

(* The notes up to j are worth no more than all.                           *)
LEMMA WorthOfAll ==
  ASSUME TrackOK, NEW j \in Nat, j <= NoteCount
  PROVE  Worth(1, j) <= TotalPoints
<1> DEFINE f == [k \in DOMAIN track |-> MaxScore(track[k])]
           S == 1 .. NoteCount
           T == 1 .. j
<1>1. NoteCount \in Nat /\ \A k \in S : f[k] \in Int
  BY NoteFacts, NoteWorth
<1>0. IsFiniteSet(S) /\ T \in SUBSET S /\ S \ T = j + 1 .. NoteCount
  BY <1>1, Intervals
<1>2. SumFunctionOnSet(f, 1 .. NoteCount)
        = SumFunctionOnSet(f, 1 .. j) + SumFunctionOnSet(f, j + 1 .. NoteCount)
  <2> HIDE DEF f, S, T
  <2>1. SumFunctionOnSet(f, S) = SumFunctionOnSet(f, T) + SumFunctionOnSet(f, S \ T)
    BY <1>0, <1>1, SumSplit
  <2> QED BY <2>1, <1>0 DEF S, T
<1>3. Worth(1, NoteCount) = Worth(1, j) + Worth(j + 1, NoteCount)
  BY <1>2 DEF Worth
<1>4. Worth(1, j) \in Nat /\ Worth(j + 1, NoteCount) \in Nat
  BY WorthType, NoteFacts
<1> QED BY <1>3, <1>4 DEF TotalPoints, NoteCount

(* What is offered: by notes that are gone, by the one at hand, and by the *)
(* rest.                                                                   *)
Hand(j, e) == IF j <= NoteCount THEN Sung(j, e) ELSE 0

(* All that could have been earned by now: the notes that are over, the    *)
(* part of the one at hand, and nothing of those to come.                  *)
LEMMA WhatIsOffered ==
  ASSUME TrackOK, NEW e \in Nat, NEW i \in Nat, NEW j \in Nat, 1 <= i, i <= j, j <= NoteCount + 1,
         \A k \in i .. j - 1 : track[k].end <= e
  PROVE  \E rest \in Nat :
           /\ Offered(i, NoteCount, e) = Worth(i, j - 1) + Hand(j, e) + rest
           /\ (\A k \in j + 1 .. NoteCount : e <= track[k].begin) => rest = 0
<1> DEFINE f == [k \in DOMAIN track |-> MaxScore(track[k])]
           g == [k \in DOMAIN track |-> 2 * Multiplier(track[k]) * ClampDuration(track[k], 0, e)]
           z == [k \in DOMAIN track |-> 0]
           S == i .. NoteCount
           T == i .. j - 1
           U == j + 1 .. NoteCount
           rest == SumFunctionOnSet(g, U)
<1>1. /\ NoteCount \in Nat /\ DOMAIN track = 1 .. NoteCount
      /\ \A k \in 1 .. NoteCount : f[k] = MaxScore(track[k]) /\ g[k] = Sung(k, e) /\ z[k] = 0
  BY NoteFacts DEF Sung
<1>2. \A k \in 1 .. NoteCount : /\ f[k] \in Nat /\ g[k] \in Nat /\ z[k] = 0
                                 /\ (track[k].end <= e => g[k] = f[k])
                                 /\ (e <= track[k].begin => g[k] = 0)
  <2>1. ASSUME NEW k \in 1 .. NoteCount PROVE e <= track[k].begin => Sung(k, e) = 0
    <3>1. 0 \in Nat /\ 0 <= e
      OBVIOUS
    <3> QED BY <3>1, NotePays
  <2> QED BY <1>1, <2>1, NoteWorth
<1>3. /\ IsFiniteSet(S) /\ IsFiniteSet(T) /\ IsFiniteSet(U) /\ T \in SUBSET S
      /\ \A k \in S : k \in 1 .. NoteCount
      /\ \A k \in U : k \in 1 .. NoteCount
  <2>1. IsFiniteSet(S) /\ IsFiniteSet(T) /\ IsFiniteSet(U)
    BY <1>1, Intervals
  <2>2. T \in SUBSET S /\ (\A k \in S : k \in 1 .. NoteCount) /\ \A k \in U : k \in 1 .. NoteCount
    BY <1>1
  <2> QED BY <2>1, <2>2
<1>4. /\ Offered(i, NoteCount, e) = SumFunctionOnSet(g, S)
      /\ Worth(i, j - 1) = SumFunctionOnSet(f, T)
  BY DEF Offered, Worth
<1>5. \A k \in T : k \in S /\ track[k].end <= e
  BY <1>3
<1>6. \A k \in U : (\A l \in j + 1 .. NoteCount : e <= track[l].begin) => e <= track[k].begin
  OBVIOUS
<1>7. j <= NoteCount =>
        j \in 1 .. NoteCount /\ j \in S \ T /\ (S \ T) \ {j} = U
  BY <1>1, <1>3
<1>8. ~ (j <= NoteCount) => S \ T = {} /\ U = {}
  BY <1>1, <1>3
<1> HIDE DEF f, g, z, S, T, U
<1>9. SumFunctionOnSet(g, S) = SumFunctionOnSet(g, T) + SumFunctionOnSet(g, S \ T)
  BY <1>2, <1>3, SumSplit
<1>10. SumFunctionOnSet(f, T) = SumFunctionOnSet(g, T)
  <2>1. \A k \in T : f[k] \in Int /\ f[k] = g[k]
    BY <1>2, <1>3, <1>5
  <2> QED BY <2>1, <1>3, SumEqual
<1>11. SumFunctionOnSet(g, S \ T) = Hand(j, e) + rest /\ Hand(j, e) \in Int
  <2>1. CASE j <= NoteCount
    <3>1. IsFiniteSet(S \ T)
      BY <1>3, FS_Difference
    <3>2. \A k \in S \ T : g[k] \in Int
      BY <1>2, <1>3
    <3>3. SumFunctionOnSet(g, S \ T) = g[j] + rest
      BY <3>1, <3>2, <1>7, <2>1, SumInsert
    <3>4. g[j] = Hand(j, e) /\ g[j] \in Int
      BY <1>1, <1>2, <1>7, <2>1 DEF Hand
    <3> QED BY <3>3, <3>4
  <2>2. CASE ~ (j <= NoteCount)
    <3>1. SumFunctionOnSet(g, S \ T) = 0 /\ rest = 0
      BY <1>8, <2>2, SumOfNone
    <3> QED BY <3>1, <2>2 DEF Hand
  <2> QED BY <2>1, <2>2
<1>12. rest \in Nat
  <2>1. \A k \in U : z[k] \in Int /\ g[k] \in Int /\ z[k] <= g[k] /\ z[k] = 0
    BY <1>2, <1>3
  <2>2. SumFunctionOnSet(z, U) <= rest
    BY <2>1, <1>3, SumMonotone
  <2>3. SumFunctionOnSet(z, U) = 0 /\ rest \in Int
    BY <2>1, <1>3, SumOfZeros, SumType
  <2> QED BY <2>2, <2>3
<1>13. (\A k \in j + 1 .. NoteCount : e <= track[k].begin) => rest = 0
  <2> SUFFICES ASSUME \A k \in j + 1 .. NoteCount : e <= track[k].begin PROVE rest = 0
    OBVIOUS
  <2>1. \A k \in U : g[k] = 0
    BY <1>2, <1>3, <1>6
  <2> QED BY <2>1, <1>3, SumOfZeros
<1>14. SumFunctionOnSet(g, T) \in Int
  BY <1>2, <1>3, SumType
<1> DEFINE y == SumFunctionOnSet(g, T)
           w == Hand(j, e)
<1> HIDE DEF rest
<1>15. y \in Int /\ w \in Int /\ rest \in Nat
  BY <1>11, <1>12, <1>14
<1>16. Offered(i, NoteCount, e) = y + (w + rest) /\ Worth(i, j - 1) = y
  BY <1>4, <1>9, <1>10, <1>11
<1> HIDE DEF y, w
<1>17. Offered(i, NoteCount, e) = Worth(i, j - 1) + w + rest
  BY <1>15, <1>16
<1> QED BY <1>13, <1>15, <1>17 DEF w

-----------------------------------------------------------------------------
(* Rows.                                                                   *)

(* A row begins behind the last sleep.                                     *)
LEMMA RowFacts ==
  ASSUME TrackOK, NEW it \in 1 .. NoteCount + 1
  PROVE  /\ RowStart(it) \in 1 .. it
         /\ it <= NoteCount =>
              RowStart(it + 1) = IF track[it].type = "sleep" THEN it + 1 ELSE RowStart(it)
<1> DEFINE S(j) == {0} \cup {k \in 1 .. j - 1 : track[k].type = "sleep"}
<1>1. NoteCount \in Nat
  BY NoteFacts
<1>2. ASSUME NEW j \in 1 .. NoteCount + 1
      PROVE  /\ RowStart(j) = Max(S(j)) + 1
             /\ Max(S(j)) \in S(j) /\ \A x \in S(j) : x <= Max(S(j))
             /\ Max(S(j)) \in 0 .. j - 1
  <2>1. S(j) \in SUBSET (0 .. j - 1) /\ S(j) # {} /\ j - 1 \in Nat
    BY <1>1
  <2>2. RowStart(j) = Max(S(j)) + 1
    BY DEF RowStart
  <2> HIDE DEF S
  <2>3. Max(S(j)) \in S(j) /\ \A x \in S(j) : x <= Max(S(j))
    BY <2>1, GreatestOf
  <2> QED BY <2>1, <2>2, <2>3
<1>3. RowStart(it) \in 1 .. it
  <2> HIDE DEF S
  <2> QED BY <1>1, <1>2
<1>4. ASSUME it <= NoteCount
      PROVE  RowStart(it + 1) = IF track[it].type = "sleep" THEN it + 1 ELSE RowStart(it)
  <2>1. it + 1 \in 1 .. NoteCount + 1 /\ 1 .. (it + 1) - 1 = (1 .. it - 1) \cup {it}
    BY <1>1, <1>4
  <2>2. S(it + 1) = IF track[it].type = "sleep" THEN S(it) \cup {it} ELSE S(it)
    BY <2>1
  <2> DEFINE a == Max(S(it))
             b == Max(S(it + 1))
  <2>3. /\ a \in S(it) /\ (\A x \in S(it) : x <= a) /\ a \in 0 .. it - 1 /\ RowStart(it) = a + 1
        /\ b \in S(it + 1) /\ (\A x \in S(it + 1) : x <= b) /\ b \in 0 .. it
        /\ RowStart(it + 1) = b + 1
    <3>1. (it + 1) - 1 = it
      OBVIOUS
    <3> HIDE DEF S
    <3> QED BY <1>2, <2>1, <3>1
  <2> HIDE DEF a, b, S
  <2>4. CASE track[it].type = "sleep"
    <3>1. it <= b
      BY <2>2, <2>3, <2>4
    <3>2. b = it
      BY <2>3, <3>1, <1>1
    <3> QED BY <2>3, <2>4, <3>2
  <2>5. CASE track[it].type # "sleep"
    <3>1. S(it + 1) = S(it)
      BY <2>2, <2>5
    <3> QED BY <3>1, <2>5, <2>3 DEF a, b
  <2> QED BY <2>4, <2>5
<1> QED BY <1>3, <1>4

-----------------------------------------------------------------------------
(* Players.                                                                *)

Players ==
  [pos : Nat, scoreIt : Nat, score : Int, noteScore : Nat, lineScore : Nat,
   maxLineScore : Nat, prevLineScore : (Nat \X Nat) \cup {NoRank}, stars : SUBSET Nat]

Row(p) == Worth(RowStart(p.scoreIt), p.scoreIt - 1)

(* Nobody was paid more than was offered: by notes that ended before done, *)
(* by the note at hand until now, and by the row at hand.                  *)
Paid(p, done, now) ==
  /\ p \in Players /\ p.scoreIt \in 1 .. NoteCount + 1
  /\ \A k \in 1 .. p.scoreIt - 1 : track[k].end <= done
  /\ p.noteScore <= Hand(p.scoreIt, now)
  /\ p.score >= 0 /\ p.score <= Worth(1, p.scoreIt - 1) + p.noteScore
  /\ p.lineScore <= Row(p) + p.noteScore
  /\ p.maxLineScore # 0 => p.lineScore = 0
  /\ p.prevLineScore = NoRank \/ p.prevLineScore[1] <= p.prevLineScore[2]

(* Who sings every tone has been paid all.                                 *)
Full(p, now) ==
  /\ p.noteScore = Hand(p.scoreIt, now)
  /\ p.score = Worth(1, p.scoreIt - 1) + p.noteScore
  /\ p.maxLineScore = 0 => p.lineScore = Row(p) + p.noteScore
  /\ p.maxLineScore # 0 =>
       /\ p.noteScore = 0
       /\ \/ p.scoreIt > NoteCount \/ track[p.scoreIt].type = "sleep"
          \/ RowStart(p.scoreIt) = p.scoreIt
  /\ \A i \in 1 .. p.scoreIt - 1 :
       track[i].type \in {"normal", "golden"} /\ track[i].begin < track[i].end => i \in p.stars
  /\ p.prevLineScore # NoRank => p.prevLineScore[1] = p.prevLineScore[2]

(* What the note at hand may have paid grows with time.                    *)
LEMMA HandFacts ==
  ASSUME TrackOK, NEW j \in 1 .. NoteCount + 1, NEW b \in Nat, NEW e \in Nat, b <= e
  PROVE  Hand(j, b) \in Nat /\ Hand(j, e) \in Nat /\ Hand(j, b) <= Hand(j, e)
<1>1. NoteCount \in Nat /\ 0 \in Nat
  BY NoteFacts
<1>2. CASE j <= NoteCount
  <2>1. j \in 1 .. NoteCount
    BY <1>1, <1>2
  <2>2. Sung(j, b) \in Nat /\ Sung(j, e) \in Nat /\ Sung(j, b) <= Sung(j, e)
    BY <1>1, <2>1, NotePays
  <2> QED BY <1>2, <2>2 DEF Hand
<1>3. CASE ~ (j <= NoteCount)
  BY <1>3 DEF Hand
<1> QED BY <1>2, <1>3

(* What a row and a song are worth so far.                                 *)
LEMMA RowType ==
  ASSUME TrackOK, NEW j \in 1 .. NoteCount + 1
  PROVE  Worth(RowStart(j), j - 1) \in Nat /\ Worth(1, j - 1) \in Nat
<1>1. /\ NoteCount \in Nat /\ RowStart(j) \in Nat /\ RowStart(j) >= 1 /\ j - 1 \in Int
      /\ j - 1 <= NoteCount /\ 1 \in Nat /\ 1 >= 1
  BY NoteFacts, RowFacts
<1> QED BY <1>1, WorthType

(* Ranking a row.                                                          *)
LEMMA RankedPlayer ==
  ASSUME TrackOK, NEW p \in Players, p.scoreIt \in 1 .. NoteCount + 1
  PROVE  LET q == CalcRowRank(p) IN
         /\ q \in Players /\ q.pos = p.pos /\ q.scoreIt = p.scoreIt /\ q.score = p.score
         /\ q.noteScore = p.noteScore /\ q.stars = p.stars
         /\ p.maxLineScore # 0 => q = p
         /\ p.maxLineScore = 0 =>
              /\ q.maxLineScore = Row(p) /\ q.lineScore = 0
              /\ q.prevLineScore = IF Row(p) > 0 THEN <<p.lineScore, Row(p)>> ELSE NoRank
<1>1. Row(p) \in Nat
  BY RowType DEF Row
<1>2. CASE p.maxLineScore # 0
  BY <1>2 DEF CalcRowRank
<1>3. CASE p.maxLineScore = 0
  <2> DEFINE r == Row(p)
             pr == IF r > 0 THEN <<p.lineScore, r>> ELSE NoRank
             c == CalcRowRank(p)
             Ranks == (Nat \X Nat) \cup {NoRank}
             All == [pos : Nat, scoreIt : Nat, score : Int, noteScore : Nat, lineScore : Nat,
                     maxLineScore : Nat, prevLineScore : Ranks, stars : SUBSET Nat]
  <2>1. c = [p EXCEPT !.maxLineScore = r, !.lineScore = 0, !.prevLineScore = pr]
    BY <1>3 DEF CalcRowRank, Row
  <2>2. p \in All /\ Players = All
    BY DEF Players
  <2>3. p.lineScore \in Nat
    BY DEF Players
  <2>4. r \in Nat /\ pr \in Ranks
    BY <1>1, <2>3
  <2> HIDE DEF r, pr, c, Ranks
  <2>5. /\ c \in All /\ c.pos = p.pos /\ c.scoreIt = p.scoreIt /\ c.score = p.score
        /\ c.noteScore = p.noteScore /\ c.stars = p.stars
        /\ c.maxLineScore = r /\ c.lineScore = 0 /\ c.prevLineScore = pr
    BY <2>1, <2>2, <2>4
  <2> HIDE DEF All
  <2> QED BY <2>2, <2>5, <1>3 DEF r, pr, c
<1> QED BY <1>2, <1>3

(* The rank of a row takes no points away and is at most the best.         *)
LEMMA RankingPays ==
  ASSUME TrackOK, NEW p, NEW done \in Nat, NEW now \in Nat, Paid(p, done, now), p.noteScore = 0
  PROVE  Paid(CalcRowRank(p), done, now)
<1> DEFINE q == CalcRowRank(p)
           r == Row(p)
<1>1. p \in Players /\ p.scoreIt \in 1 .. NoteCount + 1 /\ p.lineScore \in Nat /\ r \in Nat
  BY RowType DEF Paid, Players, Row
<1>2. /\ q \in Players /\ q.pos = p.pos /\ q.scoreIt = p.scoreIt /\ q.score = p.score
      /\ q.noteScore = p.noteScore
      /\ p.maxLineScore # 0 => q = p
      /\ p.maxLineScore = 0 =>
              /\ q.maxLineScore = r /\ q.lineScore = 0
              /\ q.prevLineScore = IF r > 0 THEN <<p.lineScore, r>> ELSE NoRank
  BY <1>1, RankedPlayer
<1>3. CASE p.maxLineScore # 0
  BY <1>2, <1>3
<1>4. CASE p.maxLineScore = 0
  <2>1. p.lineScore <= r
    BY <1>1 DEF Paid
  <2>2. q.prevLineScore = NoRank \/ q.prevLineScore[1] <= q.prevLineScore[2]
    BY <1>2, <1>4, <2>1
  <2>3. q.lineScore <= Row(q) + q.noteScore
    <3>1. Row(q) = r
      BY <1>2 DEF Row
    <3> HIDE DEF q, r
    <3> QED BY <3>1, <1>1, <1>2, <1>4
  <2> HIDE DEF q, r
  <2>4. /\ q \in Players /\ q.scoreIt = p.scoreIt /\ q.score = p.score /\ q.noteScore = p.noteScore
        /\ q.lineScore = 0
    BY <1>2, <1>4
  <2>5. Paid(q, done, now)
    BY <2>2, <2>3, <2>4 DEF Paid
  <2> QED BY <2>5 DEF q
<1> QED BY <1>3, <1>4

(* The rank of a row of which every tone was sung is the best.             *)
LEMMA RankingIsFull ==
  ASSUME TrackOK, NEW p, NEW done \in Nat, NEW now \in Nat, Paid(p, done, now), Full(p, now),
         p.noteScore = 0, p.scoreIt > NoteCount \/ track[p.scoreIt].type = "sleep"
  PROVE  Full(CalcRowRank(p), now)
<1> DEFINE q == CalcRowRank(p)
           r == Row(p)
<1>1. p \in Players /\ p.scoreIt \in 1 .. NoteCount + 1 /\ p.lineScore \in Nat /\ r \in Nat
  BY RowType DEF Paid, Players, Row
<1>2. /\ q \in Players /\ q.pos = p.pos /\ q.scoreIt = p.scoreIt /\ q.score = p.score
      /\ q.noteScore = p.noteScore /\ q.stars = p.stars
      /\ p.maxLineScore # 0 => q = p
      /\ p.maxLineScore = 0 =>
              /\ q.maxLineScore = r /\ q.lineScore = 0
              /\ q.prevLineScore = IF r > 0 THEN <<p.lineScore, r>> ELSE NoRank
  BY <1>1, RankedPlayer
<1>3. CASE p.maxLineScore # 0
  BY <1>2, <1>3
<1>4. CASE p.maxLineScore = 0
  <2>1. p.lineScore = r
    BY <1>1, <1>4 DEF Full
  <2>2. q.prevLineScore # NoRank => q.prevLineScore[1] = q.prevLineScore[2]
    BY <1>2, <1>4, <2>1
  <2>3. Row(q) = r
    BY <1>2 DEF Row
  <2>4. q.maxLineScore = 0 => q.lineScore = Row(q) + q.noteScore
    <3> HIDE DEF q, r
    <3> QED BY <2>3, <1>1, <1>2, <1>4
  <2> HIDE DEF q, r
  <2>5. /\ q.scoreIt = p.scoreIt /\ q.score = p.score /\ q.noteScore = p.noteScore
        /\ q.stars = p.stars
    BY <1>2
  <2>6. Full(q, now)
    BY <2>2, <2>4, <2>5 DEF Full
  <2> QED BY <2>6 DEF q
<1> QED BY <1>3, <1>4

-----------------------------------------------------------------------------
(* One note of one time step.                                              *)

(* What is offered only grows.                                             *)
LEMMA StillPaid ==
  ASSUME TrackOK, NEW p, NEW done, NEW b \in Nat, NEW e \in Nat, b <= e, Paid(p, done, b)
  PROVE  Paid(p, done, e)
<1>1. /\ Hand(p.scoreIt, b) \in Nat /\ Hand(p.scoreIt, e) \in Nat
      /\ Hand(p.scoreIt, b) <= Hand(p.scoreIt, e)
  BY HandFacts DEF Paid
<1>2. p.noteScore \in Nat
  BY DEF Paid, Players
<1>3. p.noteScore <= Hand(p.scoreIt, e)
  BY <1>1, <1>2 DEF Paid
<1> QED BY <1>3 DEF Paid

(* Points go to the song, the row and the note alike.                      *)
LEMMA AddedFacts ==
  ASSUME NEW p \in Players, NEW points \in Nat
  PROVE  LET a == AddScore(p, points) IN
         /\ a \in Players /\ a.pos = p.pos /\ a.scoreIt = p.scoreIt /\ a.score = p.score + points
         /\ a.noteScore = p.noteScore + points /\ a.lineScore = p.lineScore + points
         /\ a.maxLineScore = p.maxLineScore /\ a.prevLineScore = p.prevLineScore
         /\ a.stars = p.stars
         /\ points = 0 => a = p
<1> DEFINE Ranks == (Nat \X Nat) \cup {NoRank}
           All == [pos : Nat, scoreIt : Nat, score : Int, noteScore : Nat, lineScore : Nat,
                   maxLineScore : Nat, prevLineScore : Ranks, stars : SUBSET Nat]
           x == p.score + points
           y == p.noteScore + points
           z == p.lineScore + points
           a == AddScore(p, points)
<1>1. p \in All /\ Players = All
  BY DEF Players
<1>2. /\ x \in Int /\ y \in Nat /\ z \in Nat
      /\ points = 0 => x = p.score /\ y = p.noteScore /\ z = p.lineScore
  BY <1>1
<1>3. a = [p EXCEPT !.score = x, !.noteScore = y, !.lineScore = z]
  BY <1>1 DEF AddScore
<1> HIDE DEF Ranks, x, y, z, a
<1>4. /\ a \in All /\ a.pos = p.pos /\ a.scoreIt = p.scoreIt /\ a.score = x
      /\ a.noteScore = y /\ a.lineScore = z /\ a.maxLineScore = p.maxLineScore
      /\ a.prevLineScore = p.prevLineScore /\ a.stars = p.stars
  BY <1>1, <1>2, <1>3
<1>5. points = 0 => a = p
  BY <1>1, <1>2, <1>3
<1> HIDE DEF All
<1> QED BY <1>1, <1>4, <1>5 DEF x, y, z, a

(* The row goes on.                                                        *)
LEMMA UnrankedFacts ==
  ASSUME NEW p \in Players
  PROVE  LET a == [p EXCEPT !.maxLineScore = 0] IN
         /\ a \in Players /\ a.pos = p.pos /\ a.scoreIt = p.scoreIt /\ a.score = p.score
         /\ a.noteScore = p.noteScore /\ a.lineScore = p.lineScore
         /\ a.maxLineScore = 0 /\ a.prevLineScore = p.prevLineScore /\ a.stars = p.stars
<1> DEFINE Ranks == (Nat \X Nat) \cup {NoRank}
           All == [pos : Nat, scoreIt : Nat, score : Int, noteScore : Nat, lineScore : Nat,
                   maxLineScore : Nat, prevLineScore : Ranks, stars : SUBSET Nat]
<1>1. p \in All /\ Players = All
  BY DEF Players
<1> HIDE DEF Ranks
<1> QED BY <1>1

(* Points for the note at hand.                                            *)
Scored(p, points) == AfterRow(AddScore(p, points), track[p.scoreIt])

(* A note pays for its part of the step.                                   *)
LEMMA ScoringPays ==
  ASSUME TrackOK, NEW p, NEW b \in Nat, NEW e \in Nat, b <= e, Paid(p, e, b),
         p.scoreIt <= NoteCount, NEW points \in Nat,
         Sung(p.scoreIt, b) + points <= Sung(p.scoreIt, e),
         track[p.scoreIt].type = "sleep" => points = 0 /\ Sung(p.scoreIt, b) = 0
  PROVE  /\ Paid(Scored(p, points), e, e)
         /\ Scored(p, points).pos = p.pos /\ Scored(p, points).scoreIt = p.scoreIt
         /\ Scored(p, points).noteScore = p.noteScore + points
         /\ Scored(p, points).stars = p.stars
         /\ track[p.scoreIt].type = "sleep" => Scored(p, points).lineScore = 0
<1> DEFINE i == p.scoreIt
           q == Scored(p, points)
<1>1. /\ p \in Players /\ i \in 1 .. NoteCount /\ NoteCount \in Nat
      /\ p.noteScore \in Nat /\ p.lineScore \in Nat /\ p.score \in Int
      /\ Hand(i, b) = Sung(i, b) /\ Hand(i, e) = Sung(i, e)
      /\ Sung(i, b) \in Nat /\ Sung(i, e) \in Nat /\ Row(p) \in Nat /\ Worth(1, i - 1) \in Nat
  BY NoteFacts, NoteWorth, RowType DEF Paid, Players, Hand, Row
<1>2. CASE track[i].type = "sleep"
  <2>1. points = 0 /\ p.noteScore = 0
    BY <1>1, <1>2 DEF Paid
  <2>2. AddScore(p, points) = p
    BY <1>1, <2>1, AddedFacts
  <2>3. q = CalcRowRank(p)
    BY <2>2, <1>2 DEF Scored, AfterRow
  <2>4. Paid(p, e, e)
    BY StillPaid
  <2>5. Paid(CalcRowRank(p), e, e)
    BY <2>4, <2>1, RankingPays
  <2>6. /\ CalcRowRank(p).pos = p.pos /\ CalcRowRank(p).scoreIt = p.scoreIt
        /\ CalcRowRank(p).noteScore = p.noteScore /\ CalcRowRank(p).stars = p.stars
        /\ CalcRowRank(p).lineScore = 0
    <3>1. i \in 1 .. NoteCount + 1 /\ (p.maxLineScore # 0 => p.lineScore = 0)
      BY <1>1 DEF Paid
    <3> QED BY <1>1, <3>1, RankedPlayer
  <2> HIDE DEF q
  <2>7. p.noteScore + points = p.noteScore
    BY <2>1
  <2> QED BY <2>3, <2>5, <2>6, <2>7 DEF q
<1>3. CASE track[i].type # "sleep"
  <2> DEFINE a == AddScore(p, points)
             c == [a EXCEPT !.maxLineScore = 0]
  <2>1. /\ a \in Players /\ a.pos = p.pos /\ a.scoreIt = p.scoreIt /\ a.score = p.score + points
        /\ a.noteScore = p.noteScore + points /\ a.lineScore = p.lineScore + points
        /\ a.prevLineScore = p.prevLineScore /\ a.stars = p.stars
    BY <1>1, AddedFacts
  <2>2. q = c
    BY <1>3 DEF Scored, AfterRow
  <2> HIDE DEF a
  <2>3. /\ c \in Players /\ c.pos = a.pos /\ c.scoreIt = a.scoreIt /\ c.score = a.score
        /\ c.noteScore = a.noteScore /\ c.lineScore = a.lineScore
        /\ c.maxLineScore = 0 /\ c.prevLineScore = a.prevLineScore /\ c.stars = a.stars
    BY <2>1, UnrankedFacts
  <2> HIDE DEF c
  <2>4. /\ c.pos = p.pos /\ c.scoreIt = p.scoreIt /\ c.score = p.score + points
        /\ c.noteScore = p.noteScore + points /\ c.lineScore = p.lineScore + points
        /\ c.prevLineScore = p.prevLineScore /\ c.stars = p.stars /\ Row(c) = Row(p)
    BY <2>1, <2>3 DEF Row
  <2>5. /\ p.noteScore <= Sung(i, b) /\ p.score >= 0
        /\ p.score <= Worth(1, i - 1) + p.noteScore
        /\ p.lineScore <= Row(p) + p.noteScore
    BY <1>1 DEF Paid
  <2>6. /\ c.noteScore <= Sung(i, e) /\ c.score >= 0
        /\ c.score <= Worth(1, i - 1) + c.noteScore
        /\ c.lineScore <= Row(p) + c.noteScore
    <3> DEFINE w == Worth(1, i - 1)
               r == Row(p)
               x == Sung(i, b)
               y == Sung(i, e)
    <3>1. w \in Nat /\ r \in Nat /\ x \in Nat /\ y \in Nat /\ x + points <= y
      BY <1>1
    <3> HIDE DEF w, r, x, y
    <3>2. /\ p.noteScore <= x /\ p.score >= 0 /\ p.score <= w + p.noteScore
          /\ p.lineScore <= r + p.noteScore
      BY <2>5 DEF w, r, x
    <3> HIDE DEF i
    <3>3. /\ p.noteScore + points <= y /\ p.score + points >= 0
          /\ p.score + points <= w + (p.noteScore + points)
          /\ p.lineScore + points <= r + (p.noteScore + points)
      BY <1>1, <3>1, <3>2
    <3> QED BY <2>4, <3>3 DEF w, r, y
  <2>7. Paid(c, e, e)
    <3>1. /\ \A k \in 1 .. i - 1 : track[k].end <= e
          /\ p.scoreIt \in 1 .. NoteCount + 1
          /\ p.prevLineScore = NoRank \/ p.prevLineScore[1] <= p.prevLineScore[2]
      BY DEF Paid
    <3> QED BY <1>1, <2>3, <2>4, <2>6, <3>1 DEF Paid
  <2> QED BY <2>2, <2>4, <2>7, <1>3
<1> QED BY <1>2, <1>3

(* In tune it pays all of its part.                                        *)
LEMMA ScoringIsFull ==
  ASSUME TrackOK, NEW p, NEW b \in Nat, NEW e \in Nat, b <= e, Paid(p, e, b), Full(p, b),
         p.scoreIt <= NoteCount, NEW points \in Nat,
         Sung(p.scoreIt, b) + points = Sung(p.scoreIt, e),
         track[p.scoreIt].type = "sleep" =>
           points = 0 /\ Sung(p.scoreIt, b) = 0 /\ Sung(p.scoreIt, e) = 0
  PROVE  Full(Scored(p, points), e)
<1> DEFINE i == p.scoreIt
           q == Scored(p, points)
<1>1. /\ p \in Players /\ i \in 1 .. NoteCount /\ NoteCount \in Nat
      /\ p.noteScore \in Nat /\ p.lineScore \in Nat /\ p.score \in Int
      /\ Hand(i, b) = Sung(i, b) /\ Hand(i, e) = Sung(i, e)
      /\ Sung(i, b) \in Nat /\ Sung(i, e) \in Nat /\ Row(p) \in Nat /\ Worth(1, i - 1) \in Nat
  BY NoteFacts, NoteWorth, RowType DEF Paid, Players, Hand, Row
<1>2. CASE track[i].type = "sleep"
  <2>1. points = 0 /\ p.noteScore = 0 /\ Hand(i, b) = Hand(i, e)
    BY <1>1, <1>2 DEF Paid
  <2>2. AddScore(p, points) = p
    BY <1>1, <2>1, AddedFacts
  <2>3. q = CalcRowRank(p)
    BY <2>2, <1>2 DEF Scored, AfterRow
  <2>4. Paid(p, e, e)
    BY StillPaid
  <2>5. Full(p, e)
    BY <2>1 DEF Full
  <2> HIDE DEF q
  <2>6. Full(CalcRowRank(p), e)
    BY <2>1, <2>4, <2>5, <1>2, RankingIsFull
  <2> QED BY <2>3, <2>6 DEF q
<1>3. CASE track[i].type # "sleep"
  <2> DEFINE a == AddScore(p, points)
             c == [a EXCEPT !.maxLineScore = 0]
  <2>1. /\ a \in Players /\ a.pos = p.pos /\ a.scoreIt = p.scoreIt /\ a.score = p.score + points
        /\ a.noteScore = p.noteScore + points /\ a.lineScore = p.lineScore + points
        /\ a.prevLineScore = p.prevLineScore /\ a.stars = p.stars
    BY <1>1, AddedFacts
  <2>2. q = c
    BY <1>3 DEF Scored, AfterRow
  <2> HIDE DEF a
  <2>3. /\ c \in Players /\ c.pos = a.pos /\ c.scoreIt = a.scoreIt /\ c.score = a.score
        /\ c.noteScore = a.noteScore /\ c.lineScore = a.lineScore
        /\ c.maxLineScore = 0 /\ c.prevLineScore = a.prevLineScore /\ c.stars = a.stars
    BY <2>1, UnrankedFacts
  <2> HIDE DEF c
  <2>4. /\ c.pos = p.pos /\ c.scoreIt = p.scoreIt /\ c.score = p.score + points
        /\ c.noteScore = p.noteScore + points /\ c.lineScore = p.lineScore + points
        /\ c.prevLineScore = p.prevLineScore /\ c.stars = p.stars /\ Row(c) = Row(p)
    BY <2>1, <2>3 DEF Row
  <2>5. p.lineScore = Row(p) + p.noteScore
    <3>1. CASE p.maxLineScore = 0
      BY <3>1 DEF Full
    <3>2. CASE p.maxLineScore # 0
      <4>1. p.lineScore = 0 /\ p.noteScore = 0 /\ RowStart(i) = i
        BY <3>2, <1>1, <1>3 DEF Full, Paid
      <4>2. Row(p) = 0
        BY <4>1, <1>1, WorthOfNone DEF Row
      <4> QED BY <4>1, <4>2
    <3> QED BY <3>1, <3>2
  <2>6. p.noteScore = Sung(i, b) /\ p.score = Worth(1, i - 1) + p.noteScore
    BY <1>1 DEF Full
  <2>7. /\ c.noteScore = Sung(i, e) /\ c.score = Worth(1, i - 1) + c.noteScore
        /\ c.lineScore = Row(p) + c.noteScore
    <3> DEFINE w == Worth(1, i - 1)
               r == Row(p)
               x == Sung(i, b)
               y == Sung(i, e)
    <3>1. w \in Nat /\ r \in Nat /\ x \in Nat /\ y \in Nat /\ x + points = y
      BY <1>1
    <3> HIDE DEF w, r, x, y
    <3>2. /\ p.noteScore = x /\ p.score = w + p.noteScore
          /\ p.lineScore = r + p.noteScore
      BY <2>5, <2>6 DEF w, r, x
    <3> HIDE DEF i
    <3>3. /\ p.noteScore + points = y
          /\ p.score + points = w + (p.noteScore + points)
          /\ p.lineScore + points = r + (p.noteScore + points)
      BY <1>1, <3>1, <3>2
    <3> QED BY <2>4, <3>3 DEF w, r, y
  <2>8. Full(c, e)
    BY <1>1, <2>3, <2>4, <2>7 DEF Full
  <2> QED BY <2>2, <2>8
<1> QED BY <1>2, <1>3

(* Leaving a note that has ended.                                          *)
Leaves(q, s, b, e) ==
  /\ Paid(q, e, b)
  /\ q.pos = s.pos /\ q.scoreIt = s.scoreIt + 1 /\ q.noteScore = 0
  /\ q.score = s.score /\ q.lineScore = s.lineScore /\ q.maxLineScore = s.maxLineScore
  /\ q.prevLineScore = s.prevLineScore
  /\ q.stars = IF EarnsStar(s, track[s.scoreIt]) THEN s.stars \cup {s.scoreIt} ELSE s.stars

(* A note that is over is left: it belongs to those that are paid.         *)
LEMMA LeavingPays ==
  ASSUME TrackOK, NEW s, NEW b \in Nat, NEW e \in Nat, b <= e, Paid(s, e, e),
         s.scoreIt <= NoteCount, track[s.scoreIt].end <= e,
         track[s.scoreIt].type = "sleep" => s.lineScore = 0,
         NEW q, q = NextNote(s, s.scoreIt)
  PROVE  Leaves(q, s, b, e)
<1> DEFINE i == s.scoreIt
           Ranks == (Nat \X Nat) \cup {NoRank}
           All == [pos : Nat, scoreIt : Nat, score : Int, noteScore : Nat, lineScore : Nat,
                   maxLineScore : Nat, prevLineScore : Ranks, stars : SUBSET Nat]
           earned == IF EarnsStar(s, track[i]) THEN s.stars \cup {i} ELSE s.stars
           max == MaxScore(track[i])
<1>1. s \in All /\ Players = All
  BY DEF Players, Paid
<1>2. /\ i \in 1 .. NoteCount /\ NoteCount \in Nat /\ Hand(i, e) = max /\ max \in Nat
      /\ Row(s) \in Nat /\ Worth(1, i - 1) \in Nat
  <2>1. s \in Players /\ i \in 1 .. NoteCount /\ NoteCount \in Nat /\ i \in 1 .. NoteCount + 1
    BY NoteFacts DEF Paid, Players
  <2>2. Sung(i, e) = MaxScore(track[i]) /\ MaxScore(track[i]) \in Nat
    BY <2>1, NoteWorth
  <2>3. Row(s) \in Nat /\ Worth(1, i - 1) \in Nat
    BY <2>1, RowType DEF Row
  <2>4. Hand(i, e) = Sung(i, e)
    BY <2>1 DEF Hand
  <2> QED BY <2>1, <2>2, <2>3, <2>4
<1>3. i + 1 \in Nat /\ i \in Nat /\ earned \in SUBSET Nat
  BY <1>1, <1>2
<1>4. q = [s EXCEPT !.stars = earned, !.noteScore = 0, !.scoreIt = i + 1]
  BY <1>1 DEF NextNote
<1>5. /\ q \in All /\ q.pos = s.pos /\ q.scoreIt = i + 1 /\ q.noteScore = 0
      /\ q.score = s.score /\ q.lineScore = s.lineScore /\ q.maxLineScore = s.maxLineScore
      /\ q.prevLineScore = s.prevLineScore /\ q.stars = earned
  <2> DEFINE Stars == SUBSET Nat
             j == i + 1
  <2>1. All = [pos : Nat, scoreIt : Nat, score : Int, noteScore : Nat, lineScore : Nat,
               maxLineScore : Nat, prevLineScore : Ranks, stars : Stars]
    OBVIOUS
  <2>2. /\ s \in All /\ earned \in Stars /\ j \in Nat /\ 0 \in Nat
        /\ q = [s EXCEPT !.stars = earned, !.noteScore = 0, !.scoreIt = j]
    BY <1>1, <1>3, <1>4
  <2> HIDE DEF Ranks, earned, i, j, Stars, All
  <2>3. /\ q \in All /\ q.pos = s.pos /\ q.scoreIt = j /\ q.noteScore = 0
        /\ q.score = s.score /\ q.lineScore = s.lineScore /\ q.maxLineScore = s.maxLineScore
        /\ q.prevLineScore = s.prevLineScore /\ q.stars = earned
    BY <2>1, <2>2
  <2> QED BY <2>3 DEF j
<1>6. Worth(1, (i + 1) - 1) = Worth(1, i - 1) + max
  <2>1. (i + 1) - 1 = i
    BY <1>2
  <2> QED BY <1>2, <2>1, WorthOfOneMore
<1>7. Row(q) = IF track[i].type = "sleep" THEN 0 ELSE Row(s) + max
  <2>1. /\ RowStart(i) \in 1 .. i
        /\ RowStart(i + 1) = IF track[i].type = "sleep" THEN i + 1 ELSE RowStart(i)
    BY <1>2, RowFacts
  <2>2. CASE track[i].type = "sleep"
    <3>1. Row(q) = Worth(i + 1, (i + 1) - 1)
      BY <1>5, <2>1, <2>2 DEF Row
    <3> QED BY <1>3, <3>1, <2>2, WorthOfNone
  <2>3. CASE track[i].type # "sleep"
    <3>1. (i + 1) - 1 = i
      BY <1>2
    <3>2. Row(q) = Worth(RowStart(i), i) /\ Row(s) = Worth(RowStart(i), i - 1)
      BY <1>5, <2>1, <2>3, <3>1 DEF Row
    <3> QED BY <1>2, <2>1, <3>2, <2>3, WorthOfOneMore
  <2> QED BY <2>2, <2>3
<1>8. /\ s.noteScore <= max /\ s.score >= 0 /\ s.score <= Worth(1, i - 1) + s.noteScore
      /\ s.lineScore <= Row(s) + s.noteScore
      /\ s.maxLineScore # 0 => s.lineScore = 0
      /\ s.prevLineScore = NoRank \/ s.prevLineScore[1] <= s.prevLineScore[2]
      /\ \A k \in 1 .. i - 1 : track[k].end <= e
  BY <1>2 DEF Paid
<1>9. s.score \in Int /\ s.noteScore \in Nat /\ s.lineScore \in Nat
  BY <1>1
<1>10. q.score <= Worth(1, q.scoreIt - 1) + q.noteScore /\ q.lineScore <= Row(q) + q.noteScore
  <2> DEFINE w == Worth(1, i - 1)
             r == Row(s)
             v == Worth(1, (i + 1) - 1)
             z == Row(q)
  <2>1. /\ w \in Nat /\ r \in Nat /\ max \in Nat /\ v = w + max
        /\ \/ z = 0 /\ s.lineScore = 0
           \/ z = r + max
    BY <1>2, <1>6, <1>7
  <2>2. /\ s.noteScore <= max /\ s.score <= w + s.noteScore /\ s.lineScore <= r + s.noteScore
    BY <1>8
  <2> HIDE DEF w, r, max, v, z, i
  <2>3. s.score <= v + 0 /\ s.lineScore <= z + 0
    BY <1>9, <2>1, <2>2
  <2> QED BY <2>3, <1>5 DEF v, z
<1>11. /\ q.scoreIt \in 1 .. NoteCount + 1
       /\ \A k \in 1 .. q.scoreIt - 1 : track[k].end <= e
  BY <1>2, <1>5, <1>8
<1>12. q.noteScore <= Hand(q.scoreIt, b)
  BY <1>5, <1>11, HandFacts
<1> HIDE DEF All, earned
<1>13. Paid(q, e, b)
  BY <1>1, <1>5, <1>8, <1>10, <1>11, <1>12 DEF Paid
<1> QED BY <1>5, <1>13 DEF earned, Leaves

(* A note sung in tune earns its star and leaves nothing behind.           *)
LEMMA LeavingIsFull ==
  ASSUME TrackOK, NEW s, NEW b \in Nat, NEW e \in Nat, b <= e, Paid(s, e, e), Full(s, e),
         s.scoreIt <= NoteCount, track[s.scoreIt].end <= e,
         track[s.scoreIt].type = "sleep" => s.lineScore = 0,
         s.maxLineScore = 0 \/ track[s.scoreIt].type = "sleep",
         Hand(s.scoreIt + 1, b) = 0
  PROVE  Full(NextNote(s, s.scoreIt), b)
<1> DEFINE i == s.scoreIt
           n == track[i]
           q == NextNote(s, i)
           max == MaxScore(n)
<1> HIDE DEF q
<1>1. /\ Paid(q, e, b)
      /\ q.pos = s.pos /\ q.scoreIt = i + 1 /\ q.noteScore = 0
      /\ q.score = s.score /\ q.lineScore = s.lineScore /\ q.maxLineScore = s.maxLineScore
      /\ q.prevLineScore = s.prevLineScore
      /\ q.stars = IF EarnsStar(s, n) THEN s.stars \cup {i} ELSE s.stars
  BY LeavingPays, ZenonT(40) DEF q, Leaves
<1>2. /\ s \in Players /\ i \in 1 .. NoteCount /\ NoteCount \in Nat /\ Hand(i, e) = max /\ max \in Nat
      /\ Row(s) \in Nat /\ Worth(1, i - 1) \in Nat /\ s.score \in Int
  <2>1. s \in Players /\ i \in 1 .. NoteCount /\ NoteCount \in Nat /\ i \in 1 .. NoteCount + 1
    BY NoteFacts DEF Paid, Players
  <2>2. Sung(i, e) = MaxScore(track[i]) /\ MaxScore(track[i]) \in Nat
    BY <2>1, NoteWorth
  <2>3. Row(s) \in Nat /\ Worth(1, i - 1) \in Nat
    BY <2>1, RowType DEF Row
  <2>4. Hand(i, e) = Sung(i, e)
    BY <2>1 DEF Hand
  <2>5. s.score \in Int
    BY <2>1 DEF Players
  <2> QED BY <2>1, <2>2, <2>3, <2>4, <2>5
<1>3. /\ s.noteScore = max /\ s.score = Worth(1, i - 1) + max
      /\ (s.maxLineScore = 0 => s.lineScore = Row(s) + max)
      /\ s.prevLineScore # NoRank => s.prevLineScore[1] = s.prevLineScore[2]
      /\ \A k \in 1 .. i - 1 :
           track[k].type \in {"normal", "golden"} /\ track[k].begin < track[k].end => k \in s.stars
  BY <1>2 DEF Full
<1>4. Worth(1, q.scoreIt - 1) = Worth(1, i - 1) + max
  <2>1. q.scoreIt - 1 = i
    BY <1>1, <1>2
  <2> QED BY <1>2, <2>1, WorthOfOneMore
<1>5. /\ RowStart(i) \in 1 .. i
      /\ RowStart(i + 1) = IF n.type = "sleep" THEN i + 1 ELSE RowStart(i)
  BY <1>2, RowFacts
<1>6. q.maxLineScore = 0 => q.lineScore = Row(q)
  <2>1. CASE n.type = "sleep"
    <3>1. Row(q) = Worth(i + 1, (i + 1) - 1) /\ i + 1 \in Int
      BY <1>1, <1>2, <1>5, <2>1 DEF Row
    <3>2. Row(q) = 0
      BY <3>1, WorthOfNone
    <3> QED BY <3>2, <2>1, <1>1
  <2>2. CASE n.type # "sleep"
    <3>1. q.scoreIt - 1 = i
      BY <1>1, <1>2
    <3>2. Row(q) = Worth(RowStart(i), i) /\ Row(s) = Worth(RowStart(i), i - 1)
      BY <1>1, <1>5, <2>2, <3>1 DEF Row
    <3>3. Worth(RowStart(i), i) = Worth(RowStart(i), i - 1) + max
      BY <1>2, <1>5, WorthOfOneMore
    <3> QED BY <3>2, <3>3, <2>2, <1>1, <1>3
  <2> QED BY <2>1, <2>2
<1>7. q.maxLineScore # 0 => RowStart(q.scoreIt) = q.scoreIt
  BY <1>1, <1>5
<1>8. n.type \in {"normal", "golden"} /\ n.begin < n.end => i \in q.stars
  <2> SUFFICES ASSUME n.type \in {"normal", "golden"}, n.begin < n.end PROVE i \in q.stars
    OBVIOUS
  <2> DEFINE m == Multiplier(n)
             l == n.end - n.begin
  <2>1. n.begin \in Nat /\ n.end \in Nat /\ n.type \in NoteTypes
    BY <1>2, NoteFacts
  <2>2. m \in {1, 2}
    BY <2>1, MultiplierFacts
  <2>3. l \in Nat /\ l > 0
    BY <2>1
  <2>4. max = 2 * m * l
    BY DEF MaxScore
  <2>5. max > 0
    <3> HIDE DEF m, l, max
    <3>1. CASE m = 1
      BY <2>3, <2>4, <3>1
    <3>2. CASE m = 2
      BY <2>3, <2>4, <3>2
    <3> QED BY <2>2, <3>1, <3>2
  <2>6. EarnsStar(s, n)
    <3> HIDE DEF max
    <3>1. 10 * max > 8 * max
      BY <2>5, <1>2
    <3> QED BY <3>1, <1>3 DEF EarnsStar, max
  <2> QED BY <2>6, <1>1
<1>9. \A k \in 1 .. q.scoreIt - 1 :
        track[k].type \in {"normal", "golden"} /\ track[k].begin < track[k].end => k \in q.stars
  <2> SUFFICES ASSUME NEW k \in 1 .. q.scoreIt - 1,
                      track[k].type \in {"normal", "golden"} /\ track[k].begin < track[k].end
               PROVE  k \in q.stars
    OBVIOUS
  <2>1. k = i \/ k \in 1 .. i - 1
    BY <1>1, <1>2
  <2>2. k \in s.stars => k \in q.stars
    BY <1>1
  <2> QED BY <2>1, <2>2, <1>3, <1>8
<1>10. q.score = Worth(1, q.scoreIt - 1) + q.noteScore
  BY <1>1, <1>2, <1>3, <1>4
<1>11. q.maxLineScore = 0 => q.lineScore = Row(q) + q.noteScore
  <2>1. q.lineScore \in Nat
    BY <1>1 DEF Paid, Players
  <2> QED BY <1>1, <1>6, <2>1
<1>12. q.noteScore = Hand(q.scoreIt, b)
  BY <1>1
<1>13. q.prevLineScore # NoRank => q.prevLineScore[1] = q.prevLineScore[2]
  BY <1>1, <1>3
<1>14. Full(q, b)
  BY <1>1, <1>7, <1>9, <1>10, <1>11, <1>12, <1>13 DEF Full
<1> QED BY <1>14 DEF q

-----------------------------------------------------------------------------
(* The notes of a time step, one after the other.                          *)

NotesScored(h, start, order, tone, b, e, S) ==
  h = [s \in SUBSET S |->
         IF s = {} THEN start
         ELSE ScoreNote(h[s \ {Max(s)}], order[Max(s)], tone, b, e)]

(* The loop over the notes is a fold: the function it chooses exists.      *)
LEMMA NotesScoredExists ==
  ASSUME NEW S, IsFiniteSet(S), \A s \in SUBSET S : s # {} => Max(s) \in s,
         NEW start, NEW order, NEW tone, NEW b, NEW e
  PROVE  \E h : NotesScored(h, start, order, tone, b, e, S)
<1> DEFINE Next1(h) == [s \in SUBSET S |->
                          IF s = {} THEN start
                          ELSE ScoreNote(h[s \ {Max(s)}], order[Max(s)], tone, b, e)]
           Good(h, m) == /\ h = [s \in SUBSET S |-> h[s]]
                         /\ \A s \in SUBSET S : Cardinality(s) < m => h[s] = Next1(h)[s]
           Failing == {m \in Nat : ~ \E h : Good(h, m)}
<1>1. ASSUME NEW m \in Nat, NEW h, Good(h, m) PROVE Good(Next1(h), m + 1)
  <2> DEFINE g == Next1(h)
  <2>1. ASSUME NEW s \in SUBSET S, Cardinality(s) < m + 1 PROVE g[s] = Next1(g)[s]
    <3>1. CASE s = {}
      BY <3>1
    <3>2. CASE s # {}
      <4>1. Max(s) \in s
        BY <3>2
      <4>2. s \ {Max(s)} \in SUBSET S /\ Cardinality(s \ {Max(s)}) < m
        <5>1. IsFiniteSet(s) /\ Cardinality(s) \in Nat
          BY FS_Subset, FS_CardinalityType
        <5>2. Cardinality(s \ {Max(s)}) = Cardinality(s) - 1
          BY <5>1, <4>1, FS_RemoveElement
        <5> QED BY <5>1, <5>2, <2>1
      <4>3. h[s \ {Max(s)}] = g[s \ {Max(s)}]
        BY <4>2, <1>1
      <4> QED BY <4>3, <3>2
    <3> QED BY <3>1, <3>2
  <2> HIDE DEF Next1
  <2>2. g = [s \in SUBSET S |-> g[s]]
    BY DEF Next1
  <2> QED BY <2>1, <2>2
<1>2. Failing = {}
  <2> SUFFICES ASSUME Failing # {} PROVE FALSE
    OBVIOUS
  <2> HIDE DEF Next1
  <2>1. PICK m \in Failing : \A k \in Failing : m <= k
    BY LeastNumber, Failing \in SUBSET Nat
  <2>2. m # 0
    <3>1. Good([s \in SUBSET S |-> 0], 0)
      <4>1. ASSUME NEW s \in SUBSET S PROVE ~ (Cardinality(s) < 0)
        BY FS_Subset, FS_CardinalityType
      <4> QED BY <4>1
    <3> HIDE DEF Good
    <3>2. CASE m = 0
      <4>1. ~ \E h : Good(h, 0)
        BY <2>1, <3>2
      <4> QED BY <3>1, <4>1
    <3> QED BY <3>2
  <2>3. m - 1 \in Nat /\ (m - 1) + 1 = m /\ ~ (m <= m - 1)
    BY <2>1, <2>2
  <2> HIDE DEF Good
  <2>4. PICK h : Good(h, m - 1)
    BY <2>1, <2>3
  <2>5. Good(Next1(h), m)
    BY <2>3, <2>4, <1>1
  <2> QED BY <2>1, <2>5
<1>3. PICK h : Good(h, Cardinality(S) + 1)
  <2>1. Cardinality(S) + 1 \in Nat
    BY FS_CardinalityType
  <2> QED BY <2>1, <1>2
<1>4. ASSUME NEW s \in SUBSET S PROVE h[s] = Next1(h)[s]
  <2>1. Cardinality(s) < Cardinality(S) + 1
    BY FS_Subset, FS_CardinalityType
  <2> QED BY <2>1, <1>3
<1>5. h = Next1(h)
  BY <1>3, <1>4
<1> QED BY <1>5 DEF NotesScored

AllNotes(start, order, tone, b, e) ==
  FoldLeft(LAMBDA q, i : ScoreNote(q, i, tone, b, e), start, order)

(* g[k] is the player after the first k notes.                             *)
Chain(g, n, start, order, tone, b, e) ==
  /\ g[0] = start
  /\ \A k \in 1 .. n : g[k] = ScoreNote(g[k - 1], order[k], tone, b, e)

(* The loop goes from note to note.                                        *)
LEMMA FoldOfNotes ==
  ASSUME NEW n \in Nat, NEW start, NEW order, DOMAIN order = 1 .. n, NEW tone, NEW b, NEW e
  PROVE  \E g : /\ Chain(g, n, start, order, tone, b, e)
                /\ AllNotes(start, order, tone, b, e) = g[n]
<1> DEFINE Eq(h) == h = [s \in SUBSET (DOMAIN order) |->
                           IF s = {} THEN start
                           ELSE ScoreNote(h[s \ {Max(s)}], order[Max(s)], tone, b, e)]
           X == CHOOSE h : Eq(h)
           g == [k \in 0 .. n |-> X[1 .. k]]
<1>1. AllNotes(start, order, tone, b, e) = X[DOMAIN order]
  BY DEF AllNotes, FoldLeft, MapThenFoldSet
<1>2. Eq(X)
  <2> DEFINE S == 1 .. n
  <2>0. IsFiniteSet(S) /\ \A s \in SUBSET S : s # {} => Max(s) \in s
    <3>1. \A s \in SUBSET S : s \in SUBSET (0 .. n)
      OBVIOUS
    <3> QED BY <3>1, GreatestOf, Intervals, 1 \in Int, n \in Int
  <2>1. PICK h : NotesScored(h, start, order, tone, b, e, S)
    <3> HIDE DEF S
    <3> QED BY <2>0, NotesScoredExists
  <2>2. Eq(h)
    BY <2>1 DEF NotesScored
  <2> HIDE DEF Eq
  <2> QED BY <2>2
<1>3. ASSUME NEW s \in SUBSET (1 .. n)
      PROVE  X[s] = IF s = {} THEN start
                    ELSE ScoreNote(X[s \ {Max(s)}], order[Max(s)], tone, b, e)
  <2> HIDE DEF X
  <2> QED BY <1>2
<1> HIDE DEF X
<1>4. g[0] = start
  <2>1. 1 .. 0 = {} /\ g[0] = X[1 .. 0]
    OBVIOUS
  <2> QED BY <1>3, <2>1
<1>5. ASSUME NEW k \in 1 .. n PROVE g[k] = ScoreNote(g[k - 1], order[k], tone, b, e)
  <2>1. /\ 1 .. k \in SUBSET (1 .. n) /\ 1 .. k # {} /\ 1 .. k \in SUBSET (0 .. n)
        /\ g[k] = X[1 .. k] /\ g[k - 1] = X[1 .. k - 1] /\ k \in 1 .. k
        /\ (1 .. k) \ {k} = 1 .. k - 1
    OBVIOUS
  <2>2. Max(1 .. k) \in 1 .. k /\ k <= Max(1 .. k)
    BY <2>1, GreatestOf
  <2>3. Max(1 .. k) = k
    BY <2>2
  <2>4. X[1 .. k] = ScoreNote(X[(1 .. k) \ {k}], order[k], tone, b, e)
    BY <1>3, <2>1, <2>3
  <2> QED BY <2>1, <2>4
<1>6. g[n] = X[DOMAIN order]
  OBVIOUS
<1> HIDE DEF g
<1>7. Chain(g, n, start, order, tone, b, e)
  BY <1>4, <1>5 DEF Chain
<1> QED BY <1>1, <1>6, <1>7

-----------------------------------------------------------------------------
(* A time step.                                                            *)

(* Within a row there is no rank.                                          *)
LEMMA ScoredRow ==
  ASSUME NEW p \in Players, NEW points \in Nat, track[p.scoreIt].type # "sleep"
  PROVE  Scored(p, points).maxLineScore = 0
<1> DEFINE a == AddScore(p, points)
<1>1. a \in Players
  BY AddedFacts
<1>2. Scored(p, points) = [a EXCEPT !.maxLineScore = 0]
  BY DEF Scored, AfterRow
<1> HIDE DEF a
<1> QED BY <1>1, <1>2, UnrankedFacts

(* The tone is right for note i, or nothing of it sounds.                  *)
Right(i, tone, b, e) ==
  \/ ClampDuration(track[i], b, e) = 0
  \/ tone # NoTone /\ PowerFactor(track[i], tone) = 2
  \/ track[i].type = "sleep"

(* What a note does to a player.                                           *)
NoteStep(q, p, tone, b, e) ==
  /\ q.pos = p.pos
  /\ track[p.scoreIt].end <= e => q.scoreIt = p.scoreIt + 1 /\ Paid(q, e, b)
  /\ ~ (track[p.scoreIt].end <= e) => q.scoreIt = p.scoreIt /\ Paid(q, e, e)
  /\ Full(p, b) /\ Right(p.scoreIt, tone, b, e) =>
       /\ track[p.scoreIt].end <= e /\ Hand(p.scoreIt + 1, b) = 0 => Full(q, b)
       /\ ~ (track[p.scoreIt].end <= e) => Full(q, e)

(* One turn of the loop, in the words of NoteStep.                         *)
LEMMA NoteScored ==
  ASSUME TrackOK, NEW p, NEW tone \in Nat \cup {NoTone}, NEW b \in Nat, NEW e \in Nat, b <= e,
         Paid(p, e, b), p.scoreIt <= NoteCount, NEW q, q = ScoreNote(p, p.scoreIt, tone, b, e)
  PROVE  NoteStep(q, p, tone, b, e)
<1> DEFINE i == p.scoreIt
           points == IF tone = NoTone THEN 0 ELSE Score(track[i], tone, b, e)
           t == IF tone = NoTone THEN 0 ELSE tone
           s == Scored(p, points)
<1>1. i \in 1 .. NoteCount /\ p \in Players
  BY NoteFacts DEF Paid, Players
<1>2. t \in Nat
  BY DEF NoTone
<1>3. /\ Score(track[i], t, b, e) \in Nat
      /\ Sung(i, b) \in Nat /\ Sung(i, e) \in Nat /\ Sung(i, b) <= Sung(i, e)
      /\ Sung(i, b) + Score(track[i], t, b, e) <= Sung(i, e)
      /\ track[i].type = "sleep" => Score(track[i], t, b, e) = 0 /\ Sung(i, e) = 0
      /\ \/ ClampDuration(track[i], b, e) = 0
         \/ PowerFactor(track[i], t) = 2
         \/ track[i].type = "sleep"
         => Sung(i, b) + Score(track[i], t, b, e) = Sung(i, e)
  <2> DEFINE w == Score(track[i], t, b, e)
             x == Sung(i, b)
             y == Sung(i, e)
             right == \/ ClampDuration(track[i], b, e) = 0
                      \/ PowerFactor(track[i], t) = 2
                      \/ track[i].type = "sleep"
             sleeps == track[i].type = "sleep"
  <2> HIDE DEF i, t
  <2>1. i \in 1 .. NoteCount
    BY <1>1
  <2>2. w \in Nat /\ x \in Nat /\ y \in Nat /\ x <= y
    <3>1. w \in Nat
      BY <2>1, <1>2, NotePays
    <3>2. x \in Nat /\ y \in Nat
      BY <2>1, NoteWorth
    <3>3. x <= y
      BY <2>1, <1>2, NotePays
    <3> QED BY <3>1, <3>2, <3>3
  <2>3. x + w <= y /\ (sleeps => w = 0 /\ y = 0)
    BY <2>1, <1>2, ScorePays
  <2>4. right => x + w = y
    BY <2>1, <1>2, NotePays
  <2> QED BY <2>2, <2>3, <2>4
<1>4. /\ points = 0 \/ points = Score(track[i], t, b, e)
      /\ tone # NoTone => points = Score(track[i], t, b, e)
  OBVIOUS
<1>5. /\ points \in Nat /\ Sung(i, b) + points <= Sung(i, e)
      /\ track[i].type = "sleep" => points = 0 /\ Sung(i, b) = 0 /\ Sung(i, e) = 0
  <2> HIDE DEF points, t, i
  <2> QED BY <1>3, <1>4
<1>6. Right(i, tone, b, e) => Sung(i, b) + points = Sung(i, e)
  <2> SUFFICES ASSUME Right(i, tone, b, e) PROVE Sung(i, b) + points = Sung(i, e)
    OBVIOUS
  <2>1. CASE ClampDuration(track[i], b, e) = 0
    <3>1. Sung(i, b) + Score(track[i], t, b, e) = Sung(i, e)
      BY <1>3, <2>1
    <3>2. Score(track[i], t, b, e) = 0
      <4>1. 0 \in Nat
        OBVIOUS
      <4>2. /\ Multiplier(track[i]) \in {0, 1, 2} /\ PowerFactor(track[i], t) \in 0 .. 2
        BY <1>1, <1>2, NoteFacts, MultiplierFacts, PowerFactorFacts
      <4> DEFINE m == Multiplier(track[i])
                 f == PowerFactor(track[i], t)
      <4>3. Score(track[i], t, b, e) = m * f * 0
        BY <2>1 DEF Score
      <4> HIDE DEF m, f
      <4>4. m \in {0, 1, 2} /\ f \in 0 .. 2
        BY <4>2 DEF m, f
      <4>5. m * f * 0 = 0
        BY <4>4
      <4> HIDE DEF t, i
      <4> QED BY <4>3, <4>5
    <3> HIDE DEF points, t, i
    <3> QED BY <3>1, <3>2, <1>4
  <2>2. CASE tone # NoTone /\ PowerFactor(track[i], tone) = 2
    BY <1>3, <1>4, <2>2
  <2>3. CASE track[i].type = "sleep"
    BY <1>5, <2>3
  <2> QED BY <2>1, <2>2, <2>3 DEF Right
<1>7. q = IF track[i].end <= e THEN NextNote(s, i) ELSE s
  BY DEF ScoreNote, Scored
<1> HIDE DEF points, t
<1>8. /\ Paid(s, e, e) /\ s.pos = p.pos /\ s.scoreIt = i
      /\ track[i].type = "sleep" => s.lineScore = 0
  BY <1>5, ScoringPays
<1>9. Full(p, b) /\ Right(i, tone, b, e) => Full(s, e)
  BY <1>5, <1>6, ScoringIsFull
<1>10. s.maxLineScore = 0 \/ track[i].type = "sleep"
  BY <1>1, <1>5, ScoredRow
<1> HIDE DEF s
<1>11. CASE track[i].end <= e
  <2>1. q = NextNote(s, s.scoreIt)
    BY <1>7, <1>8, <1>11
  <2>2. Paid(q, e, b) /\ q.pos = s.pos /\ q.scoreIt = s.scoreIt + 1
    <3>1. /\ s.scoreIt <= NoteCount /\ track[s.scoreIt].end <= e /\ Paid(s, e, e)
          /\ track[s.scoreIt].type = "sleep" => s.lineScore = 0
      BY <1>1, <1>8, <1>11
    <3>2. Leaves(q, s, b, e)
      BY <3>1, <2>1, LeavingPays
    <3> QED BY <3>2 DEF Leaves
  <2>3. Full(p, b) /\ Right(i, tone, b, e) /\ Hand(i + 1, b) = 0 => Full(q, b)
    BY <2>1, <1>8, <1>9, <1>10, <1>11, LeavingIsFull
  <2>4. q.pos = p.pos /\ q.scoreIt = i + 1 /\ Paid(q, e, b)
    BY <2>2, <1>8
  <2> QED BY <2>3, <2>4, <1>11 DEF NoteStep
<1>12. CASE ~ (track[i].end <= e)
  <2>1. q = s
    BY <1>7, <1>12
  <2>2. q.pos = p.pos /\ q.scoreIt = i /\ Paid(q, e, e)
    BY <2>1, <1>8
  <2>3. Full(p, b) /\ Right(i, tone, b, e) => Full(q, e)
    BY <2>1, <1>9
  <2> QED BY <2>2, <2>3, <1>12 DEF NoteStep
<1> QED BY <1>11, <1>12

(* A set of numbers that has with each all between it and the first is an  *)
(* interval.                                                               *)
LEMMA UpToTheLast ==
  ASSUME NEW n \in Nat, NEW it \in Nat, NEW S \in SUBSET (it .. n),
         \A i \in S : \A k \in it .. i : k \in S
  PROVE  Cardinality(S) \in Nat /\ S = it .. it + Cardinality(S) - 1
<1>1. CASE S = {}
  <2>1. Cardinality(S) = 0
    BY <1>1, FS_EmptySet
  <2>2. it .. it + 0 - 1 = {}
    OBVIOUS
  <2> QED BY <1>1, <2>1, <2>2
<1>2. CASE S # {}
  <2>1. Max(S) \in S /\ \A x \in S : x <= Max(S)
    BY <1>2, GreatestOf, S \in SUBSET (0 .. n)
  <2>2. S = it .. Max(S) /\ Max(S) \in Int /\ it <= Max(S)
    <3>1. Max(S) \in it .. n
      BY <2>1
    <3>2. \A x \in it .. Max(S) : x \in S
      BY <2>1
    <3>3. \A x \in S : x \in it .. Max(S)
      <4>1. \A x \in S : x \in it .. n
        OBVIOUS
      <4> QED BY <2>1, <3>1, <4>1
    <3> DEFINE T == it .. Max(S)
    <3>4. Max(S) \in Int /\ it <= Max(S)
      BY <3>1
    <3> HIDE DEF T
    <3>5. S = T
      BY <3>2, <3>3 DEF T
    <3> QED BY <3>4, <3>5 DEF T
  <2>3. Cardinality(it .. Max(S)) = Max(S) - it + 1
    BY <2>2, FS_Interval, it \in Int
  <2>4. Cardinality(S) = Max(S) - it + 1
    BY <2>2, <2>3
  <2> QED BY <2>2, <2>4
<1> QED BY <1>1, <1>2

(* The notes looked at, and what stops the loop.                           *)
LEMMA ConsideredFacts ==
  ASSUME TrackOK, NEW p, p.scoreIt \in 1 .. NoteCount + 1, NEW e \in Nat
  PROVE  LET c == Cardinality(Considered(p, e))
             it == p.scoreIt
         IN  /\ c \in Nat /\ it + c <= NoteCount + 1
             /\ \A k \in it .. it + c - 2 : track[k].end <= e
             /\ \/ it + c = NoteCount + 1
                \/ c > 0 /\ ~ (track[it + c - 1].end <= e)
                \/ e < track[it + c].begin
<1> DEFINE it == p.scoreIt
           S == Considered(p, e)
           c == Cardinality(S)
<1>1. /\ NoteCount \in Nat /\ it \in Nat /\ it >= 1 /\ it <= NoteCount + 1
      /\ \A i \in 1 .. NoteCount : track[i].begin \in Nat /\ track[i].end \in Nat
  BY NoteFacts
<1>2. \A i : i \in S <=> /\ i \in it .. NoteCount
                         /\ \A k \in it .. i : track[k].begin <= e
                         /\ \A k \in it .. i - 1 : track[k].end <= e
  BY DEF Considered, NoteCount
<1> HIDE DEF S, it
<1>3. S \in SUBSET (it .. NoteCount)
  BY <1>2
<1>4. ASSUME NEW i \in S, NEW k \in it .. i PROVE k \in S
  <2>1. i \in it .. NoteCount
    BY <1>2
  <2>2. k \in it .. NoteCount /\ (\A l \in it .. k : l \in it .. i)
        /\ \A l \in it .. k - 1 : l \in it .. i - 1
    BY <2>1, <1>1
  <2> QED BY <1>2, <2>2
<1>5. c \in Nat /\ S = it .. it + c - 1
  BY <1>1, <1>3, <1>4, UpToTheLast
<1> HIDE DEF c
<1>6. it + c <= NoteCount + 1
  <2>1. CASE c = 0
    BY <1>1, <2>1
  <2>2. CASE c > 0
    <3>1. it + c - 1 \in S
      BY <1>1, <1>5, <2>2
    <3>2. it + c - 1 \in it .. NoteCount
      BY <3>1, <1>3
    <3>3. c \in Nat
      BY <1>5
    <3> QED BY <3>2, <3>3, <1>1
  <2> QED BY <2>1, <2>2, <1>5
<1>7. ASSUME NEW k \in it .. it + c - 2 PROVE track[k].end <= e
  <2>1. k + 1 \in S /\ k \in it .. (k + 1) - 1
    BY <1>1, <1>5
  <2> QED BY <1>2, <2>1
<1>8. ASSUME it + c # NoteCount + 1, ~ (c > 0 /\ ~ (track[it + c - 1].end <= e))
      PROVE  e < track[it + c].begin
  <2> DEFINE i == it + c
  <2>1. i \in 1 .. NoteCount /\ i \in it .. NoteCount
    BY <1>1, <1>5, <1>6, <1>8
  <2>2. i \notin S
    BY <1>5, <1>1
  <2>3. \A k \in it .. i - 1 : track[k].end <= e
    <3>1. \A k \in it .. i - 1 : k \in it .. it + c - 2 \/ (k = it + c - 1 /\ c > 0)
      <4>1. c \in Nat
        BY <1>5
      <4> QED BY <1>1, <4>1
    <3> QED BY <3>1, <1>7, <1>8
  <2>4. \A k \in it .. i - 1 : track[k].begin <= e
    <3>1. \A k \in it .. i - 1 : k \in S /\ k \in it .. k
      BY <1>1, <1>5
    <3> QED BY <3>1, <1>2
  <2>5. PICK k \in it .. i : ~ (track[k].begin <= e)
    BY <2>1, <2>2, <2>3, <1>2
  <2>6. k = i
    <3>1. k \in it .. i - 1 \/ k = i
      BY <1>1, <1>5
    <3> QED BY <3>1, <2>4, <2>5
  <2>7. track[i].begin \in Nat
    BY <1>1, <2>1
  <2> HIDE DEF i
  <2> QED BY <2>5, <2>6, <2>7 DEF i
<1> QED BY <1>5, <1>6, <1>7, <1>8 DEF c, S, it

(* The notes to come have not begun: said of the players who may have sung *)
(* everything right.                                                       *)
Untouched(p, now) == \A k \in p.scoreIt + 1 .. NoteCount : now <= track[k].begin

InTuneFor(tone, b, e) == \A i \in DOMAIN track : Right(i, tone, b, e)

(* The loop of update(): g[k] is the player after k notes.                 *)
Loop(g, p, tone, b, e) ==
  /\ g[0] = p
  /\ \A k \in 1 .. Cardinality(Considered(p, e)) :
       g[k] = ScoreNote(g[k - 1], p.scoreIt + k - 1, tone, b, e)

(* All turns of the loop: what was paid up to the beginning of the step is *)
(* paid up to its end.                                                     *)
LoopPays(p, q, tone, b, e) ==
  /\ q.pos = p.pos /\ Paid(q, e, e)
  /\ Apart(track) => Untouched(q, e)
  /\ Full(p, b) /\ Untouched(p, b) /\ InTuneFor(tone, b, e) /\ Apart(track) => Full(q, e)

LEMMA LoopOfNotes ==
  ASSUME TrackOK, NEW p, NEW tone \in Nat \cup {NoTone}, NEW b \in Nat, NEW e \in Nat, b <= e,
         Paid(p, b, b), NEW g, Loop(g, p, tone, b, e),
         NEW q, q = g[Cardinality(Considered(p, e))]
  PROVE  LoopPays(p, q, tone, b, e)
<1> DEFINE it == p.scoreIt
           c == Cardinality(Considered(p, e))
           fullness == Full(p, b) /\ Untouched(p, b) /\ InTuneFor(tone, b, e)
           Goes(x, k) == /\ x.pos = p.pos /\ x.scoreIt = it + k /\ Paid(x, e, b)
                         /\ fullness => Full(x, b)
           Stays(x, k) == /\ x.pos = p.pos /\ x.scoreIt = it + k - 1 /\ Paid(x, e, e)
                          /\ fullness => Full(x, e)
<1>1. /\ NoteCount \in Nat /\ DOMAIN track = 1 .. NoteCount
      /\ \A i \in 1 .. NoteCount : /\ track[i].begin \in Nat /\ track[i].end \in Nat
                                   /\ track[i].begin <= track[i].end
  BY NoteFacts
<1>2. it \in 1 .. NoteCount + 1
  BY DEF Paid
<1>3. /\ c \in Nat /\ it + c <= NoteCount + 1
      /\ \A k \in it .. it + c - 2 : track[k].end <= e
      /\ \/ it + c = NoteCount + 1
         \/ c > 0 /\ ~ (track[it + c - 1].end <= e)
         \/ e < track[it + c].begin
  BY <1>2, ConsideredFacts
<1>5. g[0] = p /\ \A k \in 1 .. c : g[k] = ScoreNote(g[k - 1], it + k - 1, tone, b, e)
  BY DEF Loop
<1>4. q = g[c]
  OBVIOUS
<1> HIDE DEF c
<1> HIDE DEF Goes, Stays, fullness
<1>6. Goes(g[0], 0)
  <2>1. Paid(p, e, b)
    <3>1. \A k \in 1 .. it - 1 : track[k].end \in Nat /\ track[k].end <= b
      BY <1>1, <1>2 DEF Paid
    <3>2. \A k \in 1 .. it - 1 : track[k].end <= e
      BY <3>1
    <3> QED BY <3>2 DEF Paid
  <2>2. it = it + 0
    BY <1>1, <1>2
  <2> QED BY <2>1, <2>2, <1>5 DEF Goes, fullness
<1>7. ASSUME NEW k \in 1 .. c, Goes(g[k - 1], k - 1)
      PROVE  /\ track[it + k - 1].end <= e => Goes(g[k], k)
             /\ ~ (track[it + k - 1].end <= e) => Stays(g[k], k)
  <2> DEFINE x == g[k - 1]
             y == g[k]
             i == it + k - 1
  <2>1. /\ x.pos = p.pos /\ x.scoreIt = it + (k - 1) /\ Paid(x, e, b)
        /\ fullness => Full(x, b)
    BY <1>7 DEF Goes
  <2>2. i = it + (k - 1) /\ i \in 1 .. NoteCount /\ i + 1 = it + k
    <3>1. c \in Nat /\ it + c <= NoteCount + 1 /\ NoteCount \in Nat
      BY <1>1, <1>3
    <3> HIDE DEF it
    <3> QED BY <3>1, <1>2
  <2>3. y = ScoreNote(x, i, tone, b, e)
    BY <1>5
  <2> HIDE DEF x, y, i
  <2>4. x.scoreIt = i /\ y = ScoreNote(x, x.scoreIt, tone, b, e) /\ x.scoreIt <= NoteCount
    BY <2>1, <2>2, <2>3, <1>1
  <2>5. /\ y.pos = x.pos
        /\ track[i].end <= e => y.scoreIt = i + 1 /\ Paid(y, e, b)
        /\ ~ (track[i].end <= e) => y.scoreIt = i /\ Paid(y, e, e)
        /\ Full(x, b) /\ Right(i, tone, b, e) =>
              /\ track[i].end <= e /\ Hand(i + 1, b) = 0 => Full(y, b)
              /\ ~ (track[i].end <= e) => Full(y, e)
    <3>1. NoteStep(y, x, tone, b, e)
      BY <2>1, <2>4, NoteScored
    <3> QED BY <3>1, <2>4 DEF NoteStep
  <2>6. fullness => Right(i, tone, b, e)
    BY <2>2, <1>1 DEF fullness, InTuneFor
  <2>7. fullness => Hand(i + 1, b) = 0
    <3>1. CASE i + 1 <= NoteCount
      <4>1. i + 1 \in 1 .. NoteCount /\ i + 1 \in it + 1 .. NoteCount
        BY <1>1, <1>2, <2>2, <3>1
      <4>2. fullness => b <= track[i + 1].begin
        BY <4>1 DEF fullness, Untouched
      <4>3. b <= track[i + 1].begin => Sung(i + 1, b) = 0
        <5>1. 0 \in Nat /\ 0 <= b
          OBVIOUS
        <5> QED BY <4>1, <5>1, NotePays
      <4> QED BY <4>2, <4>3, <3>1 DEF Hand
    <3>2. CASE ~ (i + 1 <= NoteCount)
      BY <3>2 DEF Hand
    <3> QED BY <3>1, <3>2
  <2>8. track[i].end <= e => Goes(y, k)
    BY <2>1, <2>2, <2>5, <2>6, <2>7 DEF Goes
  <2>9. ~ (track[i].end <= e) => Stays(y, k)
    BY <2>1, <2>2, <2>5, <2>6 DEF Stays, i
  <2> QED BY <2>8, <2>9 DEF i, y
<1>8. \A k \in Nat : k < c => Goes(g[k], k)
  <2> DEFINE P == {k \in Nat : k < c => Goes(g[k], k)}
  <2>1. 0 \in P
    BY <1>6
  <2>2. ASSUME NEW k \in Nat, k \in P PROVE k + 1 \in P
    <3> SUFFICES ASSUME k + 1 < c PROVE Goes(g[k + 1], k + 1)
      OBVIOUS
    <3>1. k + 1 \in 1 .. c /\ (k + 1) - 1 = k /\ Goes(g[k], k)
      BY <2>2, <1>3
    <3>2. it + (k + 1) - 1 \in it .. it + c - 2
      BY <1>2, <1>3
    <3> QED BY <3>1, <3>2, <1>3, <1>7
  <2>3. \A k \in Nat : k \in P
    <3> HIDE DEF P
    <3> QED BY <2>1, <2>2, Induction
  <2> QED BY <2>3
<1>9. \/ Goes(q, c) /\ (it + c = NoteCount + 1 \/ e < track[it + c].begin)
      \/ Stays(q, c) /\ c > 0 /\ ~ (track[it + c - 1].end <= e)
  <2>1. CASE c = 0
    BY <1>3, <1>4, <1>6, <2>1
  <2>2. CASE c > 0
    <3>1. c \in 1 .. c /\ c - 1 \in Nat /\ c - 1 < c
      BY <1>3, <2>2
    <3>2. /\ track[it + c - 1].end <= e => Goes(g[c], c)
          /\ ~ (track[it + c - 1].end <= e) => Stays(g[c], c)
      BY <3>1, <1>7, <1>8
    <3> QED BY <3>2, <1>3, <1>4, <2>2
  <2> QED BY <2>1, <2>2, <1>3
<1>10. CASE Goes(q, c) /\ (it + c = NoteCount + 1 \/ e < track[it + c].begin)
  <2> DEFINE i == it + c
  <2>1. /\ q.pos = p.pos /\ q.scoreIt = i /\ Paid(q, e, b)
        /\ fullness => Full(q, b)
    BY <1>10 DEF Goes
  <2>2. i \in 1 .. NoteCount + 1
    BY <1>1, <1>2, <1>3
  <2>3. Paid(q, e, e)
    BY <2>1, StillPaid
  <2>4. i = NoteCount + 1 \/ e < track[i].begin
    BY <1>10
  <2> HIDE DEF i
  <2>5. Hand(i, b) = Hand(i, e)
    <3>1. CASE i <= NoteCount
      <4>1. i \in 1 .. NoteCount /\ e <= track[i].begin /\ b <= track[i].begin
        BY <1>1, <2>2, <2>4, <3>1
      <4>2. 0 \in Nat /\ 0 <= b /\ 0 <= e
        OBVIOUS
      <4>3. Sung(i, b) = 0 /\ Sung(i, e) = 0
        BY <4>1, <4>2, NotePays, ZenonT(30)
      <4> QED BY <4>3, <3>1 DEF Hand
    <3>2. CASE ~ (i <= NoteCount)
      BY <3>2 DEF Hand
    <3> QED BY <3>1, <3>2
  <2>6. fullness => Full(q, e)
    BY <2>1, <2>5 DEF Full
  <2>7. Apart(track) => Untouched(q, e)
    <3> SUFFICES ASSUME Apart(track), NEW k \in i + 1 .. NoteCount PROVE e <= track[k].begin
      BY <2>1 DEF Untouched
    <3>1. i \in 1 .. NoteCount /\ k \in 1 .. NoteCount /\ i < k
      BY <1>1, <2>2
    <3>2. track[i].end <= track[k].begin
      BY <3>1, <1>1 DEF Apart
    <3>3. e < track[i].begin
      BY <3>1, <2>4, <1>1
    <3> QED BY <3>1, <3>2, <3>3, <1>1
  <2> QED BY <2>1, <2>3, <2>6, <2>7 DEF fullness, LoopPays
<1>11. CASE Stays(q, c) /\ c > 0 /\ ~ (track[it + c - 1].end <= e)
  <2> DEFINE i == it + c - 1
  <2>1. /\ q.pos = p.pos /\ q.scoreIt = i /\ Paid(q, e, e)
        /\ fullness => Full(q, e)
    BY <1>11 DEF Stays
  <2>2. i \in 1 .. NoteCount
    BY <1>1, <1>2, <1>3, <1>11
  <2>3. ~ (track[i].end <= e)
    BY <1>11
  <2> HIDE DEF i
  <2>4. Apart(track) => Untouched(q, e)
    <3> SUFFICES ASSUME Apart(track), NEW k \in i + 1 .. NoteCount PROVE e <= track[k].begin
      BY <2>1 DEF Untouched
    <3>1. k \in 1 .. NoteCount /\ i < k
      BY <1>1, <2>2
    <3>2. track[i].end <= track[k].begin
      BY <3>1, <2>2, <1>1 DEF Apart
    <3> QED BY <3>1, <3>2, <2>2, <2>3, <1>1
  <2> QED BY <2>1, <2>4 DEF fullness, LoopPays
<1> QED BY <1>9, <1>10, <1>11

(* Nobody has more points than there are.                                  *)
LEMMA NeverClamped ==
  ASSUME TrackOK, NEW p, NEW now \in Nat, Paid(p, now, now)
  PROVE  /\ p.score \in Int /\ 0 <= p.score /\ p.score <= TotalPoints
         /\ [p EXCEPT !.score = Clamp(@, 0, TotalPoints)] = p
<1> DEFINE it == p.scoreIt
           Ranks == (Nat \X Nat) \cup {NoRank}
           All == [pos : Nat, scoreIt : Nat, score : Int, noteScore : Nat, lineScore : Nat,
                   maxLineScore : Nat, prevLineScore : Ranks, stars : SUBSET Nat]
<1>1. /\ p \in All /\ Players = All /\ it \in 1 .. NoteCount + 1 /\ NoteCount \in Nat
      /\ p.noteScore <= Hand(it, now) /\ p.score >= 0
      /\ p.score <= Worth(1, it - 1) + p.noteScore
  BY NoteFacts DEF Paid, Players
<1>2. p.score \in Int /\ p.noteScore \in Nat
  BY <1>1
<1>3. TotalPoints \in Nat
  BY <1>1, WorthType DEF TotalPoints, NoteCount
<1>4. Worth(1, it - 1) + Hand(it, now) <= TotalPoints /\ Worth(1, it - 1) \in Nat
      /\ Hand(it, now) \in Nat
  <2>1. Worth(1, it - 1) \in Nat
    BY <1>1, RowType
  <2>2. CASE it <= NoteCount
    <3>1. it \in 1 .. NoteCount /\ it \in Nat /\ it >= 1
      BY <1>1, <2>2
    <3>2. Worth(1, it) = Worth(1, it - 1) + MaxScore(track[it])
      BY <3>1, WorthOfOneMore, 1 \in Nat
    <3>3. Worth(1, it) <= TotalPoints
      BY <3>1, <2>2, WorthOfAll
    <3>4. Sung(it, now) \in Nat /\ MaxScore(track[it]) \in Nat
      BY <3>1, NoteWorth
    <3>5. Sung(it, now) <= MaxScore(track[it])
      <4>1. 0 \in Nat /\ 0 <= now
        OBVIOUS
      <4> QED BY <3>1, <4>1, NotePays
    <3>6. Hand(it, now) = Sung(it, now)
      BY <2>2 DEF Hand
    <3> DEFINE w == Worth(1, it - 1)
               x == Sung(it, now)
               m == MaxScore(track[it])
    <3>7. w + x <= TotalPoints
      <4>1. w \in Nat /\ x \in Nat /\ m \in Nat /\ x <= m /\ w + m <= TotalPoints
        BY <2>1, <3>2, <3>3, <3>4, <3>5
      <4> HIDE DEF w, x, m
      <4> QED BY <4>1, <1>3
    <3> QED BY <2>1, <3>4, <3>6, <3>7
  <2>3. CASE ~ (it <= NoteCount)
    <3>1. it - 1 \in Nat /\ it - 1 <= NoteCount /\ Hand(it, now) = 0
      BY <1>1, <2>3 DEF Hand
    <3>2. Worth(1, it - 1) <= TotalPoints
      BY <3>1, WorthOfAll
    <3> QED BY <2>1, <3>1, <3>2
  <2> QED BY <2>2, <2>3
<1>5. p.score <= TotalPoints
  <2> DEFINE w == Worth(1, it - 1)
             h == Hand(it, now)
  <2>1. /\ w \in Nat /\ h \in Nat /\ w + h <= TotalPoints /\ p.noteScore <= h
        /\ p.score <= w + p.noteScore
    BY <1>1, <1>4
  <2> HIDE DEF w, h
  <2> QED BY <2>1, <1>2, <1>3
<1>6. Clamp(p.score, 0, TotalPoints) = p.score
  BY <1>1, <1>2, <1>3, <1>5 DEF Clamp
<1>7. [p EXCEPT !.score = Clamp(@, 0, TotalPoints)] = p
  <2> HIDE DEF Ranks
  <2> QED BY <1>1, <1>6
<1> QED BY <1>1, <1>2, <1>5, <1>7

(* Player::update.                                                         *)
LEMMA UpdatePays ==
  ASSUME TrackOK, NEW p, NEW tone \in Nat \cup {NoTone}, p.pos # Frames(track),
         NEW b, b = StepUnits * p.pos, NEW e, e = b + StepUnits,
         Paid(p, b, b), NEW r, r = Update(p, tone)
  PROVE  /\ r.pos = p.pos + 1 /\ Paid(r, e, e)
         /\ Apart(track) => Untouched(r, e)
         /\ Full(p, b) /\ Untouched(p, b) /\ InTuneFor(tone, b, e) /\ Apart(track) => Full(r, e)
<1> DEFINE c == Cardinality(Considered(p, e))
           x == p.pos + 1
           start == [p EXCEPT !.pos = x]
           order == [k \in 1 .. c |-> p.scoreIt + k - 1]
           scored == AllNotes(start, order, tone, b, e)
           ranked == IF scored.scoreIt > NoteCount THEN CalcRowRank(scored) ELSE scored
<1>1. b \in Nat /\ e \in Nat /\ b <= e /\ StepUnits \in Nat
  BY ScoringAssumption DEF Paid, Players
<1>2. r = [ranked EXCEPT !.score = Clamp(@, 0, TotalPoints)]
  <2> DEFINE B == StepUnits * p.pos
             E == B + StepUnits
             o == [k \in 1 .. Cardinality(Considered(p, E)) |-> p.scoreIt + k - 1]
             sc == AllNotes([p EXCEPT !.pos = @ + 1], o, tone, B, E)
             ra == IF sc.scoreIt > Len(track) THEN CalcRowRank(sc) ELSE sc
  <2>1. Update(p, tone) = [ra EXCEPT !.score = Clamp(@, 0, TotalPoints)]
    BY DEF Update, AllNotes
  <2>2. o = order /\ [p EXCEPT !.pos = @ + 1] = start /\ B = b /\ E = e
    OBVIOUS
  <2> HIDE DEF o, B, E, start, order
  <2>3. sc = scored
    BY <2>2
  <2> HIDE DEF sc, scored
  <2> QED BY <2>1, <2>3 DEF NoteCount
<1>3. /\ start \in Players /\ start.pos = p.pos + 1 /\ start.scoreIt = p.scoreIt
      /\ start.score = p.score /\ start.noteScore = p.noteScore /\ start.lineScore = p.lineScore
      /\ start.maxLineScore = p.maxLineScore /\ start.prevLineScore = p.prevLineScore
      /\ start.stars = p.stars
  <2> DEFINE Ranks == (Nat \X Nat) \cup {NoRank}
             All == [pos : Nat, scoreIt : Nat, score : Int, noteScore : Nat, lineScore : Nat,
                     maxLineScore : Nat, prevLineScore : Ranks, stars : SUBSET Nat]
  <2>1. p \in All /\ Players = All
    BY DEF Players, Paid
  <2>2. x \in Nat
    BY <2>1
  <2> HIDE DEF Ranks, x
  <2>3. /\ start \in All /\ start.pos = x /\ start.scoreIt = p.scoreIt
        /\ start.score = p.score /\ start.noteScore = p.noteScore
        /\ start.lineScore = p.lineScore
        /\ start.maxLineScore = p.maxLineScore /\ start.prevLineScore = p.prevLineScore
        /\ start.stars = p.stars
    BY <2>1, <2>2
  <2> HIDE DEF All
  <2> QED BY <2>1, <2>3 DEF x
<1>4. c \in Nat
  BY <1>1, ConsideredFacts DEF Paid
<1>5. Considered(start, e) = Considered(p, e)
  BY <1>3 DEF Considered
<1>6. DOMAIN order = 1 .. c /\ \A k \in 1 .. c : order[k] = p.scoreIt + k - 1
  OBVIOUS
<1>7. \E g : Chain(g, c, start, order, tone, b, e) /\ scored = g[c]
  <2> HIDE DEF c, order, start
  <2>1. DOMAIN order = 1 .. c
    BY <1>6
  <2>2. \E g : Chain(g, c, start, order, tone, b, e) /\ AllNotes(start, order, tone, b, e) = g[c]
    BY <1>4, <2>1, FoldOfNotes
  <2> QED BY <2>2
<1> HIDE DEF start, scored, x
<1>8. PICK g : Chain(g, c, start, order, tone, b, e) /\ scored = g[c]
  BY <1>7
<1>9. Paid(start, b, b)
  <2>1. Row(start) = Row(p)
    BY <1>3 DEF Row
  <2> QED BY <1>3, <2>1 DEF Paid
<1>10. /\ Full(p, b) => Full(start, b)
       /\ Untouched(p, b) => Untouched(start, b)
  <2>1. Row(start) = Row(p)
    BY <1>3 DEF Row
  <2> QED BY <1>3, <2>1 DEF Full, Untouched
<1>11. Loop(g, start, tone, b, e) /\ scored = g[Cardinality(Considered(start, e))]
  BY <1>3, <1>5, <1>6, <1>8 DEF Chain, Loop
<1> HIDE DEF c, order
<1>12. /\ scored.pos = start.pos /\ Paid(scored, e, e)
       /\ Apart(track) => Untouched(scored, e)
       /\ Full(start, b) /\ Untouched(start, b) /\ InTuneFor(tone, b, e) /\ Apart(track)
            => Full(scored, e)
  <2> HIDE DEF ranked
  <2>1. b \in Nat /\ e \in Nat /\ b <= e
    BY <1>1
  <2>2. /\ Loop(g, start, tone, b, e) /\ Paid(start, b, b)
        /\ scored = g[Cardinality(Considered(start, e))]
    BY <1>9, <1>11
  <2>3. LoopPays(start, scored, tone, b, e)
    BY <2>1, <2>2, LoopOfNotes
  <2> QED BY <2>3 DEF LoopPays
<1>13. /\ ranked.pos = scored.pos /\ ranked.scoreIt = scored.scoreIt /\ Paid(ranked, e, e)
       /\ Full(scored, e) => Full(ranked, e)
  <2>1. CASE scored.scoreIt > NoteCount
    <3>1. /\ scored \in Players /\ scored.scoreIt \in 1 .. NoteCount + 1 /\ NoteCount \in Nat
          /\ scored.noteScore \in Nat /\ scored.noteScore <= Hand(scored.scoreIt, e)
      BY <1>12, NoteFacts DEF Paid, Players
    <3>2. scored.noteScore = 0
      <4>1. Hand(scored.scoreIt, e) = 0
        BY <3>1, <2>1 DEF Hand
      <4> QED BY <3>1, <4>1
    <3>3. ranked = CalcRowRank(scored)
      BY <2>1
    <3>4. Paid(CalcRowRank(scored), e, e)
      BY <1>1, <1>12, <3>2, RankingPays
    <3>5. Full(scored, e) => Full(CalcRowRank(scored), e)
      BY <1>1, <1>12, <3>2, <2>1, RankingIsFull
    <3>6. CalcRowRank(scored).pos = scored.pos /\ CalcRowRank(scored).scoreIt = scored.scoreIt
      BY <3>1, RankedPlayer
    <3> QED BY <3>3, <3>4, <3>5, <3>6
  <2>2. CASE ~ (scored.scoreIt > NoteCount)
    BY <1>12, <2>2
  <2> QED BY <2>1, <2>2
<1> HIDE DEF ranked
<1>14. r = ranked
  BY <1>1, <1>2, <1>13, NeverClamped
<1>15. Untouched(scored, e) => Untouched(ranked, e)
  BY <1>13 DEF Untouched
<1> QED BY <1>3, <1>10, <1>12, <1>13, <1>14, <1>15

-----------------------------------------------------------------------------
(* The engine's players.                                                   *)

Graded(p, s) ==
  LET now == StepUnits * p.pos
  IN  /\ Paid(p, now, now)
      /\ Apart(track) => Untouched(p, now)
      /\ Apart(track) /\ s \in flawless => Full(p, now)

ScoringInv ==
  /\ TrackOK /\ time \in Nat /\ flawless \subseteq Singers
  /\ LockStep
  /\ \A s \in Singers : Graded(player[s], s)

(* A new player is owed nothing.                                           *)
Fresh == \A s : Graded(NewPlayer, s)

(* A new player has been paid what the beginning of the song is worth.     *)
LEMMA NewPlayersAreGraded == TrackOK => Fresh
<1> SUFFICES ASSUME TrackOK, NEW s PROVE Graded(NewPlayer, s)
  BY DEF Fresh
<1> DEFINE p == NewPlayer
<1>1. /\ p.pos = 0 /\ p.scoreIt = 1 /\ p.score = 0 /\ p.noteScore = 0 /\ p.lineScore = 0
      /\ p.maxLineScore = 0 /\ p.prevLineScore = NoRank /\ p.stars = {}
  BY DEF NewPlayer
<1>2. p \in Players
  <2> DEFINE Ranks == (Nat \X Nat) \cup {NoRank}
  <2>1. NoRank \in Ranks
    OBVIOUS
  <2> HIDE DEF Ranks
  <2>2. p \in [pos : Nat, scoreIt : Nat, score : Int, noteScore : Nat, lineScore : Nat,
               maxLineScore : Nat, prevLineScore : Ranks, stars : SUBSET Nat]
    BY <2>1 DEF NewPlayer
  <2> QED BY <2>2 DEF Ranks, Players
<1> HIDE DEF p
<1>3. /\ NoteCount \in Nat /\ StepUnits \in Nat /\ StepUnits * p.pos = 0
      /\ p.scoreIt \in 1 .. NoteCount + 1 /\ p.scoreIt - 1 = 0 /\ 1 .. p.scoreIt - 1 = {}
  BY <1>1, NoteFacts, ScoringAssumption
<1>4. Worth(1, p.scoreIt - 1) = 0 /\ Row(p) = 0
  <2>1. RowStart(1) = 1
    BY <1>1, <1>3, RowFacts
  <2>2. Worth(1, 1 - 1) = 0
    BY WorthOfNone
  <2> QED BY <1>1, <2>1, <2>2 DEF Row
<1>5. Hand(p.scoreIt, 0) = 0
  <2>1. CASE 1 <= NoteCount
    <3>1. 1 \in 1 .. NoteCount /\ 0 \in Nat /\ 0 <= 0
      BY <1>3, <2>1
    <3>2. 0 <= track[1].begin
      BY <3>1, NoteFacts
    <3>3. Sung(1, 0) = 0
      BY <3>1, <3>2, NotePays, ZenonT(30)
    <3> QED BY <3>3, <1>1, <2>1 DEF Hand
  <2>2. CASE ~ (1 <= NoteCount)
    BY <1>1, <2>2 DEF Hand
  <2> QED BY <2>1, <2>2
<1>6. Paid(p, 0, 0)
  BY <1>1, <1>2, <1>3, <1>4, <1>5 DEF Paid
<1>7. Full(p, 0)
  BY <1>1, <1>3, <1>4, <1>5 DEF Full
<1>8. Untouched(p, 0)
  <2>1. \A k \in p.scoreIt + 1 .. NoteCount : k \in 1 .. NoteCount
    BY <1>1, <1>3
  <2>2. \A k \in 1 .. NoteCount : 0 <= track[k].begin
    BY NoteFacts
  <2> QED BY <2>1, <2>2 DEF Untouched
<1> QED BY <1>3, <1>6, <1>7, <1>8 DEF Graded, p

(* One step of the engine for one singer.                                  *)
LEMMA UpdateIsGraded ==
  ASSUME TrackOK, NEW s, NEW p, Graded(p, s), NEW tone \in Nat \cup {NoTone}, NEW r, r = Update(p, tone),
         NEW still \in BOOLEAN,
         still => s \in flawless /\ (p.pos = Frames(track) \/ InTune(p.pos, tone))
  PROVE  LET now == StepUnits * r.pos
         IN  /\ r.pos = IF p.pos = Frames(track) THEN p.pos ELSE p.pos + 1
             /\ Paid(r, now, now)
             /\ Apart(track) => Untouched(r, now)
             /\ Apart(track) /\ still => Full(r, now)
<1> DEFINE b == StepUnits * p.pos
           e == b + StepUnits
<1>1. /\ Paid(p, b, b)
      /\ Apart(track) => Untouched(p, b)
      /\ Apart(track) /\ s \in flawless => Full(p, b)
  BY DEF Graded
<1>2. CASE p.pos = Frames(track)
  <2>1. r = p
    BY <1>2, Zenon DEF Update
  <2> HIDE DEF b
  <2> QED BY <1>1, <1>2, <2>1 DEF b
<1>3. CASE p.pos # Frames(track)
  <2>1. /\ r.pos = p.pos + 1 /\ Paid(r, e, e)
        /\ Apart(track) => Untouched(r, e)
        /\ Full(p, b) /\ Untouched(p, b) /\ InTuneFor(tone, b, e) /\ Apart(track) => Full(r, e)
    BY <1>1, <1>3, UpdatePays
  <2>2. p.pos \in Nat /\ StepUnits \in Nat
    BY <1>1, ScoringAssumption DEF Paid, Players
  <2>3. StepUnits * (p.pos + 1) = StepUnits * p.pos + StepUnits
    BY <2>2
  <2>4. StepUnits * r.pos = e /\ StepUnits * (p.pos + 1) = e
    BY <2>1, <2>3
  <2>5. InTune(p.pos, tone) => InTuneFor(tone, b, e)
    <3>1. InTune(p.pos, tone) <=>
            \A i \in DOMAIN track :
              \/ ClampDuration(track[i], b, e) = 0
              \/ tone # NoTone /\ PowerFactor(track[i], tone) = 2
              \/ track[i].type = "sleep"
      BY <2>4 DEF InTune
    <3> HIDE DEF b, e
    <3> QED BY <3>1 DEF InTuneFor, Right
  <2> HIDE DEF b, e
  <2> QED BY <1>1, <1>3, <2>1, <2>4, <2>5
<1> QED BY <1>2, <1>3

(* A song has so many time steps.                                          *)
LEMMA FramesType == TrackOK => Frames(track) \in Nat
<1> SUFFICES ASSUME TrackOK PROVE Frames(track) \in Nat
  OBVIOUS
<1>1. EndTime(track) \in Nat
  <2>1. CASE track = <<>>
    BY <2>1 DEF EndTime
  <2>2. CASE track # <<>>
    <3>1. track \in Seq([begin : Nat, end : Nat, type : NoteTypes, pitch : Int])
      BY ScoringAssumption DEF TrackOK
    <3>2. Len(track) \in 1 .. NoteCount
      <4>1. Len(track) # 0 /\ Len(track) \in Nat
        BY <3>1, <2>2
      <4> QED BY <4>1 DEF NoteCount
    <3> QED BY <3>2, <2>2, NoteFacts DEF EndTime
  <2> QED BY <2>1, <2>2
<1> QED BY <1>1, ScoringAssumption DEF Frames

(* All singers are at the same time step.                                  *)
LEMMA StepsInLock ==
  ASSUME TrackOK, time \in Nat, NEW p, p.pos = Sooner(time, Frames(track)), NEW x,
         x = IF p.pos = Frames(track) THEN p.pos ELSE p.pos + 1
  PROVE  x = Sooner(time + 1, Frames(track))
<1> DEFINE f == Frames(track)
<1>1. f \in Int
  BY FramesType
<1> HIDE DEF f
<1>2. p.pos = Sooner(time, f) /\ x = IF p.pos = f THEN p.pos ELSE p.pos + 1
  BY DEF f
<1>3. x = Sooner(time + 1, f)
  BY <1>1, <1>2 DEF Sooner
<1> QED BY <1>3 DEF f

(* The three facts about the invariant.                                    *)
LEMMA ScoringInit == Init => ScoringInv
<1> SUFFICES ASSUME Init PROVE ScoringInv
  OBVIOUS
<1>1. TrackOK /\ time = 0 /\ flawless = Singers /\ player = [s \in Singers |-> NewPlayer]
  BY DEF Init, TrackOK
<1>2. Fresh
  BY <1>1, NewPlayersAreGraded
<1>3. \A s \in Singers : player[s] = NewPlayer
  BY <1>1
<1>4. \A s \in Singers : Graded(player[s], s)
  BY <1>2, <1>3 DEF Fresh
<1>5. LockStep
  <2>1. Frames(track) \in Nat
    BY <1>1, FramesType
  <2> QED BY <1>1, <1>3, <2>1 DEF LockStep, Sooner, NewPlayer
<1> QED BY <1>1, <1>4, <1>5 DEF ScoringInv

LEMMA ScoringStep == ScoringInv /\ [Next]_vars => ScoringInv'
<1> SUFFICES ASSUME ScoringInv, [Next]_vars PROVE ScoringInv'
  OBVIOUS
<1>1. CASE UNCHANGED <<track, time, player, flawless>>
  BY <1>1, ZenonT(40) DEF ScoringInv, TrackOK, LockStep, Frames, EndTime, Graded, Paid, Full, Untouched, Hand,
              Sung, Row, Worth, RowStart, NoteCount
<1>2. CASE UpdatePlayers
  <2> USE <1>2 DEF UpdatePlayers
  <2>1. track' = track /\ time' = time + 1 /\ time \in Nat /\ TrackOK
    BY ScoringAssumption DEF EngineOnly, ScoringInv
  <2>2. PICK heard \in [Singers -> Tones \cup {NoTone}] :
          /\ player' = [s \in Singers |-> Update(player[s], heard[s])]
          /\ flawless' = {s \in flawless :
               player[s].pos = Frames(track) \/ InTune(player[s].pos, heard[s])}
    OBVIOUS
  <2>3. ASSUME NEW s \in Singers
        PROVE  LET r == player'[s]
                   now == StepUnits * r.pos
               IN  /\ r.pos = Sooner(time', Frames(track))
                   /\ Paid(r, now, now)
                   /\ Apart(track) => Untouched(r, now)
                   /\ Apart(track) /\ s \in flawless' => Full(r, now)
    <3> DEFINE p == player[s]
               r == player'[s]
               now == StepUnits * r.pos
               still == s \in flawless'
    <3>1. Graded(p, s) /\ p.pos = Sooner(time, Frames(track))
      BY DEF ScoringInv, LockStep
    <3>2. heard[s] \in Nat \cup {NoTone} /\ r = Update(p, heard[s])
      BY <2>2, ScoringAssumption
    <3>3. still => s \in flawless /\ (p.pos = Frames(track) \/ InTune(p.pos, heard[s]))
      BY <2>2
    <3>4. still \in BOOLEAN
      OBVIOUS
    <3> HIDE DEF p, r, still
    <3>5. /\ r.pos = IF p.pos = Frames(track) THEN p.pos ELSE p.pos + 1
          /\ Paid(r, now, now)
          /\ Apart(track) => Untouched(r, now)
          /\ Apart(track) /\ still => Full(r, now)
      BY <2>1, <3>1, <3>2, <3>3, <3>4, UpdateIsGraded
    <3>6. r.pos = Sooner(time + 1, Frames(track))
      BY <2>1, <3>1, <3>5, StepsInLock
    <3> QED BY <2>1, <3>5, <3>6 DEF r, still
  <2>4. (flawless \subseteq Singers)'
    BY <2>2 DEF ScoringInv
  <2>5. TrackOK' /\ (time \in Nat)'
    BY <2>1 DEF TrackOK
  <2>6. LockStep'
    BY <2>1, <2>3 DEF LockStep, Frames, EndTime
  <2>7. (\A s \in Singers : Graded(player[s], s))'
    BY <2>1, <2>3, ZenonT(30) DEF Graded, Paid, Full, Untouched, Hand, Sung, Row, Worth, RowStart, NoteCount
  <2> QED BY <2>4, <2>5, <2>6, <2>7 DEF ScoringInv
<1>3. CASE Enter
  <2> USE <1>3 DEF Enter
  <2>1. TrackOK' /\ time' = 0 /\ flawless' = Singers /\ player' = [s \in Singers |-> NewPlayer]
    BY DEF TrackOK, StartEngine
  <2>2. Fresh'
    BY <2>1, NewPlayersAreGraded, PTL
  <2>3. \A s \in Singers : player'[s] = NewPlayer
    BY <2>1
  <2>4. (\A s \in Singers : Graded(player[s], s))'
    BY <2>2, <2>3 DEF Fresh
  <2>5. LockStep'
    <3>1. (Frames(track) \in Nat)'
      BY <2>1, FramesType, PTL
    <3> QED BY <2>1, <2>3, <3>1 DEF LockStep, Sooner, NewPlayer
  <2> QED BY <2>1, <2>4, <2>5 DEF ScoringInv
<1> QED
  BY <1>1, <1>2, <1>3 DEF Next, Engine, Prepare, Sleep, Play, TogglePause, Seek, Ui, Kill, ShowScores,
       Exit, ExitScores, Finished, EngineOnly, AudioOnly, uiVars, engineVars, audioVars, vars

LEMMA ScoringImplies == ScoringInv => PointsAreRight
<1> SUFFICES ASSUME ScoringInv PROVE PointsAreRight
  OBVIOUS
<1>1. TrackOK /\ LockStep /\ flawless \subseteq Singers /\ \A s \in Singers : Graded(player[s], s)
  BY DEF ScoringInv
<1>2. ASSUME NEW s \in Singers
      PROVE  LET p == player[s]
                 e == StepUnits * p.pos
             IN  /\ p.score <= Offered(1, Len(track), e)
                 /\ p.lineScore <= Offered(RowStart(p.scoreIt), Len(track), e)
                 /\ p.noteScore <= Offered(p.scoreIt, Len(track), e)
                 /\ p.prevLineScore = NoRank \/ p.prevLineScore[1] <= p.prevLineScore[2]
                 /\ Apart(track) /\ s \in flawless =>
                      /\ p.score = Offered(1, Len(track), e)
                      /\ \A i \in 1 .. p.scoreIt - 1 :
                           track[i].type \in {"normal", "golden"} /\ track[i].begin < track[i].end
                             => i \in p.stars
                      /\ p.prevLineScore # NoRank => p.prevLineScore[1] = p.prevLineScore[2]
  <2> DEFINE p == player[s]
             e == StepUnits * p.pos
             j == p.scoreIt
             n == Len(track)
  <2>1. /\ Paid(p, e, e)
        /\ Apart(track) /\ s \in flawless => Full(p, e) /\ Untouched(p, e)
    BY <1>1 DEF Graded
  <2> HIDE DEF p
  <2>2. /\ p \in Players /\ j \in 1 .. NoteCount + 1 /\ NoteCount \in Nat /\ e \in Nat
        /\ n = NoteCount
    BY <1>1, <2>1, NoteFacts, ScoringAssumption DEF Paid, Players, NoteCount
  <2> HIDE DEF e, n
  <2>3. /\ p.score \in Int /\ p.noteScore \in Nat /\ p.lineScore \in Nat
    BY <2>2 DEF Players
  <2>4. /\ RowStart(j) \in Nat /\ 1 <= RowStart(j) /\ RowStart(j) <= j /\ j \in Nat /\ 1 <= j
        /\ j <= NoteCount + 1
    BY <1>1, <2>2, RowFacts
  <2>5. Worth(1, j - 1) \in Nat /\ Worth(RowStart(j), j - 1) \in Nat /\ Worth(j, j - 1) = 0
    BY <1>1, <2>2, RowType, WorthOfNone
  <2>6. Hand(j, e) \in Nat
    <3>1. e \in Nat /\ e <= e
      BY <2>2
    <3> QED BY <1>1, <2>2, <3>1, HandFacts
  <2>7. \A i \in Nat : 1 <= i => \A k \in i .. j - 1 : track[k].end <= e
    <3>1. \A k \in 1 .. j - 1 : track[k].end <= e
      BY <2>1 DEF Paid
    <3> QED BY <3>1, <2>2
  <2>8. /\ p.noteScore <= Hand(j, e) /\ p.score <= Worth(1, j - 1) + p.noteScore
        /\ p.lineScore <= Worth(RowStart(j), j - 1) + p.noteScore
        /\ p.prevLineScore = NoRank \/ p.prevLineScore[1] <= p.prevLineScore[2]
    BY <2>1 DEF Paid, Row
  <2>9. \A i \in Nat : 1 <= i /\ i <= j =>
          \E rest \in Nat :
            /\ Offered(i, NoteCount, e) = Worth(i, j - 1) + Hand(j, e) + rest
            /\ (\A k \in j + 1 .. NoteCount : e <= track[k].begin) => rest = 0
    BY <1>1, <2>2, <2>4, <2>7, WhatIsOffered
  <2> HIDE DEF j
  <2>10. p.score <= Offered(1, NoteCount, e)
    <3>1. PICK rest \in Nat : Offered(1, NoteCount, e) = Worth(1, j - 1) + Hand(j, e) + rest
      BY <2>4, <2>9, 1 \in Nat
    <3> QED BY <3>1, <2>3, <2>5, <2>6, <2>8
  <2>11. p.lineScore <= Offered(RowStart(j), NoteCount, e)
    <3>1. PICK rest \in Nat :
            Offered(RowStart(j), NoteCount, e) = Worth(RowStart(j), j - 1) + Hand(j, e) + rest
      BY <2>4, <2>9
    <3> QED BY <3>1, <2>3, <2>5, <2>6, <2>8
  <2>12. p.noteScore <= Offered(j, NoteCount, e)
    <3>1. PICK rest \in Nat : Offered(j, NoteCount, e) = Worth(j, j - 1) + Hand(j, e) + rest
      BY <2>4, <2>9
    <3> QED BY <3>1, <2>3, <2>5, <2>6, <2>8
  <2>13. ASSUME Apart(track), s \in flawless
         PROVE  /\ p.score = Offered(1, NoteCount, e)
                /\ \A i \in 1 .. p.scoreIt - 1 :
                     track[i].type \in {"normal", "golden"} /\ track[i].begin < track[i].end
                       => i \in p.stars
                /\ p.prevLineScore # NoRank => p.prevLineScore[1] = p.prevLineScore[2]
    <3>1. Full(p, e) /\ \A k \in j + 1 .. NoteCount : e <= track[k].begin
      BY <2>1, <2>13 DEF Untouched, j
    <3>2. PICK rest \in Nat :
            /\ Offered(1, NoteCount, e) = Worth(1, j - 1) + Hand(j, e) + rest
            /\ (\A k \in j + 1 .. NoteCount : e <= track[k].begin) => rest = 0
      BY <2>4, <2>9, 1 \in Nat
    <3>3. p.noteScore = Hand(j, e) /\ p.score = Worth(1, j - 1) + p.noteScore
      BY <3>1 DEF Full, j
    <3>4. Offered(1, NoteCount, e) = Worth(1, j - 1) + Hand(j, e)
      BY <3>1, <3>2, <2>5, <2>6
    <3> QED BY <3>1, <3>3, <3>4 DEF Full
  <2>14. /\ p.score <= Offered(1, n, e)
         /\ p.lineScore <= Offered(RowStart(j), n, e)
         /\ p.noteScore <= Offered(j, n, e)
         /\ p.prevLineScore = NoRank \/ p.prevLineScore[1] <= p.prevLineScore[2]
    BY <2>2, <2>8, <2>10, <2>11, <2>12
  <2>15. Apart(track) /\ s \in flawless =>
           /\ p.score = Offered(1, n, e)
           /\ \A i \in 1 .. p.scoreIt - 1 :
                track[i].type \in {"normal", "golden"} /\ track[i].begin < track[i].end
                  => i \in p.stars
           /\ p.prevLineScore # NoRank => p.prevLineScore[1] = p.prevLineScore[2]
    BY <2>2, <2>13
  <2> QED BY <2>14, <2>15 DEF p, e, j, n
<1>3. NeverOverpaid
  BY <1>2 DEF NeverOverpaid
<1>4. FlawlessIsPerfect
  <2>1. \A s \in flawless : s \in Singers
    BY <1>1
  <2> QED BY <1>2, <2>1 DEF FlawlessIsPerfect
<1> QED BY <1>1, <1>3, <1>4 DEF PointsAreRight

(* No player has more points than the notes so far are worth, in the song, *)
(* the row and the note, whatever the notes, the difficulty and the tones  *)
(* heard; one who has sung every tone of a song whose notes do not overlap *)
(* has all of them, each star and the best rank of each row; and all       *)
(* players are at the same time step (Player::update, VocalTrack).         *)
THEOREM ThePointsAreRight == Spec => []PointsAreRight
<1>1. Init => ScoringInv
  BY ScoringInit
<1>2. ScoringInv /\ [Next]_vars => ScoringInv'
  BY ScoringStep
<1>3. ScoringInv => PointsAreRight
  BY ScoringImplies
<1> QED BY <1>1, <1>2, <1>3, PTL DEF Spec


-----------------------------------------------------------------------------
(* Grading.                                                                *)

(* Whoever shows the scores or leaves the screen has joined the thread.    *)
JoinedInv == ui \in {"scores", "left"} => pc = "ended"

(* While the score window is there, or after the song was left, no player  *)
(* changes (ScoresAreFinal): the thread that scores has ended.             *)
THEOREM NoScoreAfterTheSong == Spec => ScoresAreFinal
<1>1. Init => JoinedInv
  BY DEF Init, JoinedInv
<1>2. JoinedInv /\ [Next]_vars =>
        JoinedInv' /\ [(ui \in {"scores", "left"} /\ ui' = ui) => UNCHANGED player]_vars
  <2> SUFFICES ASSUME JoinedInv, [Next]_vars
               PROVE  JoinedInv' /\ ((ui \in {"scores", "left"} /\ ui' = ui) => UNCHANGED player)
    OBVIOUS
  <2> USE DEF JoinedInv
  <2>1. CASE Prepare
    BY <2>1 DEF Prepare, EngineOnly, uiVars
  <2>2. CASE Sleep
    BY <2>2 DEF Sleep, EngineOnly, uiVars
  <2>3. CASE UpdatePlayers
    <3>1. pc = "clock" /\ UNCHANGED ui
      BY <2>3, Zenon DEF UpdatePlayers, EngineOnly, uiVars
    <3> QED BY <3>1
  <2>4. CASE Play \/ TogglePause \/ Seek
    BY <2>4 DEF Play, TogglePause, Seek, AudioOnly, engineVars, uiVars
  <2>5. CASE Kill
    BY <2>5 DEF Kill, engineVars
  <2>6. CASE ShowScores
    BY <2>6 DEF ShowScores, Joined, engineVars
  <2>7. CASE Exit
    BY <2>7 DEF Exit, Joined, engineVars
  <2>8. CASE ExitScores
    BY <2>8 DEF ExitScores, engineVars
  <2>9. CASE Enter
    BY <2>9 DEF Enter
  <2>10. CASE UNCHANGED vars
    BY <2>10 DEF vars, engineVars, uiVars
  <2> QED BY <2>1, <2>2, <2>3, <2>4, <2>5, <2>6, <2>7, <2>8, <2>9, <2>10
          DEF Next, Engine, Ui, Finished
<1> QED BY <1>1, <1>2, PTL DEF Spec, ScoresAreFinal

-----------------------------------------------------------------------------
(* The rows of lyrics that singers see, for any songs in order and any     *)
(* frames, seeks and delays.                                               *)

(* What a track of notes consists of.                                      *)
LEMMA LyricNotes ==
  ASSUME NEW notes \in Seq(SungNote)
  PROVE  /\ Len(notes) \in Nat /\ DOMAIN notes = 1 .. Len(notes)
         /\ \A k \in 1 .. Len(notes) : notes[k].begin \in Nat /\ notes[k].end \in Nat
<1>1. Len(notes) \in Nat /\ DOMAIN notes = 1 .. Len(notes)
  OBVIOUS
<1>2. \A k \in 1 .. Len(notes) : notes[k] \in SungNote
  BY <1>1
<1> QED BY <1>1, <1>2 DEF SungNote

(* A row ends before the next sleep, and the next row begins behind it.    *)
LEMMA RowBounds ==
  ASSUME NEW notes \in Seq(SungNote), NEW r \in RowStarts(notes)
  PROVE  /\ r \in 1 .. Len(notes) /\ RowEnd(notes, r) \in r - 1 .. Len(notes)
         /\ \A k \in r .. RowEnd(notes, r) : ~Sleeps(notes[k])
         /\ ~Sleeps(notes[r]) => RowEnd(notes, r) \in Texts(notes) /\ r <= RowEnd(notes, r)
         /\ \A q \in RowStarts(notes) : r < q => RowEnd(notes, r) + 2 <= q
<1> DEFINE n == Len(notes)
           S == {k \in r .. n : Sleeps(notes[k])} \cup {n + 1}
<1>1. n \in Nat /\ DOMAIN notes = 1 .. n
  BY LyricNotes
<1>2. r \in 1 .. n
  BY <1>1 DEF RowStarts
<1>3. S \in SUBSET Nat /\ S # {} /\ \A s \in S : r <= s /\ s <= n + 1
  BY <1>1, <1>2
<1>4. Min(S) \in S /\ \A s \in S : Min(S) <= s
  <2> HIDE DEF S
  <2> QED BY <1>3, MinOf
<1>5. RowEnd(notes, r) = Min(S) - 1
  BY DEF RowEnd
<1> DEFINE m == Min(S)
<1> HIDE DEF m
<1>6. m \in r .. n + 1 /\ RowEnd(notes, r) = m - 1 /\ m \in S /\ \A s \in S : m <= s
  <2>1. m \in S /\ \A s \in S : m <= s
    BY <1>4 DEF m
  <2>2. RowEnd(notes, r) = m - 1
    BY <1>5 DEF m
  <2> HIDE DEF S
  <2>3. m \in r .. n + 1
    BY <1>1, <1>2, <1>3, <2>1
  <2> QED BY <2>1, <2>2, <2>3
<1>7. RowEnd(notes, r) \in r - 1 .. n
  BY <1>1, <1>2, <1>6
<1>8. ASSUME NEW k \in r .. RowEnd(notes, r) PROVE ~Sleeps(notes[k])
  <2>1. k \in r .. n /\ ~(m <= k)
    BY <1>1, <1>2, <1>6
  <2> QED BY <2>1, <1>6
<1>9. ASSUME ~Sleeps(notes[r]) PROVE RowEnd(notes, r) \in Texts(notes) /\ r <= RowEnd(notes, r)
  <2>1. m # r
    BY <1>1, <1>2, <1>6, <1>9
  <2>2. r <= m - 1 /\ m - 1 \in r .. RowEnd(notes, r) /\ m - 1 \in 1 .. n
    BY <1>1, <1>2, <1>6, <2>1
  <2> QED BY <2>2, <1>1, <1>6, <1>8 DEF Texts
<1>10. ASSUME NEW q \in RowStarts(notes), r < q PROVE RowEnd(notes, r) + 2 <= q
  <2>1. PICK j \in DOMAIN notes : Sleeps(notes[j]) /\ q = j + 1
    BY <1>2, <1>10 DEF RowStarts
  <2>2. j \in r .. n
    BY <1>1, <1>2, <1>10, <2>1
  <2>3. m <= j
    BY <1>6, <2>1, <2>2
  <2> QED BY <2>1, <2>2, <2>3, <1>6, <1>1
<1> QED BY <1>2, <1>7, <1>8, <1>9, <1>10

(* So rows with notes in them end in order.                                *)
LEMMA LaterRowsEndLater ==
  ASSUME NEW notes \in Seq(SungNote), InSongOrder(notes),
         NEW r \in RowStarts(notes), NEW q \in RowStarts(notes), r <= q,
         ~Sleeps(notes[r]), ~Sleeps(notes[q])
  PROVE  notes[RowEnd(notes, r)].end <= notes[RowEnd(notes, q)].end
<1>1. /\ RowEnd(notes, r) \in Texts(notes) /\ RowEnd(notes, q) \in Texts(notes)
      /\ q <= RowEnd(notes, q)
      /\ r < q => RowEnd(notes, r) + 2 <= q
  BY RowBounds
<1>2. Texts(notes) \subseteq 1 .. Len(notes) /\ Len(notes) \in Nat /\ DOMAIN notes = 1 .. Len(notes)
  BY LyricNotes DEF Texts
<1>3. r \in Int /\ q \in Int
  BY RowBounds
<1>4. notes[RowEnd(notes, r)].end \in Nat /\ notes[RowEnd(notes, q)].end \in Nat
  BY <1>1, <1>2, LyricNotes
<1>5. CASE r = q
  BY <1>5, <1>4
<1>6. CASE r < q
  <2> DEFINE d == RowEnd(notes, r)
             e == RowEnd(notes, q)
  <2>1. d \in Int /\ e \in Int /\ d + 2 <= q /\ q <= e
    BY <1>1, <1>2, <1>6
  <2> HIDE DEF d, e
  <2>2. d < e
    BY <2>1, <1>3
  <2>3. RowEnd(notes, r) < RowEnd(notes, q)
    BY <2>2 DEF d, e
  <2> QED BY <2>3, <1>1, <1>2 DEF InSongOrder
<1> QED BY <1>3, <1>5, <1>6

(* In order, the first row that is too early ends what is pushed.          *)
LEMMA ComingRows ==
  ASSUME NEW notes \in Seq(SungNote), InSongOrder(notes), NEW it \in Int, NEW when \in Int
  PROVE  Coming(notes, it, when)
           = {r \in RowStarts(notes) : it <= r /\ notes[r].begin < when + Ahead}
<1>1. /\ Len(notes) \in Nat /\ DOMAIN notes = 1 .. Len(notes)
      /\ \A k \in 1 .. Len(notes) : notes[k].begin \in Nat
      /\ RowStarts(notes) \subseteq 1 .. Len(notes)
  BY LyricNotes DEF RowStarts
<1>2. ASSUME NEW r \in RowStarts(notes), it <= r, notes[r].begin < when + Ahead,
             NEW k \in RowStarts(notes) \cap (it .. r)
      PROVE  notes[k].begin < when + Ahead
  <2>1. notes[k].begin <= notes[r].begin
    <3>1. k \in DOMAIN notes /\ r \in DOMAIN notes /\ (k < r \/ k = r)
      BY <1>1, <1>2
    <3> QED BY <1>1, <3>1 DEF InSongOrder
  <2> QED BY <2>1, <1>1, <1>2 DEF Ahead
<1>3. ASSUME NEW r \in RowStarts(notes), r >= it,
             \A k \in RowStarts(notes) \cap (it .. r) : notes[k].begin < when + Ahead
      PROVE  it <= r /\ notes[r].begin < when + Ahead
  <2>1. r \in it .. r
    BY <1>1, <1>3
  <2> QED BY <2>1, <1>3, <1>1
<1>4. \A r \in RowStarts(notes) : r >= it <=> it <= r
  BY <1>1
<1> QED BY <1>2, <1>3, <1>4 DEF Coming

-----------------------------------------------------------------------------
(* A frame.                                                                *)

LayoutOK(l, notes) ==
  l \in [it : 1 .. Len(notes) + 1, rows : SUBSET RowStarts(notes), songit : 1 .. Len(notes) + 1]

(* Behind the rows that came there is none of them.                        *)
LEMMA BehindTheRows ==
  ASSUME NEW notes \in Seq(SungNote), NEW it \in 1 .. Len(notes) + 1,
         NEW coming \in SUBSET RowStarts(notes), \A r \in coming : it <= r
  PROVE  /\ BehindRows(notes, it, coming) \in it .. Len(notes) + 1
         /\ \A r \in coming : r < BehindRows(notes, it, coming)
         /\ \A r \in RowStarts(notes) : r < BehindRows(notes, it, coming) =>
              r < it \/ \E k \in coming : r <= k
<1> DEFINE n == Len(notes)
<1>1. n \in Nat /\ RowStarts(notes) \subseteq 1 .. n
  BY LyricNotes DEF RowStarts
<1>2. CASE coming = {}
  BY <1>2 DEF BehindRows
<1>3. CASE coming # {}
  <2> DEFINE last == Max(coming)
  <2>1. last \in coming /\ \A r \in coming : r <= last
    <3>1. coming \in SUBSET (0 .. n)
      BY <1>1
    <3> QED BY <1>1, <1>3, <3>1, GreatestOf
  <2> HIDE DEF last
  <2>2. /\ last \in 1 .. n /\ RowEnd(notes, last) \in last - 1 .. n
        /\ \A q \in RowStarts(notes) : last < q => RowEnd(notes, last) + 2 <= q
    BY <2>1, RowBounds
  <2> DEFINE e == RowEnd(notes, last)
             b == BehindRows(notes, it, coming)
  <2>3. b = Min({e + 2, n + 1})
    BY <1>3 DEF BehindRows, last
  <2>4. b = IF e + 2 <= n + 1 THEN e + 2 ELSE n + 1
    BY <2>2, <2>3, <1>1, MinOfTwo
  <2>a. e \in last - 1 .. n /\ last \in it .. n /\ last \in Int /\ it \in Int /\ n \in Int
    BY <2>1, <2>2, <1>1
  <2> HIDE DEF b, e
  <2>5. b \in it .. n + 1 /\ last < b /\ b <= e + 2 /\ e \in Int
    BY <2>a, <2>4
  <2>6. \A r \in coming : r < b
    BY <2>1, <2>5, <1>1
  <2>7. ASSUME NEW r \in RowStarts(notes), r < b PROVE r <= last
    <3>1. last < r => e + 2 <= r
      BY <2>2 DEF e
    <3>2. r \in Int /\ last \in Int
      BY <2>2, <1>1
    <3> QED BY <3>1, <3>2, <2>5, <2>7
  <2> QED BY <2>1, <2>5, <2>6, <2>7 DEF b
<1> QED BY <1>2, <1>3

(* What the rows of an earlier frame must be, for a later one.             *)
Ready(l, notes, when) ==
  /\ \A r \in RowStarts(notes) : r < l.it =>
       /\ notes[r].begin < when + Ahead /\ ~Sleeps(notes[r])
       /\ ~Expired(notes, r, when) => r \in l.rows
  /\ \A r \in l.rows : r < l.it

TakenIn(l, notes, when) ==
  /\ \A r \in RowStarts(notes) : r < l.it => notes[r].begin < when + Ahead /\ ~Sleeps(notes[r])
  /\ l.rows = {r \in RowStarts(notes) : notes[r].begin < when + Ahead /\ ~Expired(notes, r, when)}
  /\ \A r \in l.rows : r < l.it

(* From there one frame takes what is missing and drops what is over.      *)
LEMMA RowsAreTaken ==
  ASSUME NEW notes \in Seq(SungNote), NEW l, LayoutOK(l, notes), NEW when \in Int
  PROVE  /\ LayoutOK(WithRows(l, notes, when), notes)
         /\ WithRows(l, notes, when).songit = l.songit
         /\ InSongOrder(notes) /\ Ready(l, notes, when) /\ ~EmptyRow(l, notes, when) =>
              TakenIn(WithRows(l, notes, when), notes, when)
<1> DEFINE begun == RowStarts(notes)
           coming == Coming(notes, l.it, when)
           w == WithRows(l, notes, when)
<1>1. /\ l.it \in 1 .. Len(notes) + 1 /\ l.rows \in SUBSET begun /\ l.songit \in 1 .. Len(notes) + 1
      /\ Len(notes) \in Nat /\ begun \subseteq 1 .. Len(notes)
  BY LyricNotes DEF LayoutOK, RowStarts
<1>2. coming \in SUBSET begun /\ \A r \in coming : l.it <= r
  BY <1>1 DEF Coming
<1>3. /\ BehindRows(notes, l.it, coming) \in l.it .. Len(notes) + 1
      /\ \A r \in coming : r < BehindRows(notes, l.it, coming)
      /\ \A r \in begun : r < BehindRows(notes, l.it, coming) =>
           r < l.it \/ \E k \in coming : r <= k
  <2> HIDE DEF coming
  <2> QED BY <1>1, <1>2, BehindTheRows
<1>4. w = [it |-> BehindRows(notes, l.it, coming),
           rows |-> InView(notes, l.rows \cup coming, when), songit |-> l.songit]
  <2> DEFINE b == BehindRows(notes, l.it, coming)
             v == InView(notes, l.rows \cup coming, when)
  <2>1. w = [l EXCEPT !.it = b, !.rows = v]
    BY DEF WithRows
  <2> HIDE DEF b, v, w
  <2>2. w = [it |-> b, rows |-> v, songit |-> l.songit]
    BY <2>1 DEF LayoutOK
  <2> QED BY <2>2 DEF b, v
<1>5. LayoutOK(w, notes)
  <2>1. InView(notes, l.rows \cup coming, when) \subseteq begun
    BY <1>1, <1>2 DEF InView
  <2> DEFINE b == BehindRows(notes, l.it, coming)
             v == InView(notes, l.rows \cup coming, when)
  <2>2. v \in SUBSET begun /\ w = [it |-> b, rows |-> v, songit |-> l.songit]
    BY <1>4, <2>1
  <2>3. b \in l.it .. Len(notes) + 1
    BY <1>3
  <2> HIDE DEF b, v, w
  <2>4. b \in 1 .. Len(notes) + 1
    BY <1>1, <2>3
  <2> QED BY <1>1, <2>2, <2>4 DEF LayoutOK
<1>6. ASSUME InSongOrder(notes), Ready(l, notes, when), ~EmptyRow(l, notes, when)
      PROVE  TakenIn(w, notes, when)
  <2>1. coming = {r \in begun : l.it <= r /\ notes[r].begin < when + Ahead}
    BY <1>1, <1>6, ComingRows
  <2>2. \A r \in coming : ~Sleeps(notes[r])
    BY <1>6 DEF EmptyRow
  <2> HIDE DEF coming, w
  <2>3. ASSUME NEW r \in l.rows \cup coming
        PROVE  r \in begun /\ notes[r].begin < when + Ahead /\ ~Sleeps(notes[r])
    BY <2>1, <2>2, <1>1, <1>6 DEF Ready
  <2>4. ASSUME NEW r \in begun, r < w.it
        PROVE  notes[r].begin < when + Ahead /\ ~Sleeps(notes[r])
    <3>1. CASE r < l.it
      BY <3>1, <1>6 DEF Ready
    <3>2. CASE ~(r < l.it)
      <4>1. PICK k \in coming : r <= k
        BY <1>3, <1>4, <2>4, <3>2
      <4>2. notes[k].begin < when + Ahead /\ k \in begun
        BY <2>1
      <4>3. notes[r].begin <= notes[k].begin
        <5>1. DOMAIN notes = 1 .. Len(notes) /\ \A j \in 1 .. Len(notes) : notes[j].begin \in Nat
          BY LyricNotes
        <5>2. r = k \/ r < k
          BY <4>1, <4>2, <1>1
        <5> QED BY <5>1, <5>2, <4>2, <1>1, <1>6 DEF InSongOrder
      <4>4. notes[r].begin \in Nat /\ notes[k].begin \in Nat
        BY LyricNotes, <4>2, <1>1
      <4>5. r \in coming
        BY <2>1, <3>2, <4>2, <4>3, <4>4, <1>1 DEF Ahead
      <4> QED BY <4>5, <2>3
    <3> QED BY <3>1, <3>2
  <2>5. ASSUME NEW r \in begun, notes[r].begin < when + Ahead, ~Expired(notes, r, when)
        PROVE  r \in w.rows
    <3>1. r \in l.rows \cup coming
      BY <2>1, <2>5, <1>1, <1>6 DEF Ready
    <3>2. r <= r
      BY <1>1
    <3> QED BY <3>1, <3>2, <2>5, <1>4 DEF InView
  <2>6. ASSUME NEW r \in w.rows
        PROVE  r \in begun /\ notes[r].begin < when + Ahead /\ ~Expired(notes, r, when)
    <3>1. PICK k \in l.rows \cup coming : k <= r /\ ~Expired(notes, k, when)
      BY <1>4 DEF InView
    <3>2. r \in l.rows \cup coming
      BY <1>4 DEF InView
    <3>3. notes[RowEnd(notes, k)].end <= notes[RowEnd(notes, r)].end
      BY <3>1, <3>2, <2>3, <1>6, LaterRowsEndLater
    <3>4. notes[RowEnd(notes, k)].end \in Nat /\ notes[RowEnd(notes, r)].end \in Nat
      <4>1. RowEnd(notes, k) \in Texts(notes) /\ RowEnd(notes, r) \in Texts(notes)
        BY <3>1, <3>2, <2>3, RowBounds
      <4> QED BY <4>1, LyricNotes DEF Texts
    <3>5. ~Expired(notes, r, when)
      BY <3>1, <3>3, <3>4 DEF Expired
    <3> QED BY <3>2, <3>5, <2>3
  <2>7. ASSUME NEW r \in w.rows PROVE r < w.it
    <3>1. r \in l.rows \cup coming
      BY <1>4 DEF InView
    <3>2. r \in l.rows => r < l.it
      BY <1>6 DEF Ready
    <3>3. r \in 1 .. Len(notes)
      BY <3>1, <1>1, <1>2
    <3> QED BY <3>1, <3>2, <3>3, <1>1, <1>3, <1>4
  <2> QED BY <2>4, <2>5, <2>6, <2>7 DEF TakenIn
<1> QED BY <1>4, <1>5, <1>6

(* The graph leaves out what it left out before, or looks from the first.  *)
UnseenBefore(notes, k, when) == \A j \in 1 .. k - 1 : ~Visible(notes[j], when)

LEMMA GraphLooks ==
  ASSUME NEW notes \in Seq(SungNote), NEW l, LayoutOK(l, notes), NEW when \in Int,
         graphAt \in Int, UnseenBefore(notes, l.songit, graphAt)
  PROVE  /\ LayoutOK(WithGraph(l, notes, when), notes)
         /\ WithGraph(l, notes, when).it = l.it /\ WithGraph(l, notes, when).rows = l.rows
         /\ UnseenBefore(notes, WithGraph(l, notes, when).songit, when)
<1> DEFINE n == Len(notes)
           from == IF when < graphAt THEN 1 ELSE l.songit
           S == {k \in from .. n : Visible(notes[k], when)} \cup {n + 1}
           m == Min(S)
<1>1. /\ n \in Nat /\ \A k \in 1 .. n : notes[k].end \in Nat
      /\ l.songit \in 1 .. n + 1
  BY LyricNotes DEF LayoutOK
<1>2. WithGraph(l, notes, when) = [l EXCEPT !.songit = m]
  BY DEF WithGraph
<1> HIDE DEF m
<1>3. WithGraph(l, notes, when) = [it |-> l.it, rows |-> l.rows, songit |-> m]
  BY <1>2 DEF LayoutOK
<1>4. from \in 1 .. n + 1
  BY <1>1
<1> HIDE DEF from
<1>5. m \in S /\ \A s \in S : m <= s
  <2>1. S \in SUBSET Nat /\ S # {}
    BY <1>1, <1>4
  <2> HIDE DEF S
  <2> QED BY <2>1, MinOf DEF m
<1>6. m \in from .. n + 1
  BY <1>1, <1>4, <1>5
<1>7. ASSUME NEW j \in 1 .. m - 1 PROVE ~Visible(notes[j], when)
  <2>1. CASE from <= j
    <3>1. j \in from .. n /\ ~(m <= j)
      BY <2>1, <1>1, <1>4, <1>6
    <3> QED BY <3>1, <1>5
  <2>2. CASE ~(from <= j)
    <3>1. from = l.songit /\ graphAt <= when
      BY <2>2, <1>4 DEF from
    <3>2. j \in 1 .. l.songit - 1 /\ j \in 1 .. n
      BY <3>1, <2>2, <1>1, <1>4, <1>6
    <3>3. ~Visible(notes[j], graphAt)
      BY <3>2 DEF UnseenBefore
    <3> QED BY <3>1, <3>2, <3>3, <1>1 DEF Visible
  <2> QED BY <2>1, <2>2
<1>8. UnseenBefore(notes, m, when)
  BY <1>7 DEF UnseenBefore
<1>9. m \in 1 .. n + 1
  BY <1>1, <1>4, <1>6
<1>10. LayoutOK([it |-> l.it, rows |-> l.rows, songit |-> m], notes)
  BY <1>9 DEF LayoutOK
<1> QED BY <1>3, <1>8, <1>10

-----------------------------------------------------------------------------
(* The invariant: all rows before m_lyricit came into view by the time of  *)
(* the last frame, those are in view that are not over, and those before   *)
(* the first note drawn are out of sight.                                  *)

Times ==
  /\ show \in Shows /\ at \in Int /\ (0 <= at \/ SongStart <= at)
  /\ sought \in {Nan} \cup Nat /\ at + 12 < -Nan /\ sought + 12 < -Nan
  /\ graphAt \in Int /\ rowsAt \in Int /\ wentBack \in BOOLEAN

Layouts ==
  /\ layout = [i \in DOMAIN show.tracks |-> layout[i]]
  /\ \A i \in DOMAIN show.tracks : LayoutOK(layout[i], show.tracks[i])

RowsTaken ==
  ~wentBack => \A i \in DOMAIN show.tracks :
    IF rowsAt = Nan THEN layout[i].it = 1 /\ layout[i].rows = {}
    ELSE TakenIn(layout[i], show.tracks[i], rowsAt)

GraphKept ==
  \A i \in DOMAIN show.tracks : UnseenBefore(show.tracks[i], layout[i].songit, graphAt)

LyricsInv == Times /\ Layouts /\ RowsTaken /\ GraphKept

(* There are at most two singers.                                          *)
LEMMA AtMostTwo ==
  ASSUME NEW T, NEW s \in Seq(T), Len(s) <= 2
  PROVE  DOMAIN s = 1 .. Len(s) /\ Len(s) \in 0 .. 2 /\ \A i \in DOMAIN s : s[i] \in T
<1>1. DOMAIN s = 1 .. Len(s) /\ Len(s) \in Nat /\ \A i \in DOMAIN s : s[i] \in T
  OBVIOUS
<1>2. Len(s) \in 0 .. 2
  BY <1>1
<1> QED BY <1>1, <1>2

(* What the assumption says of what is sung.                               *)
LEMMA ShowFacts ==
  ASSUME show \in Shows
  PROVE  /\ DOMAIN show.tracks = 1 .. Len(show.tracks) /\ Len(show.tracks) \in 0 .. 2
         /\ \A i \in DOMAIN show.tracks :
              show.tracks[i] \in Seq(SungNote) /\ InSongOrder(show.tracks[i])
         /\ show.guide \in Seq(SungNote) /\ InSongOrder(show.guide)
         /\ show.delay \in Int /\ Nan < -show.delay /\ Nan < SongStart - show.delay
         /\ PausesEndRows(show)
<1>1. /\ show.tracks \in Seq(Seq(SungNote)) /\ Len(show.tracks) <= 2
      /\ show.guide \in Seq(SungNote) /\ InSongOrder(show.guide)
      /\ \A i \in DOMAIN show.tracks : InSongOrder(show.tracks[i])
      /\ show.delay \in Int /\ Nan < -show.delay /\ Nan < SongStart - show.delay
      /\ PausesEndRows(show)
  BY LyricsAssumption
<1> DEFINE T == Seq(SungNote)
           tracks == show.tracks
<1> HIDE DEF T, tracks
<1>2. tracks \in Seq(T) /\ Len(tracks) <= 2
  BY <1>1 DEF T, tracks
<1>3. /\ DOMAIN tracks = 1 .. Len(tracks) /\ Len(tracks) \in 0 .. 2
      /\ \A i \in DOMAIN tracks : tracks[i] \in T
  BY <1>2, AtMostTwo
<1> QED BY <1>1, <1>3 DEF T, tracks

LEMMA LyricsStart == LyricsInit => LyricsInv
<1> SUFFICES ASSUME LyricsInit PROVE LyricsInv
  OBVIOUS
<1>1. Times
  <2>1. SongStart \in Int /\ SongStart + 12 < -Nan
    BY LyricsAssumption
  <2>2. /\ show \in Shows /\ at = SongStart /\ sought = Nan /\ graphAt = 0
        /\ rowsAt = Nan /\ wentBack = FALSE
    BY DEF LyricsInit
  <2>3. /\ at \in Int /\ SongStart <= at /\ at + 12 < -Nan /\ sought + 12 < -Nan
        /\ graphAt \in Int /\ rowsAt \in Int
    BY <2>1, <2>2 DEF Nan
  <2> QED BY <2>2, <2>3 DEF Times
<1>2. \A i \in DOMAIN show.tracks : layout[i] = NewLayout
  BY DEF LyricsInit
<1>3. Layouts
  <2>1. layout = [i \in DOMAIN show.tracks |-> layout[i]]
    BY DEF LyricsInit
  <2>2. ASSUME NEW i \in DOMAIN show.tracks PROVE LayoutOK(layout[i], show.tracks[i])
    <3>1. Len(show.tracks[i]) \in Nat
      BY <1>1, ShowFacts, LyricNotes DEF Times
    <3> QED BY <1>2, <3>1 DEF LayoutOK, NewLayout
  <2> QED BY <2>1, <2>2 DEF Layouts
<1>4. RowsTaken
  BY <1>2 DEF LyricsInit, RowsTaken, NewLayout
<1>5. GraphKept
  BY <1>2 DEF GraphKept, UnseenBefore, NewLayout
<1> QED BY <1>1, <1>3, <1>4, <1>5 DEF LyricsInv

(* A frame that is not earlier than the last finds the rows as they must be. *)
LEMMA RowsAreReady ==
  ASSUME LyricsInv, ~wentBack, NEW i \in DOMAIN show.tracks, NEW when \in Int, rowsAt <= when
  PROVE  Ready(layout[i], show.tracks[i], when)
<1> DEFINE notes == show.tracks[i]
           l == layout[i]
<1>1. notes \in Seq(SungNote) /\ rowsAt \in Int
  BY ShowFacts DEF LyricsInv, Times
<1>2. IF rowsAt = Nan THEN l.it = 1 /\ l.rows = {} ELSE TakenIn(l, notes, rowsAt)
  BY DEF LyricsInv, RowsTaken
<1> HIDE DEF l, notes
<1>3. RowStarts(notes) \subseteq 1 .. Len(notes) /\ Len(notes) \in Nat
  BY <1>1, LyricNotes DEF RowStarts
<1>4. CASE rowsAt = Nan
  <2>1. \A r \in RowStarts(notes) : ~(r < l.it)
    BY <1>2, <1>3, <1>4
  <2> QED BY <2>1, <1>2, <1>4 DEF Ready, l, notes
<1>5. CASE rowsAt # Nan
  <2>1. TakenIn(l, notes, rowsAt)
    BY <1>2, <1>5
  <2>2. ASSUME NEW r \in RowStarts(notes), r < l.it
        PROVE  /\ notes[r].begin < when + Ahead /\ ~Sleeps(notes[r])
               /\ ~Expired(notes, r, when) => r \in l.rows
    <3>1. notes[r].begin < rowsAt + Ahead /\ ~Sleeps(notes[r]) /\ notes[r].begin \in Nat
      BY <2>1, <2>2, <1>1, <1>3, LyricNotes DEF TakenIn
    <3>2. notes[RowEnd(notes, r)].end \in Nat
      <4>1. RowEnd(notes, r) \in Texts(notes)
        BY <3>1, <1>1, RowBounds
      <4> QED BY <4>1, <1>1, LyricNotes DEF Texts
    <3>3. notes[r].begin < when + Ahead
      BY <3>1, <1>1 DEF Ahead
    <3>4. ~Expired(notes, r, when) => ~Expired(notes, r, rowsAt)
      BY <3>2, <1>1 DEF Expired
    <3> QED BY <3>1, <3>3, <3>4, <2>1 DEF TakenIn
  <2> QED BY <2>1, <2>2 DEF Ready, TakenIn, l, notes
<1> QED BY <1>4, <1>5

(* What is drawn for a singer, with the rows and while the menu hides them. *)
Drawn(i) ==
  LET l == WithGraph(layout[i], show.tracks[i], at - show.delay)
  IN  IF hidden THEN l ELSE WithRows(l, show.tracks[i], at - show.delay)

LEMMA DrawnFacts ==
  ASSUME LyricsInv, NEW i \in DOMAIN show.tracks
  PROVE  /\ LayoutOK(Drawn(i), show.tracks[i])
         /\ UnseenBefore(show.tracks[i], Drawn(i).songit, at - show.delay)
         /\ hidden => Drawn(i).it = layout[i].it /\ Drawn(i).rows = layout[i].rows
         /\ ~hidden /\ ~wentBack /\ rowsAt <= at - show.delay
              /\ ~EmptyRow(layout[i], show.tracks[i], at - show.delay)
              => TakenIn(Drawn(i), show.tracks[i], at - show.delay)
<1> DEFINE notes == show.tracks[i]
           when == at - show.delay
           l == layout[i]
           g == WithGraph(l, notes, when)
<1>1. notes \in Seq(SungNote) /\ InSongOrder(notes) /\ when \in Int
  BY ShowFacts DEF LyricsInv, Times
<1>2. LayoutOK(l, notes) /\ UnseenBefore(notes, l.songit, graphAt) /\ graphAt \in Int
  BY DEF LyricsInv, Times, Layouts, GraphKept
<1>3. Drawn(i) = IF hidden THEN g ELSE WithRows(g, notes, when)
  BY DEF Drawn
<1>4. ~wentBack /\ rowsAt <= when => Ready(l, notes, when)
  <2> HIDE DEF when
  <2> QED BY <1>1, RowsAreReady
<1> HIDE DEF notes, when, l
<1>5. /\ LayoutOK(g, notes) /\ g.it = l.it /\ g.rows = l.rows
      /\ UnseenBefore(notes, g.songit, when)
  BY <1>1, <1>2, GraphLooks
<1> HIDE DEF g
<1>6. /\ LayoutOK(WithRows(g, notes, when), notes)
      /\ WithRows(g, notes, when).songit = g.songit
      /\ Ready(g, notes, when) /\ ~EmptyRow(g, notes, when) =>
           TakenIn(WithRows(g, notes, when), notes, when)
  BY <1>1, <1>5, RowsAreTaken
<1>7. Ready(l, notes, when) => Ready(g, notes, when)
  BY <1>5 DEF Ready
<1>8. EmptyRow(g, notes, when) <=> EmptyRow(l, notes, when)
  BY <1>5 DEF EmptyRow
<1> QED BY <1>3, <1>4, <1>5, <1>6, <1>7, <1>8 DEF notes, when, l

(* A frame keeps the invariant, crash or not.                              *)
LEMMA FrameKeeps == LyricsInv /\ DrawFrame => LyricsInv'
<1> SUFFICES ASSUME LyricsInv, DrawFrame PROVE LyricsInv'
  OBVIOUS
<1> DEFINE when == at - show.delay
           crashes == /\ ~hidden
                      /\ \E i \in DOMAIN show.tracks : EmptyRow(layout[i], show.tracks[i], when)
<1>1. Times /\ Layouts /\ RowsTaken /\ GraphKept
  BY DEF LyricsInv
<1>2. show' = show /\ at' = at /\ sought' = sought
  BY DEF DrawFrame
<1>3. when \in Int /\ when # Nan /\ at \in Int
  <2>1. show.delay \in Int /\ Nan < -show.delay /\ Nan < SongStart - show.delay /\ SongStart \in Int
    BY <1>1, ShowFacts, LyricsAssumption DEF Times
  <2>2. at \in Int /\ (0 <= at \/ SongStart <= at)
    BY <1>1 DEF Times
  <2> QED BY <2>1, <2>2 DEF Nan
<1>4. CASE crashes
  <2>1. UNCHANGED <<layout, graphAt, rowsAt, wentBack>>
    BY <1>4 DEF DrawFrame
  <2> QED BY <2>1, <1>1, <1>2
          DEF LyricsInv, Times, Layouts, RowsTaken, GraphKept
<1>5. CASE ~crashes
  <2>1. layout' = [i \in DOMAIN show.tracks |-> Drawn(i)] /\ graphAt' = when
    BY <1>5 DEF DrawFrame, Drawn
  <2>2. /\ hidden => rowsAt' = rowsAt /\ wentBack' = wentBack
        /\ ~hidden => rowsAt' = when /\ wentBack' = (wentBack \/ when < rowsAt)
    BY <1>5 DEF DrawFrame
  <2>3. ~hidden => \A i \in DOMAIN show.tracks : ~EmptyRow(layout[i], show.tracks[i], when)
    BY <1>5
  <2> HIDE DEF crashes
  <2>4. ASSUME NEW i \in DOMAIN show.tracks
        PROVE  /\ LayoutOK(Drawn(i), show.tracks[i])
               /\ UnseenBefore(show.tracks[i], Drawn(i).songit, when)
               /\ hidden => Drawn(i).it = layout[i].it /\ Drawn(i).rows = layout[i].rows
               /\ ~hidden /\ ~wentBack /\ rowsAt <= when => TakenIn(Drawn(i), show.tracks[i], when)
    BY <2>3, DrawnFacts
  <2> HIDE DEF when
  <2>5. Times'
    <3>1. wentBack' \in BOOLEAN
      <4>1. wentBack \in BOOLEAN
        BY <1>1 DEF Times
      <4> QED BY <2>2, <4>1, Zenon
    <3>2. rowsAt' \in Int /\ graphAt' \in Int
      BY <1>1, <1>3, <2>1, <2>2 DEF Times
    <3> QED BY <1>1, <1>2, <3>1, <3>2 DEF Times
  <2>6. Layouts'
    BY <1>2, <2>1, <2>4 DEF Layouts
  <2>7. GraphKept'
    BY <1>2, <2>1, <2>4 DEF GraphKept
  <2>8. RowsTaken'
    <3>1. CASE hidden
      BY <3>1, <1>1, <1>2, <2>1, <2>2, <2>4 DEF RowsTaken, TakenIn
    <3>2. CASE ~hidden
      <4> SUFFICES ASSUME ~wentBack', NEW i \in DOMAIN show.tracks
                   PROVE  rowsAt' # Nan /\ TakenIn(Drawn(i), show.tracks[i], rowsAt')
        BY <1>2, <2>1 DEF RowsTaken
      <4>1. ~wentBack /\ ~(when < rowsAt) /\ rowsAt' = when
        BY <2>2, <3>2
      <4>2. rowsAt \in Int
        BY <1>1 DEF Times
      <4>3. rowsAt <= when
        BY <4>1, <4>2, <1>3
      <4> QED BY <4>1, <4>3, <1>3, <2>4, <3>2
    <3> QED BY <3>1, <3>2
  <2> QED BY <2>5, <2>6, <2>7, <2>8 DEF LyricsInv
<1> QED BY <1>4, <1>5

-----------------------------------------------------------------------------
(* The music and the keys.                                                 *)

(* Audio::seek stays within the song.                                      *)
LEMMA WithinSongType ==
  ASSUME NEW x \in Int
  PROVE  /\ WithinSong(x) \in Nat /\ WithinSong(x) + 12 < -Nan
         /\ 0 < x => WithinSong(x) = IF x <= SongLength THEN x ELSE SongLength
<1>1. SongLength \in Nat /\ SongLength + 12 < -Nan
  BY LyricsAssumption
<1> DEFINE m == Min({x, SongLength})
<1>2. m = IF x <= SongLength THEN x ELSE SongLength
  BY <1>1, MinOfTwo
<1> HIDE DEF m
<1>3. m \in Int
  BY <1>1, <1>2
<1>4. Max({0, m}) = IF 0 <= m THEN m ELSE 0
  BY <1>3, MaxOfTwo
<1>5. WithinSong(x) = Max({0, m})
  BY DEF WithinSong, m
<1>6. WithinSong(x) \in Nat /\ WithinSong(x) + 12 < -Nan
  BY <1>1, <1>2, <1>3, <1>4, <1>5 DEF Nan
<1> QED BY <1>1, <1>2, <1>3, <1>4, <1>5, <1>6 DEF m

(* The rows and the graph are of the last frame, wherever the music goes.  *)
Unmoved == UNCHANGED <<show, layout, graphAt, rowsAt, wentBack>>

LEMMA UnmovedKeeps ==
  ASSUME LyricsInv, Unmoved, at' \in Int, 0 <= at' \/ SongStart <= at', at' + 12 < -Nan,
         sought' \in {Nan} \cup Nat, sought' + 12 < -Nan
  PROVE  LyricsInv'
BY DEF LyricsInv, Unmoved, Times, Layouts, RowsTaken, GraphKept

(* After a reset no row has come yet, whatever the next frame's time.      *)
LEMMA ResetLayout ==
  ASSUME NEW notes, NEW l, LayoutOK(l, notes)
  PROVE  RowsReset(l) = [it |-> 1, rows |-> {}, songit |-> l.songit]
<1> DEFINE none == {}
           first == 1
<1>1. RowsReset(l) = [l EXCEPT !.it = first, !.rows = none]
  BY DEF RowsReset
<1> HIDE DEF none, first
<1>2. RowsReset(l) = [it |-> first, rows |-> none, songit |-> l.songit]
  BY <1>1 DEF LayoutOK
<1> QED BY <1>2 DEF none, first

LEMMA ResetKeeps ==
  ASSUME LyricsInv, Moves, ResetsRows, at' = at, sought' \in Nat, sought' + 12 < -Nan
  PROVE  LyricsInv'
<1>1. Times /\ Layouts /\ GraphKept
  BY DEF LyricsInv
<1>2. show' = show /\ graphAt' = graphAt /\ rowsAt' = Nan /\ wentBack' = FALSE
  BY DEF Moves, ResetsRows
<1>3. DOMAIN layout = DOMAIN show.tracks
  BY <1>1 DEF Layouts
<1>4. layout' = [i \in DOMAIN show.tracks |-> RowsReset(layout[i])]
  BY <1>3 DEF ResetsRows
<1>5. ASSUME NEW i \in DOMAIN show.tracks
      PROVE  RowsReset(layout[i]) = [it |-> 1, rows |-> {}, songit |-> layout[i].songit]
             /\ LayoutOK(RowsReset(layout[i]), show.tracks[i])
  <2>1. LayoutOK(layout[i], show.tracks[i])
    BY <1>1 DEF Layouts
  <2>2. RowsReset(layout[i]) = [it |-> 1, rows |-> {}, songit |-> layout[i].songit]
    BY <2>1, ResetLayout
  <2>3. Len(show.tracks[i]) \in Nat
    BY <1>1, ShowFacts, LyricNotes DEF Times
  <2>4. layout[i].songit \in 1 .. Len(show.tracks[i]) + 1 /\ 1 \in 1 .. Len(show.tracks[i]) + 1
    BY <2>1, <2>3 DEF LayoutOK
  <2> QED BY <2>2, <2>4 DEF LayoutOK
<1>a. \A i \in DOMAIN show.tracks :
        layout'[i].it = 1 /\ layout'[i].rows = {} /\ layout'[i].songit = layout[i].songit
  <2> SUFFICES ASSUME NEW i \in DOMAIN show.tracks
               PROVE  /\ layout'[i].it = 1 /\ layout'[i].rows = {}
                      /\ layout'[i].songit = layout[i].songit
    OBVIOUS
  <2>1. layout'[i] = RowsReset(layout[i])
    BY <1>4
  <2>2. layout'[i] = [it |-> 1, rows |-> {}, songit |-> layout[i].songit]
    BY <2>1, <1>5
  <2> QED BY <2>2
<1>6. Times'
  <2>1. Nan \in Int
    BY DEF Nan
  <2> QED BY <1>1, <1>2, <2>1 DEF Times
<1>7. Layouts'
  BY <1>2, <1>4, <1>5 DEF Layouts
<1>8. RowsTaken'
  BY <1>2, <1>a DEF RowsTaken
<1>9. GraphKept'
  BY <1>1, <1>2, <1>a DEF GraphKept
<1> QED BY <1>6, <1>7, <1>8, <1>9 DEF LyricsInv

(* The sections are those of the song.                                     *)
LEMMA AnySection ==
  ASSUME NEW S \in SUBSET DOMAIN Sections, S # {}
  PROVE  /\ Sections[Max(S)] \in Nat /\ Sections[Max(S)] + 12 < -Nan
         /\ Sections[Min(S)] \in Nat /\ Sections[Min(S)] + 12 < -Nan
<1>1. Sections \in Seq(Nat) /\ \A x \in Range(Sections) : x + 12 < -Nan
  BY LyricsAssumption
<1>2. /\ Len(Sections) \in Nat /\ DOMAIN Sections = 1 .. Len(Sections)
      /\ \A i \in DOMAIN Sections : Sections[i] \in Nat
  BY <1>1
<1>3. S \in SUBSET (0 .. Len(Sections)) /\ S \in SUBSET Nat
  BY <1>2
<1>4. Max(S) \in S /\ Min(S) \in S
  BY <1>2, <1>3, GreatestOf, MinOf
<1>5. \A i \in DOMAIN Sections : Sections[i] \in Range(Sections)
  BY DEF Range
<1> QED BY <1>1, <1>2, <1>4, <1>5

LEMMA SeekType ==
  ASSUME at \in Int, NEW x \in Int, SeekBy(x)
  PROVE  at' = at /\ sought' \in Nat /\ sought' + 12 < -Nan
<1>1. at' = at /\ sought' = WithinSong(at + x)
  BY DEF SeekBy, SeekPos
<1>2. at + x \in Int
  OBVIOUS
<1>3. WithinSong(at + x) \in Nat /\ WithinSong(at + x) + 12 < -Nan
  BY <1>2, WithinSongType
<1> QED BY <1>1, <1>3

-----------------------------------------------------------------------------
(* START.  With two singers a NaN gives way to the other, unless it comes  *)
(* last: then nothing is skipped.                                          *)

SmallerSkip(diff, b) ==
  IF b # Nan /\ diff # Nan /\ b - 12 - at > diff THEN diff
  ELSE IF b = Nan THEN Nan ELSE b - 12 - at

LEMMA SkipChain ==
  ASSUME at \in Int, NEW n \in Nat, NEW begins \in [1 .. n -> Int]
  PROVE  \E g : /\ g[0] = Nan /\ SmallestSkip(begins) = g[n]
                /\ \A k \in 1 .. n : g[k] = SmallerSkip(g[k - 1], begins[k])
                /\ \A k \in 0 .. n : g[k] \in Int
<1> DEFINE T == Int
           New(t, k) == IF begins[k] # Nan /\ t # Nan /\ begins[k] - 12 - at > t THEN t
                        ELSE IF begins[k] = Nan THEN Nan ELSE begins[k] - 12 - at
           F == [p \in T \X (1 .. n) |-> New(p[1], p[2])]
           Eq(h) == h = [s \in SUBSET (DOMAIN begins) |->
                           IF s = {} THEN Nan ELSE New(h[s \ {Max(s)}], Max(s))]
           X == CHOOSE h : Eq(h)
<1>1. SmallestSkip(begins) = X[DOMAIN begins]
  BY DEF SmallestSkip, FoldLeft, MapThenFoldSet
<1>2. DOMAIN begins = 1 .. n /\ Nan \in T
  BY DEF Nan
<1>3. \A t \in T, k \in 1 .. n : New(t, k) \in T
  <2> SUFFICES ASSUME NEW t \in T, NEW k \in 1 .. n PROVE New(t, k) \in T
    BY Zenon
  <2>1. begins[k] \in Int
    OBVIOUS
  <2> QED BY <2>1, <1>2
<1>4. \A t \in T, k \in 1 .. n : F[<<t, k>>] = New(t, k) /\ F[<<t, k>>] \in T
  BY <1>3
<1>t. T = Int /\ \A t, k : New(t, k) = SmallerSkip(t, begins[k])
  BY DEF SmallerSkip
<1> HIDE DEF F, T, New
<1>5. StaysWithin(F, T, n)
  BY <1>4 DEF StaysWithin
<1>6. PICK h : FoldsSequence(h, F, Nan, n) /\ \A s \in SUBSET (1 .. n) : h[s] \in T
  BY <1>2, <1>5, SequenceFoldExists
<1>7. Eq(h)
  <2>1. \A s \in SUBSET (1 .. n) : s # {} =>
          F[<<h[s \ {Max(s)}], Max(s)>>] = New(h[s \ {Max(s)}], Max(s))
    <3> SUFFICES ASSUME NEW s \in SUBSET (1 .. n), s # {}
                 PROVE  F[<<h[s \ {Max(s)}], Max(s)>>] = New(h[s \ {Max(s)}], Max(s))
      OBVIOUS
    <3>1. Max(s) \in 1 .. n /\ s \ {Max(s)} \in SUBSET (1 .. n)
      BY GreatestOfPart
    <3>2. h[s \ {Max(s)}] \in T
      BY <1>6, <3>1
    <3> QED BY <1>4, <3>1, <3>2
  <2>2. h = [s \in SUBSET (1 .. n) |-> IF s = {} THEN Nan ELSE New(h[s \ {Max(s)}], Max(s))]
    BY <1>6, <2>1 DEF FoldsSequence
  <2> QED BY <1>2, <2>2
<1>8. Eq(X)
  <2> HIDE DEF Eq
  <2> QED BY <1>7
<1>9. \A s \in SUBSET (1 .. n) : X[s] = IF s = {} THEN Nan ELSE New(X[s \ {Max(s)}], Max(s))
  <2> HIDE DEF X
  <2> QED BY <1>2, <1>8
<1> HIDE DEF X
<1>10. FoldsWithin(X, F, Nan, n, T)
  <2>1. {} \in SUBSET (1 .. n) /\ X[{}] = Nan
    BY <1>9
  <2>2. ASSUME NEW s \in SUBSET (1 .. n), s # {}, X[s \ {Max(s)}] \in T
        PROVE  X[s] = F[<<X[s \ {Max(s)}], Max(s)>>]
    <3>1. Max(s) \in 1 .. n
      BY <2>2, GreatestOfPart
    <3>2. X[s] = New(X[s \ {Max(s)}], Max(s))
      BY <1>9, <2>2
    <3> QED BY <1>4, <2>2, <3>1, <3>2
  <2> QED BY <2>1, <2>2 DEF FoldsWithin
<1>11. PICK g : Chains(g, F, Nan, n) /\ g[n] = X[1 .. n] /\ \A k \in 0 .. n : g[k] \in T
  BY <1>2, <1>5, <1>10, SequenceFoldChain
<1>12. \A k \in 1 .. n : g[k] = SmallerSkip(g[k - 1], begins[k])
  <2> SUFFICES ASSUME NEW k \in 1 .. n PROVE g[k] = SmallerSkip(g[k - 1], begins[k])
    OBVIOUS
  <2>1. k - 1 \in 0 .. n /\ g[k] = F[<<g[k - 1], k>>]
    BY <1>11 DEF Chains
  <2>2. g[k - 1] \in T
    BY <1>11, <2>1
  <2> QED BY <1>4, <1>t, <2>1, <2>2
<1>13. g[0] = Nan /\ SmallestSkip(begins) = g[n]
  BY <1>1, <1>2, <1>11 DEF Chains
<1> QED BY <1>11, <1>12, <1>13, <1>t

(* No skip goes beyond 3 seconds before a singer's next row.               *)
LEMMA SkipBounds ==
  ASSUME at \in Int, at + 12 < -Nan, NEW n \in 0 .. 2, NEW begins \in [1 .. n -> Int]
  PROVE  /\ SmallestSkip(begins) \in Int
         /\ SmallestSkip(begins) > 0 => \A i \in 1 .. n :
              0 <= begins[i] => SmallestSkip(begins) <= begins[i] - 12 - at
<1>1. PICK g : /\ g[0] = Nan /\ SmallestSkip(begins) = g[n]
               /\ \A k \in 1 .. n : g[k] = SmallerSkip(g[k - 1], begins[k])
               /\ \A k \in 0 .. n : g[k] \in Int
  BY SkipChain
<1>2. g[n] \in Int
  BY <1>1
<1>3. CASE n = 0
  BY <1>1, <1>3 DEF Nan
<1>4. CASE n = 1
  <2>1. g[1] = SmallerSkip(Nan, begins[1]) /\ begins[1] \in Int
    BY <1>1, <1>4
  <2> QED BY <1>1, <1>2, <1>4, <2>1 DEF SmallerSkip, Nan
<1>5. CASE n = 2
  <2>1. /\ g[1] = SmallerSkip(Nan, begins[1]) /\ begins[1] \in Int /\ g[1] \in Int
        /\ g[2] = SmallerSkip(g[1], begins[2]) /\ begins[2] \in Int
    <3>1. 1 \in 1 .. n /\ 2 \in 1 .. n /\ 1 - 1 = 0 /\ 2 - 1 = 1 /\ 1 \in 0 .. n
      BY <1>5
    <3> QED BY <1>1, <3>1
  <2>2. 0 <= begins[1] => g[1] = begins[1] - 12 - at /\ g[1] # Nan
    BY <2>1 DEF SmallerSkip, Nan
  <2>3. ASSUME g[2] > 0 PROVE g[2] <= begins[2] - 12 - at /\ (g[1] # Nan => g[2] <= g[1])
    BY <2>1, <2>3 DEF SmallerSkip, Nan
  <2>4. \A i \in 1 .. n : i = 1 \/ i = 2
    BY <1>5
  <2> QED BY <1>1, <1>2, <1>5, <2>1, <2>2, <2>3, <2>4
<1> QED BY <1>3, <1>4, <1>5

(* A row that is too early to be in view is not behind m_lyricit.          *)
LEMMA RowAhead ==
  ASSUME LyricsInv, ~wentBack, rowsAt <= at, NEW i \in DOMAIN show.tracks,
         NEW r \in RowStarts(show.tracks[i]), show.tracks[i][r].begin > at + Ahead
  PROVE  /\ i \notin AllShown
         /\ show.tracks[i][layout[i].it].begin \in Nat
         /\ show.tracks[i][layout[i].it].begin <= show.tracks[i][r].begin
<1> DEFINE notes == show.tracks[i]
           it == layout[i].it
<1>1. notes \in Seq(SungNote) /\ InSongOrder(notes) /\ rowsAt \in Int /\ at \in Int
  BY ShowFacts DEF LyricsInv, Times
<1>2. it \in 1 .. Len(notes) + 1
  BY DEF LyricsInv, Layouts, LayoutOK
<1>3. IF rowsAt = Nan THEN it = 1
      ELSE \A q \in RowStarts(notes) : q < it => notes[q].begin < rowsAt + Ahead
  BY DEF LyricsInv, RowsTaken, TakenIn
<1> HIDE DEF it, notes
<1>4. r \in RowStarts(notes) /\ notes[r].begin > at + Ahead
  BY DEF notes
<1>5. /\ DOMAIN notes = 1 .. Len(notes) /\ Len(notes) \in Nat /\ r \in 1 .. Len(notes)
      /\ \A k \in 1 .. Len(notes) : notes[k].begin \in Nat
  BY <1>1, <1>4, LyricNotes DEF RowStarts
<1>6. ~(r < it)
  <2>1. CASE rowsAt = Nan
    BY <2>1, <1>3, <1>5
  <2>2. CASE rowsAt # Nan
    <3> SUFFICES ASSUME r < it PROVE FALSE
      OBVIOUS
    <3>1. notes[r].begin < rowsAt + Ahead /\ notes[r].begin \in Nat
      BY <1>3, <1>4, <1>5, <2>2
    <3> QED BY <3>1, <1>1, <1>4 DEF Ahead
  <2> QED BY <2>1, <2>2
<1>7. it \in 1 .. Len(notes) /\ (it < r \/ it = r)
  BY <1>2, <1>5, <1>6
<1>8. notes[it].begin <= notes[r].begin
  BY <1>1, <1>5, <1>7 DEF InSongOrder
<1>9. ~(it > Len(notes))
  BY <1>5, <1>7
<1>10. i \notin AllShown
  BY <1>9 DEF AllShown, it, notes
<1> QED BY <1>5, <1>7, <1>8, <1>10 DEF it, notes

(* In a break, the next to be sung begins a row.                           *)
LEMMA BreakEndsWithRow ==
  ASSUME LyricsInv, SongStatus(at) = "break",
         NEW k \in Texts(show.guide), show.guide[k].end >= at
  PROVE  \E i \in DOMAIN show.tracks : \E r \in RowStarts(show.tracks[i]) :
           /\ show.tracks[i][r].begin > at + Ahead
           /\ show.tracks[i][r].begin <= show.guide[k].begin
<1> DEFINE guide == show.guide
           left == {i \in DOMAIN guide : guide[i].end >= at}
           texts == {i \in Texts(guide) : guide[i].end >= at}
<1>1. guide \in Seq(SungNote) /\ InSongOrder(guide) /\ at \in Int /\ PausesEndRows(show)
  BY ShowFacts DEF LyricsInv, Times
<1>2. left # {} /\ guide[Min(left)].begin > at + Ahead
  BY DEF SongStatus
<1>p. \A j \in Texts(guide) :
        (\A q \in Texts(guide) : q < j => guide[q].end + Ahead < guide[j].begin) =>
          \E i \in DOMAIN show.tracks : \E r \in RowStarts(show.tracks[i]) :
            show.tracks[i][r].begin = guide[j].begin
  BY <1>1 DEF PausesEndRows
<1>k. k \in texts
  OBVIOUS
<1> HIDE DEF guide
<1>3. /\ DOMAIN guide = 1 .. Len(guide) /\ Len(guide) \in Nat
      /\ \A j \in 1 .. Len(guide) : guide[j].begin \in Nat /\ guide[j].end \in Nat
  BY <1>1, LyricNotes
<1>4. left \in SUBSET Nat /\ texts \in SUBSET left /\ texts \in SUBSET Nat
  BY <1>3 DEF Texts
<1>5. /\ Min(left) \in left /\ \A j \in left : Min(left) <= j
      /\ Min(texts) \in texts /\ \A j \in texts : Min(texts) <= j
  <2> HIDE DEF left, texts
  <2> QED BY <1>2, <1>4, <1>k, MinOf
<1> DEFINE m == Min(left)
           t == Min(texts)
<1> HIDE DEF m, t
<1>6. /\ m \in left /\ guide[m].begin > at + Ahead /\ t \in texts /\ t \in left /\ m <= t
      /\ \A j \in texts : t <= j
  <2> HIDE DEF left, texts
  <2> QED BY <1>2, <1>4, <1>5 DEF m, t
<1>7. /\ m \in DOMAIN guide /\ t \in DOMAIN guide /\ t \in Texts(guide) /\ t \in Int /\ m \in Int
      /\ k \in DOMAIN guide /\ t <= k /\ k \in Int
  BY <1>3, <1>6, <1>k DEF Texts
<1>8. guide[m].begin <= guide[t].begin /\ guide[t].begin <= guide[k].begin
  <2>1. \A j \in DOMAIN guide : guide[j].begin \in Nat
    BY <1>3
  <2>2. (m = t \/ m < t) /\ (t = k \/ t < k)
    BY <1>6, <1>7
  <2> QED BY <2>1, <2>2, <1>1, <1>7 DEF InSongOrder
<1>9. guide[t].begin > at + Ahead
  BY <1>1, <1>3, <1>6, <1>7, <1>8 DEF Ahead
<1>10. ASSUME NEW q \in Texts(guide), q < t PROVE guide[q].end + Ahead < guide[t].begin
  <2>1. q \in 1 .. Len(guide) /\ t \in 1 .. Len(guide)
    BY <1>3, <1>7 DEF Texts
  <2>2. ~(guide[q].end >= at)
    <3>1. q \notin texts
      BY <1>6, <1>7, <1>10, <2>1
    <3> QED BY <3>1
  <2> QED BY <2>1, <2>2, <1>1, <1>3, <1>9 DEF Ahead
<1>11. PICK i \in DOMAIN show.tracks :
         \E r \in RowStarts(show.tracks[i]) : show.tracks[i][r].begin = guide[t].begin
  BY <1>p, <1>7, <1>10
<1>r. PICK r \in RowStarts(show.tracks[i]) : show.tracks[i][r].begin = guide[t].begin
  BY <1>11
<1>12. show.tracks[i][r].begin > at + Ahead /\ show.tracks[i][r].begin <= guide[k].begin
  BY <1>8, <1>9, <1>r
<1> QED BY <1>12 DEF guide

(* What lyrics_begin() gives, and where the song is moved.                 *)
Begins(garbage) == [i \in DOMAIN layout |-> LyricsBegin(i, garbage)]

LEMMA BeginsType ==
  ASSUME LyricsInv, NEW garbage \in Garbage
  PROVE  /\ DOMAIN layout = 1 .. Len(show.tracks) /\ Len(show.tracks) \in 0 .. 2
         /\ Begins(garbage) \in [1 .. Len(show.tracks) -> Int]
<1>1. DOMAIN layout = DOMAIN show.tracks
  BY DEF LyricsInv, Layouts
<1>2. DOMAIN layout = 1 .. Len(show.tracks) /\ Len(show.tracks) \in 0 .. 2
  BY <1>1, ShowFacts DEF LyricsInv, Times
<1>3. ASSUME NEW i \in DOMAIN layout PROVE LyricsBegin(i, garbage) \in Int
  <2>1. CASE i \in AllShown
    <3>1. garbage[i] \in {Nan} \cup 0 .. SongLength
      BY <2>1 DEF Garbage
    <3>2. garbage[i] \in Int
      BY <3>1 DEF Nan
    <3> QED BY <3>2, <2>1 DEF LyricsBegin
  <2>2. CASE i \notin AllShown
    <3>1. show.tracks[i] \in Seq(SungNote)
      BY <1>1, ShowFacts DEF LyricsInv, Times
    <3>2. layout[i].it \in 1 .. Len(show.tracks[i]) + 1 /\ Len(show.tracks[i]) \in Nat
      BY <1>1, <3>1, LyricNotes DEF LyricsInv, Layouts, LayoutOK
    <3>3. ~(layout[i].it > Len(show.tracks[i]))
      BY <2>2 DEF AllShown
    <3>4. layout[i].it \in 1 .. Len(show.tracks[i])
      BY <3>2, <3>3
    <3>5. show.tracks[i][layout[i].it].begin \in Nat
      BY <3>1, <3>4, LyricNotes
    <3> QED BY <2>2, <3>5 DEF LyricsBegin
  <2> QED BY <2>1, <2>2
<1> QED BY <1>2, <1>3 DEF Begins

LEMMA SkipMoves ==
  ASSUME LyricsInv, SkipBreak
  PROVE  /\ Unmoved /\ at' = at
         /\ \/ sought' = sought
            \/ at < 0 /\ sought' \in Nat /\ sought' + 12 < -Nan
            \/ \E garbage \in Garbage :
                 /\ SmallestSkip(Begins(garbage)) > 0 /\ SmallestSkip(Begins(garbage)) \in Int
                 /\ sought' = WithinSong(at + SmallestSkip(Begins(garbage)))
<1>1. at \in Int /\ at + 12 < -Nan
  BY DEF LyricsInv, Times
<1>2. Unmoved
  BY DEF SkipBreak, Moves, KeepsRows, Unmoved
<1>3. CASE at < 0
  <2>1. SeekBy(0) /\ 0 \in Int
    BY <1>3 DEF SkipBreak
  <2> QED BY <2>1, <1>1, <1>2, <1>3, SeekType
<1>4. CASE ~(at < 0)
  <2>1. PICK garbage \in Garbage :
          IF SmallestSkip(Begins(garbage)) > 0 THEN SeekBy(SmallestSkip(Begins(garbage)))
          ELSE UNCHANGED <<at, sought>>
    BY <1>4 DEF SkipBreak, Begins
  <2>2. SmallestSkip(Begins(garbage)) \in Int
    BY <1>1, BeginsType, SkipBounds
  <2> QED BY <2>1, <2>2, <1>2 DEF SeekBy, SeekPos
<1> QED BY <1>3, <1>4

LEMMA StartSkipsOnlyBreaks == LyricsInv /\ SkipBreak => SkipsOnlyBreak
<1> SUFFICES ASSUME LyricsInv, SkipBreak, at >= 0, sought' # sought, rowsAt <= at, ~wentBack
             PROVE  /\ sought' > at \/ at >= SongLength
                    /\ \A k \in Texts(show.guide) :
                         show.guide[k].end >= at => show.guide[k].begin >= sought' + 12
  BY DEF SkipsOnlyBreak
<1>1. at \in Int /\ at + 12 < -Nan /\ SongLength \in Nat /\ ~(at < 0)
  BY LyricsAssumption DEF LyricsInv, Times
<1>2. PICK garbage \in Garbage :
        /\ SmallestSkip(Begins(garbage)) > 0 /\ SmallestSkip(Begins(garbage)) \in Int
        /\ sought' = WithinSong(at + SmallestSkip(Begins(garbage)))
  BY <1>1, SkipMoves
<1> DEFINE diff == SmallestSkip(Begins(garbage))
<1> HIDE DEF diff
<1>3. diff > 0 /\ diff \in Int /\ sought' = WithinSong(at + diff)
  BY <1>2 DEF diff
<1>4. sought' = IF at + diff <= SongLength THEN at + diff ELSE SongLength
  <2> DEFINE x == at + diff
  <2>1. x \in Int /\ 0 < x
    BY <1>1, <1>3
  <2> HIDE DEF x
  <2>2. WithinSong(x) = IF x <= SongLength THEN x ELSE SongLength
    BY <2>1, WithinSongType
  <2> QED BY <2>2, <1>3 DEF x
<1>5. sought' > at \/ at >= SongLength
  BY <1>1, <1>3, <1>4
<1>6. ASSUME NEW k \in Texts(show.guide), show.guide[k].end >= at
      PROVE  show.guide[k].begin >= sought' + 12
  <2>1. SongStatus(at) = "break"
    BY DEF SkipBreak
  <2>a. PICK i \in DOMAIN show.tracks : \E r \in RowStarts(show.tracks[i]) :
          /\ show.tracks[i][r].begin > at + Ahead
          /\ show.tracks[i][r].begin <= show.guide[k].begin
    BY <2>1, <1>6, BreakEndsWithRow
  <2>2. PICK r \in RowStarts(show.tracks[i]) :
          /\ show.tracks[i][r].begin > at + Ahead
          /\ show.tracks[i][r].begin <= show.guide[k].begin
    BY <2>a
  <2> DEFINE b == show.tracks[i][layout[i].it].begin
             c == show.tracks[i][r].begin
             d == show.guide[k].begin
  <2>3. i \notin AllShown /\ b \in Nat /\ b <= c
    BY <2>2, RowAhead
  <2>4. /\ Begins(garbage) \in [1 .. Len(show.tracks) -> Int]
        /\ DOMAIN layout = 1 .. Len(show.tracks) /\ Len(show.tracks) \in 0 .. 2
    BY BeginsType
  <2>5. i \in DOMAIN layout
    BY DEF LyricsInv, Layouts
  <2>6. Begins(garbage)[i] = b
    BY <2>3, <2>5 DEF Begins, LyricsBegin
  <2>7. diff <= Begins(garbage)[i] - 12 - at
    <3>1. 0 <= Begins(garbage)[i]
      BY <2>3, <2>6
    <3> QED BY <3>1, <2>4, <2>5, <1>1, <1>3, SkipBounds DEF diff
  <2>8. c \in Nat /\ d \in Nat /\ c <= d
    <3>1. show.tracks[i] \in Seq(SungNote) /\ show.guide \in Seq(SungNote)
      BY ShowFacts DEF LyricsInv, Times
    <3>2. r \in 1 .. Len(show.tracks[i]) /\ k \in 1 .. Len(show.guide)
      BY <3>1, LyricNotes DEF RowStarts, Texts
    <3> QED BY <3>1, <3>2, <2>2, LyricNotes
  <2>9. diff <= b - 12 - at
    BY <2>6, <2>7
  <2> HIDE DEF b, c, d
  <2>10. d >= sought' + 12
    BY <2>3, <2>8, <2>9, <1>1, <1>3, <1>4
  <2> QED BY <2>10 DEF d
<1> QED BY <1>5, <1>6

-----------------------------------------------------------------------------
(* The steps, and the theorem.                                             *)

LEMMA StillBefore ==
  ASSUME NEW x \in Int, NEW y \in Int, NEW z \in Int, x <= y, y + 12 < z
  PROVE  x + 12 < z
OBVIOUS

LEMMA MusicKeeps == LyricsInv /\ (SongPlays \/ ClockSeesSeek \/ PauseMenu) => LyricsInv'
<1> SUFFICES ASSUME LyricsInv, SongPlays \/ ClockSeesSeek \/ PauseMenu PROVE LyricsInv'
  OBVIOUS
<1>1. Unmoved
  BY DEF SongPlays, ClockSeesSeek, PauseMenu, MusicOnly, Unmoved
<1>2. /\ at \in Int /\ (0 <= at \/ SongStart <= at) /\ at + 12 < -Nan
      /\ sought \in {Nan} \cup Nat /\ sought + 12 < -Nan
  BY DEF LyricsInv, Times
<1>3. /\ SongStart \in Int /\ SongLength \in Nat /\ Passing \in Nat /\ SongLength + 12 < -Nan
      /\ Nan \in Int /\ Nan + 12 < -Nan
  <2>1. Nan \in Int /\ Nan + 12 < -Nan
    BY DEF Nan
  <2> QED BY <2>1, LyricsAssumption
<1>4. CASE SongPlays
  <2>1. /\ at < SongLength /\ sought' = sought
        /\ at' = IF at + Passing <= SongLength THEN at + Passing ELSE SongLength
    BY <1>2, <1>3, <1>4, MinOfTwo, at + Passing \in Int DEF SongPlays
  <2>2. at' \in Int /\ at <= at' /\ at' <= SongLength
    BY <2>1, <1>2, <1>3
  <2>3. 0 <= at' \/ SongStart <= at'
    BY <2>2, <1>2, <1>3
  <2> DEFINE top == -Nan
  <2>t. top \in Int /\ SongLength + 12 < top
    BY <1>3
  <2> HIDE DEF top
  <2>4. at' + 12 < top
    <3>1. SongLength \in Int
      BY <1>3
    <3> QED BY <3>1, <2>2, <2>t, StillBefore
  <2>5. at' + 12 < -Nan
    BY <2>4 DEF top
  <2> QED BY <2>1, <2>2, <2>3, <2>5, <1>1, <1>2, UnmovedKeeps
<1>5. CASE ClockSeesSeek
  <2>1. at' = sought /\ sought # Nan /\ sought' = Nan
    BY <1>5 DEF ClockSeesSeek
  <2>2. at' \in Int /\ 0 <= at'
    BY <2>1, <1>2
  <2> QED BY <2>1, <2>2, <1>1, <1>2, <1>3, UnmovedKeeps
<1>6. CASE PauseMenu
  BY <1>1, <1>2, <1>6, UnmovedKeeps DEF PauseMenu
<1> QED BY <1>4, <1>5, <1>6

LEMMA KeysKeep == LyricsInv /\ (HomeKey \/ LeftKey \/ RightKey \/ SkipBreak) => LyricsInv'
<1> SUFFICES ASSUME LyricsInv, HomeKey \/ LeftKey \/ RightKey \/ SkipBreak PROVE LyricsInv'
  OBVIOUS
<1>1. /\ at \in Int /\ (0 <= at \/ SongStart <= at) /\ at + 12 < -Nan
      /\ sought \in {Nan} \cup Nat /\ sought + 12 < -Nan
  BY DEF LyricsInv, Times
<1>2. CASE HomeKey
  <2>1. Moves /\ ResetsRows /\ at' = at /\ sought' = 0
    BY <1>2 DEF HomeKey, SeekPos
  <2>2. sought' \in Nat /\ sought' + 12 < -Nan
    BY <2>1 DEF Nan
  <2> QED BY <2>1, <2>2, ResetKeeps
<1>3. CASE LeftKey
  <2> DEFINE prev == {i \in DOMAIN Sections : Sections[i] < at - 4}
  <2>1. Moves /\ ResetsRows
    BY <1>3 DEF LeftKey
  <2>2. IF prev = {} THEN SeekBy(-20) ELSE SeekPos(Sections[Max(prev)])
    BY <1>3 DEF LeftKey
  <2>3. at' = at /\ sought' \in Nat /\ sought' + 12 < -Nan
    <3>1. prev \in SUBSET DOMAIN Sections
      OBVIOUS
    <3> HIDE DEF prev
    <3>2. CASE prev = {}
      BY <3>2, <2>2, <1>1, SeekType, -20 \in Int
    <3>3. CASE prev # {}
      BY <3>1, <3>3, <2>2, AnySection DEF SeekPos
    <3> QED BY <3>2, <3>3
  <2> QED BY <2>1, <2>3, ResetKeeps
<1>4. CASE RightKey
  <2> DEFINE next == {i \in DOMAIN Sections : Sections[i] > at}
  <2>1. Unmoved
    BY <1>4 DEF RightKey, Moves, KeepsRows, Unmoved
  <2>2. IF next = {} THEN SeekBy(20) ELSE SeekPos(Sections[Min(next)])
    BY <1>4 DEF RightKey
  <2>3. at' = at /\ sought' \in Nat /\ sought' + 12 < -Nan
    <3>1. next \in SUBSET DOMAIN Sections
      OBVIOUS
    <3> HIDE DEF next
    <3>2. CASE next = {}
      BY <3>2, <2>2, <1>1, SeekType, 20 \in Int
    <3>3. CASE next # {}
      BY <3>1, <3>3, <2>2, AnySection DEF SeekPos
    <3> QED BY <3>2, <3>3
  <2> QED BY <2>1, <2>3, <1>1, UnmovedKeeps
<1>5. CASE SkipBreak
  <2>1. Unmoved /\ at' = at
    BY <1>5, SkipMoves
  <2>2. sought' \in {Nan} \cup Nat /\ sought' + 12 < -Nan
    <3>1. CASE \E garbage \in Garbage :
                 /\ SmallestSkip(Begins(garbage)) > 0 /\ SmallestSkip(Begins(garbage)) \in Int
                 /\ sought' = WithinSong(at + SmallestSkip(Begins(garbage)))
      <4>1. PICK diff \in Int : sought' = WithinSong(at + diff)
        BY <3>1
      <4> QED BY <4>1, <1>1, WithinSongType, at + diff \in Int
    <3> QED BY <3>1, <1>1, <1>5, SkipMoves
  <2> QED BY <2>1, <2>2, <1>1, UnmovedKeeps
<1> QED BY <1>2, <1>3, <1>4, <1>5

LEMMA LyricsStep == LyricsInv /\ [LyricsNext]_lyricsVars => LyricsInv'
<1> SUFFICES ASSUME LyricsInv, [LyricsNext]_lyricsVars PROVE LyricsInv'
  OBVIOUS
<1>1. CASE UNCHANGED lyricsVars
  BY <1>1 DEF lyricsVars, LyricsInv, Times, Layouts, RowsTaken, GraphKept
<1>2. CASE LyricsNext
  BY <1>2, FrameKeeps, MusicKeeps, KeysKeep DEF LyricsNext
<1> QED BY <1>1, <1>2

LEMMA LyricsImplies == LyricsInv => RowsFollow /\ GraphFollows
<1> SUFFICES ASSUME LyricsInv PROVE RowsFollow /\ GraphFollows
  OBVIOUS
<1>1. DOMAIN layout = DOMAIN show.tracks
  BY DEF LyricsInv, Layouts
<1>2. RowsFollow
  BY <1>1 DEF LyricsInv, RowsTaken, TakenIn, RowsFollow
<1>3. GraphFollows
  BY <1>1 DEF LyricsInv, GraphKept, UnseenBefore, GraphFollows
<1> QED BY <1>2, <1>3

(* For all songs in order: the rows in view are those of the time drawn,   *)
(* no note in sight is left out, and START never passes or comes close to  *)
(* a note still to be sung (LayoutSinger::draw, NoteGraph::draw,           *)
(* ScreenSing::manageEvent).                                               *)
THEOREM SingersSeeWhatTheySing == LyricsSpec => LyricsFollow
<1>1. LyricsInv /\ [LyricsNext]_lyricsVars => [SkipBreak => SkipsOnlyBreak]_lyricsVars
  BY StartSkipsOnlyBreaks
<1> QED BY <1>1, LyricsStart, LyricsStep, LyricsImplies, PTL DEF LyricsSpec, LyricsFollow
=============================================================================
