--------------------------- MODULE DevicesProofs ----------------------------
(***************************************************************************)
(* The ring of a microphone between the input callback and the engine, for *)
(* any capacity, window, step and sizes of the input: without a lock, and  *)
(* with a reading position that both sides write, the engine hears every   *)
(* sample once and in order unless an insert has run into it.              *)
(***************************************************************************)
EXTENDS Capture, Controllers, AudioDevices, SequenceTheorems, FoldLemmas

(* Where the next sample goes, whether it is published or not; how far a   *)
(* cell is behind another, and which one is some cells ahead.              *)
Cursor == IF ins.at \in {"copy", "publish"} THEN ins.w ELSE wr
Behind(p, q) == IF q >= p THEN q - p ELSE q - p + Capacity + 1
Ahead(p, n) == IF p + n <= Capacity THEN p + n ELSE p + n - (Capacity + 1)
Lag(p) == Behind(p, Cursor)

RingTypes ==
  /\ buf \in [Cells -> Nat] /\ rd \in Cells /\ wr \in Cells /\ samples \in Nat
  /\ ins \in [at : {"idle", "copy", "publish", "reset"}, w : Cells, r : Cells, left : Int,
              overflow : BOOLEAN]
  /\ get \in [at : {"idle", "load", "copy", "pop", "store"}, r : Cells, window : Seq(Nat),
              pops : Nat]
  /\ gap \in BOOLEAN /\ next \in Nat

(* The ring holds the samples that came last, the newest before the cursor.*)
NewestKept ==
  \A p \in Cells : LET age == Behind(p, Ahead(Cursor, Capacity))
                   IN  age < samples => buf[p] = samples - age

(* An insert that has overflowed resets the reading position at its end,   *)
(* and the reader will know of a gap.  All positions are of samples that   *)
(* have come.                                                              *)
OverflowInv ==
  /\ ins.overflow => gap /\ ins.at # "idle" /\ samples > Capacity
  /\ ins.at = "reset" => ins.overflow /\ ins.w = wr
  /\ Lag(rd) <= samples
  /\ ins.at \in {"copy", "publish"} => Lag(ins.r) <= samples

(* Unless it has overflowed, an insert started no later than where the     *)
(* reader is now, and the reader is no further than what is published.     *)
InsertInv ==
  ins.at \in {"copy", "publish"} /\ ~ins.overflow =>
    Lag(rd) <= Lag(ins.r) /\ Lag(wr) <= Lag(rd)

(* The engine has a window before it, and moves within it, or an overflow  *)
(* has taken or is going to take the reading position from it; then no     *)
(* sample has come since, or the next insert has overflowed as well.       *)
ReaderInv ==
  /\ get.at \in {"load", "copy", "pop"} => ins.overflow \/ Behind(rd, wr) >= WindowSize
  /\ get.at = "store" =>
       \/ ins.overflow
       \/ Lag(rd) = Capacity /\ Lag(wr) = 0
       \/ get.r = rd /\ get.pops <= Behind(rd, wr)
  /\ get.at = "store" /\ ~gap => get.r = rd /\ get.pops <= Behind(rd, wr)

(* Without a gap the window holds the samples from the reading position,   *)
(* which is where the last window has left it.                             *)
Position == samples - Lag(rd)
WindowInv ==
  ~gap =>
    /\ next # 0 => next = Position + 1
    /\ get.at \in {"copy", "pop", "store"} =>
         \A i \in 1 .. Len(get.window) : get.window[i] = Position + i
    /\ get.at = "load" => get.window = <<>>
    /\ get.at = "copy" => Len(get.window) < WindowSize /\ get.r = Ahead(rd, Len(get.window))
    /\ get.at \in {"pop", "store"} => Len(get.window) = WindowSize

RingInv == RingTypes /\ NewestKept /\ OverflowInv /\ InsertInv /\ ReaderInv /\ WindowInv
CaptureInv == reader = "engine" => RingInv

-----------------------------------------------------------------------------
(* Arithmetic of the ring                                                  *)

(* What is less than a divisor is its own remainder; one and two divisors  *)
(* more change nothing.                                                    *)
LEMMA Remainders ==
  ASSUME NEW n \in Nat \ {0}, NEW k \in 0 .. n - 1
  PROVE  k % n = k /\ (n + k) % n = k /\ (2 * n + k) % n = k
OBVIOUS

(* modulo() of a difference of cells is how far one is behind the other.   *)
LEMMA ModuloBack ==
  ASSUME NEW p \in Cells, NEW q \in Cells
  PROVE  Modulo(q - p) = Behind(p, q) /\ Behind(p, q) \in Cells
<1>1. Capacity \in Nat
  BY CaptureAssumption
<1> DEFINE k == Behind(p, q)
<1>2. k \in 0 .. Capacity /\ Capacity + 1 \in Nat \ {0}
  BY <1>1 DEF Behind, Cells
<1>3. k % (Capacity + 1) = k /\ (Capacity + 1 + k) % (Capacity + 1) = k
  BY <1>1, <1>2, Remainders
<1>4. Capacity + 1 + (q - p) = Capacity + 1 + k \/ Capacity + 1 + (q - p) = k
  BY <1>1 DEF Behind, Cells
<1> QED BY <1>2, <1>3, <1>4 DEF Modulo, Cells

(* modulo() of a sum is a cell, and the one that many ahead.               *)
LEMMA ModuloForward ==
  ASSUME NEW p \in Cells, NEW n \in 0 .. Capacity + 1
  PROVE  Modulo(p + n) = Ahead(p, n) /\ Ahead(p, n) \in Cells
<1>1. Capacity \in Nat
  BY CaptureAssumption
<1> DEFINE k == Ahead(p, n)
<1>2. k \in 0 .. Capacity /\ Capacity + 1 \in Nat \ {0}
  BY <1>1 DEF Ahead, Cells
<1>3. (Capacity + 1 + k) % (Capacity + 1) = k /\ (2 * (Capacity + 1) + k) % (Capacity + 1) = k
  BY <1>1, <1>2, Remainders
<1>4. \/ Capacity + 1 + (p + n) = Capacity + 1 + k
      \/ Capacity + 1 + (p + n) = 2 * (Capacity + 1) + k
  BY <1>1 DEF Ahead, Cells
<1> QED BY <1>2, <1>3, <1>4 DEF Modulo, Cells

(* Whatever is stored, it is a cell.                                       *)
LEMMA ModuloIsACell == ASSUME NEW i \in Int PROVE Modulo(i) \in Cells
BY CaptureAssumption DEF Modulo, Cells

-----------------------------------------------------------------------------
(* The input callback                                                      *)

(* What is ahead of a cell and what is behind it are cells.                *)
LEMMA Distances ==
  /\ Capacity \in Nat /\ WindowSize \in Nat /\ StepSize \in Nat
  /\ 0 < WindowSize /\ StepSize <= WindowSize /\ WindowSize <= Capacity
  /\ \A p, q \in Cells : Behind(p, q) \in 0 .. Capacity
  /\ \A p \in Cells, n \in 0 .. Capacity + 1 : Modulo(p + n) = Ahead(p, n) /\ Ahead(p, n) \in Cells
<1>1. Capacity \in Nat /\ WindowSize \in Nat /\ StepSize \in Nat
      /\ 0 < WindowSize /\ StepSize <= WindowSize /\ WindowSize <= Capacity
  BY CaptureAssumption
<1>2. \A p, q \in Cells : Behind(p, q) \in 0 .. Capacity
  BY <1>1 DEF Behind, Cells
<1> QED BY <1>1, <1>2, ModuloForward

(* When a cell is taken, all others are one cell further behind.           *)
LEMMA OneAhead ==
  ASSUME NEW z \in Cells
  PROVE  /\ Modulo(z + 1) = Ahead(z, 1) /\ Ahead(z, 1) \in Cells
         /\ \A p \in Cells :
              /\ p = Ahead(z, 1) => Behind(p, Ahead(z, 1)) = 0 /\ Behind(p, z) = Capacity
              /\ p # Ahead(z, 1) =>
                   Behind(p, Ahead(z, 1)) = Behind(p, z) + 1 /\ Behind(p, z) < Capacity
<1> USE Distances
<1>1. Capacity \in Nat /\ 1 \in 0 .. Capacity + 1
  OBVIOUS
<1>2. Ahead(z, 1) \in Cells
  <2> HIDE Distances
  <2> QED BY <1>1 DEF Ahead, Cells
<1>3. Modulo(z + 1) = Ahead(z, 1)
  BY <1>1, ModuloForward
<1> QED BY <1>2, <1>3 DEF Behind, Ahead, Cells

(* The newest sample is just behind the cursor.                            *)
LEMMA OneBack ==
  ASSUME NEW z \in Cells
  PROVE  /\ Ahead(z, Capacity) \in Cells /\ Ahead(Ahead(z, 1), Capacity) = z
         /\ Behind(z, z) = 0
         /\ \A p \in Cells \ {z} : Behind(p, Ahead(z, Capacity)) = Behind(p, z) - 1
BY Distances DEF Behind, Ahead, Cells

(* Distances behind one cell are compared, and moving ahead shortens them. *)
LEMMA FromBehind ==
  ASSUME NEW z \in Cells, NEW p \in Cells
  PROVE  /\ \A q \in Cells : Behind(q, z) <= Behind(p, z) => Behind(p, q) = Behind(p, z) - Behind(q, z)
         /\ \A n \in 0 .. Behind(p, z) :
              Ahead(p, n) \in Cells /\ Behind(Ahead(p, n), z) = Behind(p, z) - n
BY Distances DEF Behind, Ahead, Cells

(* The next sample always goes to a cell.                                  *)
LEMMA CursorIsACell == ASSUME RingTypes PROVE Cursor \in Cells
BY DEF Cursor, RingTypes

(* An insert begins where the last one ended, and notes where the reader is. *)
LEMMA InsertKeeps == ASSUME RingInv, Insert PROVE RingInv'
<1>1. Cursor' = Cursor /\ Cursor = wr /\ UNCHANGED <<buf, rd, wr, samples, get, gap, next>>
  BY DEF Insert, Cursor
<1>2. RingTypes'
  <2>1. PICK n \in 1 .. MaxInput :
          ins' = [at |-> "copy", w |-> wr, r |-> rd, left |-> n, overflow |-> FALSE]
    BY DEF Insert
  <2> QED BY <1>1, <2>1 DEF RingInv, RingTypes
<1>3. /\ ins'.at = "copy" /\ ins'.r = rd /\ ~ins'.overflow
      /\ ~ins.overflow
  BY DEF Insert, RingInv, OverflowInv
<1>4. NewestKept' /\ Position' = Position /\ Lag(rd)' = Lag(rd)
  BY <1>1 DEF RingInv, NewestKept, Position, Lag, Behind, Ahead
<1>5. OverflowInv'
  BY <1>1, <1>3, <1>4 DEF RingInv, OverflowInv, Lag
<1>6. InsertInv'
  BY <1>1, <1>3, CursorIsACell, Distances DEF RingInv, InsertInv, RingTypes, Lag, Behind, Cells
<1>7. ReaderInv' /\ WindowInv'
  BY <1>1, <1>3, <1>4 DEF RingInv, ReaderInv, WindowInv, Lag, Behind, Ahead
<1> QED BY <1>2, <1>4, <1>5, <1>6, <1>7 DEF RingInv

(* A sample moves the cursor on by one: all that was kept is one older, and *)
(* an insert that reaches where the reader was has overflowed.             *)
LEMMA CopyInKeeps == ASSUME RingInv, CopyIn PROVE RingInv'
<1> DEFINE z == ins.w
           d == Ahead(z, 1)
<1>1. /\ z \in Cells /\ rd \in Cells /\ wr \in Cells /\ ins.r \in Cells /\ samples \in Nat
      /\ ins.overflow \in BOOLEAN /\ gap \in BOOLEAN /\ ins.left \in Int
  BY DEF RingInv, RingTypes
<1>2. /\ Modulo(z + 1) = d /\ d \in Cells
      /\ \A p \in Cells : /\ p = d => Behind(p, d) = 0 /\ Behind(p, z) = Capacity
                          /\ p # d => Behind(p, d) = Behind(p, z) + 1 /\ Behind(p, z) < Capacity
  BY <1>1, OneAhead
<1> HIDE DEF d
<1>3. /\ ins' = [ins EXCEPT !.w = d, !.left = @ - 1, !.overflow = @ \/ d = ins.r,
                            !.at = IF ins.left = 1 THEN "publish" ELSE "copy"]
      /\ buf' = [buf EXCEPT ![z] = samples + 1] /\ samples' = samples + 1
      /\ gap' = (gap \/ d = ins.r) /\ ins.at = "copy"
      /\ UNCHANGED <<rd, wr, get, next>>
  BY <1>2 DEF CopyIn
<1>4. /\ ins'.w = d /\ ins'.r = ins.r /\ ins'.at \in {"copy", "publish"}
      /\ ins'.overflow = (ins.overflow \/ d = ins.r)
  BY <1>3, Zenon DEF RingInv, RingTypes
<1>5. Cursor = z /\ Cursor' = d
  BY <1>3, <1>4 DEF Cursor
<1>6. RingTypes'
  <2>1. (ins.overflow \/ d = ins.r) \in BOOLEAN /\ gap' \in BOOLEAN
    BY <1>1, <1>3, Zenon
  <2>2. ins' \in [at : {"idle", "copy", "publish", "reset"}, w : Cells, r : Cells, left : Int,
                  overflow : BOOLEAN]
    <3> DEFINE over == ins.overflow \/ d = ins.r
               at == IF ins.left = 1 THEN "publish" ELSE "copy"
               left == ins.left - 1
    <3>1. ins' = [ins EXCEPT !.w = d, !.left = left, !.overflow = over, !.at = at]
      BY <1>3
    <3>2. over \in BOOLEAN /\ at \in {"copy", "publish"} /\ left \in Int
      BY <1>1, <2>1
    <3> HIDE DEF over, at, left
    <3> QED BY <1>1, <1>2, <3>1, <3>2 DEF RingInv, RingTypes
  <2>3. buf' \in [Cells -> Nat]
    BY <1>1, <1>3 DEF RingInv, RingTypes
  <2> QED BY <1>3, <2>1, <2>2, <2>3 DEF RingInv, RingTypes
<1>7. NewestKept'
  <2>1. /\ Ahead(z, Capacity) \in Cells /\ Ahead(d, Capacity) = z /\ Behind(z, z) = 0
        /\ \A p \in Cells \ {z} : Behind(p, Ahead(z, Capacity)) = Behind(p, z) - 1
    BY <1>1, OneBack DEF d
  <2> SUFFICES ASSUME NEW p \in Cells, Behind(p, Ahead(Cursor', Capacity)) < samples'
               PROVE  buf'[p] = samples' - Behind(p, Ahead(Cursor', Capacity))
    BY DEF NewestKept
  <2>2. Behind(p, Ahead(Cursor', Capacity)) = Behind(p, z) /\ Behind(p, z) < samples + 1
    BY <1>3, <1>5, <2>1
  <2>3. CASE p = z
    BY <1>1, <1>3, <2>1, <2>2, <2>3 DEF RingInv, RingTypes
  <2>4. CASE p # z
    <3>1. Behind(p, Ahead(z, Capacity)) = Behind(p, z) - 1 /\ buf'[p] = buf[p]
      BY <1>3, <2>1, <2>4 DEF RingInv, RingTypes
    <3>2. Behind(p, z) \in 0 .. Capacity /\ Capacity \in Nat
      BY <1>1, Distances, Zenon
    <3>3. Behind(p, Ahead(z, Capacity)) < samples
      BY <1>1, <2>2, <3>1, <3>2
    <3>4. buf[p] = samples - Behind(p, Ahead(z, Capacity))
      BY <1>5, <3>3 DEF RingInv, NewestKept
    <3> QED BY <1>1, <1>3, <2>2, <3>1, <3>2, <3>4
  <2> QED BY <2>3, <2>4
<1>8. /\ \A p \in Cells : Behind(p, z) \in 0 .. Capacity /\ Behind(p, d) \in 0 .. Capacity
      /\ Capacity \in Nat /\ Behind(rd, z) <= samples /\ Behind(ins.r, z) <= samples
  BY <1>1, <1>2, <1>3, <1>5, Distances DEF RingInv, OverflowInv, Lag
<1>9. ~ins'.overflow =>
         /\ ~ins.overflow /\ Behind(rd, z) < Capacity
         /\ Behind(rd, z) <= Behind(ins.r, z) /\ Behind(wr, z) <= Behind(rd, z)
         /\ Behind(rd, d) = Behind(rd, z) + 1 /\ Behind(wr, d) = Behind(wr, z) + 1
         /\ Behind(ins.r, d) = Behind(ins.r, z) + 1
  <2> SUFFICES ASSUME ~ins'.overflow
               PROVE  /\ ~ins.overflow /\ Behind(rd, z) < Capacity
                      /\ Behind(rd, z) <= Behind(ins.r, z) /\ Behind(wr, z) <= Behind(rd, z)
                      /\ Behind(rd, d) = Behind(rd, z) + 1 /\ Behind(wr, d) = Behind(wr, z) + 1
                      /\ Behind(ins.r, d) = Behind(ins.r, z) + 1
    OBVIOUS
  <2>1. ~ins.overflow /\ d # ins.r
    BY <1>4, Zenon
  <2>2. Behind(rd, z) <= Behind(ins.r, z) /\ Behind(wr, z) <= Behind(rd, z)
    BY <1>3, <1>5, <2>1 DEF RingInv, InsertInv, Lag
  <2>3. Behind(ins.r, z) < Capacity /\ Behind(ins.r, d) = Behind(ins.r, z) + 1
    BY <1>1, <1>2, <2>1
  <2>4. Behind(rd, z) < Capacity /\ Behind(wr, z) < Capacity
    BY <1>1, <1>8, <2>2, <2>3
  <2>5. rd # d /\ wr # d
    BY <1>1, <1>2, <1>8, <2>4
  <2> QED BY <1>1, <1>2, <2>1, <2>2, <2>3, <2>4, <2>5
<1>10. OverflowInv'
  <2>1. ins'.overflow => gap'
    <3>1. ins.overflow => gap
      BY DEF RingInv, OverflowInv
    <3> QED BY <1>3, <1>4, <3>1, Zenon
  <2>2. ins'.overflow => samples' > Capacity
    <3>1. CASE ins.overflow
      <4>1. samples > Capacity
        BY <3>1 DEF RingInv, OverflowInv
      <4> QED BY <1>1, <1>3, <1>8, <4>1
    <3>2. CASE d = ins.r
      <4>1. Behind(ins.r, z) = Capacity
        BY <1>1, <1>2, <3>2
      <4> QED BY <1>1, <1>3, <1>8, <4>1
    <3> QED BY <1>4, <3>1, <3>2, Zenon
  <2>3. Behind(rd, d) <= samples + 1 /\ Behind(ins.r, d) <= samples + 1
    BY <1>1, <1>2, <1>8
  <2>4. Lag(rd)' <= samples' /\ Lag(ins.r)' <= samples'
    BY <1>3, <1>4, <1>5, <2>3 DEF Lag
  <2>5. ins'.at # "idle" /\ ins'.at # "reset"
    BY <1>4
  <2> QED BY <2>1, <2>2, <2>4, <2>5 DEF OverflowInv
<1>11. InsertInv'
  <2> SUFFICES ASSUME ~ins'.overflow
               PROVE  Behind(rd, d) <= Behind(ins.r, d) /\ Behind(wr, d) <= Behind(rd, d)
    BY <1>3, <1>4, <1>5 DEF InsertInv, Lag
  <2> QED BY <1>1, <1>8, <1>9
<1>12. ReaderInv'
  <2>1. ins.overflow => ins'.overflow
    BY <1>4, Zenon
  <2>2. Behind(rd, wr)' = Behind(rd, wr) /\ get' = get /\ rd' = rd
    BY <1>3 DEF Behind
  <2>3. ~gap' => ~gap
    BY <1>3, Zenon
  <2>4. Lag(rd) = Capacity /\ Lag(wr) = 0 => ins'.overflow
    BY <1>1, <1>5, <1>8, <1>9 DEF Lag
  <2> QED BY <2>1, <2>2, <2>3, <2>4 DEF RingInv, ReaderInv
<1>13. WindowInv'
  <2>1. ~gap' => ~gap /\ ~ins'.overflow
    BY <1>3, <1>10, Zenon DEF OverflowInv
  <2>2. ~gap' => Position' = Position
    BY <1>1, <1>3, <1>5, <1>8, <1>9, <2>1 DEF Position, Lag
  <2>3. \A n : Ahead(rd, n)' = Ahead(rd, n)
    BY <1>3 DEF Ahead
  <2> QED BY <1>3, <2>1, <2>2, <2>3 DEF RingInv, WindowInv
<1> QED BY <1>6, <1>7, <1>10, <1>11, <1>12, <1>13 DEF RingInv

(* What is published are the samples up to the cursor, and an insert that  *)
(* has not overflowed leaves the reader all that it had.                   *)
LEMMA PublishKeeps == ASSUME RingInv, Publish PROVE RingInv'
<1>1. /\ ins.at = "publish" /\ wr' = ins.w /\ UNCHANGED <<buf, rd, samples, get, gap, next>>
      /\ ins' = [ins EXCEPT !.at = IF ins.overflow THEN "reset" ELSE "idle"]
      /\ ins.w \in Cells /\ rd \in Cells /\ wr \in Cells
  BY DEF Publish, RingInv, RingTypes
<1>2. /\ ins'.at = (IF ins.overflow THEN "reset" ELSE "idle") /\ ins'.w = ins.w
      /\ ins'.r = ins.r /\ ins'.overflow = ins.overflow
  BY <1>1 DEF RingInv, RingTypes
<1>3. Cursor = ins.w /\ Cursor' = Cursor
  BY <1>1, <1>2 DEF Cursor
<1>4. RingTypes'
  BY <1>1 DEF RingInv, RingTypes
<1>5. NewestKept' /\ Position' = Position /\ Lag(rd)' = Lag(rd)
  BY <1>1, <1>3 DEF RingInv, NewestKept, Position, Lag, Behind, Ahead
<1>6. OverflowInv'
  BY <1>1, <1>2, <1>5 DEF RingInv, OverflowInv
<1>7. InsertInv'
  BY <1>2 DEF InsertInv
<1>8. Lag(wr)' = 0
  BY <1>1, <1>3, OneBack DEF Lag, Behind
<1>9. ~ins.overflow => Behind(rd, wr') = Lag(rd) /\ Behind(rd, wr') >= Behind(rd, wr)
  <2>1. Behind(rd, wr) \in Nat /\ Behind(rd, ins.w) \in Nat /\ Behind(wr, ins.w) \in Nat
    BY <1>1, Distances
  <2>2. Behind(wr, ins.w) <= Behind(rd, ins.w) =>
          Behind(rd, wr) = Behind(rd, ins.w) - Behind(wr, ins.w)
    BY <1>1, FromBehind
  <2>3. ~ins.overflow => Behind(wr, ins.w) <= Behind(rd, ins.w)
    BY <1>1, <1>3 DEF RingInv, InsertInv, Lag
  <2> QED BY <1>1, <1>3, <2>1, <2>2, <2>3 DEF Lag
<1>10. ReaderInv'
  <2>1. Behind(rd, wr)' = Behind(rd, wr')
    BY <1>1 DEF Behind
  <2>2. Behind(rd, wr) \in Nat /\ Behind(rd, wr') \in Nat /\ get.pops \in Nat /\ WindowSize \in Nat
    BY <1>1, Distances DEF RingInv, RingTypes
  <2>3. ~ins.overflow => /\ WindowSize <= Behind(rd, wr) => WindowSize <= Behind(rd, wr')
                         /\ get.pops <= Behind(rd, wr) => get.pops <= Behind(rd, wr')
    BY <1>9, <2>2
  <2>4. ~gap => ~ins.overflow
    BY DEF RingInv, OverflowInv
  <2> QED BY <1>1, <1>2, <1>5, <1>8, <2>1, <2>3, <2>4 DEF RingInv, ReaderInv
<1>11. WindowInv'
  <2>1. \A n : Ahead(rd, n)' = Ahead(rd, n)
    BY <1>1 DEF Ahead
  <2> QED BY <1>1, <1>5, <2>1 DEF RingInv, WindowInv
<1> QED BY <1>4, <1>5, <1>6, <1>7, <1>10, <1>11 DEF RingInv

(* Resetting the reading position keeps a full ring for the reader.        *)
LEMMA ResetReadKeeps == ASSUME RingInv, ResetRead PROVE RingInv'
<1>1. /\ ins.at = "reset" /\ ins.w = wr /\ gap /\ ins.w \in Cells /\ samples \in Nat
      /\ samples > Capacity /\ rd' = Modulo(ins.w + 1)
      /\ ins' = [ins EXCEPT !.at = "idle", !.overflow = FALSE]
      /\ UNCHANGED <<buf, wr, samples, get, gap, next>>
  BY DEF ResetRead, RingInv, RingTypes, OverflowInv
<1>2. ins'.at = "idle" /\ ~ins'.overflow /\ ins'.w = ins.w
  BY <1>1 DEF RingInv, RingTypes
<1>3. Cursor = wr /\ Cursor' = wr
  BY <1>1, <1>2 DEF Cursor
<1>4. rd' = Ahead(wr, 1) /\ rd' \in Cells /\ Behind(rd', wr) = Capacity /\ Behind(wr, wr) = 0
  BY <1>1, OneAhead, OneBack
<1>5. RingTypes'
  BY <1>1, <1>4 DEF RingInv, RingTypes
<1>6. NewestKept'
  BY <1>1, <1>3 DEF RingInv, NewestKept, Behind, Ahead
<1>7. Lag(rd)' = Capacity /\ Lag(wr)' = 0 /\ Behind(rd, wr)' = Capacity
  BY <1>1, <1>3, <1>4 DEF Lag, Behind
<1>8. OverflowInv'
  <2>1. Lag(rd)' <= samples'
    BY <1>1, <1>7, Distances
  <2> QED BY <1>2, <2>1 DEF OverflowInv
<1>9. InsertInv' /\ WindowInv'
  BY <1>1, <1>2 DEF InsertInv, WindowInv
<1>10. ReaderInv'
  BY <1>1, <1>7, Distances DEF ReaderInv
<1> QED BY <1>5, <1>6, <1>8, <1>9, <1>10 DEF RingInv

-----------------------------------------------------------------------------
(* The engine                                                              *)

(* Nothing that the input callback does depends on where a reader is in    *)
(* its window, as long as the reading position stays.                      *)
LEMMA ReaderMoves ==
  ASSUME RingInv, UNCHANGED <<buf, rd, wr, samples, ins, gap, next>>
  PROVE  /\ NewestKept' /\ OverflowInv' /\ InsertInv' /\ Position' = Position
         /\ Behind(rd, wr)' = Behind(rd, wr)
         /\ \A n : Ahead(rd, n)' = Ahead(rd, n)
<1>1. Cursor' = Cursor
  BY DEF Cursor
<1>2. Lag(rd)' = Lag(rd) /\ Lag(wr)' = Lag(wr) /\ Lag(ins.r)' = Lag(ins.r)
  BY <1>1 DEF Lag, Behind
<1>3. NewestKept'
  BY <1>1 DEF RingInv, NewestKept, Behind, Ahead
<1>4. OverflowInv' /\ InsertInv' /\ Position' = Position
  BY <1>2 DEF RingInv, OverflowInv, InsertInv, Position
<1>5. Behind(rd, wr)' = Behind(rd, wr) /\ \A n : Ahead(rd, n)' = Ahead(rd, n)
  BY DEF Behind, Ahead
<1> QED BY <1>3, <1>4, <1>5

(* What is published is not behind the reader, unless an insert overflowed. *)
LEMMA PublishedIsLess ==
  ASSUME RingInv, ~ins.overflow
  PROVE  /\ Behind(rd, wr) \in Nat /\ Lag(rd) \in Nat /\ Lag(rd) <= samples
         /\ Behind(rd, wr) <= Lag(rd) /\ Lag(wr) = Lag(rd) - Behind(rd, wr)
         /\ ins.at # "reset"
<1>1. rd \in Cells /\ wr \in Cells /\ Cursor \in Cells
  BY CursorIsACell DEF RingInv, RingTypes
<1>2. Behind(rd, wr) \in Nat /\ Lag(rd) \in Nat /\ Lag(wr) \in Nat
  BY <1>1, Distances DEF Lag
<1>3. ~ins.overflow /\ ins.at # "reset" /\ Lag(rd) <= samples
  BY DEF RingInv, OverflowInv
<1>4. CASE ins.at \in {"copy", "publish"}
  <2>1. Lag(wr) <= Lag(rd)
    BY <1>3, <1>4 DEF RingInv, InsertInv
  <2>2. Behind(rd, wr) = Lag(rd) - Lag(wr)
    BY <1>1, <2>1, FromBehind DEF Lag
  <2> QED BY <1>2, <1>3, <2>1, <2>2
<1>5. CASE ins.at \notin {"copy", "publish"}
  <2>1. Cursor = wr
    BY <1>5 DEF Cursor
  <2>2. Lag(wr) = 0 /\ Lag(rd) = Behind(rd, wr)
    BY <1>1, <2>1, OneBack DEF Lag
  <2> QED BY <1>2, <1>3, <2>2
<1> QED BY <1>4, <1>5

(* A read begins with a whole window published.                            *)
LEMMA ReadKeeps == ASSUME reader = "engine", RingInv, Read PROVE RingInv'
<1>1. /\ get.at = "idle" /\ Size >= WindowSize /\ get' = [get EXCEPT !.at = "load", !.window = <<>>]
      /\ UNCHANGED <<buf, rd, wr, samples, ins, gap, next>>
  BY DEF Read, Available, Wanted
<1>2. Size = Behind(rd, wr)
  BY ModuloBack DEF RingInv, RingTypes, Size
<1>3. <<>> \in Seq(Nat)
  OBVIOUS
<1>4. RingTypes' /\ get'.at = "load" /\ get'.window = <<>>
  BY <1>1, <1>3 DEF RingInv, RingTypes
<1>5. /\ NewestKept' /\ OverflowInv' /\ InsertInv' /\ Position' = Position
      /\ Behind(rd, wr)' = Behind(rd, wr)
  BY <1>1, ReaderMoves
<1>6. ReaderInv'
  BY <1>1, <1>2, <1>4, <1>5 DEF ReaderInv
<1>7. WindowInv'
  BY <1>1, <1>4, <1>5 DEF RingInv, WindowInv
<1> QED BY <1>4, <1>5, <1>6, <1>7 DEF RingInv

(* It copies from the reading position on.                                 *)
LEMMA LoadReadKeeps == ASSUME RingInv, LoadRead PROVE RingInv'
<1>1. /\ get.at = "load" /\ get' = [get EXCEPT !.at = "copy", !.r = rd] /\ rd \in Cells
      /\ UNCHANGED <<buf, rd, wr, samples, ins, gap, next>>
  BY DEF LoadRead, RingInv, RingTypes
<1>2. RingTypes' /\ get'.at = "copy" /\ get'.r = rd /\ get'.window = get.window
  BY <1>1 DEF RingInv, RingTypes
<1>3. /\ NewestKept' /\ OverflowInv' /\ InsertInv' /\ Position' = Position
      /\ Behind(rd, wr)' = Behind(rd, wr) /\ \A n : Ahead(rd, n)' = Ahead(rd, n)
  BY <1>1, ReaderMoves
<1>4. ReaderInv'
  BY <1>1, <1>2, <1>3 DEF RingInv, ReaderInv
<1>5. ~gap => Len(get.window) = 0 /\ Ahead(rd, 0) = rd
  BY <1>1, Distances DEF RingInv, WindowInv, Ahead, Cells
<1>6. \A i \in 1 .. 0 : get.window[i] = Position + i
  OBVIOUS
<1>7. WindowInv'
  <2>1. CASE gap
    BY <1>1, <2>1 DEF WindowInv
  <2>2. CASE ~gap
    <3>1. next # 0 => next = Position + 1
      BY <2>2 DEF RingInv, WindowInv
    <3>2. Len(get'.window) = 0 /\ get'.r = Ahead(rd, 0) /\ 0 < WindowSize
      BY <1>2, <1>5, <2>2, Distances
    <3>3. \A i \in 1 .. Len(get'.window) : get'.window[i] = Position + i
      BY <3>2
    <3> QED BY <1>1, <1>2, <1>3, <3>1, <3>2, <3>3 DEF WindowInv
  <2> QED BY <2>1, <2>2
<1> QED BY <1>2, <1>3, <1>4, <1>7 DEF RingInv

(* Without a gap the sample it copies is the one after those it has: it is *)
(* behind the cursor, and so in the ring.                                  *)
LEMMA CopyOutKeeps == ASSUME reader = "engine", RingInv, CopyOut PROVE RingInv'
<1> DEFINE taken == Len(get.window)
           window == Append(get.window, buf[get.r])
           at == IF taken + 1 = WindowSize THEN "pop" ELSE "copy"
           r == Modulo(get.r + 1)
<1>1. /\ get.at = "copy" /\ get' = [get EXCEPT !.window = window, !.r = r, !.at = at]
      /\ UNCHANGED <<buf, rd, wr, samples, ins, gap, next>>
  BY DEF CopyOut, Wanted
<1>2. /\ get.r \in Cells /\ get.window \in Seq(Nat) /\ buf[get.r] \in Nat /\ rd \in Cells
      /\ samples \in Nat /\ taken \in Nat /\ at \in {"pop", "copy"} /\ Capacity \in Nat
      /\ WindowSize \in Nat /\ WindowSize <= Capacity
  BY LenProperties, Distances DEF RingInv, RingTypes
<1>3. /\ window \in Seq(Nat) /\ Len(window) = taken + 1 /\ window[taken + 1] = buf[get.r]
      /\ \A i \in 1 .. taken : window[i] = get.window[i]
  BY <1>2, AppendProperties
<1>4. r \in Cells
  BY <1>2, OneAhead
<1>5. RingTypes' /\ get'.at = at /\ get'.r = r /\ get'.window = window
  <2> HIDE DEF window, at, r, taken
  <2> QED BY <1>1, <1>2, <1>3, <1>4 DEF RingInv, RingTypes
<1>6. /\ NewestKept' /\ OverflowInv' /\ InsertInv' /\ Position' = Position
      /\ Behind(rd, wr)' = Behind(rd, wr) /\ \A n : Ahead(rd, n)' = Ahead(rd, n)
  BY <1>1, ReaderMoves
<1>7. ReaderInv'
  <2>1. at # "store"
    OBVIOUS
  <2> HIDE DEF at
  <2> QED BY <1>1, <1>5, <1>6, <2>1 DEF RingInv, ReaderInv
<1>8. CASE gap
  BY <1>1, <1>5, <1>6, <1>7, <1>8 DEF WindowInv, RingInv
<1>9. CASE ~gap
  <2>1. /\ taken < WindowSize /\ get.r = Ahead(rd, taken)
        /\ \A i \in 1 .. taken : get.window[i] = Position + i
        /\ next # 0 => next = Position + 1
    BY <1>1, <1>9 DEF RingInv, WindowInv
  <2>2. /\ Behind(rd, wr) \in Nat /\ Lag(rd) \in Nat /\ Lag(rd) <= samples
        /\ Behind(rd, wr) <= Lag(rd) /\ Behind(rd, wr) >= WindowSize
    BY <1>1, <1>9, PublishedIsLess DEF RingInv, ReaderInv, OverflowInv
  <2>3. /\ Cursor \in Cells /\ taken \in 0 .. Lag(rd) /\ taken < Lag(rd)
    BY <1>2, <2>1, <2>2, CursorIsACell DEF RingInv
  <2>4. Behind(get.r, Cursor) = Lag(rd) - taken
    BY <1>2, <2>1, <2>3, FromBehind DEF Lag
  <2>5. get.r # Cursor /\ Behind(get.r, Ahead(Cursor, Capacity)) = Lag(rd) - taken - 1
    <3>1. Behind(Cursor, Cursor) = 0
      BY <2>3, OneBack
    <3>2. get.r # Cursor
      BY <2>2, <2>3, <2>4, <3>1
    <3> QED BY <1>2, <2>3, <2>4, <3>2, OneBack
  <2>6. buf[get.r] = Position + taken + 1
    <3>1. Lag(rd) - taken - 1 < samples
      BY <1>2, <2>2
    <3>2. buf[get.r] = samples - (Lag(rd) - taken - 1)
      BY <1>2, <2>5, <3>1 DEF RingInv, NewestKept
    <3> QED BY <1>2, <2>2, <3>2 DEF Position
  <2>7. \A i \in 1 .. Len(window) : window[i] = Position + i
    <3> TAKE i \in 1 .. Len(window)
    <3>1. i \in 1 .. taken \/ i = taken + 1
      BY <1>2, <1>3
    <3>2. Position \in Int
      BY <1>2, <2>2 DEF Position
    <3>3. CASE i \in 1 .. taken
      BY <1>3, <2>1, <3>3
    <3>4. CASE i = taken + 1
      BY <1>2, <1>3, <2>6, <3>2, <3>4
    <3> QED BY <3>1, <3>3, <3>4
  <2>8. r = Ahead(rd, taken + 1)
    <3>1. r = Ahead(Ahead(rd, taken), 1)
      BY <1>2, <2>1, OneAhead
    <3> HIDE DEF r, taken
    <3> QED BY <1>2, <2>1, <3>1 DEF Ahead, Cells
  <2>9. /\ at = "pop" => Len(window) = WindowSize
        /\ at = "copy" => Len(window) < WindowSize
        /\ at # "load" /\ at # "store"
    BY <1>2, <1>3, <2>1
  <2>10. WindowInv'
    <3> HIDE DEF window, at, r, taken
    <3> QED BY <1>1, <1>3, <1>5, <1>6, <2>1, <2>7, <2>8, <2>9 DEF WindowInv
  <2> QED BY <1>5, <1>6, <1>7, <2>10 DEF RingInv
<1> QED BY <1>8, <1>9

(* pop() begins at the reading position, with a step's samples before it.  *)
LEMMA PopKeeps == ASSUME reader = "engine", RingInv, Pop PROVE RingInv'
<1>1. /\ get.at = "pop" /\ get' = [get EXCEPT !.at = "store", !.r = rd, !.pops = StepSize]
      /\ UNCHANGED <<buf, rd, wr, samples, ins, gap, next>>
  BY DEF Pop, Moves
<1>2. /\ rd \in Cells /\ wr \in Cells /\ StepSize \in Nat /\ WindowSize \in Nat
      /\ StepSize <= WindowSize /\ Behind(rd, wr) \in Nat
  BY Distances DEF RingInv, RingTypes
<1>3. /\ RingTypes' /\ get'.at = "store" /\ get'.r = rd /\ get'.pops = StepSize
      /\ get'.window = get.window
  BY <1>1, <1>2 DEF RingInv, RingTypes
<1>4. /\ NewestKept' /\ OverflowInv' /\ InsertInv' /\ Position' = Position
      /\ Behind(rd, wr)' = Behind(rd, wr)
  BY <1>1, ReaderMoves
<1>5. ins.overflow \/ StepSize <= Behind(rd, wr)
  BY <1>1, <1>2 DEF RingInv, ReaderInv
<1>6. ~gap => ~ins.overflow
  BY DEF RingInv, OverflowInv
<1>7. ReaderInv'
  BY <1>1, <1>3, <1>4, <1>5, <1>6 DEF ReaderInv
<1>8. WindowInv'
  BY <1>1, <1>3, <1>4 DEF RingInv, WindowInv
<1> QED BY <1>3, <1>4, <1>7, <1>8 DEF RingInv

(* Without an overflow it stores the position a step after the window's    *)
(* first sample; a position from before a reset is overrun by the next     *)
(* sample, and so does no harm.                                            *)
LEMMA PopStoreKeeps == ASSUME RingInv, PopStore PROVE RingInv'
<1>1. /\ get.at = "store" /\ rd' = Modulo(get.r + get.pops)
      /\ get' = [get EXCEPT !.at = "idle", !.window = <<>>]
      /\ gap' = ins.overflow
      /\ next' = IF gap \/ get.window = <<>> THEN 0 ELSE get.window[1] + get.pops
      /\ UNCHANGED <<buf, wr, samples, ins>>
  BY DEF PopStore
<1>2. /\ get.r \in Cells /\ get.pops \in Nat /\ get.window \in Seq(Nat) /\ samples \in Nat
      /\ rd \in Cells /\ wr \in Cells /\ Cursor \in Cells /\ ins.r \in Cells
      /\ ins.overflow \in BOOLEAN /\ Capacity \in Nat
  BY CursorIsACell, Distances DEF RingInv, RingTypes
<1>3. rd' \in Cells
  BY <1>1, <1>2, ModuloIsACell DEF Cells
<1>4. <<>> \in Seq(Nat) /\ (get.window # <<>> => get.window[1] \in Nat)
  BY <1>2, EmptySeq, ElementOfSeq, LenProperties
<1>5. RingTypes'
  <2>1. next' \in Nat
    BY <1>1, <1>2, <1>4
  <2> QED BY <1>1, <1>2, <1>3, <1>4, <2>1 DEF RingInv, RingTypes
<1>6. get'.at = "idle" /\ Cursor' = Cursor
  BY <1>1 DEF RingInv, RingTypes, Cursor
<1>7. NewestKept'
  BY <1>1, <1>6 DEF RingInv, NewestKept, Behind, Ahead
<1>8. /\ Lag(rd) \in 0 .. Capacity /\ Lag(wr) \in 0 .. Capacity /\ Lag(rd') \in 0 .. Capacity
      /\ Lag(rd) <= samples
  BY <1>2, <1>3, Distances DEF Lag, RingInv, OverflowInv
<1>9. ReaderInv'
  <2>1. get'.at \notin {"load", "copy", "pop", "store"}
    BY <1>6
  <2> QED BY <2>1 DEF ReaderInv
<1>10. CASE ins.overflow
  <2>1. OverflowInv'
    <3>1. /\ samples > Capacity /\ ins.at # "idle" /\ gap' /\ Lag(rd)' = Lag(rd')
          /\ ins.at = "reset" => ins.w = wr
          /\ ins.at \in {"copy", "publish"} => Lag(ins.r) <= samples
      BY <1>1, <1>6, <1>10 DEF RingInv, OverflowInv, Lag, Behind
    <3>2. Lag(ins.r)' = Lag(ins.r)
      BY <1>1, <1>6 DEF Lag, Behind
    <3> QED BY <1>1, <1>2, <1>8, <1>10, <3>1, <3>2 DEF OverflowInv
  <2>2. InsertInv' /\ WindowInv'
    BY <1>1, <1>10 DEF InsertInv, WindowInv
  <2> QED BY <1>5, <1>7, <1>9, <2>1, <2>2 DEF RingInv
<1>11. CASE ~ins.overflow
  <2>1. /\ Lag(ins.r)' = Lag(ins.r) /\ Lag(wr)' = Lag(wr) /\ Lag(rd)' = Lag(rd')
        /\ Lag(ins.r) \in 0 .. Capacity
    BY <1>1, <1>2, <1>6, Distances DEF Lag, Behind
  <2>2. get.r = rd /\ get.pops <= Behind(rd, wr) =>
          Lag(rd') = Lag(rd) - get.pops /\ Lag(wr) <= Lag(rd') /\ Lag(rd') <= Lag(rd)
    <3> SUFFICES ASSUME get.r = rd, get.pops <= Behind(rd, wr)
                 PROVE  Lag(rd') = Lag(rd) - get.pops /\ Lag(wr) <= Lag(rd') /\ Lag(rd') <= Lag(rd)
      OBVIOUS
    <3>1. /\ Behind(rd, wr) \in Nat /\ Behind(rd, wr) <= Lag(rd)
          /\ Lag(wr) = Lag(rd) - Behind(rd, wr)
      BY <1>11, PublishedIsLess
    <3>2. get.pops \in 0 .. Lag(rd) /\ get.pops \in 0 .. Capacity + 1
      BY <1>2, <1>8, <3>1
    <3>3. rd' = Ahead(rd, get.pops)
      BY <1>1, <1>2, <3>2, ModuloForward
    <3>4. Lag(rd') = Lag(rd) - get.pops
      BY <1>2, <3>2, <3>3, FromBehind DEF Lag
    <3> QED BY <1>2, <1>8, <3>1, <3>4
  <2>3. \/ Lag(rd) = Capacity /\ Lag(wr) = 0
        \/ Lag(wr) <= Lag(rd') /\ Lag(rd') <= Lag(rd)
    BY <1>1, <1>11, <2>2 DEF RingInv, ReaderInv
  <2>4. OverflowInv'
    <3>1. Lag(rd') <= samples
      BY <1>2, <1>8, <2>3
    <3>2. /\ ins.at # "reset"
          /\ ins.at \in {"copy", "publish"} => Lag(ins.r) <= samples
      BY <1>11 DEF RingInv, OverflowInv
    <3> QED BY <1>1, <1>11, <2>1, <3>1, <3>2 DEF OverflowInv
  <2>5. InsertInv'
    <3> SUFFICES ASSUME ins.at \in {"copy", "publish"}
                 PROVE  Lag(rd') <= Lag(ins.r) /\ Lag(wr) <= Lag(rd')
      BY <1>1, <2>1 DEF InsertInv
    <3>1. Lag(rd) <= Lag(ins.r)
      BY <1>11 DEF RingInv, InsertInv
    <3> QED BY <1>2, <1>8, <2>1, <2>3, <3>1
  <2>6. next' # 0 => next' = Position' + 1
    <3> SUFFICES ASSUME ~gap, get.window # <<>>
                 PROVE  next' = Position' + 1
      BY <1>1
    <3>1. /\ get.r = rd /\ get.pops <= Behind(rd, wr)
          /\ \A i \in 1 .. Len(get.window) : get.window[i] = Position + i
      BY <1>1 DEF RingInv, ReaderInv, WindowInv
    <3>2. 1 \in 1 .. Len(get.window)
      BY <1>2, EmptySeq, LenProperties
    <3>3. next' = Position + 1 + get.pops
      BY <1>1, <3>1, <3>2
    <3>4. Position' = samples - Lag(rd') /\ Position = samples - Lag(rd)
      BY <1>1, <2>1 DEF Position
    <3> QED BY <1>2, <1>8, <2>2, <3>1, <3>3, <3>4, SMTT(30)
  <2>7. WindowInv'
    BY <1>6, <2>6 DEF WindowInv
  <2> QED BY <1>5, <1>7, <1>9, <2>4, <2>5, <2>7 DEF RingInv
<1> QED BY <1>10, <1>11

-----------------------------------------------------------------------------
(* The theorem                                                             *)

(* Every step keeps the ring of the engine in order.                       *)
LEMMA RingStep == ASSUME CaptureInv, [CaptureNext]_capvars PROVE CaptureInv'
<1>1. reader' = reader
  BY DEF CaptureNext, capvars, Insert, CopyIn, Publish, ResetRead, Read, LoadRead, CopyOut, Pop,
         PopStore
<1> SUFFICES ASSUME reader = "engine" PROVE RingInv'
  BY <1>1 DEF CaptureInv
<1>2. RingInv
  BY DEF CaptureInv
<1>3. ASSUME UNCHANGED capvars PROVE RingInv'
  <2>1. UNCHANGED <<buf, rd, wr, samples, ins, get, gap, next>>
    BY <1>3 DEF capvars
  <2>2. /\ NewestKept' /\ OverflowInv' /\ InsertInv' /\ Position' = Position
        /\ Behind(rd, wr)' = Behind(rd, wr) /\ \A n : Ahead(rd, n)' = Ahead(rd, n)
    BY <1>2, <2>1, ReaderMoves
  <2>3. Lag(rd)' = Lag(rd) /\ Lag(wr)' = Lag(wr)
    BY <2>1 DEF Lag, Cursor, Behind
  <2>4. RingTypes' /\ ReaderInv' /\ WindowInv'
    BY <1>2, <2>1, <2>2, <2>3 DEF RingInv, RingTypes, ReaderInv, WindowInv
  <2> QED BY <2>2, <2>4 DEF RingInv
<1> QED
  BY <1>2, <1>3, InsertKeeps, CopyInKeeps, PublishKeeps, ResetReadKeeps, ReadKeeps, LoadReadKeeps,
     CopyOutKeeps, PopKeeps, PopStoreKeeps DEF CaptureNext

(* Without a lock between them, and whatever the sizes, the engine hears   *)
(* the samples of the microphone once and in order as long as no insert    *)
(* runs into it, and a ring at rest holds the newest samples in order.     *)
THEOREM TheEngineHearsInOrder == CaptureSpec => []HeardInOrder
<1>1. CaptureInit => CaptureInv
  <2> SUFFICES ASSUME CaptureInit PROVE RingInv
    BY DEF CaptureInv
  <2>1. 0 \in Cells /\ <<>> \in Seq(Nat) /\ Cursor = 0 /\ Behind(0, 0) = 0
    BY Distances DEF Cells, Cursor, Behind, CaptureInit
  <2>2. RingTypes
    BY <2>1 DEF CaptureInit, RingTypes
  <2>3. Lag(rd) = 0 /\ samples = 0 /\ ins.at = "idle" /\ get.at = "idle" /\ ~ins.overflow
    BY <2>1 DEF CaptureInit, Lag
  <2>4. NewestKept
    BY <2>1, <2>3, Distances DEF NewestKept, Ahead, Cells
  <2>5. OverflowInv /\ InsertInv /\ ReaderInv
    BY <2>3 DEF OverflowInv, InsertInv, ReaderInv
  <2>6. WindowInv
    BY <2>3 DEF CaptureInit, WindowInv, Position
  <2> QED BY <2>2, <2>4, <2>5, <2>6 DEF RingInv
<1>2. CaptureInv /\ [CaptureNext]_capvars => CaptureInv'
  BY RingStep
<1>3. CaptureInv => HeardInOrder
  <2> SUFFICES ASSUME reader = "engine", RingInv PROVE HeardInOrder
    BY DEF CaptureInv, HeardInOrder
  <2>1. /\ rd \in Cells /\ wr \in Cells /\ samples \in Nat /\ get.window \in Seq(Nat)
        /\ Capacity \in Nat /\ WindowSize \in Nat /\ 0 < WindowSize
    BY Distances DEF RingInv, RingTypes
  <2>2. ASSUME get.at = "pop", ~gap
        PROVE  LET first == IF next = 0 THEN get.window[1] ELSE next
               IN  get.window = [i \in 1 .. WindowSize |-> first + i - 1]
    <3> DEFINE first == IF next = 0 THEN get.window[1] ELSE next
    <3>1. /\ Len(get.window) = WindowSize
          /\ \A i \in 1 .. WindowSize : get.window[i] = Position + i
          /\ next # 0 => next = Position + 1
      BY <2>2 DEF RingInv, WindowInv
    <3>2. Position \in Int
      BY <2>1, PublishedIsLess, <2>2 DEF Position, RingInv, OverflowInv
    <3>3. first = Position + 1
      BY <2>1, <3>1
    <3> HIDE DEF first
    <3>4. get.window = [i \in 1 .. WindowSize |-> get.window[i]]
      BY <2>1, <3>1, LenProperties
    <3>5. \A i \in 1 .. WindowSize : get.window[i] = first + i - 1
      BY <3>1, <3>2, <3>3
    <3>6. get.window = [i \in 1 .. WindowSize |-> first + i - 1]
      BY <3>4, <3>5
    <3> QED BY <3>6 DEF first
  <2>3. ASSUME ins.at = "idle", NEW i \in 0 .. Size - 1
        PROVE  buf[Modulo(rd + i)] = samples - Size + 1 + i
    <3>1. Cursor = wr /\ Size = Behind(rd, wr) /\ Behind(rd, wr) <= samples
          /\ Behind(rd, wr) \in 0 .. Capacity
      BY <2>1, <2>3, ModuloBack, Distances DEF Cursor, Size, RingInv, OverflowInv, Lag
    <3>2. i \in 0 .. Behind(rd, wr) /\ i \in 0 .. Capacity + 1 /\ i < Size
      BY <2>1, <2>3, <3>1
    <3>3. Modulo(rd + i) = Ahead(rd, i) /\ Ahead(rd, i) \in Cells
      BY <2>1, <3>2, ModuloForward
    <3>4. Behind(Ahead(rd, i), wr) = Size - i
      BY <2>1, <3>1, <3>2, FromBehind
    <3>5. Ahead(rd, i) # wr
      BY <2>1, <3>1, <3>2, <3>4, OneBack
    <3>6. Behind(Ahead(rd, i), Ahead(Cursor, Capacity)) = Size - i - 1
      BY <2>1, <3>1, <3>3, <3>4, <3>5, OneBack
    <3>7. Size - i - 1 < samples
      BY <2>1, <3>1, <3>2
    <3>8. buf[Ahead(rd, i)] = samples - (Size - i - 1)
      BY <3>3, <3>6, <3>7 DEF RingInv, NewestKept
    <3> QED BY <2>1, <3>1, <3>2, <3>3, <3>8
  <2> QED BY <2>2, <2>3 DEF HeardInOrder
<1> QED BY <1>1, <1>2, <1>3, PTL DEF CaptureSpec

-----------------------------------------------------------------------------
(* Controllers.  The last value of a button is not 0.                      *)
DeviceFields == {"values", "nav", "repeat", "queue", "orphans", "enabled"}
Dev(q) == DeviceFields \subseteq DOMAIN q /\ \A u \in DOMAIN q.values : u = <<u[1], u[2]>>
Down(q, s, b) == <<s, b>> \in DOMAIN q.values /\ q.values[<<s, b>>] # 0

(* Navigation repeats only for buttons that are down.                      *)
Timed(q) == \A n \in DOMAIN q.repeat : n # None /\ \E s, b : Down(q, s, b) /\ Nav[b] = n

(* An instrument has a queue; what it is going to take for pressed, from   *)
(* what it takes for pressed now, is down.                                 *)
IsSeq(z) == \E T : z \in Seq(T)
Queued(q, s) == s \in DOMAIN q.queue /\ s \notin q.orphans /\ IsSeq(q.queue[s])
Right(q, s, P, x) == x \in Fold(q.queue[s], P) => Down(q, s, x)
Moved(q, r, s, x) ==
  /\ <<s, x>> \in DOMAIN r.values
  /\ <<s, x>> \notin DOMAIN q.values \/ r.values[<<s, x>>] # q.values[<<s, x>>]

(* Of what moved instruments take the right thing from then on.            *)
Told(q, r) ==
  \A s, P, x : Queued(q, s) /\ (Right(q, s, P, x) \/ Moved(q, r, s, x)) => Right(r, s, P, x)

(* What events leave as it was, and what they tell instruments.            *)
Heard(q, r) ==
  /\ Dev(r) /\ r.enabled = q.enabled /\ (Timed(q) => Timed(r))
  /\ DOMAIN q.values \subseteq DOMAIN r.values
  /\ q.orphans \subseteq DOMAIN q.queue => r.orphans \subseteq DOMAIN r.queue
  /\ \A s : Queued(q, s) => Queued(r, s) /\ (~q.enabled => r.queue[s] = q.queue[s])
  /\ q.enabled => Told(q, r)

-----------------------------------------------------------------------------
(* What an instrument takes for pressed: a fold over its events.           *)
Taken(pressed, e) == IF e.value = 0 THEN pressed \ {e.button} ELSE pressed \cup {e.button}

(* g[k] is what it takes for pressed after k events.                       *)
TakenChain(g, n, queue, pressed) ==
  /\ g[0] = pressed
  /\ \A k \in 1 .. n : g[k] = Taken(g[k - 1], queue[k])

LEMMA FoldOfEvents ==
  ASSUME NEW n \in Nat, NEW queue, DOMAIN queue = 1 .. n, NEW pressed
  PROVE  \E g : TakenChain(g, n, queue, pressed) /\ Fold(queue, pressed) = g[n]
<1> DEFINE S == 1 .. n
           B == pressed \cup {queue[i].button : i \in S}
           F == [p \in (SUBSET B) \X S |-> Taken(p[1], queue[p[2]])]
           choice == [s \in SUBSET S |-> Max(s)]
           Eq(h) == h = [s \in SUBSET (DOMAIN queue) |->
                           IF s = {} THEN pressed
                           ELSE IF queue[Max(s)].value = 0
                                THEN h[s \ {Max(s)}] \ {queue[Max(s)].button}
                                ELSE h[s \ {Max(s)}] \cup {queue[Max(s)].button}]
           X == CHOOSE h : Eq(h)
           g == [k \in 0 .. n |-> X[1 .. k]]
<1>1. Fold(queue, pressed) = X[DOMAIN queue]
  BY DEF Fold, FoldLeft, MapThenFoldSet
<1>2. IsFiniteSet(S) /\ \A s \in SUBSET S : s # {} => Max(s) \in s
  <2>1. \A s \in SUBSET S : s \in SUBSET (0 .. n)
    OBVIOUS
  <2> QED BY <2>1, GreatestOf, Intervals, 1 \in Int, n \in Int
<1>3. \A s \in SUBSET S : choice[s] = Max(s) /\ (s # {} => choice[s] \in s)
  BY <1>2
<1>4. \A t \in SUBSET B, x \in S : F[<<t, x>>] = Taken(t, queue[x]) /\ F[<<t, x>>] \in SUBSET B
  BY DEF Taken
<1> HIDE DEF F, choice
<1>5. PICK h : FoldsTo(h, F, pressed, choice, S)
  BY <1>2, <1>3, FoldExists
<1>6. \A s \in SUBSET S : h[s] \in SUBSET B
  <2>1. pressed \in SUBSET B
    OBVIOUS
  <2> HIDE DEF B, S
  <2> QED BY <1>2, <1>3, <1>4, <1>5, <2>1, FoldType
<1>7. Eq(h)
  <2>1. ASSUME NEW s \in SUBSET S
        PROVE  h[s] = IF s = {} THEN pressed ELSE Taken(h[s \ {Max(s)}], queue[Max(s)])
    <3>1. CASE s = {}
      BY <1>5, <3>1 DEF FoldsTo
    <3>2. CASE s # {}
      <4>1. h[s] = F[<<h[s \ {Max(s)}], Max(s)>>]
        BY <1>3, <1>5, <3>2 DEF FoldsTo
      <4>2. h[s \ {Max(s)}] \in SUBSET B /\ Max(s) \in S
        BY <1>2, <1>6, <3>2
      <4> QED BY <1>4, <3>2, <4>1, <4>2
    <3> QED BY <3>1, <3>2
  <2>2. h = [s \in SUBSET S |-> h[s]]
    BY <1>5 DEF FoldsTo
  <2> HIDE DEF B
  <2> QED BY <2>1, <2>2 DEF Taken
<1>8. Eq(X)
  <2> HIDE DEF Eq
  <2> QED BY <1>7
<1>9. ASSUME NEW s \in SUBSET S
      PROVE  X[s] = IF s = {} THEN pressed ELSE Taken(X[s \ {Max(s)}], queue[Max(s)])
  <2> HIDE DEF X
  <2> QED BY <1>8 DEF Taken
<1> HIDE DEF X
<1>10. g[0] = pressed
  <2>1. 1 .. 0 = {} /\ g[0] = X[1 .. 0]
    OBVIOUS
  <2> QED BY <1>9, <2>1
<1>11. ASSUME NEW k \in 1 .. n PROVE g[k] = Taken(g[k - 1], queue[k])
  <2>1. /\ 1 .. k \in SUBSET S /\ 1 .. k # {} /\ 1 .. k \in SUBSET (0 .. n)
        /\ g[k] = X[1 .. k] /\ g[k - 1] = X[1 .. k - 1] /\ k \in 1 .. k
        /\ (1 .. k) \ {k} = 1 .. k - 1
    OBVIOUS
  <2>2. Max(1 .. k) \in 1 .. k /\ k <= Max(1 .. k)
    BY <2>1, GreatestOf
  <2>3. Max(1 .. k) = k
    BY <2>2
  <2> QED BY <1>9, <2>1, <2>3
<1>12. g[n] = X[DOMAIN queue]
  OBVIOUS
<1> HIDE DEF g
<1> QED BY <1>1, <1>10, <1>11, <1>12 DEF TakenChain

(* Nothing changes without an event, and the last one counts.              *)
LEMMA FoldAppends ==
  ASSUME NEW z, IsSeq(z), NEW pressed, NEW e
  PROVE  /\ Fold(<<>>, pressed) = pressed
         /\ Fold(Append(z, e), pressed) = Taken(Fold(z, pressed), e)
         /\ IsSeq(Append(z, e)) /\ IsSeq(<<>>)
<1>1. PICK T : z \in Seq(T)
  BY DEF IsSeq
<1> DEFINE n == Len(z)
           a == Append(z, e)
<1>2. z \in Seq(T \cup {e})
  <2>1. n \in Nat /\ z \in [1 .. n -> T]
    BY <1>1
  <2>2. z \in [1 .. n -> T \cup {e}]
    BY <2>1
  <2> QED BY <2>1, <2>2
<1>3. /\ n \in Nat /\ DOMAIN z = 1 .. n /\ DOMAIN a = 1 .. n + 1 /\ a \in Seq(T \cup {e})
      /\ a[n + 1] = e /\ \A k \in 1 .. n : a[k] = z[k]
  <2>1. e \in T \cup {e}
    OBVIOUS
  <2> QED BY <1>2, <2>1
<1>4. Fold(<<>>, pressed) = pressed
  <2>1. 0 \in Nat /\ DOMAIN <<>> = 1 .. 0
    OBVIOUS
  <2>2. PICK g : TakenChain(g, 0, <<>>, pressed) /\ Fold(<<>>, pressed) = g[0]
    BY <2>1, FoldOfEvents
  <2> QED BY <2>2 DEF TakenChain
<1> HIDE DEF n, a
<1>5. PICK g : TakenChain(g, n, z, pressed) /\ Fold(z, pressed) = g[n]
  BY <1>3, FoldOfEvents
<1>6. PICK f : TakenChain(f, n + 1, a, pressed) /\ Fold(a, pressed) = f[n + 1]
  <2>1. n + 1 \in Nat
    BY <1>3
  <2> QED BY <1>3, <2>1, FoldOfEvents
<1>7. f[n] = g[n]
  <2> DEFINE N == {k \in Nat : k <= n => f[k] = g[k]}
  <2>1. 0 \in N
    BY <1>5, <1>6 DEF TakenChain
  <2>2. ASSUME NEW k \in Nat, k \in N PROVE k + 1 \in N
    <3> SUFFICES ASSUME k + 1 <= n PROVE f[k + 1] = g[k + 1]
      OBVIOUS
    <3>1. k + 1 \in 1 .. n /\ k + 1 \in 1 .. n + 1 /\ (k + 1) - 1 = k /\ k <= n
      BY <1>3
    <3>2. f[k] = g[k] /\ a[k + 1] = z[k + 1]
      BY <1>3, <2>2, <3>1
    <3>3. f[k + 1] = Taken(f[k], a[k + 1]) /\ g[k + 1] = Taken(g[k], z[k + 1])
      BY <1>5, <1>6, <3>1 DEF TakenChain
    <3> QED BY <3>2, <3>3
  <2>3. n \in N
    <3> HIDE DEF N
    <3> QED BY <2>1, <2>2, <1>3, Induction
  <2> QED BY <2>3, <1>3
<1>8. f[n + 1] = Taken(f[n], a[n + 1])
  <2>1. n + 1 \in 1 .. n + 1 /\ (n + 1) - 1 = n
    BY <1>3
  <2> QED BY <2>1, <1>6 DEF TakenChain
<1>9. IsSeq(a) /\ IsSeq(<<>>)
  <2>1. <<>> \in Seq({})
    OBVIOUS
  <2> QED BY <1>3, <2>1 DEF IsSeq
<1> QED BY <1>3, <1>4, <1>5, <1>6, <1>7, <1>8, <1>9 DEF a

-----------------------------------------------------------------------------
(* One event.                                                              *)

LEMMA NavigationOnly ==
  ASSUME NEW q, Dev(q), NEW src, NEW b, NEW value
  PROVE  LET r == PushNav(q, src, b, value)
         IN  /\ DeviceFields \subseteq DOMAIN r /\ r.values = q.values /\ r.queue = q.queue
             /\ r.orphans = q.orphans /\ r.enabled = q.enabled
             /\ \A n \in DOMAIN r.repeat :
                  IF value = 0 THEN n \in DOMAIN q.repeat /\ (n = Nav[b] => n = None)
                  ELSE n \in DOMAIN q.repeat \/ (n = Nav[b] /\ n # None)
<1> DEFINE r == PushNav(q, src, b, value)
           n == Nav[b]
           less == Restrict(q.repeat, DOMAIN q.repeat \ {n})
           event == [nav |-> n, src |-> src, times |-> 0]
           timer == [src |-> src, times |-> 0]
           more == IF n \in Repeating /\ n \notin DOMAIN q.repeat
                   THEN Put(q.repeat, n, timer) ELSE q.repeat
<1>1. \/ n = None /\ r = q
      \/ n # None /\ value = 0 /\ r = [q EXCEPT !.repeat = less]
      \/ n # None /\ value # 0 /\ r = [q EXCEPT !.nav = Append(@, event), !.repeat = more]
  BY DEF PushNav
<1>2. \A m \in DOMAIN less : m \in DOMAIN q.repeat /\ m # n
  BY DEF Restrict
<1>3. \A m \in DOMAIN more : m \in DOMAIN q.repeat \/ m = n
  BY DEF Put
<1> HIDE DEF r, n, less, more, event, timer
<1>4. /\ DeviceFields \subseteq DOMAIN r /\ r.values = q.values /\ r.queue = q.queue
      /\ r.orphans = q.orphans /\ r.enabled = q.enabled
  BY <1>1 DEF Dev, DeviceFields
<1>5. /\ n = None => r.repeat = q.repeat
      /\ n # None /\ value = 0 => r.repeat = less
      /\ n # None /\ value # 0 => r.repeat = more
  BY <1>1 DEF Dev, DeviceFields
<1>6. ASSUME NEW m \in DOMAIN r.repeat
      PROVE  IF value = 0 THEN m \in DOMAIN q.repeat /\ (m = n => m = None)
             ELSE m \in DOMAIN q.repeat \/ (m = n /\ m # None)
  BY <1>2, <1>3, <1>5, <1>6
<1> QED BY <1>4, <1>6 DEF r, n

LEMMA DeviceOnly ==
  ASSUME NEW q, DeviceFields \subseteq DOMAIN q, NEW src, NEW b, NEW value
  PROVE  LET r == PushDevice(q, src, b, value)
             e == [button |-> b, value |-> value]
         IN  /\ DeviceFields \subseteq DOMAIN r /\ r.values = q.values
             /\ r.repeat = q.repeat /\ r.enabled = q.enabled
             /\ ~q.enabled => r = q
             /\ q.orphans \subseteq DOMAIN q.queue => r.orphans \subseteq DOMAIN r.queue
             /\ \A s \in DOMAIN q.queue \ q.orphans :
                  /\ s \in DOMAIN r.queue \ r.orphans
                  /\ q.enabled =>
                       r.queue[s] = IF s = src THEN Append(q.queue[s], e) ELSE q.queue[s]
<1> DEFINE r == PushDevice(q, src, b, value)
           e == [button |-> b, value |-> value]
           old == IF src \in DOMAIN q.queue THEN q.queue[src] ELSE <<>>
           orphan == src \notin DOMAIN q.queue \/ src \in q.orphans
           new == IF ~orphan THEN Append(old, e)
                  ELSE IF value = 0 THEN old ELSE SetToSeq(ToSet(old) \cup {e})
           queue == Put(q.queue, src, new)
           orphans == IF orphan THEN q.orphans \cup {src} ELSE q.orphans
<1>1. r = IF ~q.enabled THEN q ELSE [q EXCEPT !.queue = queue, !.orphans = orphans]
  BY DEF PushDevice
<1>2. /\ DOMAIN queue = DOMAIN q.queue \cup {src} /\ queue[src] = new
      /\ \A s \in DOMAIN q.queue : s # src => queue[s] = q.queue[s]
  <2> HIDE DEF new
  <2> QED BY DEF Put
<1>3. ASSUME NEW s \in DOMAIN q.queue \ q.orphans
      PROVE  s \notin orphans /\ (s = src => new = Append(q.queue[s], e))
  <2>1. CASE s = src
    BY <2>1
  <2>2. CASE s # src
    BY <2>2
  <2> QED BY <2>1, <2>2
<1> HIDE DEF r, e, old, orphan, new, queue, orphans
<1>4. /\ DeviceFields \subseteq DOMAIN r /\ r.values = q.values
      /\ r.repeat = q.repeat /\ r.enabled = q.enabled
      /\ q.enabled => r.queue = queue /\ r.orphans = orphans
      /\ ~q.enabled => r = q
  BY <1>1 DEF DeviceFields
<1>5. ASSUME NEW s \in DOMAIN q.queue \ q.orphans
      PROVE  /\ s \in DOMAIN r.queue \ r.orphans
             /\ q.enabled =>
                  r.queue[s] = IF s = src THEN Append(q.queue[s], e) ELSE q.queue[s]
  BY <1>2, <1>3, <1>4
<1>6. q.orphans \subseteq DOMAIN q.queue => r.orphans \subseteq DOMAIN r.queue
  <2>1. orphans \subseteq q.orphans \cup {src}
    BY DEF orphans
  <2> QED BY <1>2, <1>4, <2>1
<1> QED BY <1>4, <1>5, <1>6 DEF r, e

(* What pushMappedEvent does with an event it does not drop.               *)
Mapped(q, r, src, b, value) ==
  /\ b # None /\ Dev(r) /\ r.enabled = q.enabled
  /\ <<src, b>> \in DOMAIN r.values /\ r.values[<<src, b>>] = value
  /\ DOMAIN r.values = DOMAIN q.values \cup {<<src, b>>}
  /\ \A v \in DOMAIN q.values : v # <<src, b>> => r.values[v] = q.values[v]
  /\ \A n \in DOMAIN r.repeat :
       IF value = 0 THEN n \in DOMAIN q.repeat /\ (n = Nav[b] => n = None)
       ELSE n \in DOMAIN q.repeat \/ (n = Nav[b] /\ n # None)
  /\ q.orphans \subseteq DOMAIN q.queue => r.orphans \subseteq DOMAIN r.queue
  /\ \A s \in DOMAIN q.queue \ q.orphans :
       /\ s \in DOMAIN r.queue \ r.orphans
       /\ r.queue[s] = IF s = src /\ q.enabled
                       THEN Append(q.queue[s], [button |-> b, value |-> value]) ELSE q.queue[s]

Dropped(q, src, b, value) ==
  b = None \/ (<<src, b>> \in DOMAIN q.values /\ q.values[<<src, b>>] = value)

LEMMA MappedOnly ==
  ASSUME NEW q, Dev(q), NEW src, NEW b, NEW value
  PROVE  \/ PushMapped(q, src, b, value) = q /\ Dropped(q, src, b, value)
         \/ Mapped(q, PushMapped(q, src, b, value), src, b, value)
<1> DEFINE r == PushMapped(q, src, b, value)
           e == [button |-> b, value |-> value]
           u == <<src, b>>
           values == Put(q.values, u, value)
           kept == [q EXCEPT !.values = values]
           gone == PushNav(kept, src, b, value)
<1>1. \/ r = q /\ Dropped(q, src, b, value)
      \/ b # None /\ r = PushDevice(gone, src, b, value)
  BY DEF PushMapped, ValueChanged, UniqueButton, Dropped
<1>2. /\ DOMAIN values = DOMAIN q.values \cup {u} /\ values[u] = value
      /\ \A v \in DOMAIN q.values : v # u => values[v] = q.values[v]
  BY DEF Put
<1> HIDE DEF values
<1>3. /\ Dev(kept) /\ kept.values = values /\ kept.repeat = q.repeat /\ kept.queue = q.queue
      /\ kept.orphans = q.orphans /\ kept.enabled = q.enabled
  <2>1. DeviceFields \subseteq DOMAIN kept /\ kept.values = values
    BY DEF Dev, DeviceFields
  <2>2. \A v \in DOMAIN values : v = <<v[1], v[2]>>
    BY <1>2 DEF Dev
  <2>3. /\ kept.repeat = q.repeat /\ kept.queue = q.queue
        /\ kept.orphans = q.orphans /\ kept.enabled = q.enabled
    BY DEF Dev, DeviceFields
  <2> QED BY <2>1, <2>2, <2>3 DEF Dev
<1> HIDE DEF kept, u
<1>4. /\ DeviceFields \subseteq DOMAIN gone /\ gone.values = values /\ gone.queue = q.queue
      /\ gone.orphans = q.orphans /\ gone.enabled = q.enabled
      /\ \A n \in DOMAIN gone.repeat :
           IF value = 0 THEN n \in DOMAIN q.repeat /\ (n = Nav[b] => n = None)
           ELSE n \in DOMAIN q.repeat \/ (n = Nav[b] /\ n # None)
  BY <1>3, NavigationOnly
<1> HIDE DEF gone
<1>5. CASE b # None /\ r = PushDevice(gone, src, b, value)
  <2>1. /\ DeviceFields \subseteq DOMAIN r /\ r.values = values
        /\ r.repeat = gone.repeat /\ r.enabled = q.enabled
        /\ ~q.enabled => r = gone
        /\ q.orphans \subseteq DOMAIN q.queue => r.orphans \subseteq DOMAIN r.queue
        /\ \A s \in DOMAIN q.queue \ q.orphans :
             /\ s \in DOMAIN r.queue \ r.orphans
             /\ q.enabled => r.queue[s] = IF s = src THEN Append(q.queue[s], e) ELSE q.queue[s]
    BY <1>4, <1>5, DeviceOnly
  <2> HIDE DEF r, e
  <2>2. Dev(r)
    BY <2>1, <1>3 DEF Dev
  <2>3. ASSUME NEW s \in DOMAIN q.queue \ q.orphans
        PROVE  /\ s \in DOMAIN r.queue \ r.orphans
               /\ r.queue[s] = IF s = src /\ q.enabled THEN Append(q.queue[s], e) ELSE q.queue[s]
    BY <2>1, <1>4
  <2>4. /\ b # None /\ r.enabled = q.enabled
        /\ u \in DOMAIN r.values /\ r.values[u] = value
        /\ DOMAIN r.values = DOMAIN q.values \cup {u}
        /\ \A v \in DOMAIN q.values : v # u => r.values[v] = q.values[v]
    BY <1>2, <1>5, <2>1
  <2>5. \A n \in DOMAIN r.repeat :
          IF value = 0 THEN n \in DOMAIN q.repeat /\ (n = Nav[b] => n = None)
          ELSE n \in DOMAIN q.repeat \/ (n = Nav[b] /\ n # None)
    BY <1>4, <2>1
  <2>6. \A s \in DOMAIN q.queue \ q.orphans :
          /\ s \in DOMAIN r.queue \ r.orphans
          /\ r.queue[s] = IF s = src /\ q.enabled
                          THEN Append(q.queue[s], [button |-> b, value |-> value])
                          ELSE q.queue[s]
    BY <2>3 DEF e
  <2> HIDE DEF e
  <2>7. u = <<src, b>>
    BY DEF u
  <2>8. /\ b # None /\ r.enabled = q.enabled
        /\ q.orphans \subseteq DOMAIN q.queue => r.orphans \subseteq DOMAIN r.queue
        /\ <<src, b>> \in DOMAIN r.values /\ r.values[<<src, b>>] = value
        /\ DOMAIN r.values = DOMAIN q.values \cup {<<src, b>>}
        /\ \A v \in DOMAIN q.values : v # <<src, b>> => r.values[v] = q.values[v]
    BY <2>1, <2>4, <2>7
  <2>9. Mapped(q, r, src, b, value)
    BY <2>2, <2>5, <2>6, <2>8 DEF Mapped
  <2> QED BY <2>9 DEF r
<1> QED BY <1>1, <1>5 DEF r

(* A timer that is left is of a button that is down.                       *)
LEMMA TimersStay ==
  ASSUME NEW q, Dev(q), Timed(q), NEW src, NEW b, NEW value
  PROVE  Timed(PushMapped(q, src, b, value))
<1> DEFINE r == PushMapped(q, src, b, value)
           u == <<src, b>>
<1>1. CASE r = q
  BY <1>1
<1>2. CASE r # q
  <2> HIDE DEF r
  <2>1. Mapped(q, r, src, b, value)
    BY <1>2, MappedOnly DEF r
  <2>2. ASSUME NEW n \in DOMAIN r.repeat, n \in DOMAIN q.repeat
        PROVE  n # None /\ \E s, x : Down(r, s, x) /\ Nav[x] = n
    <3>1. PICK s, x : Down(q, s, x) /\ Nav[x] = n
      BY <2>2 DEF Timed
    <3>2. n # None
      BY <2>2 DEF Timed
    <3>3. CASE <<s, x>> = u
      <4>1. x = b /\ value # 0
        BY <3>1, <3>2, <3>3, <2>1 DEF Down, Mapped
      <4> QED BY <4>1, <3>1, <3>2, <3>3, <2>1 DEF Down, Mapped
    <3>4. CASE <<s, x>> # u
      BY <3>1, <3>2, <3>4, <2>1 DEF Down, Mapped
    <3> QED BY <3>3, <3>4
  <2>3. ASSUME NEW n \in DOMAIN r.repeat, n \notin DOMAIN q.repeat
        PROVE  n # None /\ \E s, x : Down(r, s, x) /\ Nav[x] = n
    <3>1. value # 0 /\ n = Nav[b] /\ n # None
      BY <2>1, <2>3 DEF Mapped
    <3> QED BY <3>1, <2>1 DEF Down, Mapped
  <2>4. Timed(r)
    BY <2>2, <2>3 DEF Timed
  <2> QED BY <2>4 DEF r
<1> QED BY <1>1, <1>2

(* What is down after an event was, or is the button pressed.              *)
LEMMA DownAfter ==
  ASSUME NEW q, Dev(q), NEW src, NEW b, NEW value, NEW s, NEW x,
         Down(PushMapped(q, src, b, value), s, x)
  PROVE  IF s = src /\ x = b /\ b # None THEN value # 0 ELSE Down(q, s, x)
<1> DEFINE r == PushMapped(q, src, b, value)
<1> HIDE DEF r
<1>1. CASE r = q /\ Dropped(q, src, b, value)
  BY <1>1 DEF r, Down, Dropped
<1>2. CASE Mapped(q, r, src, b, value)
  <2>1. <<s, x>> \in DOMAIN r.values /\ r.values[<<s, x>>] # 0
    BY DEF r, Down
  <2> QED BY <1>2, <2>1 DEF Mapped, Down
<1> QED BY <1>1, <1>2, MappedOnly DEF r

LEMMA HeardNothing ==
  ASSUME NEW q, Dev(q)
  PROVE  Heard(q, q)
<1>1. Told(q, q)
  BY DEF Told, Moved
<1> QED BY <1>1 DEF Heard

(* One event is heard as it should be.                                     *)
LEMMA HeardOnce ==
  ASSUME NEW q, Dev(q), NEW src, NEW b, NEW value
  PROVE  Heard(q, PushMapped(q, src, b, value))
<1> DEFINE r == PushMapped(q, src, b, value)
           e == [button |-> b, value |-> value]
<1>0. Timed(q) => Timed(r)
  BY TimersStay
<1> HIDE DEF r
<1>1. CASE r = q
  BY <1>1, HeardNothing DEF r
<1>2. CASE Mapped(q, r, src, b, value)
  <2>1. /\ Dev(r) /\ r.enabled = q.enabled /\ DOMAIN q.values \subseteq DOMAIN r.values
        /\ q.orphans \subseteq DOMAIN q.queue => r.orphans \subseteq DOMAIN r.queue
    BY <1>2 DEF Mapped
  <2>2. ASSUME NEW s, Queued(q, s)
        PROVE  /\ Queued(r, s) /\ (~q.enabled => r.queue[s] = q.queue[s])
               /\ r.queue[s] = IF s = src /\ q.enabled THEN Append(q.queue[s], e) ELSE q.queue[s]
    <3>1. /\ s \in DOMAIN r.queue /\ s \notin r.orphans
          /\ r.queue[s] = IF s = src /\ q.enabled THEN Append(q.queue[s], e) ELSE q.queue[s]
      BY <1>2, <2>2 DEF Mapped, Queued
    <3> HIDE DEF e
    <3>2. IsSeq(q.queue[s]) /\ IsSeq(Append(q.queue[s], e))
      BY <2>2, FoldAppends DEF Queued
    <3> QED BY <3>1, <3>2 DEF Queued
  <2>3. ASSUME q.enabled, NEW s, NEW P, NEW x, Queued(q, s), Right(q, s, P, x) \/ Moved(q, r, s, x),
               x \in Fold(r.queue[s], P)
        PROVE  Down(r, s, x)
    <3>1. CASE s = src /\ x = b
      <4>1. r.queue[s] = Append(q.queue[s], e) /\ IsSeq(q.queue[s])
        BY <2>2, <2>3, <3>1 DEF Queued
      <4>2. Fold(r.queue[s], P) = Taken(Fold(q.queue[s], P), e)
        BY <4>1, FoldAppends
      <4>3. value # 0
        BY <2>3, <3>1, <4>2 DEF Taken
      <4> QED BY <1>2, <3>1, <4>3 DEF Mapped, Down
    <3>2. CASE ~ (s = src /\ x = b)
      <4>1. <<s, x>> # <<src, b>>
        BY <3>2
      <4>2. ~ Moved(q, r, s, x)
        BY <1>2, <4>1 DEF Mapped, Moved
      <4>3. x \in Fold(q.queue[s], P)
        <5>1. CASE s = src
          <6>1. r.queue[s] = Append(q.queue[s], e) /\ IsSeq(q.queue[s])
            BY <2>2, <2>3, <5>1 DEF Queued
          <6>2. Fold(r.queue[s], P) = Taken(Fold(q.queue[s], P), e)
            BY <6>1, FoldAppends
          <6>3. x # b
            BY <3>2, <5>1
          <6> QED BY <2>3, <6>2, <6>3 DEF Taken
        <5>2. CASE s # src
          BY <2>2, <2>3, <5>2
        <5> QED BY <5>1, <5>2
      <4>4. Down(q, s, x)
        BY <2>3, <4>2, <4>3 DEF Right
      <4> QED BY <1>2, <4>1, <4>4 DEF Mapped, Down
    <3> QED BY <3>1, <3>2
  <2>4. \A s : Queued(q, s) => Queued(r, s) /\ (~q.enabled => r.queue[s] = q.queue[s])
    BY <2>2
  <2>5. q.enabled => Told(q, r)
    BY <2>3 DEF Right, Told
  <2>6. Timed(q) => Timed(r)
    BY <1>0 DEF r
  <2>7. Heard(q, r)
    BY <2>1, <2>4, <2>5, <2>6 DEF Heard
  <2> QED BY <2>7 DEF r
<1> QED BY <1>1, <1>2, MappedOnly DEF r

LEMMA HeardBoth ==
  ASSUME NEW q, NEW r, NEW t, Heard(q, r), Heard(r, t)
  PROVE  Heard(q, t)
<1>1. /\ Dev(t) /\ t.enabled = q.enabled /\ (Timed(q) => Timed(t))
      /\ DOMAIN q.values \subseteq DOMAIN t.values
      /\ q.orphans \subseteq DOMAIN q.queue => t.orphans \subseteq DOMAIN t.queue
  BY DEF Heard
<1>2. \A s : Queued(q, s) => Queued(t, s) /\ (~q.enabled => t.queue[s] = q.queue[s])
  BY DEF Heard
<1>3. ASSUME q.enabled, NEW s, NEW P, NEW x, Queued(q, s), Right(q, s, P, x) \/ Moved(q, t, s, x)
      PROVE  Right(t, s, P, x)
  <2>1. Queued(r, s) /\ r.enabled /\ DOMAIN q.values \subseteq DOMAIN r.values
    BY <1>3 DEF Heard
  <2>2. Moved(q, t, s, x) => Moved(q, r, s, x) \/ Moved(r, t, s, x)
    BY <2>1 DEF Moved
  <2>3. Right(r, s, P, x) \/ Moved(r, t, s, x)
    BY <1>3, <2>2 DEF Heard, Told
  <2> QED BY <2>1, <2>3 DEF Heard, Told
<1>4. q.enabled => Told(q, t)
  BY <1>3 DEF Told
<1> QED BY <1>1, <1>2, <1>4 DEF Heard

-----------------------------------------------------------------------------
(* A control: everything it is mapped to, one after the other.             *)

Pushed(q, src, m, at) == PushMapped(q, src, m.button, m.of[at])

MapPushed(h, q, src, map, at, S) ==
  h = [s \in SUBSET S |->
         IF s = {} THEN q ELSE Pushed(h[s \ {Max(s)}], src, map[Max(s)], at)]

LEMMA MapPushedExists ==
  ASSUME NEW S, IsFiniteSet(S), \A s \in SUBSET S : s # {} => Max(s) \in s,
         NEW q, NEW src, NEW map, NEW at
  PROVE  \E h : MapPushed(h, q, src, map, at, S)
<1> DEFINE Next1(h) == [s \in SUBSET S |->
                          IF s = {} THEN q ELSE Pushed(h[s \ {Max(s)}], src, map[Max(s)], at)]
           Good(h, m) == /\ h = [s \in SUBSET S |-> h[s]]
                         /\ \A s \in SUBSET S : Cardinality(s) < m => h[s] = Next1(h)[s]
           Failing == {m \in Nat : ~ \E h : Good(h, m)}
<1>1. ASSUME NEW m \in Nat, NEW h, Good(h, m) PROVE Good(Next1(h), m + 1)
  <2> DEFINE g == Next1(h)
  <2>1. ASSUME NEW s \in SUBSET S, Cardinality(s) < m + 1 PROVE g[s] = Next1(g)[s]
    <3>1. CASE s = {}
      BY <3>1
    <3>2. CASE s # {}
      <4>1. Max(s) \in s
        BY <3>2
      <4>2. s \ {Max(s)} \in SUBSET S /\ Cardinality(s \ {Max(s)}) < m
        <5>1. IsFiniteSet(s) /\ Cardinality(s) \in Nat
          BY FS_Subset, FS_CardinalityType
        <5>2. Cardinality(s \ {Max(s)}) = Cardinality(s) - 1
          BY <5>1, <4>1, FS_RemoveElement
        <5> QED BY <5>1, <5>2, <2>1
      <4>3. h[s \ {Max(s)}] = g[s \ {Max(s)}]
        BY <4>2, <1>1
      <4> QED BY <4>3, <3>2
    <3> QED BY <3>1, <3>2
  <2> HIDE DEF Next1
  <2>2. g = [s \in SUBSET S |-> g[s]]
    BY DEF Next1
  <2> QED BY <2>1, <2>2
<1>2. Failing = {}
  <2> SUFFICES ASSUME Failing # {} PROVE FALSE
    OBVIOUS
  <2> HIDE DEF Next1
  <2>1. PICK m \in Failing : \A k \in Failing : m <= k
    BY LeastNumber, Failing \in SUBSET Nat
  <2>2. m # 0
    <3>1. Good([s \in SUBSET S |-> 0], 0)
      <4>1. ASSUME NEW s \in SUBSET S PROVE ~ (Cardinality(s) < 0)
        BY FS_Subset, FS_CardinalityType
      <4> QED BY <4>1
    <3> HIDE DEF Good
    <3>2. CASE m = 0
      <4>1. ~ \E h : Good(h, 0)
        BY <2>1, <3>2
      <4> QED BY <3>1, <4>1
    <3> QED BY <3>2
  <2>3. m - 1 \in Nat /\ (m - 1) + 1 = m /\ ~ (m <= m - 1)
    BY <2>1, <2>2
  <2> HIDE DEF Good
  <2>4. PICK h : Good(h, m - 1)
    BY <2>1, <2>3
  <2>5. Good(Next1(h), m)
    BY <2>3, <2>4, <1>1
  <2> QED BY <2>1, <2>5
<1>3. PICK h : Good(h, Cardinality(S) + 1)
  <2>1. Cardinality(S) + 1 \in Nat
    BY FS_CardinalityType
  <2> QED BY <2>1, <1>2
<1>4. ASSUME NEW s \in SUBSET S PROVE h[s] = Next1(h)[s]
  <2>1. Cardinality(s) < Cardinality(S) + 1
    BY FS_Subset, FS_CardinalityType
  <2> QED BY <2>1, <1>3
<1>5. h = Next1(h)
  BY <1>3, <1>4
<1> QED BY <1>5 DEF MapPushed

(* g[k] is Controllers after the first k entries of the mapping.           *)
MapChain(g, n, q, src, map, at) ==
  /\ g[0] = q
  /\ \A k \in 1 .. n : g[k] = Pushed(g[k - 1], src, map[k], at)

LEMMA FoldOfMap ==
  ASSUME NEW q, NEW src, NEW control, NEW at, NEW n \in Nat,
         DOMAIN Wired[src].map[control] = 1 .. n
  PROVE  \E g : /\ MapChain(g, n, q, src, Wired[src].map[control], at)
                /\ PushHW(q, src, control, at) = g[n]
<1> DEFINE map == Wired[src].map[control]
           Eq(h) == h = [s \in SUBSET (DOMAIN map) |->
                           IF s = {} THEN q
                           ELSE PushMapped(h[s \ {Max(s)}], src, map[Max(s)].button,
                                           map[Max(s)].of[at])]
           X == CHOOSE h : Eq(h)
           g == [k \in 0 .. n |-> X[1 .. k]]
<1>1. PushHW(q, src, control, at) = X[DOMAIN map]
  BY DEF PushHW, FoldLeft, MapThenFoldSet
<1> HIDE DEF map
<1>0. DOMAIN map = 1 .. n
  BY DEF map
<1>2. Eq(X)
  <2> DEFINE S == 1 .. n
  <2>0. IsFiniteSet(S) /\ \A s \in SUBSET S : s # {} => Max(s) \in s
    <3>1. \A s \in SUBSET S : s \in SUBSET (0 .. n)
      OBVIOUS
    <3> QED BY <3>1, GreatestOf, Intervals, 1 \in Int, n \in Int
  <2>1. PICK h : MapPushed(h, q, src, map, at, S)
    <3> HIDE DEF S
    <3> QED BY <2>0, MapPushedExists
  <2>2. Eq(h)
    BY <2>1, <1>0 DEF MapPushed, Pushed
  <2> HIDE DEF Eq
  <2> QED BY <2>2
<1>3. ASSUME NEW s \in SUBSET (1 .. n)
      PROVE  X[s] = IF s = {} THEN q ELSE Pushed(X[s \ {Max(s)}], src, map[Max(s)], at)
  <2> HIDE DEF X
  <2> QED BY <1>2, <1>0 DEF Pushed
<1> HIDE DEF X
<1>4. g[0] = q
  <2>1. 1 .. 0 = {} /\ g[0] = X[1 .. 0]
    OBVIOUS
  <2> QED BY <1>3, <2>1
<1>5. ASSUME NEW k \in 1 .. n PROVE g[k] = Pushed(g[k - 1], src, map[k], at)
  <2>0. k \in 0 .. n /\ k - 1 \in 0 .. n /\ g[k] = X[1 .. k] /\ g[k - 1] = X[1 .. k - 1]
    OBVIOUS
  <2> HIDE DEF g, Eq
  <2>a. /\ 1 .. k \in SUBSET (1 .. n) /\ 1 .. k # {} /\ 1 .. k \in SUBSET (0 .. n)
        /\ k \in 1 .. k
    OBVIOUS
  <2>b. (1 .. k) \ {k} = 1 .. k - 1
    OBVIOUS
  <2>1. /\ 1 .. k \in SUBSET (1 .. n) /\ 1 .. k # {} /\ 1 .. k \in SUBSET (0 .. n)
        /\ g[k] = X[1 .. k] /\ g[k - 1] = X[1 .. k - 1] /\ k \in 1 .. k
        /\ (1 .. k) \ {k} = 1 .. k - 1
    BY <2>0, <2>a, <2>b, Zenon
  <2>2. Max(1 .. k) \in 1 .. k /\ k <= Max(1 .. k)
    BY <2>1, GreatestOf
  <2>3. Max(1 .. k) = k
    BY <2>2
  <2>4. X[1 .. k] = Pushed(X[(1 .. k) \ {k}], src, map[k], at)
    BY <1>3, <2>1, <2>3
  <2> QED BY <2>1, <2>4
<1>6. g[n] = X[DOMAIN map]
  BY <1>0
<1> HIDE DEF g
<1>7. MapChain(g, n, q, src, map, at)
  BY <1>4, <1>5 DEF MapChain
<1> QED BY <1>1, <1>6, <1>7 DEF map

(* A button that is down after the first k entries was and is none of      *)
(* them, or is one of them that the position of the control presses.       *)
Maps(map, k, b) == \E i \in 1 .. k : map[i].button = b
Pressing(map, k, b, at) == \E i \in 1 .. k : map[i].button = b /\ map[i].of[at] # 0

PushedSo(q, r, src, map, k, at) ==
  /\ Heard(q, r)
  /\ \A s, b : Down(r, s, b) =>
       \/ Down(q, s, b) /\ ~ (s = src /\ b # None /\ Maps(map, k, b))
       \/ s = src /\ b # None /\ Pressing(map, k, b, at)

LEMMA OneMore ==
  ASSUME NEW k \in Nat, NEW map, NEW b, NEW at
  PROVE  /\ Maps(map, k + 1, b) <=> Maps(map, k, b) \/ map[k + 1].button = b
         /\ Pressing(map, k, b, at) => Pressing(map, k + 1, b, at)
         /\ map[k + 1].button = b /\ map[k + 1].of[at] # 0 => Pressing(map, k + 1, b, at)
<1>1. \A i : i \in 1 .. k + 1 <=> i \in 1 .. k \/ i = k + 1
  OBVIOUS
<1> QED BY <1>1 DEF Maps, Pressing

LEMMA OneMorePushed ==
  ASSUME NEW q, NEW r, NEW src, NEW map, NEW k \in Nat, NEW at,
         PushedSo(q, r, src, map, k, at)
  PROVE  PushedSo(q, Pushed(r, src, map[k + 1], at), src, map, k + 1, at)
<1> DEFINE m == map[k + 1]
           t == Pushed(r, src, m, at)
<1>1. Dev(r)
  BY DEF PushedSo, Heard
<1>2. Heard(q, t)
  <2>1. Heard(r, t)
    BY <1>1, HeardOnce DEF Pushed
  <2> HIDE DEF t
  <2> QED BY <2>1, HeardBoth DEF PushedSo
<1>3. ASSUME NEW s, NEW b, Down(t, s, b)
      PROVE  IF s = src /\ b = m.button /\ m.button # None THEN m.of[at] # 0 ELSE Down(r, s, b)
  BY <1>1, <1>3, DownAfter DEF Pushed
<1> HIDE DEF t
<1>4. ASSUME NEW s, NEW b, Down(t, s, b)
      PROVE  \/ Down(q, s, b) /\ ~ (s = src /\ b # None /\ Maps(map, k + 1, b))
             \/ s = src /\ b # None /\ Pressing(map, k + 1, b, at)
  <2>1. CASE s = src /\ b = m.button /\ m.button # None
    BY <1>3, <1>4, <2>1, OneMore
  <2>2. CASE ~ (s = src /\ b = m.button /\ m.button # None)
    <3>1. Down(r, s, b)
      BY <1>3, <1>4, <2>2
    <3>2. \/ Down(q, s, b) /\ ~ (s = src /\ b # None /\ Maps(map, k, b))
          \/ s = src /\ b # None /\ Pressing(map, k, b, at)
      BY <3>1 DEF PushedSo
    <3> QED BY <2>2, <3>2, OneMore
  <2> QED BY <2>1, <2>2
<1>5. PushedSo(q, t, src, map, k + 1, at)
  BY <1>2, <1>4 DEF PushedSo
<1> QED BY <1>5 DEF t

(* What pushHWEvent does with a control.                                   *)
LEMMA ControlPushed ==
  ASSUME NEW q, Dev(q), NEW src, NEW control, NEW at, NEW n \in Nat,
         DOMAIN Wired[src].map[control] = 1 .. n
  PROVE  PushedSo(q, PushHW(q, src, control, at), src, Wired[src].map[control], n, at)
<1> DEFINE map == Wired[src].map[control]
<1>1. PICK g : MapChain(g, n, q, src, map, at) /\ PushHW(q, src, control, at) = g[n]
  BY FoldOfMap
<1> HIDE DEF map
<1> DEFINE N == {k \in Nat : k <= n => PushedSo(q, g[k], src, map, k, at)}
<1>2. 0 \in N
  <2>1. ~ Maps(map, 0, 0) /\ \A b : ~ Maps(map, 0, b)
    BY DEF Maps
  <2>2. Heard(q, q)
    BY HeardNothing
  <2>3. g[0] = q
    BY <1>1 DEF MapChain
  <2> QED BY <2>1, <2>2, <2>3 DEF PushedSo
<1>3. ASSUME NEW k \in Nat, k \in N PROVE k + 1 \in N
  <2> SUFFICES ASSUME k + 1 <= n PROVE PushedSo(q, g[k + 1], src, map, k + 1, at)
    OBVIOUS
  <2>1. k + 1 \in 1 .. n /\ (k + 1) - 1 = k /\ k <= n
    OBVIOUS
  <2>2. PushedSo(q, g[k], src, map, k, at)
    BY <1>3, <2>1
  <2>3. g[k + 1] = Pushed(g[k], src, map[k + 1], at)
    BY <1>1, <2>1 DEF MapChain
  <2> QED BY <2>2, <2>3, OneMorePushed
<1>4. n \in N
  <2> HIDE DEF N
  <2> QED BY <1>2, <1>3, Induction
<1> QED BY <1>1, <1>4 DEF map

(* MIDI: no message waits, or one.                                         *)
AllMidi(q, messages) ==
  FoldLeft(LAMBDA r, m : PushHW(r, m.wire[1], m.wire[2], m.at), q, messages)

LEMMA MidiFold ==
  ASSUME NEW q, NEW m, NEW z, z = <<>> \/ z = <<m>>
  PROVE  AllMidi(q, z) = IF z = <<>> THEN q ELSE PushHW(q, m.wire[1], m.wire[2], m.at)
<1> DEFINE r == PushHW(q, m.wire[1], m.wire[2], m.at)
           Eq(h) == h = [s \in SUBSET (DOMAIN z) |->
                           IF s = {} THEN q
                           ELSE PushHW(h[s \ {Max(s)}], z[Max(s)].wire[1], z[Max(s)].wire[2],
                                       z[Max(s)].at)]
           X == CHOOSE h : Eq(h)
           h == [s \in SUBSET (DOMAIN z) |-> IF s = {} THEN q ELSE r]
<1>1. AllMidi(q, z) = X[DOMAIN z]
  BY DEF AllMidi, FoldLeft, MapThenFoldSet
<1>2. /\ z = <<>> => DOMAIN z = {}
      /\ z # <<>> => DOMAIN z = {1} /\ z[1] = m
  OBVIOUS
<1>3. Max({1}) = 1
  <2>1. {1} \in SUBSET (0 .. 1) /\ 1 \in Nat
    OBVIOUS
  <2> QED BY <2>1, GreatestOf
<1>4. Eq(h)
  <2>1. ASSUME NEW s \in SUBSET (DOMAIN z), s # {}
        PROVE  /\ s \ {Max(s)} \in SUBSET (DOMAIN z) /\ s \ {Max(s)} = {}
               /\ z[Max(s)] = m
    <3>1. s = {1}
      BY <1>2, <2>1
    <3> QED BY <1>2, <1>3, <2>1, <3>1
  <2>2. {} \in SUBSET (DOMAIN z) /\ h[{}] = q
    OBVIOUS
  <2>3. ASSUME NEW s \in SUBSET (DOMAIN z)
        PROVE  h[s] = IF s = {} THEN q
                      ELSE PushHW(h[s \ {Max(s)}], z[Max(s)].wire[1], z[Max(s)].wire[2],
                                  z[Max(s)].at)
    BY <2>1, <2>2
  <2>4. h = [s \in SUBSET (DOMAIN z) |-> h[s]]
    OBVIOUS
  <2> HIDE DEF h
  <2> QED BY <2>3, <2>4
<1>5. Eq(X)
  <2> HIDE DEF Eq
  <2> QED BY <1>4
<1>6. ASSUME NEW s \in SUBSET (DOMAIN z)
      PROVE  X[s] = IF s = {} THEN q
                    ELSE PushHW(X[s \ {Max(s)}], z[Max(s)].wire[1], z[Max(s)].wire[2], z[Max(s)].at)
  <2> HIDE DEF X
  <2> QED BY <1>5
<1> HIDE DEF X, Eq, h
<1>7. CASE z = <<>>
  BY <1>1, <1>2, <1>6, <1>7
<1>8. CASE z # <<>>
  <2>1. {} \in SUBSET (DOMAIN z) /\ {1} \in SUBSET (DOMAIN z) /\ {1} # {} /\ {1} \ {1} = {}
    BY <1>2, <1>8
  <2>2. X[{}] = q
    BY <1>6, <2>1
  <2>3. X[{1}] = r
    BY <1>2, <1>3, <1>6, <1>8, <2>1, <2>2
  <2> QED BY <1>1, <1>2, <1>8, <2>3
<1> QED BY <1>7, <1>8

-----------------------------------------------------------------------------
(* Instruments.                                                            *)

LEMMA UntoldMeans ==
  ASSUME NEW q, NEW r, Dev(r), q.values = c.values, NEW s \in DOMAIN pads, NEW x
  PROVE  /\ s \in DOMAIN Untold(r)
         /\ x \in Untold(r)[s] <=>
              IF r.enabled THEN x \in unseen[s] /\ ~ Moved(q, r, s, x)
              ELSE x \in unseen[s] \/ Moved(q, r, s, x)
<1> DEFINE moved == {u \in DOMAIN r.values :
                       u[1] = s /\ (u \notin DOMAIN c.values \/ r.values[u] # c.values[u])}
<1>1. x \in {u[2] : u \in moved} <=> Moved(q, r, s, x)
  <2>1. ASSUME Moved(q, r, s, x) PROVE x \in {u[2] : u \in moved}
    <3>1. <<s, x>> \in moved /\ <<s, x>>[2] = x
      BY <2>1 DEF Moved
    <3> HIDE DEF moved
    <3> QED BY <3>1
  <2>2. ASSUME NEW u \in moved, x = u[2] PROVE Moved(q, r, s, x)
    <3>1. u = <<s, x>>
      BY <2>2 DEF Dev
    <3> QED BY <2>2, <3>1 DEF Moved
  <2> QED BY <2>1, <2>2
<1>2. /\ s \in DOMAIN Untold(r)
      /\ Untold(r)[s] = IF r.enabled THEN unseen[s] \ {u[2] : u \in moved}
                        ELSE unseen[s] \cup {u[2] : u \in moved}
  BY DEF Untold
<1> HIDE DEF moved
<1>3. CASE r.enabled
  BY <1>1, <1>2, <1>3
<1>4. CASE ~ r.enabled
  BY <1>1, <1>2, <1>4
<1> QED BY <1>3, <1>4

(* Who took the right buttons for pressed takes the right ones after any   *)
(* events.                                                                 *)
AllRight(q, P, hidden) ==
  \A s \in DOMAIN pads :
    s # KeySource(Generic) /\ Queued(q, s) /\ \A x : x \notin hidden[s] => Right(q, s, P[s], x)

LEMMA InstrumentsStay ==
  ASSUME NEW q, NEW r, Heard(q, r), q.values = c.values, NEW P, AllRight(q, P, unseen)
  PROVE  AllRight(r, P, Untold(r))
<1> SUFFICES ASSUME NEW s \in DOMAIN pads
             PROVE  /\ s # KeySource(Generic) /\ Queued(r, s)
                    /\ \A x : x \notin Untold(r)[s] => Right(r, s, P[s], x)
  BY DEF AllRight
<1>1. /\ s # KeySource(Generic) /\ Queued(q, s) /\ Queued(r, s) /\ Dev(r)
      /\ r.enabled = q.enabled /\ DOMAIN q.values \subseteq DOMAIN r.values
  BY DEF AllRight, Heard
<1>2. ASSUME NEW x, x \notin Untold(r)[s] PROVE Right(r, s, P[s], x)
  <2>1. CASE r.enabled
    <3>1. x \notin unseen[s] \/ Moved(q, r, s, x)
      BY <1>1, <1>2, <2>1, UntoldMeans
    <3>2. Right(q, s, P[s], x) \/ Moved(q, r, s, x)
      BY <3>1 DEF AllRight
    <3>3. Told(q, r)
      BY <1>1, <2>1 DEF Heard
    <3> QED BY <1>1, <3>2, <3>3 DEF Told
  <2>2. CASE ~ r.enabled
    <3>1. x \notin unseen[s] /\ ~ Moved(q, r, s, x)
      BY <1>1, <1>2, <2>2, UntoldMeans
    <3>2. Right(q, s, P[s], x)
      BY <3>1 DEF AllRight
    <3>3. r.queue[s] = q.queue[s]
      BY <1>1, <2>2 DEF Heard
    <3>4. Down(q, s, x) => Down(r, s, x)
      BY <1>1, <3>1 DEF Moved, Down
    <3> QED BY <3>2, <3>3, <3>4 DEF Right
  <2> QED BY <2>1, <2>2
<1> QED BY <1>1, <1>2

-----------------------------------------------------------------------------
(* The inductive invariant.                                                *)

Entries(w) == Wired[w[1]].map[w[2]]
Waiting(w) == \E i \in DOMAIN midi : midi[i].wire = w

(* A button that is down is pressed on the keyboard, by a key that is held *)
(* and means it; or a control of its device is off its rest, or has moved  *)
(* and nobody was told yet.                                                *)
KeyDown(s, b) ==
  /\ Number(b) \in kb.pressed
  /\ \E k \in held.keys : Mapping(k, kb).src = s /\ Mapping(k, kb).button = b
WireDown(s, b) ==
  \E w \in Wires : /\ w[1] = s
                   /\ \E i \in DOMAIN Entries(w) :
                        /\ Entries(w)[i].button = b
                        /\ Entries(w)[i].of[position[w]] # 0 \/ Waiting(w)

PressedByHand == \A s, b : Down(c, s, b) => b # None /\ (KeyDown(s, b) \/ WireDown(s, b))

Drivers ==
  /\ song \in DOMAIN Songs /\ DOMAIN position = Wires
  /\ \/ midi = <<>>
     \/ \E w \in Wires : Wired[w[1]].polled /\ midi = <<[wire |-> w, at |-> position[w]]>>
  /\ {"keys", "ctrl"} \subseteq DOMAIN held
  /\ {"pressed", "modes", "ctrl"} \subseteq DOMAIN kb

Device == Dev(c) /\ Timed(c) /\ c.orphans \subseteq DOMAIN c.queue

ButtonsInv ==
  Drivers /\ Device /\ PressedByHand /\ DOMAIN unseen = DOMAIN pads /\ AllRight(c, pads, unseen)

(* Two keys held down press different numbers.                             *)
KeysApart ==
  \A k, l \in held.keys :
    k # l /\ Mapping(k, kb).button # None /\ Mapping(l, kb).button # None =>
      Number(Mapping(k, kb).button) # Number(Mapping(l, kb).button)

(* The controls and what they are mapped to.                               *)
LEMMA WiresAre ==
  ASSUME NEW w \in Wires
  PROVE  /\ w[1] \in DOMAIN Wired /\ w[2] \in DOMAIN Wired[w[1]].map /\ w = <<w[1], w[2]>>
         /\ w[1][1] # "keyboard"
         /\ \E n \in Nat : DOMAIN Entries(w) = 1 .. n
<1>1. w \in Controls /\ w[2] \in DOMAIN Wired[w[1]].map
  BY DEF Wires
<1>2. PICK s \in DOMAIN Wired, x \in UNION {DOMAIN Wired[t].map : t \in DOMAIN Wired} : w = <<s, x>>
  BY <1>1 DEF Controls
<1>3. w[1] = s /\ w[2] = x
  BY <1>2
<1>4. s[1] # "keyboard" /\ Entries(w) \in Seq(Range(Entries(w)))
  BY <1>1, <1>3, ButtonAssumption DEF Entries
<1>5. DOMAIN Entries(w) = 1 .. Len(Entries(w)) /\ Len(Entries(w)) \in Nat
  BY <1>4
<1> QED BY <1>1, <1>2, <1>3, <1>4, <1>5

(* The invariant is strong enough.                                         *)
LEMMA ButtonsInvMeans ==
  ASSUME ButtonsInv
  PROVE  OnlyHeldCounts
<1> SUFFICES ASSUME midi = <<>> PROVE OnlyHeldCounts
  BY DEF OnlyHeldCounts, NothingSticks, PadsFollow
<1>1. \A w : ~ Waiting(w)
  BY DEF Waiting
<1>2. ASSUME NEW s, NEW b, WireDown(s, b)
      PROVE  \E w \in Wires : w[1] = s /\ b \in WireButtons(w)
  <2>1. PICK w \in Wires : /\ w[1] = s
                          /\ \E i \in DOMAIN Entries(w) :
                               Entries(w)[i].button = b /\ Entries(w)[i].of[position[w]] # 0
    BY <1>1, <1>2 DEF WireDown
  <2>2. PICK i \in DOMAIN Entries(w) : Entries(w)[i].button = b /\ Entries(w)[i].of[position[w]] # 0
    BY <2>1
  <2>3. Entries(w)[i] \in ToSet(Entries(w))
    BY DEF ToSet
  <2>4. b \in WireButtons(w)
    BY <2>2, <2>3 DEF WireButtons, Entries
  <2> QED BY <2>1, <2>4
<1>3. ASSUME NEW s, NEW b, KeyDown(s, b)
      PROVE  \E k \in held.keys : Mapping(k, kb).src = s /\ Mapping(k, kb).button = b
  BY <1>3 DEF KeyDown
<1>4. NothingSticks
  <2> SUFFICES ASSUME NEW n \in DOMAIN c.repeat PROVE n \in HeldNavs
    BY DEF NothingSticks
  <2>1. PICK s, b : Down(c, s, b) /\ Nav[b] = n
    BY DEF ButtonsInv, Device, Timed
  <2>2. b # None /\ (KeyDown(s, b) \/ WireDown(s, b))
    BY <2>1 DEF ButtonsInv, PressedByHand
  <2>3. CASE KeyDown(s, b)
    <3>1. PICK k \in held.keys : Mapping(k, kb).button = b
      BY <1>3, <2>3
    <3>2. b \in {Keys[k].inst, Keys[k].plain, Keys[k].ctrl}
      BY <3>1 DEF Mapping
    <3>3. n \in KeyNavs(k)
      BY <2>1, <2>2, <3>2 DEF KeyNavs
    <3> QED BY <3>3 DEF HeldNavs
  <2>4. CASE WireDown(s, b)
    <3>1. PICK w \in Wires : b \in WireButtons(w)
      BY <1>2, <2>4
    <3>2. b \in (UNION {WireButtons(v) : v \in Wires}) \ {None}
      BY <2>2, <3>1
    <3> QED BY <2>1, <3>2 DEF HeldNavs
  <2> QED BY <2>2, <2>3, <2>4
<1>5. PadsFollow
  <2> SUFFICES ASSUME NEW s \in DOMAIN pads, NEW x \in Fold(c.queue[s], pads[s]), x \notin unseen[s]
               PROVE  x \in HeldButtons(s)
    BY DEF PadsFollow
  <2>1. Down(c, s, x) /\ s # KeySource(Generic)
    BY DEF ButtonsInv, AllRight, Right
  <2>2. KeyDown(s, x) \/ WireDown(s, x)
    BY <2>1 DEF ButtonsInv, PressedByHand
  <2>3. CASE KeyDown(s, x)
    <3>1. PICK k \in held.keys : Mapping(k, kb).src = s /\ Mapping(k, kb).button = x
      BY <1>3, <2>3
    <3>2. s = KeySource(Keys[k].kind) /\ x = Keys[k].inst
      BY <2>1, <3>1 DEF Mapping
    <3>3. s[1] = "keyboard" /\ s[2] = Keys[k].kind
      BY <3>2 DEF KeySource
    <3> QED BY <3>2, <3>3 DEF HeldButtons
  <2>4. CASE WireDown(s, x)
    <3>1. PICK w \in Wires : w[1] = s /\ x \in WireButtons(w)
      BY <1>2, <2>4
    <3>2. s[1] # "keyboard"
      BY <3>1, WiresAre
    <3> QED BY <3>1, <3>2 DEF HeldButtons
  <2> QED BY <2>2, <2>3, <2>4
<1> QED BY <1>4, <1>5 DEF OnlyHeldCounts

LEMMA ButtonsInit ==
  ASSUME ControllersInit
  PROVE  ButtonsInv
<1>1. \A s, b : ~ Down(c, s, b)
  BY DEF ControllersInit, Down
<1>2. Device
  BY <1>1 DEF ControllersInit, Device, Dev, DeviceFields, Timed
<1>3. Drivers
  BY DEF ControllersInit, Drivers
<1>4. DOMAIN unseen = DOMAIN pads /\ DOMAIN pads = {}
  BY DEF ControllersInit
<1> QED BY <1>1, <1>2, <1>3, <1>4 DEF ButtonsInv, PressedByHand, AllRight

-----------------------------------------------------------------------------
(* The steps.                                                              *)

(* What changes no value and adds no timer keeps what is down.             *)
LEMMA SameButtons ==
  ASSUME NEW q, Dev(q), Timed(q), NEW r, DeviceFields \subseteq DOMAIN r, r.values = q.values,
         DOMAIN r.repeat \subseteq DOMAIN q.repeat
  PROVE  Dev(r) /\ Timed(r) /\ \A s, b : Down(r, s, b) <=> Down(q, s, b)
<1>1. \A s, b : Down(r, s, b) <=> Down(q, s, b)
  BY DEF Down
<1>2. Dev(r)
  BY DEF Dev
<1>3. Timed(r)
  BY <1>1 DEF Timed
<1> QED BY <1>1, <1>2, <1>3

(* Switching modes and modifiers.                                          *)
LEMMA ModesNowMeans ==
  ASSUME Drivers
  PROVE  /\ {"pressed", "modes", "ctrl"} \subseteq DOMAIN ModesNow /\ ModesNow.pressed = kb.pressed
         /\ kb.pressed # {} => ModesNow = kb
BY DEF ModesNow, Drivers

LEMMA CtrlStep ==
  ASSUME ButtonsInv, CtrlEvent
  PROVE  ButtonsInv'
<1>1. Drivers'
  <2>1. DOMAIN held' = DOMAIN held
    BY DEF CtrlEvent
  <2> QED BY <2>1, ModesNowMeans DEF ButtonsInv, CtrlEvent, Poll, Drivers
<1>2. ASSUME NEW s, NEW b, Down(c, s, b)
      PROVE  b # None /\ (KeyDown(s, b)' \/ WireDown(s, b)')
  <2>1. b # None /\ (KeyDown(s, b) \/ WireDown(s, b))
    BY <1>2 DEF ButtonsInv, PressedByHand
  <2>2. ASSUME KeyDown(s, b) PROVE KeyDown(s, b)'
    <3>1. kb' = kb
      BY <2>2, ModesNowMeans DEF ButtonsInv, CtrlEvent, KeyDown
    <3>2. held'.keys = held.keys
      BY DEF ButtonsInv, Drivers, CtrlEvent
    <3> QED BY <2>2, <3>1, <3>2 DEF KeyDown, Mapping
  <2>3. WireDown(s, b) => WireDown(s, b)'
    BY DEF CtrlEvent, Poll, WireDown, Waiting, Entries
  <2> QED BY <2>1, <2>2, <2>3
<1>3. PressedByHand'
  BY <1>2 DEF PressedByHand, CtrlEvent, Down
<1>4. /\ Device' /\ (DOMAIN unseen = DOMAIN pads)' /\ AllRight(c, pads, unseen)'
  BY ZenonT(30) DEF ButtonsInv, Device, CtrlEvent, Poll, AllRight, Right, Queued, Dev, Timed, Down
<1> QED BY <1>1, <1>3, <1>4 DEF ButtonsInv

(* Steps that only change what has nothing to do with buttons.             *)
LEMMA QuietStep ==
  ASSUME ButtonsInv, Quiet \/ UNCHANGED cvars
  PROVE  ButtonsInv'
<1>1. UNCHANGED <<held, position, midi, kb, c, song, pads, unseen>>
  BY DEF Quiet, cvars
<1>2. Drivers' /\ Device' /\ (DOMAIN unseen = DOMAIN pads)'
  <2>1. Drivers'
    BY <1>1 DEF ButtonsInv, Drivers
  <2>2. Device' /\ (DOMAIN unseen = DOMAIN pads)'
    BY <1>1, ZenonT(40) DEF ButtonsInv, Device, Dev, Timed, Down
  <2> QED BY <2>1, <2>2
<1>3. AllRight(c, pads, unseen)'
  BY <1>1 DEF ButtonsInv, AllRight, Right, Queued, Down
<1>4. PressedByHand'
  <2>1. ASSUME NEW s, NEW b PROVE /\ KeyDown(s, b)' <=> KeyDown(s, b)
                                  /\ Down(c, s, b)' <=> Down(c, s, b)
    BY <1>1 DEF KeyDown, Mapping, Down
  <2>2. ASSUME NEW s, NEW b PROVE WireDown(s, b)' <=> WireDown(s, b)
    BY <1>1 DEF WireDown, Entries, Waiting
  <2> QED BY <2>1, <2>2 DEF ButtonsInv, PressedByHand
<1> QED BY <1>2, <1>3, <1>4 DEF ButtonsInv

LEMMA KeyStep ==
  ASSUME ButtonsInv, KeysApart, KeyEvent
  PROVE  ButtonsInv'
<1>1. PICK k \in DOMAIN Keys, value \in 0 .. 1 :
        /\ value = 0 => k \in held.keys
        /\ held' = [held EXCEPT !.keys = IF value = 0 THEN @ \ {k} ELSE @ \cup {k}]
        /\ Key(k, value)
        /\ unseen' = Untold(c')
  BY DEF KeyEvent
<1> DEFINE now == ModesNow
           to == Mapping(k, now)
           n == Number(to.button)
<1>2. \/ to.button = None /\ kb' = now /\ c' = c
      \/ /\ to.button # None
         /\ kb' = [now EXCEPT !.pressed = IF value # 0 THEN @ \cup {n} ELSE @ \ {n}]
         /\ c' = PushMapped(c, to.src, to.button, value)
  BY <1>1 DEF Key
<1>3. UNCHANGED <<midi, song, pads, position>>
  BY DEF KeyEvent, Poll
<1>4. /\ {"pressed", "modes", "ctrl"} \subseteq DOMAIN now /\ now.pressed = kb.pressed
      /\ kb.pressed # {} => now = kb
  BY ModesNowMeans DEF ButtonsInv
<1>5. /\ {"pressed", "modes", "ctrl"} \subseteq DOMAIN kb'
      /\ kb'.modes = now.modes /\ kb'.ctrl = now.ctrl
      /\ to.button = None => kb'.pressed = kb.pressed
      /\ to.button # None => kb'.pressed = IF value # 0 THEN kb.pressed \cup {n} ELSE kb.pressed \ {n}
  <2> HIDE DEF now, to, n
  <2> QED BY <1>2, <1>4
<1>6. /\ {"keys", "ctrl"} \subseteq DOMAIN held'
      /\ held'.keys = IF value = 0 THEN held.keys \ {k} ELSE held.keys \cup {k}
  BY <1>1 DEF ButtonsInv, Drivers
<1>7. Drivers'
  BY <1>3, <1>5, <1>6 DEF ButtonsInv, Drivers
<1>8. Dev(c) /\ Timed(c) /\ c.orphans \subseteq DOMAIN c.queue
  BY DEF ButtonsInv, Device
<1>9. Heard(c, c')
  <2> HIDE DEF to, n, now
  <2> QED BY <1>2, <1>8, HeardOnce, HeardNothing
<1>10. Device'
  BY <1>8, <1>9 DEF Device, Heard
<1>11. \A l : Mapping(l, kb') = Mapping(l, now)
  BY <1>5 DEF Mapping
<1>12. ASSUME NEW s, NEW b, Down(c', s, b)
       PROVE  b # None /\ (KeyDown(s, b)' \/ WireDown(s, b)')
  <2> HIDE DEF now, n
  <2>1. CASE to.button # None /\ s = to.src /\ b = to.button
    <3>1. value # 0
      <4> HIDE DEF to
      <4> QED BY <1>2, <1>8, <1>12, <2>1, DownAfter
    <3>2. Number(b) \in kb'.pressed /\ k \in held'.keys
      BY <1>5, <1>6, <2>1, <3>1 DEF n
    <3>3. Mapping(k, kb').src = s /\ Mapping(k, kb').button = b
      BY <1>11, <2>1
    <3> QED BY <2>1, <3>2, <3>3 DEF KeyDown, Mapping
  <2>2. CASE ~ (to.button # None /\ s = to.src /\ b = to.button)
    <3>1. Down(c, s, b)
      <4> HIDE DEF to
      <4> QED BY <1>2, <1>8, <1>12, <2>2, DownAfter
    <3>2. b # None /\ (KeyDown(s, b) \/ WireDown(s, b))
      BY <3>1 DEF ButtonsInv, PressedByHand
    <3>3. WireDown(s, b) => WireDown(s, b)'
      BY <1>3 DEF WireDown, Waiting, Entries
    <3>4. ASSUME KeyDown(s, b) PROVE KeyDown(s, b)'
      <4>1. PICK l \in held.keys : Mapping(l, kb).src = s /\ Mapping(l, kb).button = b
        BY <3>4 DEF KeyDown
      <4>2. Number(b) \in kb.pressed /\ now = kb
        BY <1>4, <3>4 DEF KeyDown
      <4>3. l # k \/ to.button = None \/ value # 0
        BY <2>2, <4>1, <4>2
      <4>4. l \in held'.keys
        <5>1. CASE value # 0
          BY <1>6, <5>1
        <5>2. CASE value = 0
          <6>1. l # k
            BY <2>2, <3>2, <4>1, <4>2
          <6> QED BY <1>6, <5>2, <6>1
        <5> QED BY <5>1, <5>2
      <4>5. Number(b) \in kb'.pressed
        <5>1. CASE to.button = None \/ value # 0
          BY <1>5, <4>2, <5>1
        <5>2. CASE to.button # None /\ value = 0
          <6>1. l # k /\ k \in held.keys
            BY <1>1, <4>3, <5>2
          <6>2. Number(Mapping(l, kb).button) # Number(Mapping(k, kb).button)
            BY <3>2, <4>1, <4>2, <5>2, <6>1 DEF KeysApart
          <6>3. Number(b) # n
            BY <4>1, <4>2, <6>2 DEF n
          <6> QED BY <1>5, <4>2, <5>2, <6>3
        <5> QED BY <5>1, <5>2
      <4>6. Mapping(l, kb').src = s /\ Mapping(l, kb').button = b
        BY <1>11, <4>1, <4>2
      <4> QED BY <4>4, <4>5, <4>6 DEF KeyDown, Mapping
    <3> QED BY <3>2, <3>3, <3>4
  <2> QED BY <2>1, <2>2
<1>13. PressedByHand'
  BY <1>12 DEF PressedByHand, Down
<1>14. AllRight(c', pads, Untold(c'))
  BY <1>9, InstrumentsStay DEF ButtonsInv
<1>15. (DOMAIN unseen = DOMAIN pads)' /\ AllRight(c, pads, unseen)'
  <2>1. DOMAIN unseen' = DOMAIN pads
    BY <1>1 DEF Untold
  <2> HIDE DEF to, n, now
  <2> QED BY <1>1, <1>3, <1>14, <2>1 DEF AllRight, Right, Queued, Down
<1> QED BY <1>7, <1>10, <1>13, <1>15 DEF ButtonsInv

(* A control that moves.                                                   *)
LEMMA ControlMoves ==
  ASSUME NEW q, Dev(q), NEW w \in Wires, NEW at, NEW s, NEW b, Down(PushHW(q, w[1], w[2], at), s, b)
  PROVE  \/ /\ Down(q, s, b)
            /\ s = w[1] /\ b # None => \A i \in DOMAIN Entries(w) : Entries(w)[i].button # b
         \/ /\ s = w[1] /\ b # None
            /\ \E i \in DOMAIN Entries(w) : Entries(w)[i].button = b /\ Entries(w)[i].of[at] # 0
<1>1. PICK n \in Nat : DOMAIN Entries(w) = 1 .. n
  BY WiresAre
<1>2. PushedSo(q, PushHW(q, w[1], w[2], at), w[1], Entries(w), n, at)
  BY <1>1, ControlPushed DEF Entries
<1> QED BY <1>1, <1>2 DEF PushedSo, Maps, Pressing

LEMMA ControlHeard ==
  ASSUME NEW q, Dev(q), NEW w \in Wires, NEW at
  PROVE  Heard(q, PushHW(q, w[1], w[2], at))
<1>1. PICK n \in Nat : DOMAIN Entries(w) = 1 .. n
  BY WiresAre
<1>2. PushedSo(q, PushHW(q, w[1], w[2], at), w[1], Entries(w), n, at)
  BY <1>1, ControlPushed DEF Entries
<1> QED BY <1>2 DEF PushedSo

LEMMA PadStep ==
  ASSUME ButtonsInv, PadEvent
  PROVE  ButtonsInv'
<1>1. PICK w, at :
        /\ w \in Wires
        /\ ~Wired[w[1]].polled
        /\ position' = [position EXCEPT ![w] = at]
        /\ c' = PushHW(c, w[1], w[2], at)
        /\ unseen' = Untold(c')
  BY DEF PadEvent
<1>2. UNCHANGED <<midi, song, pads, held, kb>>
  BY DEF PadEvent, Poll
<1>3. DOMAIN position = Wires /\ Dev(c) /\ Timed(c) /\ c.orphans \subseteq DOMAIN c.queue
  BY DEF ButtonsInv, Drivers, Device
<1>4. /\ DOMAIN position' = Wires /\ position'[w] = at
      /\ \A v \in Wires : v # w => position'[v] = position[v]
  BY <1>1, <1>3
<1>5. Drivers'
  <2>1. ASSUME NEW v \in Wires, Wired[v[1]].polled PROVE position'[v] = position[v]
    BY <1>1, <1>4, <2>1
  <2> QED BY <1>2, <1>4, <2>1 DEF ButtonsInv, Drivers
<1>6. Heard(c, c')
  BY <1>1, <1>3, ControlHeard
<1>7. Device'
  BY <1>3, <1>6 DEF Device, Heard
<1>8. ASSUME NEW s, NEW b, Down(c', s, b)
      PROVE  b # None /\ (KeyDown(s, b)' \/ WireDown(s, b)')
  <2>1. \/ /\ Down(c, s, b)
           /\ s = w[1] /\ b # None => \A i \in DOMAIN Entries(w) : Entries(w)[i].button # b
        \/ /\ s = w[1] /\ b # None
           /\ \E i \in DOMAIN Entries(w) : Entries(w)[i].button = b /\ Entries(w)[i].of[at] # 0
    BY <1>1, <1>3, <1>8, ControlMoves
  <2>2. CASE /\ Down(c, s, b)
             /\ s = w[1] /\ b # None => \A i \in DOMAIN Entries(w) : Entries(w)[i].button # b
    <3>1. b # None /\ (KeyDown(s, b) \/ WireDown(s, b))
      BY <2>2 DEF ButtonsInv, PressedByHand
    <3>2. KeyDown(s, b) => KeyDown(s, b)'
      BY <1>2 DEF KeyDown, Mapping
    <3>3. ASSUME WireDown(s, b) PROVE WireDown(s, b)'
      <4>1. PICK v \in Wires : /\ v[1] = s
                              /\ \E i \in DOMAIN Entries(v) :
                                   /\ Entries(v)[i].button = b
                                   /\ Entries(v)[i].of[position[v]] # 0 \/ Waiting(v)
        BY <3>3 DEF WireDown
      <4>2. v # w
        BY <2>2, <3>1, <4>1
      <4>3. position'[v] = position[v] /\ (Waiting(v) => Waiting(v)')
        BY <1>2, <1>4, <4>2 DEF Waiting
      <4> QED BY <4>1, <4>3 DEF WireDown, Entries
    <3> QED BY <3>1, <3>2, <3>3
  <2>3. CASE /\ s = w[1] /\ b # None
             /\ \E i \in DOMAIN Entries(w) : Entries(w)[i].button = b /\ Entries(w)[i].of[at] # 0
    BY <1>1, <1>4, <2>3 DEF WireDown, Entries
  <2> QED BY <2>1, <2>2, <2>3
<1>9. PressedByHand'
  BY <1>8 DEF PressedByHand, Down
<1>10. AllRight(c', pads, Untold(c'))
  BY <1>6, InstrumentsStay DEF ButtonsInv
<1>11. (DOMAIN unseen = DOMAIN pads)' /\ AllRight(c, pads, unseen)'
  <2>1. DOMAIN unseen' = DOMAIN pads
    BY <1>1 DEF Untold
  <2> QED BY <1>1, <1>2, <1>10, <2>1 DEF AllRight, Right, Queued, Down
<1> QED BY <1>5, <1>7, <1>9, <1>11 DEF ButtonsInv

LEMMA StrikeStep ==
  ASSUME ButtonsInv, Strike
  PROVE  ButtonsInv'
<1>1. PICK w, at :
        /\ w \in Wires
        /\ Wired[w[1]].polled /\ midi = <<>>
        /\ position' = [position EXCEPT ![w] = at]
        /\ midi' = <<[wire |-> w, at |-> at]>>
  BY DEF Strike
<1>2. UNCHANGED <<held, kb, c, song, pads, unseen>>
  BY DEF Strike
<1>3. /\ DOMAIN position' = Wires /\ position'[w] = at
      /\ \A v \in Wires : v # w => position'[v] = position[v]
  BY <1>1 DEF ButtonsInv, Drivers
<1>4. Waiting(w)' /\ \A v : ~ Waiting(v)
  BY <1>1 DEF Waiting
<1>5. Drivers'
  BY <1>1, <1>2, <1>3 DEF ButtonsInv, Drivers
<1>6. Device' /\ (DOMAIN unseen = DOMAIN pads)'
  BY <1>2, ZenonT(30) DEF ButtonsInv, Device, Dev, Timed, Down
<1>7. AllRight(c, pads, unseen)'
  BY <1>2 DEF ButtonsInv, AllRight, Right, Queued, Down
<1>8. ASSUME NEW s, NEW b, Down(c, s, b)
      PROVE  b # None /\ (KeyDown(s, b)' \/ WireDown(s, b)')
  <2>1. b # None /\ (KeyDown(s, b) \/ WireDown(s, b))
    BY <1>8 DEF ButtonsInv, PressedByHand
  <2>2. KeyDown(s, b) => KeyDown(s, b)'
    BY <1>2 DEF KeyDown, Mapping
  <2>3. ASSUME WireDown(s, b) PROVE WireDown(s, b)'
    <3>1. PICK v \in Wires : /\ v[1] = s
                            /\ \E i \in DOMAIN Entries(v) :
                                 /\ Entries(v)[i].button = b
                                 /\ Entries(v)[i].of[position[v]] # 0
      BY <1>4, <2>3 DEF WireDown
    <3>2. v = w => Waiting(v)'
      BY <1>4
    <3>3. v # w => position'[v] = position[v]
      BY <1>3
    <3> QED BY <3>1, <3>2, <3>3 DEF WireDown, Entries
  <2> QED BY <2>1, <2>2, <2>3
<1>9. PressedByHand'
  BY <1>2, <1>8 DEF PressedByHand, Down
<1> QED BY <1>5, <1>6, <1>7, <1>9 DEF ButtonsInv

(* A frame begins: instruments have read their events, MIDI is heard, and  *)
(* what is held repeats.                                                   *)
Ready ==
  [c EXCEPT !.queue = [s \in DOMAIN @ |-> IF s \in c.orphans THEN @[s] ELSE <<>>],
            !.enabled = (song = "practice" \/ (Songs[song] # {} /\ ~menu))]

LEMMA ReadyMeans ==
  ASSUME ButtonsInv, NEW P, \A s \in DOMAIN pads : P[s] = Fold(c.queue[s], pads[s])
  PROVE  /\ Dev(Ready) /\ Timed(Ready) /\ Ready.orphans \subseteq DOMAIN Ready.queue
         /\ Ready.values = c.values
         /\ \A s, b : Down(Ready, s, b) <=> Down(c, s, b)
         /\ AllRight(Ready, P, unseen)
<1> DEFINE queue == [s \in DOMAIN c.queue |-> IF s \in c.orphans THEN c.queue[s] ELSE <<>>]
           on == (song = "practice" \/ (Songs[song] # {} /\ ~menu))
           r == Ready
<1>1. Dev(c) /\ Timed(c) /\ c.orphans \subseteq DOMAIN c.queue /\ DeviceFields \subseteq DOMAIN c
  BY DEF ButtonsInv, Device, Dev
<1>2. r = [c EXCEPT !.queue = queue, !.enabled = on]
  BY DEF Ready
<1> HIDE DEF r, on
<1>3. /\ DOMAIN queue = DOMAIN c.queue
      /\ \A s \in DOMAIN c.queue : s \notin c.orphans => queue[s] = <<>>
  OBVIOUS
<1> HIDE DEF queue
<1>4. /\ DeviceFields \subseteq DOMAIN r /\ r.values = c.values /\ r.repeat = c.repeat
      /\ r.orphans = c.orphans /\ r.queue = queue
  BY <1>1, <1>2 DEF DeviceFields
<1>5. Dev(r) /\ Timed(r) /\ \A s, b : Down(r, s, b) <=> Down(c, s, b)
  BY <1>1, <1>4, SameButtons
<1>6. ASSUME NEW s \in DOMAIN pads
      PROVE  /\ s # KeySource(Generic) /\ Queued(r, s)
             /\ \A x : x \notin unseen[s] => Right(r, s, P[s], x)
  <2>1. /\ s # KeySource(Generic) /\ s \in DOMAIN c.queue /\ s \notin c.orphans
        /\ \A x : x \notin unseen[s] => Right(c, s, pads[s], x)
    BY DEF ButtonsInv, AllRight, Queued
  <2>2. r.queue[s] = <<>>
    BY <1>3, <1>4, <2>1
  <2>3. IsSeq(<<>>) /\ Fold(<<>>, P[s]) = P[s]
    <3>1. IsSeq(<<>>)
      <4>1. <<>> \in Seq({})
        OBVIOUS
      <4> QED BY <4>1 DEF IsSeq
    <3> QED BY <3>1, FoldAppends
  <2>4. Queued(r, s)
    BY <1>3, <1>4, <2>1, <2>2, <2>3 DEF Queued
  <2>5. Fold(r.queue[s], P[s]) = Fold(c.queue[s], pads[s])
    BY <2>2, <2>3
  <2>6. ASSUME NEW x, x \notin unseen[s] PROVE Right(r, s, P[s], x)
    BY <1>5, <2>1, <2>5, <2>6 DEF Right
  <2> QED BY <2>1, <2>4, <2>6
<1>7. AllRight(r, P, unseen)
  BY <1>6 DEF AllRight
<1> QED BY <1>1, <1>3, <1>4, <1>5, <1>7 DEF r

LEMMA RepetitionsMean ==
  ASSUME NEW q, Dev(q), NEW due
  PROVE  Heard(q, Repetitions(q, due)) /\ Repetitions(q, due).values = q.values
<1> DEFINE again(n) == Min({q.repeat[n].times + 1, MaxRepeat})
           repeat == [n \in DOMAIN q.repeat |->
                        IF n \in due THEN [q.repeat[n] EXCEPT !.times = again(n)] ELSE q.repeat[n]]
           nav == q.nav \o SetToSeq({[nav |-> n, src |-> q.repeat[n].src, times |-> again(n)]
                                       : n \in due})
           r == Repetitions(q, due)
<1>1. r = [q EXCEPT !.repeat = repeat, !.nav = nav]
  BY DEF Repetitions
<1>2. DOMAIN repeat = DOMAIN q.repeat
  OBVIOUS
<1> HIDE DEF repeat, nav, r
<1>3. /\ DeviceFields \subseteq DOMAIN r /\ r.values = q.values /\ r.repeat = repeat
      /\ r.orphans = q.orphans /\ r.queue = q.queue /\ r.enabled = q.enabled
  BY <1>1 DEF Dev, DeviceFields
<1>4. Dev(r)
  BY <1>3 DEF Dev
<1>5. \A s, b : Down(r, s, b) <=> Down(q, s, b)
  BY <1>3 DEF Down
<1>6. Timed(q) => Timed(r)
  BY <1>2, <1>3, <1>5 DEF Timed
<1>7. Told(q, r)
  BY <1>3, <1>5 DEF Told, Right, Moved
<1>8. \A s : Queued(q, s) => Queued(r, s) /\ r.queue[s] = q.queue[s]
  BY <1>3 DEF Queued
<1>9. Heard(q, r)
  BY <1>3, <1>4, <1>6, <1>7, <1>8 DEF Heard
<1> QED BY <1>3, <1>9 DEF r

LEMMA FrameStep ==
  ASSUME ButtonsInv, Frame
  PROVE  ButtonsInv'
<1> DEFINE heard == AllMidi(Ready, midi)
<1>1. PICK due : c' = Repetitions(heard, due)
  BY DEF Frame, AllMidi, Ready
<1>2. /\ pads' = [s \in DOMAIN pads |-> Fold(c.queue[s], pads[s])]
      /\ midi' = <<>> /\ unseen' = Untold(c') /\ UNCHANGED <<held, position, kb, song>>
  BY DEF Frame
<1>3. /\ Dev(Ready) /\ Timed(Ready) /\ Ready.orphans \subseteq DOMAIN Ready.queue
      /\ Ready.values = c.values /\ (\A s, b : Down(Ready, s, b) <=> Down(c, s, b))
      /\ AllRight(Ready, pads', unseen)
  BY <1>2, ReadyMeans
<1>4. /\ Heard(Ready, heard)
      /\ \A s, b : Down(heard, s, b) =>
           b # None /\ (KeyDown(s, b)' \/ WireDown(s, b)')
  <2>1. ASSUME NEW s, NEW b, Down(c, s, b)
        PROVE  /\ b # None
               /\ \/ KeyDown(s, b)'
                  \/ \E w \in Wires :
                       /\ w[1] = s
                       /\ \E i \in DOMAIN Entries(w) :
                            /\ Entries(w)[i].button = b
                            /\ Entries(w)[i].of[position'[w]] # 0 \/ Waiting(w)
    <3>1. b # None /\ (KeyDown(s, b) \/ WireDown(s, b))
      BY <2>1 DEF ButtonsInv, PressedByHand
    <3>2. KeyDown(s, b) => KeyDown(s, b)'
      BY <1>2 DEF KeyDown, Mapping
    <3> QED BY <1>2, <3>1, <3>2 DEF WireDown
  <2>2. CASE midi = <<>>
    <3>1. heard = Ready
      BY <2>2, MidiFold
    <3>2. \A w : ~ Waiting(w)
      BY <2>2 DEF Waiting
    <3>3. ASSUME NEW s, NEW b, Down(heard, s, b)
          PROVE  b # None /\ (KeyDown(s, b)' \/ WireDown(s, b)')
      <4> HIDE DEF heard
      <4>1. Down(c, s, b)
        BY <1>3, <3>1, <3>3
      <4>2. /\ b # None
            /\ \/ KeyDown(s, b)'
               \/ \E w \in Wires :
                    /\ w[1] = s
                    /\ \E i \in DOMAIN Entries(w) :
                         /\ Entries(w)[i].button = b
                         /\ Entries(w)[i].of[position'[w]] # 0
        BY <2>1, <3>2, <4>1
      <4> QED BY <4>2 DEF WireDown, Entries
    <3> QED BY <1>3, <3>1, <3>3, HeardNothing
  <2>3. CASE midi # <<>>
    <3>1. PICK w \in Wires : midi = <<[wire |-> w, at |-> position[w]]>>
      BY <2>3 DEF ButtonsInv, Drivers
    <3> DEFINE m == [wire |-> w, at |-> position[w]]
    <3>2. heard = PushHW(Ready, w[1], w[2], position[w])
      <4>1. m.wire = w /\ m.at = position[w] /\ midi = <<m>>
        BY <3>1
      <4> HIDE DEF m
      <4>2. AllMidi(Ready, midi) = PushHW(Ready, m.wire[1], m.wire[2], m.at)
        BY <2>3, <4>1, MidiFold
      <4> QED BY <4>1, <4>2
    <3>3. \A v : Waiting(v) => v = w
      BY <3>1 DEF Waiting
    <3>4. Heard(Ready, heard)
      BY <1>3, <3>2, ControlHeard
    <3>5. ASSUME NEW s, NEW b, Down(heard, s, b)
          PROVE  b # None /\ (KeyDown(s, b)' \/ WireDown(s, b)')
      <4> HIDE DEF heard
      <4>0. PICK at : at = position[w]
        OBVIOUS
      <4>1. \/ /\ Down(Ready, s, b)
               /\ s = w[1] /\ b # None => \A i \in DOMAIN Entries(w) : Entries(w)[i].button # b
            \/ /\ s = w[1] /\ b # None
               /\ \E i \in DOMAIN Entries(w) :
                    Entries(w)[i].button = b /\ Entries(w)[i].of[position[w]] # 0
        <5>1. Dev(Ready) /\ Down(PushHW(Ready, w[1], w[2], at), s, b)
          BY <1>3, <3>2, <3>5, <4>0
        <5>2. \/ /\ Down(Ready, s, b)
                 /\ s = w[1] /\ b # None => \A i \in DOMAIN Entries(w) : Entries(w)[i].button # b
              \/ /\ s = w[1] /\ b # None
                 /\ \E i \in DOMAIN Entries(w) :
                      Entries(w)[i].button = b /\ Entries(w)[i].of[at] # 0
          BY <5>1, ControlMoves
        <5> QED BY <4>0, <5>2
      <4>2. CASE /\ Down(Ready, s, b)
                 /\ s = w[1] /\ b # None => \A i \in DOMAIN Entries(w) : Entries(w)[i].button # b
        <5>1. /\ b # None
              /\ \/ KeyDown(s, b)'
                 \/ \E v \in Wires :
                      /\ v[1] = s
                      /\ \E i \in DOMAIN Entries(v) :
                           /\ Entries(v)[i].button = b
                           /\ Entries(v)[i].of[position'[v]] # 0 \/ Waiting(v)
          BY <1>3, <2>1, <4>2
        <5>2. ASSUME NEW v \in Wires, v[1] = s, NEW i \in DOMAIN Entries(v),
                     Entries(v)[i].button = b
              PROVE  ~ Waiting(v)
          BY <3>3, <4>2, <5>1, <5>2
        <5> QED BY <5>1, <5>2 DEF WireDown, Entries
      <4>3. CASE /\ s = w[1] /\ b # None
                 /\ \E i \in DOMAIN Entries(w) :
                      Entries(w)[i].button = b /\ Entries(w)[i].of[position[w]] # 0
        BY <1>2, <4>3 DEF WireDown, Entries
      <4> QED BY <4>1, <4>2, <4>3
    <3> QED BY <3>4, <3>5
  <2> QED BY <2>2, <2>3
<1> HIDE DEF heard
<1>5. Heard(heard, c') /\ c'.values = heard.values /\ Heard(Ready, c')
  <2>1. Heard(heard, c') /\ c'.values = heard.values
    BY <1>1, <1>4, RepetitionsMean DEF Heard
  <2> QED BY <1>4, <2>1, HeardBoth
<1>6. Device'
  BY <1>3, <1>5 DEF Device, Heard
<1>7. Drivers'
  BY <1>2 DEF ButtonsInv, Drivers
<1>8. PressedByHand'
  <2>1. \A s, b : Down(c', s, b) <=> Down(heard, s, b)
    BY <1>5 DEF Down
  <2>2. \A s, b : Down(c', s, b) => b # None /\ (KeyDown(s, b)' \/ WireDown(s, b)')
    BY <1>4, <2>1
  <2> QED BY <2>2 DEF PressedByHand, Down
<1>9. AllRight(c', pads', Untold(c'))
  BY <1>3, <1>5, InstrumentsStay
<1>10. (DOMAIN unseen = DOMAIN pads)' /\ AllRight(c, pads, unseen)'
  <2>1. DOMAIN unseen' = DOMAIN pads /\ DOMAIN pads' = DOMAIN pads
    BY <1>2 DEF Untold
  <2> QED BY <1>2, <1>9, <2>1 DEF AllRight, Right, Queued, Down
<1> QED BY <1>6, <1>7, <1>8, <1>10 DEF ButtonsInv

(* The screen is told, and another one is entered.                         *)
LEMMA NavigateStep ==
  ASSUME ButtonsInv, Navigate
  PROVE  ButtonsInv'
<1>1. UNCHANGED <<held, position, kb, midi, song>>
  BY DEF Navigate
<1>2. /\ Dev(c) /\ Timed(c) /\ c.orphans \subseteq DOMAIN c.queue /\ DeviceFields \subseteq DOMAIN c
      /\ DOMAIN unseen = DOMAIN pads /\ AllRight(c, pads, unseen) /\ song \in DOMAIN Songs
  BY DEF ButtonsInv, Device, Dev, Drivers
<1>3. ASSUME DeviceFields \subseteq DOMAIN c', c'.values = c.values, c'.repeat = c.repeat,
             c'.orphans \subseteq DOMAIN c'.queue,
             DOMAIN unseen' = DOMAIN pads',
             \A s \in DOMAIN pads' :
               /\ s # KeySource(Generic) /\ Queued(c', s)
               /\ \A x : x \notin unseen'[s] => Right(c', s, pads'[s], x)
      PROVE  ButtonsInv'
  <2>1. Dev(c') /\ Timed(c') /\ \A s, b : Down(c', s, b) <=> Down(c, s, b)
    BY <1>2, <1>3, SameButtons
  <2>2. Drivers'
    BY <1>1 DEF ButtonsInv, Drivers
  <2>3. \A s, b : KeyDown(s, b) \/ WireDown(s, b) => KeyDown(s, b)' \/ WireDown(s, b)'
    BY <1>1, ZenonT(40) DEF KeyDown, Mapping, WireDown, Entries, Waiting
  <2>4. \A s, b : Down(c', s, b) => b # None /\ (KeyDown(s, b)' \/ WireDown(s, b)')
    BY <2>1, <2>3 DEF ButtonsInv, PressedByHand
  <2>5. PressedByHand'
    BY <2>4 DEF PressedByHand, Down
  <2>6. Device'
    BY <1>3, <2>1 DEF Device
  <2>7. AllRight(c, pads, unseen)'
    BY <1>3 DEF AllRight, Right, Queued, Down
  <2> QED BY <1>3, <2>2, <2>5, <2>6, <2>7 DEF ButtonsInv
<1>4. CASE c' = [c EXCEPT !.nav = Tail(@)] /\ UNCHANGED <<pads, unseen>>
  <2>1. /\ DeviceFields \subseteq DOMAIN c' /\ c'.values = c.values /\ c'.repeat = c.repeat
        /\ c'.orphans = c.orphans /\ c'.queue = c.queue
    BY <1>2, <1>4 DEF DeviceFields
  <2>2. ASSUME NEW s \in DOMAIN pads'
        PROVE  /\ s # KeySource(Generic) /\ Queued(c', s)
               /\ \A x : x \notin unseen'[s] => Right(c', s, pads'[s], x)
    BY <1>2, <1>4, <2>1 DEF AllRight, Queued, Right, Down
  <2> QED BY <1>2, <1>3, <1>4, <2>1, <2>2
<1>5. ASSUME NEW e, e.src \in c.orphans, song = "practice" \/ (e.times = 0 /\ CanParticipate(e.src)),
             NEW rest, rest = [c EXCEPT !.orphans = @ \ {e.src}, !.nav = Tail(@)],
             IF song # "practice" /\ Joins(e.src)
             THEN /\ c' = [rest EXCEPT !.queue[e.src] = <<>>]
                  /\ pads' = Put(pads, e.src, {})
                  /\ unseen' = Put(unseen, e.src, {u[2] : u \in {v \in DOMAIN c.values : v[1] = e.src}})
             ELSE /\ c' = [rest EXCEPT !.queue = Restrict(@, DOMAIN @ \ {e.src})]
                  /\ UNCHANGED <<pads, unseen>>
      PROVE  ButtonsInv'
  <2> DEFINE src == e.src
             all == {u[2] : u \in {v \in DOMAIN c.values : v[1] = src}}
             less == Restrict(c.queue, DOMAIN c.queue \ {src})
  <2>0. src \in c.orphans /\ src \in DOMAIN c.queue
    BY <1>2, <1>5
  <2>1. /\ DeviceFields \subseteq DOMAIN rest /\ rest.values = c.values /\ rest.repeat = c.repeat
        /\ rest.orphans = c.orphans \ {src} /\ rest.queue = c.queue
    BY <1>2, <1>5 DEF DeviceFields
  <2>2. CASE song # "practice" /\ Joins(src)
    <3>1. /\ c' = [rest EXCEPT !.queue[src] = <<>>]
          /\ pads' = Put(pads, src, {}) /\ unseen' = Put(unseen, src, all)
      BY <1>5, <2>2
    <3> HIDE DEF src, all
    <3>2. /\ DeviceFields \subseteq DOMAIN c' /\ c'.values = c.values /\ c'.repeat = c.repeat
          /\ c'.orphans = c.orphans \ {src} /\ DOMAIN c'.queue = DOMAIN c.queue
          /\ c'.queue[src] = <<>>
          /\ \A s \in DOMAIN c.queue : s # src => c'.queue[s] = c.queue[s]
      <4>1. "queue" \in DOMAIN rest
        BY <2>1 DEF DeviceFields
      <4>2. /\ DeviceFields \subseteq DOMAIN c' /\ c'.values = c.values /\ c'.repeat = c.repeat
            /\ c'.orphans = c.orphans \ {src} /\ c'.queue = [c.queue EXCEPT ![src] = <<>>]
        BY <2>1, <3>1, <4>1 DEF DeviceFields
      <4> QED BY <2>0, <4>2
    <3>3. /\ DOMAIN pads' = DOMAIN pads \cup {src} /\ DOMAIN unseen' = DOMAIN unseen \cup {src}
          /\ pads'[src] = {}
          /\ \A s \in DOMAIN pads : s # src => pads'[s] = pads[s] /\ unseen'[s] = unseen[s]
      BY <1>2, <3>1 DEF Put
    <3>4. src # KeySource(Generic)
      <4>1. CanParticipate(src)
        BY <1>5, <2>2 DEF src
      <4>2. KindOf(src) \in Songs[song] /\ KindOf(src) # "generic"
        BY <1>2, <4>1, ButtonAssumption DEF CanParticipate
      <4>3. KindOf(KeySource(Generic)) = "generic"
        BY DEF KindOf, KeySource, Generic
      <4> QED BY <4>2, <4>3
    <3>5. IsSeq(<<>>) /\ Fold(<<>>, {}) = {}
      <4>1. IsSeq(<<>>)
        <5>1. <<>> \in Seq({})
          OBVIOUS
        <5> QED BY <5>1 DEF IsSeq
      <4> QED BY <4>1, FoldAppends
    <3>6. ASSUME NEW s \in DOMAIN pads'
          PROVE  /\ s # KeySource(Generic) /\ Queued(c', s)
                 /\ \A x : x \notin unseen'[s] => Right(c', s, pads'[s], x)
      <4>1. CASE s = src
        BY <2>0, <3>2, <3>3, <3>4, <3>5, <4>1 DEF Queued, Right
      <4>2. CASE s # src
        <5>1. /\ s \in DOMAIN pads /\ s # KeySource(Generic) /\ Queued(c, s)
              /\ \A x : x \notin unseen[s] => Right(c, s, pads[s], x)
          BY <1>2, <3>3, <4>2 DEF AllRight
        <5>2. c'.queue[s] = c.queue[s] /\ pads'[s] = pads[s] /\ unseen'[s] = unseen[s]
          BY <3>2, <3>3, <4>2, <5>1 DEF Queued
        <5> QED BY <3>2, <5>1, <5>2 DEF Queued, Right, Down
      <4> QED BY <4>1, <4>2
    <3>7. c'.orphans \subseteq DOMAIN c'.queue
      BY <1>2, <3>2
    <3>8. DOMAIN unseen' = DOMAIN pads'
      BY <1>2, <3>3
    <3> QED BY <1>3, <3>2, <3>6, <3>7, <3>8
  <2>3. CASE ~ (song # "practice" /\ Joins(src))
    <3>1. /\ c' = [rest EXCEPT !.queue = less]
          /\ UNCHANGED <<pads, unseen>>
      BY <1>5, <2>1, <2>3
    <3>2. DOMAIN less = DOMAIN c.queue \ {src} /\ \A s \in DOMAIN less : less[s] = c.queue[s]
      BY DEF Restrict
    <3> HIDE DEF src, less
    <3>3. /\ DeviceFields \subseteq DOMAIN c' /\ c'.values = c.values /\ c'.repeat = c.repeat
          /\ c'.orphans = c.orphans \ {src} /\ c'.queue = less
      BY <2>1, <3>1 DEF DeviceFields
    <3>4. ASSUME NEW s \in DOMAIN pads'
          PROVE  /\ s # KeySource(Generic) /\ Queued(c', s)
                 /\ \A x : x \notin unseen'[s] => Right(c', s, pads'[s], x)
      <4>1. /\ s \in DOMAIN pads /\ s # KeySource(Generic) /\ Queued(c, s)
            /\ \A x : x \notin unseen[s] => Right(c, s, pads[s], x)
        BY <1>2, <3>1 DEF AllRight
      <4>2. s # src
        BY <2>0, <4>1 DEF Queued
      <4>3. s \in DOMAIN less /\ c'.queue[s] = c.queue[s]
        BY <3>2, <3>3, <4>1, <4>2 DEF Queued
      <4> QED BY <3>1, <3>3, <4>1, <4>3 DEF Queued, Right, Down
    <3>5. c'.orphans \subseteq DOMAIN c'.queue
      BY <1>2, <3>2, <3>3
    <3>6. DOMAIN unseen' = DOMAIN pads'
      BY <1>2, <3>1
    <3> QED BY <1>3, <3>3, <3>4, <3>5, <3>6
  <2> QED BY <2>2, <2>3
<1>6. PICK e : (c' = [c EXCEPT !.nav = Tail(@)] /\ UNCHANGED <<pads, unseen>>) \/ Register(e)
  BY DEF Navigate
<1>7. CASE Register(e)
  <2> DEFINE rest == [c EXCEPT !.orphans = @ \ {e.src}, !.nav = Tail(@)]
  <2>1. CASE e.src \in c.orphans /\ (song = "practice" \/ (e.times = 0 /\ CanParticipate(e.src)))
    <3>1. IF song # "practice" /\ Joins(e.src)
          THEN /\ c' = [rest EXCEPT !.queue[e.src] = <<>>]
               /\ pads' = Put(pads, e.src, {})
               /\ unseen' = Put(unseen, e.src, {u[2] : u \in {v \in DOMAIN c.values : v[1] = e.src}})
          ELSE /\ c' = [rest EXCEPT !.queue = Restrict(@, DOMAIN @ \ {e.src})]
               /\ UNCHANGED <<pads, unseen>>
      BY <1>7, <2>1 DEF Register
    <3> HIDE DEF rest
    <3>2. rest = [c EXCEPT !.orphans = @ \ {e.src}, !.nav = Tail(@)]
      BY DEF rest
    <3> QED BY <1>5, <2>1, <3>1, <3>2
  <2>2. CASE ~ (e.src \in c.orphans /\ (song = "practice" \/ (e.times = 0 /\ CanParticipate(e.src))))
    <3>1. c' = [c EXCEPT !.nav = Tail(@)] /\ UNCHANGED <<pads, unseen>>
      BY <1>7, <2>2 DEF Register
    <3> QED BY <1>4, <3>1
  <2> QED BY <2>1, <2>2
<1> QED BY <1>4, <1>6, <1>7

LEMMA EnterStep ==
  ASSUME ButtonsInv, EnterSong
  PROVE  ButtonsInv'
<1> DEFINE less == Restrict(c.queue, c.orphans)
<1>1. /\ UNCHANGED <<held, position, kb, midi>> /\ song' \in DOMAIN Songs
      /\ pads' = <<>> /\ unseen' = <<>>
      /\ c' = [c EXCEPT !.queue = less, !.enabled = FALSE]
  BY DEF EnterSong
<1>2. Dev(c) /\ Timed(c) /\ DeviceFields \subseteq DOMAIN c
  BY DEF ButtonsInv, Device, Dev
<1>3. DOMAIN less = c.orphans
  BY DEF Restrict
<1> HIDE DEF less
<1>4. /\ DeviceFields \subseteq DOMAIN c' /\ c'.values = c.values /\ c'.repeat = c.repeat
      /\ c'.orphans = c.orphans /\ c'.queue = less
  BY <1>1, <1>2 DEF DeviceFields
<1>5. Dev(c') /\ Timed(c') /\ \A s, b : Down(c', s, b) <=> Down(c, s, b)
  BY <1>2, <1>4, SameButtons
<1>6. Drivers'
  BY <1>1 DEF ButtonsInv, Drivers
<1>7. \A s, b : KeyDown(s, b) \/ WireDown(s, b) => KeyDown(s, b)' \/ WireDown(s, b)'
  BY <1>1, ZenonT(40) DEF KeyDown, Mapping, WireDown, Entries, Waiting
<1>8. \A s, b : Down(c', s, b) => b # None /\ (KeyDown(s, b)' \/ WireDown(s, b)')
  BY <1>5, <1>7 DEF ButtonsInv, PressedByHand
<1>9. PressedByHand'
  BY <1>8 DEF PressedByHand, Down
<1>10. Device'
  BY <1>3, <1>4, <1>5 DEF Device
<1>11. (DOMAIN unseen = DOMAIN pads)' /\ AllRight(c, pads, unseen)'
  <2>1. DOMAIN pads' = {} /\ DOMAIN unseen' = {}
    BY <1>1
  <2> QED BY <2>1 DEF AllRight
<1> QED BY <1>6, <1>9, <1>10, <1>11 DEF ButtonsInv

(* Controllers of OnlyHeldCounts: nobody presses a button that nobody      *)
(* holds, in menus and in games, as long as no two keys held down press    *)
(* the same number.  Without that it is false (README, section 6).         *)
THEOREM NobodyElsePresses == ControllersSpec /\ []KeysApart => []OnlyHeldCounts
<1>1. ControllersInit => ButtonsInv
  BY ButtonsInit
<1>2. ButtonsInv /\ KeysApart /\ [ControllersNext]_cvars => ButtonsInv'
  <2> SUFFICES ASSUME ButtonsInv, KeysApart, [ControllersNext]_cvars PROVE ButtonsInv'
    OBVIOUS
  <2> QED BY QuietStep, KeyStep, CtrlStep, PadStep, StrikeStep, FrameStep, NavigateStep, EnterStep
      DEF ControllersNext
<1>3. ButtonsInv => OnlyHeldCounts
  BY ButtonsInvMeans
<1> QED BY <1>1, <1>2, <1>3, PTL DEF ControllersSpec

-----------------------------------------------------------------------------
(* AudioDevices                                                            *)

(* What the backend, the colours and the lines are.                        *)
LEMMA BackendFacts ==
  /\ \A i \in DOMAIN Infos : Infos[i].in \in Nat /\ Infos[i].out \in Nat
                             /\ Infos[i].flex \in STRING
  /\ Len(Infos) \in Nat /\ DOMAIN Infos = 1 .. Len(Infos)
<1> DEFINE InfoType == [name : STRING, flex : STRING, in : Nat, out : Nat]
<1>1. Infos \in Seq(InfoType)
  BY AudioDevicesAssumption, Zenon
<1>2. \A x \in InfoType : x.in \in Nat /\ x.out \in Nat /\ x.flex \in STRING
  OBVIOUS
<1> HIDE DEF InfoType
<1>3. Len(Infos) \in Nat /\ DOMAIN Infos = 1 .. Len(Infos)
      /\ \A i \in DOMAIN Infos : Infos[i] \in InfoType
  BY <1>1
<1> QED BY <1>2, <1>3

LEMMA ColorFacts ==
  /\ Colors \in Seq(STRING) /\ Len(Colors) \in Nat /\ DOMAIN Colors = 1 .. Len(Colors)
  /\ Channels[1] = "OUT" /\ Len(Channels) = Len(Colors) + 1
  /\ DOMAIN Channels = 1 .. Len(Colors) + 1
  /\ \A n \in DOMAIN Colors : n + 1 \in DOMAIN Channels /\ Channels[n + 1] = Colors[n]
                               /\ Colors[n] # "OUT" /\ Colors[n] \in STRING
  /\ \A m, n \in DOMAIN Colors : Colors[m] = Colors[n] => m = n
<1>1. /\ Colors \in Seq(STRING) /\ "OUT" \notin ToSet(Colors)
      /\ \A m, n \in DOMAIN Colors : Colors[m] = Colors[n] => m = n
  BY AudioDevicesAssumption, Zenon
<1>2. \A n \in DOMAIN Colors : Colors[n] # "OUT"
  BY <1>1 DEF ToSet
<1> QED BY <1>1, <1>2 DEF Channels

LineType == [dev : STRING, mics : Seq(STRING), out : Nat]
OpenDevice == [dev : DOMAIN Infos, mics : SUBSET STRING, out : BOOLEAN]

LEMMA LinesOfFiles == DefaultConfig \in Seq(LineType) /\ \A z \in Configs : z \in Seq(LineType)
<1>1. Configs \cup {DefaultConfig} \subseteq Seq(LineType)
  BY AudioDevicesAssumption, Zenon DEF LineType
<1> QED BY <1>1

(* What a line asks for, the device it got, and what lines may have        *)
(* opened: each device has the channels it is used for, and shares none    *)
(* with another.                                                           *)
AskedFor(line) ==
  Find(line.dev, line.mics = <<>>, IF line.mics = <<>> THEN line.out ELSE Len(line.mics))
GotBy(device, line) ==
  /\ device.dev = AskedFor(line) /\ device.mics \subseteq ToSet(line.mics)
  /\ Len(line.mics) <= Infos[device.dev].in
  /\ device.out => line.out = 2 /\ Infos[device.dev].out >= 2
AllGot(devices, lines) ==
  \A k \in DOMAIN devices : \E j \in DOMAIN lines : GotBy(devices[k], lines[j])
Alone(devices) ==
  \A k, l \in DOMAIN devices : k # l => /\ devices[k].mics \cap devices[l].mics = {}
                                       /\ ~ (devices[k].out /\ devices[l].out)
MayOpen(lines) == {devices \in Seq(OpenDevice) : AllGot(devices, lines) /\ Alone(devices)}

(* A device has only colours of its line that no other has.                *)
LEMMA MicsAreOfTheLine ==
  ASSUME NEW devices, NEW mics \in Seq(STRING)
  PROVE  AssignMics(devices, mics) \subseteq ToSet(mics) \ MicsOf(devices)
<1> DEFINE T == SUBSET (ToSet(mics) \ MicsOf(devices))
           n == Len(mics)
           New(got, m) == IF m \in got \cup MicsOf(devices) \cup {""}
                             \/ Cardinality(got \cup MicsOf(devices)) >= MaxAnalyzers
                          THEN got ELSE got \cup {m}
           F == [p \in T \X (1 .. n) |-> New(p[1], mics[p[2]])]
           Eq(h) == h = [s \in SUBSET (DOMAIN mics) |->
                           IF s = {} THEN {} ELSE New(h[s \ {Max(s)}], mics[Max(s)])]
           X == CHOOSE h : Eq(h)
<1>1. AssignMics(devices, mics) = X[DOMAIN mics]
  BY DEF AssignMics, FoldLeft, MapThenFoldSet
<1>2. n \in Nat /\ DOMAIN mics = 1 .. n /\ {} \in T
  OBVIOUS
<1>3. \A got \in T, x \in 1 .. n :
        F[<<got, x>>] = New(got, mics[x]) /\ New(got, mics[x]) \in T
  <2> SUFFICES ASSUME NEW got \in T, NEW x \in 1 .. n
               PROVE  F[<<got, x>>] = New(got, mics[x]) /\ New(got, mics[x]) \in T
    OBVIOUS
  <2>1. mics[x] \in ToSet(mics)
    BY <1>2 DEF ToSet
  <2>2. New(got, mics[x]) \in T
    BY <2>1
  <2> QED BY <2>2
<1> HIDE DEF F, T, New, n
<1>t. StaysWithin(F, T, n)
  BY <1>3 DEF StaysWithin
<1>4. PICK h : FoldsSequence(h, F, {}, n) /\ \A s \in SUBSET (1 .. n) : h[s] \in T
  BY <1>2, <1>t, SequenceFoldExists
<1>5. Eq(h)
  <2>1. \A s \in SUBSET (1 .. n) : s # {} => /\ h[s \ {Max(s)}] \in T /\ Max(s) \in 1 .. n
    BY <1>2, <1>4, GreatestOfPart
  <2>2. \A s \in SUBSET (1 .. n) : s # {} =>
          F[<<h[s \ {Max(s)}], Max(s)>>] = New(h[s \ {Max(s)}], mics[Max(s)])
    BY <1>3, <2>1
  <2> QED BY <1>2, <1>4, <2>2 DEF FoldsSequence
<1>6. Eq(X)
  <2> HIDE DEF Eq
  <2> QED BY <1>5
<1>7. \A s \in SUBSET (1 .. n) :
        X[s] = IF s = {} THEN {} ELSE New(X[s \ {Max(s)}], mics[Max(s)])
  <2> HIDE DEF X
  <2> QED BY <1>2, <1>6
<1> HIDE DEF X
<1>8. FoldsWithin(X, F, {}, n, T)
  <2>1. {} \in SUBSET (1 .. n) /\ X[{}] = {}
    BY <1>7
  <2> QED BY <1>2, <1>3, <1>7, <2>1, GreatestOfPart DEF FoldsWithin
<1>9. X[1 .. n] \in T
  <2>1. PICK g : Chains(g, F, {}, n) /\ g[n] = X[1 .. n] /\ \A k \in 0 .. n : g[k] \in T
    BY <1>2, <1>8, <1>t, SequenceFoldChain
  <2>2. n \in 0 .. n
    BY <1>2
  <2> QED BY <2>1, <2>2
<1> QED BY <1>1, <1>2, <1>9 DEF T

(* A sequence has no more elements than places.                            *)
LEMMA FewerThanPlaces ==
  ASSUME NEW S, NEW z \in Seq(S), NEW T \in SUBSET ToSet(z)
  PROVE  IsFiniteSet(T) /\ Cardinality(T) <= Len(z)
<1> DEFINE n == Len(z)
           P == 1 .. n
           Z == ToSet(z)
<1>1. n \in Nat /\ DOMAIN z = P /\ IsFiniteSet(P) /\ Cardinality(P) = n
  <2>1. n \in Nat /\ DOMAIN z = P
    OBVIOUS
  <2> HIDE DEF n
  <2>2. IsFiniteSet(P) /\ Cardinality(P) = IF 1 > n THEN 0 ELSE n - 1 + 1
    BY <2>1, FS_Interval
  <2> QED BY <2>1, <2>2
<1>2. z \in Surjection(P, Z)
  BY <1>1 DEF Surjection, ToSet
<1> HIDE DEF P, Z
<1>3. IsFiniteSet(Z) /\ Cardinality(Z) <= Cardinality(P)
  BY <1>1, <1>2, FS_Surjection
<1>4. T \in SUBSET Z
  BY DEF Z
<1>5. IsFiniteSet(T) /\ Cardinality(T) <= Cardinality(Z)
  BY <1>3, <1>4, FS_Subset
<1>6. Cardinality(T) \in Nat /\ Cardinality(Z) \in Nat
  BY <1>3, <1>5, FS_CardinalityType
<1> QED BY <1>1, <1>3, <1>5, <1>6

LEMMA FirstIsOne ==
  ASSUME NEW S \in SUBSET (DOMAIN Infos)
  PROVE  /\ S = {} => First(S) = NotFound
         /\ S # {} => First(S) \in S /\ \A x \in S : First(S) <= x
<1>1. S \in SUBSET Nat
  BY BackendFacts
<1> QED BY <1>1, MinOf DEF First

(* What is found has enough channels.                                      *)
LEMMA FoundHasEnough ==
  ASSUME NEW name, NEW output, NEW num, Find(name, output, num) # NotFound
  PROVE  Find(name, output, num) \in Enough(output, num)
<1> DEFINE E == Enough(output, num)
           full == {i \in E : Infos[i].name = name}
           part == {i \in E : Has(i, name)}
<1>1. E \in SUBSET (DOMAIN Infos)
  BY DEF Enough
<1>2. full \in SUBSET (DOMAIN Infos) /\ part \in SUBSET (DOMAIN Infos)
  BY <1>1
<1>3. Find(name, output, num) = IF name = "" THEN First(E)
                                ELSE IF full # {} THEN First(full) ELSE First(part)
  BY DEF Find, FindByChannels
<1>4. full \subseteq E /\ part \subseteq E
  OBVIOUS
<1> HIDE DEF E, full, part
<1>5. \A S \in {E, full, part} : First(S) # NotFound => First(S) \in E
  BY <1>1, <1>2, <1>4, FirstIsOne
<1>6. PICK S \in {E, full, part} : Find(name, output, num) = First(S)
  BY <1>3, Zenon
<1>7. First(S) \in E
  BY <1>5, <1>6
<1> QED BY <1>6, <1>7 DEF E

(* The device a line opens is one of the devices there may be.             *)
LEMMA OpenedByLine ==
  ASSUME NEW lines \in Seq(LineType), NEW j \in DOMAIN lines,
         NEW devices \in MayOpen(lines), NEW opens \in BOOLEAN
  PROVE  OpenLine(devices, lines[j], opens) \in MayOpen(lines)
<1> DEFINE line == lines[j]
           i == AskedFor(line)
           mics == AssignMics(devices, line.mics)
           new == [dev |-> i, mics |-> mics,
                   out |-> line.out = 2 /\ \A k \in DOMAIN devices : ~ devices[k].out]
<1>1. OpenLine(devices, line, opens) =
        IF i = NotFound \/ ~ opens \/ Infos[i].in < Len(line.mics) \/ Infos[i].out < line.out
        THEN devices ELSE Append(devices, new)
  BY DEF OpenLine, AskedFor
<1>2. line \in LineType
  BY ElementOfSeq
<1>3. line.mics \in Seq(STRING) /\ line.out \in Nat /\ Len(line.mics) \in Nat
  BY <1>2 DEF LineType
<1>4. mics \subseteq ToSet(line.mics) \ MicsOf(devices)
  BY <1>3, MicsAreOfTheLine
<1>5. mics \subseteq STRING
  BY <1>3, <1>4 DEF ToSet
<1> HIDE DEF line, mics
<1> SUFFICES ASSUME i # NotFound, ~ (Infos[i].in < Len(line.mics)), ~ (Infos[i].out < line.out)
             PROVE  Append(devices, new) \in MayOpen(lines)
  BY <1>1 DEF line
<1>6. i \in DOMAIN Infos
  BY FoundHasEnough DEF AskedFor, Enough
<1> HIDE DEF i
<1>7. Infos[i].in \in Nat /\ Infos[i].out \in Nat
  BY <1>6, BackendFacts
<1>8. Len(line.mics) <= Infos[i].in /\ line.out <= Infos[i].out
  BY <1>3, <1>7
<1>9. /\ new \in OpenDevice /\ new.dev = i /\ new.mics = mics /\ new.out \in BOOLEAN
      /\ new.out => line.out = 2 /\ \A k \in DOMAIN devices : ~ devices[k].out
  BY <1>5, <1>6 DEF OpenDevice
<1> HIDE DEF new
<1>10. GotBy(new, line)
  <2>1. new.out => line.out = 2 /\ Infos[new.dev].out >= 2
    BY <1>7, <1>8, <1>9
  <2> QED BY <1>4, <1>8, <1>9, <2>1 DEF GotBy, i
<1>11. devices \in Seq(OpenDevice) /\ AllGot(devices, lines) /\ Alone(devices)
  BY DEF MayOpen
<1> DEFINE all == Append(devices, new)
<1>12. /\ all \in Seq(OpenDevice) /\ DOMAIN all = 1 .. Len(devices) + 1
       /\ Len(devices) \in Nat /\ DOMAIN devices = 1 .. Len(devices)
       /\ all[Len(devices) + 1] = new
       /\ \A k \in DOMAIN devices : all[k] = devices[k]
  BY <1>9, <1>11
<1> HIDE DEF all
<1>13. \A k \in DOMAIN all : k \in DOMAIN devices \/ k = Len(devices) + 1
  BY <1>12
<1>14. AllGot(all, lines)
  BY <1>10, <1>11, <1>12, <1>13 DEF AllGot, line
<1>15. \A k \in DOMAIN devices : devices[k].mics \cap mics = {} /\ ~ (devices[k].out /\ new.out)
  BY <1>4, <1>9 DEF MicsOf
<1>16. Alone(all)
  <2> SUFFICES ASSUME NEW k \in DOMAIN all, NEW l \in DOMAIN all, k # l
               PROVE  all[k].mics \cap all[l].mics = {} /\ ~ (all[k].out /\ all[l].out)
    BY DEF Alone
  <2>1. CASE k \in DOMAIN devices /\ l \in DOMAIN devices
    BY <1>11, <1>12, <2>1 DEF Alone
  <2>2. CASE k \in DOMAIN devices /\ l = Len(devices) + 1
    BY <1>9, <1>12, <1>15, <2>2
  <2>3. CASE k = Len(devices) + 1 /\ l \in DOMAIN devices
    BY <1>9, <1>12, <1>15, <2>3
  <2> QED BY <1>13, <2>1, <2>2, <2>3
<1> QED BY <1>12, <1>14, <1>16 DEF MayOpen, all

(* Whatever lines there are, what they open is all theirs and shares       *)
(* nothing.                                                                *)
LEMMA OpenedByLines ==
  ASSUME NEW lines \in Seq(LineType), NEW opens \in [DOMAIN lines -> BOOLEAN]
  PROVE  OpenAll(lines, opens) \in MayOpen(lines)
<1> DEFINE T == MayOpen(lines)
           n == Len(lines)
           order == [k \in DOMAIN lines |-> k]
           New(t, k) == OpenLine(t, lines[k], opens[k])
           F == [p \in T \X (1 .. n) |-> New(p[1], p[2])]
           Eq(h) == h = [s \in SUBSET (DOMAIN order) |->
                           IF s = {} THEN <<>> ELSE New(h[s \ {Max(s)}], order[Max(s)])]
           X == CHOOSE h : Eq(h)
<1>1. OpenAll(lines, opens) = X[DOMAIN order]
  BY DEF OpenAll, FoldLeft, MapThenFoldSet
<1>2. /\ n \in Nat /\ DOMAIN order = 1 .. n /\ DOMAIN lines = 1 .. n /\ <<>> \in T
      /\ \A k \in 1 .. n : order[k] = k
  <2>1. <<>> \in Seq(OpenDevice) /\ DOMAIN <<>> = {}
    OBVIOUS
  <2>2. <<>> \in T
    BY <2>1 DEF MayOpen, AllGot, Alone
  <2> QED BY <2>2
<1>3. \A t \in T, k \in 1 .. n : New(t, k) \in T
  <2> SUFFICES ASSUME NEW t \in T, NEW k \in 1 .. n PROVE New(t, k) \in T
    BY Zenon
  <2>1. k \in DOMAIN lines /\ opens[k] \in BOOLEAN
    BY <1>2
  <2> QED BY <2>1, OpenedByLine
<1>4. \A t \in T, k \in 1 .. n : F[<<t, k>>] = New(t, k) /\ F[<<t, k>>] \in T
  BY <1>3
<1> HIDE DEF F, T, New, n, order
<1>5. StaysWithin(F, T, n)
  BY <1>4 DEF StaysWithin
<1>6. PICK h : FoldsSequence(h, F, <<>>, n) /\ \A s \in SUBSET (1 .. n) : h[s] \in T
  BY <1>2, <1>5, SequenceFoldExists
<1>7. Eq(h)
  <2>1. \A s \in SUBSET (1 .. n) : s # {} =>
          F[<<h[s \ {Max(s)}], Max(s)>>] = New(h[s \ {Max(s)}], order[Max(s)])
    <3> SUFFICES ASSUME NEW s \in SUBSET (1 .. n), s # {}
                 PROVE  F[<<h[s \ {Max(s)}], Max(s)>>] = New(h[s \ {Max(s)}], order[Max(s)])
      OBVIOUS
    <3>1. Max(s) \in 1 .. n /\ s \ {Max(s)} \in SUBSET (1 .. n)
      BY <1>2, GreatestOfPart
    <3>2. order[Max(s)] = Max(s) /\ h[s \ {Max(s)}] \in T
      BY <1>2, <1>6, <3>1
    <3> QED BY <1>4, <3>1, <3>2
  <2> QED BY <1>2, <1>6, <2>1 DEF FoldsSequence
<1>8. Eq(X)
  <2> HIDE DEF Eq
  <2> QED BY <1>7
<1>9. \A s \in SUBSET (1 .. n) :
        X[s] = IF s = {} THEN <<>> ELSE New(X[s \ {Max(s)}], order[Max(s)])
  <2> HIDE DEF X
  <2> QED BY <1>2, <1>8
<1> HIDE DEF X
<1>10. FoldsWithin(X, F, <<>>, n, T)
  <2>1. {} \in SUBSET (1 .. n) /\ X[{}] = <<>>
    BY <1>9
  <2>2. ASSUME NEW s \in SUBSET (1 .. n), s # {}, X[s \ {Max(s)}] \in T
        PROVE  X[s] = F[<<X[s \ {Max(s)}], Max(s)>>]
    <3>1. Max(s) \in 1 .. n
      BY <1>2, <2>2, GreatestOfPart
    <3>2. order[Max(s)] = Max(s) /\ X[s] = New(X[s \ {Max(s)}], order[Max(s)])
      BY <1>2, <1>9, <2>2, <3>1
    <3> QED BY <1>4, <2>2, <3>1, <3>2
  <2> QED BY <2>1, <2>2 DEF FoldsWithin
<1>11. PICK g : Chains(g, F, <<>>, n) /\ g[n] = X[1 .. n] /\ \A k \in 0 .. n : g[k] \in T
  BY <1>2, <1>5, <1>10, SequenceFoldChain
<1>12. n \in 0 .. n
  BY <1>2
<1> QED BY <1>1, <1>2, <1>11, <1>12 DEF T

(* The colours that are on a device, one for one.                          *)
OnDevice(i) == {n \in 2 .. Len(Channels) : pos[n] = i - 1}
OfDevice(mics, i) ==
  \A m \in DOMAIN mics : \E n \in DOMAIN Colors : pos[n + 1] = i - 1 /\ mics[m] = Colors[n]

LEMMA MicsAreOfTheDevice ==
  ASSUME NEW i \in DOMAIN Infos
  PROVE  /\ MicsFor(i) \in Seq(STRING) /\ OfDevice(MicsFor(i), i)
         /\ IsFiniteSet(OnDevice(i)) /\ Len(MicsFor(i)) <= Cardinality(OnDevice(i))
<1> DEFINE T == {mics \in Seq(STRING) : OfDevice(mics, i)}
           n == Len(Colors)
           order == [k \in DOMAIN Colors |-> k]
           New(t, k) == IF pos[k + 1] = i - 1 THEN Append(t, Colors[k]) ELSE t
           F == [p \in T \X (1 .. n) |-> New(p[1], p[2])]
           Eq(h) == h = [s \in SUBSET (DOMAIN order) |->
                           IF s = {} THEN <<>> ELSE New(h[s \ {Max(s)}], order[Max(s)])]
           X == CHOOSE h : Eq(h)
<1>1. MicsFor(i) = X[DOMAIN order]
  BY DEF MicsFor, FoldLeft, MapThenFoldSet
<1>2. /\ n \in Nat /\ DOMAIN order = 1 .. n /\ DOMAIN Colors = 1 .. n /\ <<>> \in T
      /\ \A k \in 1 .. n : order[k] = k
  <2>1. <<>> \in Seq(STRING) /\ DOMAIN <<>> = {}
    OBVIOUS
  <2>2. <<>> \in T
    BY <2>1 DEF OfDevice
  <2> QED BY <2>2, ColorFacts
<1>3. \A t \in T, k \in 1 .. n : New(t, k) \in T
  <2> SUFFICES ASSUME NEW t \in T, NEW k \in 1 .. n, pos[k + 1] = i - 1
               PROVE  Append(t, Colors[k]) \in T
    BY Zenon
  <2>1. k \in DOMAIN Colors /\ Colors[k] \in STRING
    BY <1>2, ColorFacts
  <2> DEFINE all == Append(t, Colors[k])
  <2>2. /\ all \in Seq(STRING) /\ DOMAIN all = 1 .. Len(t) + 1 /\ DOMAIN t = 1 .. Len(t)
        /\ Len(t) \in Nat /\ all[Len(t) + 1] = Colors[k] /\ \A m \in DOMAIN t : all[m] = t[m]
    BY <2>1
  <2> HIDE DEF all
  <2>3. \A m \in DOMAIN all : m \in DOMAIN t \/ m = Len(t) + 1
    BY <2>2
  <2>4. OfDevice(all, i)
    BY <2>1, <2>2, <2>3 DEF OfDevice
  <2> QED BY <2>2, <2>4 DEF all
<1>4. \A t \in T, k \in 1 .. n : F[<<t, k>>] = New(t, k) /\ F[<<t, k>>] \in T
  BY <1>3
<1> HIDE DEF F, T, New, n, order
<1>5. StaysWithin(F, T, n)
  BY <1>4 DEF StaysWithin
<1>6. PICK h : FoldsSequence(h, F, <<>>, n) /\ \A s \in SUBSET (1 .. n) : h[s] \in T
  BY <1>2, <1>5, SequenceFoldExists
<1>7. Eq(h)
  <2>1. \A s \in SUBSET (1 .. n) : s # {} =>
          F[<<h[s \ {Max(s)}], Max(s)>>] = New(h[s \ {Max(s)}], order[Max(s)])
    <3> SUFFICES ASSUME NEW s \in SUBSET (1 .. n), s # {}
                 PROVE  F[<<h[s \ {Max(s)}], Max(s)>>] = New(h[s \ {Max(s)}], order[Max(s)])
      OBVIOUS
    <3>1. Max(s) \in 1 .. n /\ s \ {Max(s)} \in SUBSET (1 .. n)
      BY <1>2, GreatestOfPart
    <3>2. order[Max(s)] = Max(s) /\ h[s \ {Max(s)}] \in T
      BY <1>2, <1>6, <3>1
    <3> QED BY <1>4, <3>1, <3>2
  <2> QED BY <1>2, <1>6, <2>1 DEF FoldsSequence
<1>8. Eq(X)
  <2> HIDE DEF Eq
  <2> QED BY <1>7
<1>9. \A s \in SUBSET (1 .. n) :
        X[s] = IF s = {} THEN <<>> ELSE New(X[s \ {Max(s)}], order[Max(s)])
  <2> HIDE DEF X
  <2> QED BY <1>2, <1>8
<1> HIDE DEF X
<1>10. FoldsWithin(X, F, <<>>, n, T)
  <2>1. {} \in SUBSET (1 .. n) /\ X[{}] = <<>>
    BY <1>9
  <2>2. ASSUME NEW s \in SUBSET (1 .. n), s # {}, X[s \ {Max(s)}] \in T
        PROVE  X[s] = F[<<X[s \ {Max(s)}], Max(s)>>]
    <3>1. Max(s) \in 1 .. n
      BY <1>2, <2>2, GreatestOfPart
    <3>2. order[Max(s)] = Max(s) /\ X[s] = New(X[s \ {Max(s)}], order[Max(s)])
      BY <1>2, <1>9, <2>2, <3>1
    <3> QED BY <1>4, <2>2, <3>1, <3>2
  <2> QED BY <2>1, <2>2 DEF FoldsWithin
<1>11. PICK g : Chains(g, F, <<>>, n) /\ g[n] = X[1 .. n] /\ \A k \in 0 .. n : g[k] \in T
  BY <1>2, <1>5, <1>10, SequenceFoldChain
<1>12. n \in 0 .. n
  BY <1>2
<1> DEFINE On(k) == {x \in 2 .. k + 1 : pos[x] = i - 1}
           N == {k \in Nat : k <= n => Len(g[k]) <= Cardinality(On(k)) /\ IsFiniteSet(On(k))}
<1>13. 0 \in N
  <2>1. On(0) = {}
    OBVIOUS
  <2>2. g[0] = <<>>
    BY <1>11 DEF Chains
  <2> QED BY <2>1, <2>2, FS_EmptySet
<1>14. ASSUME NEW k \in Nat, k \in N PROVE k + 1 \in N
  <2> SUFFICES ASSUME k + 1 <= n
               PROVE  Len(g[k + 1]) <= Cardinality(On(k + 1)) /\ IsFiniteSet(On(k + 1))
    OBVIOUS
  <2>1. k + 1 \in 1 .. n /\ k \in 0 .. n /\ (k + 1) - 1 = k /\ k <= n
    BY <1>2
  <2>2. g[k] \in T /\ g[k + 1] = F[<<g[k], k + 1>>]
    BY <1>11, <2>1 DEF Chains
  <2>3. g[k + 1] = New(g[k], k + 1)
    BY <1>4, <2>1, <2>2
  <2>4. Len(g[k]) \in Nat /\ Len(g[k]) <= Cardinality(On(k)) /\ IsFiniteSet(On(k))
    BY <1>14, <2>1, <2>2 DEF T
  <2>5. Cardinality(On(k)) \in Nat
    BY <2>4, FS_CardinalityType
  <2>6. CASE pos[(k + 1) + 1] = i - 1
    <3>1. On(k + 1) = On(k) \cup {k + 2} /\ k + 2 \notin On(k)
      BY <2>6
    <3>2. IsFiniteSet(On(k + 1)) /\ Cardinality(On(k + 1)) = Cardinality(On(k)) + 1
      <4> HIDE DEF On
      <4>1. PICK x : x = k + 2
        OBVIOUS
      <4>2. x \notin On(k) /\ On(k + 1) = On(k) \cup {x}
        BY <3>1, <4>1
      <4> QED BY <2>4, <4>2, FS_AddElement
    <3>3. g[k + 1] = Append(g[k], Colors[k + 1])
      BY <2>3, <2>6 DEF New
    <3>4. Len(g[k + 1]) = Len(g[k]) + 1
      BY <2>2, <3>3 DEF T
    <3> QED BY <2>4, <2>5, <3>2, <3>4
  <2>7. CASE pos[(k + 1) + 1] # i - 1
    <3>1. On(k + 1) = On(k)
      BY <2>7
    <3>2. g[k + 1] = g[k]
      BY <2>3, <2>7 DEF New
    <3> QED BY <2>4, <3>1, <3>2
  <2> QED BY <2>6, <2>7
<1>15. n \in N
  <2> HIDE DEF N
  <2> QED BY <1>2, <1>13, <1>14, Induction
<1>16. Len(g[n]) <= Cardinality(On(n)) /\ IsFiniteSet(On(n))
  BY <1>2, <1>15
<1>17. On(n) = OnDevice(i)
  BY ColorFacts DEF OnDevice, n
<1> HIDE DEF On, N
<1>18. MicsFor(i) = g[n] /\ g[n] \in T
  BY <1>1, <1>2, <1>11, <1>12
<1> QED BY <1>16, <1>17, <1>18 DEF T

(* A line that the screen writes is for the colours of a device, or for    *)
(* its output.                                                             *)
IsLineOf(line, i) ==
  \/ line = Line(i, MicsFor(i), 0) /\ MicsFor(i) # <<>>
  \/ line = Line(i, <<>>, 2) /\ pos[1] = i - 1
ScreenLines ==
  {lines \in Seq(LineType) : \A k \in DOMAIN lines : \E i \in DOMAIN Infos : IsLineOf(lines[k], i)}

LEMMA ScreenLinesJoined ==
  ASSUME NEW t \in ScreenLines, NEW u \in ScreenLines
  PROVE  t \o u \in ScreenLines
<1> DEFINE all == t \o u
           Good(line) == \E i \in DOMAIN Infos : IsLineOf(line, i)
<1>1. /\ t \in Seq(LineType) /\ u \in Seq(LineType)
      /\ \A k \in DOMAIN t : Good(t[k])
      /\ \A k \in DOMAIN u : Good(u[k])
  BY DEF ScreenLines
<1> HIDE DEF Good
<1>2. /\ all \in Seq(LineType) /\ DOMAIN all = 1 .. Len(t) + Len(u)
      /\ Len(t) \in Nat /\ Len(u) \in Nat /\ DOMAIN t = 1 .. Len(t) /\ DOMAIN u = 1 .. Len(u)
      /\ \A k \in DOMAIN all : all[k] = IF k <= Len(t) THEN t[k] ELSE u[k - Len(t)]
  BY <1>1
<1> HIDE DEF all
<1>3. ASSUME NEW k \in DOMAIN all PROVE Good(all[k])
  <2>1. CASE k <= Len(t)
    <3>1. k \in DOMAIN t /\ all[k] = t[k]
      BY <1>2, <2>1
    <3> QED BY <1>1, <3>1
  <2>2. CASE ~ (k <= Len(t))
    <3>1. k - Len(t) \in DOMAIN u /\ all[k] = u[k - Len(t)]
      BY <1>2, <2>2
    <3> QED BY <1>1, <3>1
  <2> QED BY <2>1, <2>2
<1> QED BY <1>2, <1>3 DEF all, Good, ScreenLines

LEMMA OneScreenLine ==
  ASSUME NEW i \in DOMAIN Infos, NEW line, IsLineOf(line, i)
  PROVE  <<line>> \in ScreenLines
<1>1. Infos[i].flex \in STRING /\ MicsFor(i) \in Seq(STRING)
  BY BackendFacts, MicsAreOfTheDevice
<1>2. line \in LineType
  <2>1. CASE line = Line(i, MicsFor(i), 0)
    BY <1>1, <2>1 DEF Line, LineType
  <2>2. CASE line = Line(i, <<>>, 2)
    <3>1. <<>> \in Seq(STRING)
      OBVIOUS
    <3> QED BY <1>1, <2>2, <3>1 DEF Line, LineType
  <2> QED BY <2>1, <2>2 DEF IsLineOf
<1>3. <<line>> \in Seq(LineType) /\ DOMAIN <<line>> = {1} /\ <<line>>[1] = line
  BY <1>2
<1> QED BY <1>3 DEF ScreenLines

LEMMA TheScreenWrites == DevConf \in ScreenLines
<1> DEFINE T == ScreenLines
           n == Len(Infos)
           order == [k \in DOMAIN Infos |-> k]
           New(t, k) == t \o LinesOf(k)
           F == [p \in T \X (1 .. n) |-> New(p[1], p[2])]
           Eq(h) == h = [s \in SUBSET (DOMAIN order) |->
                           IF s = {} THEN <<>> ELSE New(h[s \ {Max(s)}], order[Max(s)])]
           X == CHOOSE h : Eq(h)
<1>1. DevConf = X[DOMAIN order]
  BY DEF DevConf, FoldLeft, MapThenFoldSet
<1>2. /\ n \in Nat /\ DOMAIN order = 1 .. n /\ DOMAIN Infos = 1 .. n /\ <<>> \in T
      /\ \A k \in 1 .. n : order[k] = k
  <2>1. <<>> \in Seq(LineType) /\ DOMAIN <<>> = {}
    OBVIOUS
  <2>2. <<>> \in T
    BY <2>1 DEF ScreenLines
  <2> QED BY <2>2, BackendFacts
<1>3. \A t \in T, k \in 1 .. n : New(t, k) \in T
  <2> SUFFICES ASSUME NEW t \in T, NEW k \in 1 .. n PROVE t \o LinesOf(k) \in ScreenLines
    BY Zenon
  <2> DEFINE a == IF MicsFor(k) = <<>> THEN <<>> ELSE <<Line(k, MicsFor(k), 0)>>
             b == IF pos[1] = k - 1 THEN <<Line(k, <<>>, 2)>> ELSE <<>>
  <2>1. k \in DOMAIN Infos /\ <<>> \in ScreenLines
    BY <1>2
  <2>2. a \in ScreenLines
    <3>1. CASE MicsFor(k) # <<>>
      <4>1. IsLineOf(Line(k, MicsFor(k), 0), k)
        BY <3>1 DEF IsLineOf
      <4> QED BY <2>1, <3>1, <4>1, OneScreenLine
    <3> QED BY <2>1, <3>1
  <2>3. b \in ScreenLines
    <3>1. CASE pos[1] = k - 1
      <4>1. IsLineOf(Line(k, <<>>, 2), k)
        BY <3>1 DEF IsLineOf
      <4> QED BY <2>1, <3>1, <4>1, OneScreenLine
    <3> QED BY <2>1, <3>1
  <2>4. LinesOf(k) = a \o b
    BY DEF LinesOf
  <2> HIDE DEF a, b
  <2>5. LinesOf(k) \in ScreenLines
    BY <2>2, <2>3, <2>4, ScreenLinesJoined
  <2> QED BY <2>5, ScreenLinesJoined
<1>4. \A t \in T, k \in 1 .. n : F[<<t, k>>] = New(t, k) /\ F[<<t, k>>] \in T
  BY <1>3
<1> HIDE DEF F, T, New, n, order
<1>5. StaysWithin(F, T, n)
  BY <1>4 DEF StaysWithin
<1>6. PICK h : FoldsSequence(h, F, <<>>, n) /\ \A s \in SUBSET (1 .. n) : h[s] \in T
  BY <1>2, <1>5, SequenceFoldExists
<1>7. Eq(h)
  <2>1. \A s \in SUBSET (1 .. n) : s # {} =>
          F[<<h[s \ {Max(s)}], Max(s)>>] = New(h[s \ {Max(s)}], order[Max(s)])
    <3> SUFFICES ASSUME NEW s \in SUBSET (1 .. n), s # {}
                 PROVE  F[<<h[s \ {Max(s)}], Max(s)>>] = New(h[s \ {Max(s)}], order[Max(s)])
      OBVIOUS
    <3>1. Max(s) \in 1 .. n /\ s \ {Max(s)} \in SUBSET (1 .. n)
      BY <1>2, GreatestOfPart
    <3>2. order[Max(s)] = Max(s) /\ h[s \ {Max(s)}] \in T
      BY <1>2, <1>6, <3>1
    <3> QED BY <1>4, <3>1, <3>2
  <2> QED BY <1>2, <1>6, <2>1 DEF FoldsSequence
<1>8. Eq(X)
  <2> HIDE DEF Eq
  <2> QED BY <1>7
<1>9. \A s \in SUBSET (1 .. n) :
        X[s] = IF s = {} THEN <<>> ELSE New(X[s \ {Max(s)}], order[Max(s)])
  <2> HIDE DEF X
  <2> QED BY <1>2, <1>8
<1> HIDE DEF X
<1>10. FoldsWithin(X, F, <<>>, n, T)
  <2>1. {} \in SUBSET (1 .. n) /\ X[{}] = <<>>
    BY <1>9
  <2>2. ASSUME NEW s \in SUBSET (1 .. n), s # {}, X[s \ {Max(s)}] \in T
        PROVE  X[s] = F[<<X[s \ {Max(s)}], Max(s)>>]
    <3>1. Max(s) \in 1 .. n
      BY <1>2, <2>2, GreatestOfPart
    <3>2. order[Max(s)] = Max(s) /\ X[s] = New(X[s \ {Max(s)}], order[Max(s)])
      BY <1>2, <1>9, <2>2, <3>1
    <3> QED BY <1>4, <2>2, <3>1, <3>2
  <2> QED BY <2>1, <2>2 DEF FoldsWithin
<1>11. PICK g : Chains(g, F, <<>>, n) /\ g[n] = X[1 .. n] /\ \A k \in 0 .. n : g[k] \in T
  BY <1>2, <1>5, <1>10, SequenceFoldChain
<1>12. n \in 0 .. n
  BY <1>2
<1> QED BY <1>1, <1>2, <1>11, <1>12 DEF T

(* A device that has the channels is found by the name that is written.    *)
LEMMA FoundByFlex ==
  ASSUME FlexIsUnique, NEW output, NEW num, NEW i \in Enough(output, num)
  PROVE  Find(Infos[i].flex, output, num) = i
<1> DEFINE name == Infos[i].flex
           All == Enough(FALSE, 0)
           Some == Enough(output, num)
           full(S) == {j \in S : Infos[j].name = name}
           part(S) == {j \in S : Has(j, name)}
<1>1. i \in DOMAIN Infos /\ Some \in SUBSET (DOMAIN Infos) /\ All = DOMAIN Infos
  BY BackendFacts DEF Enough
<1>2. name # ""
  BY <1>1, AudioDevicesAssumption, Zenon
<1>3. /\ Find(name, FALSE, 0) = IF full(All) # {} THEN First(full(All)) ELSE First(part(All))
      /\ Find(name, output, num) =
           IF full(Some) # {} THEN First(full(Some)) ELSE First(part(Some))
  BY <1>2, Zenon DEF Find
<1>4. Find(name, FALSE, 0) = i
  BY <1>1 DEF FlexIsUnique
<1>5. /\ full(All) \in SUBSET (DOMAIN Infos) /\ full(Some) \in SUBSET full(All)
      /\ part(All) \in SUBSET (DOMAIN Infos) /\ part(Some) \in SUBSET part(All)
      /\ i \in full(All) => i \in full(Some)
      /\ i \in part(All) => i \in part(Some)
  BY <1>1
<1>6. i \in Nat /\ i # NotFound /\ \A x \in DOMAIN Infos : x \in Nat
  BY <1>1, BackendFacts DEF NotFound
<1> HIDE DEF All, Some, full, part, name
<1>7. ASSUME NEW S \in SUBSET (DOMAIN Infos), NEW U \in SUBSET S, First(S) = i, i \in S => i \in U
      PROVE  U # {} /\ First(U) = i
  <2>1. i \in S /\ \A x \in S : i <= x
    BY <1>6, <1>7, FirstIsOne
  <2>2. i \in U /\ First(U) \in U /\ First(U) <= i
    BY <1>7, <2>1, FirstIsOne
  <2>3. i <= First(U) /\ First(U) \in Nat
    BY <1>6, <2>1, <2>2
  <2> QED BY <1>6, <2>2, <2>3
<1>8. CASE full(All) # {}
  <2>1. First(full(All)) = i
    BY <1>3, <1>4, <1>8
  <2>2. full(Some) # {} /\ First(full(Some)) = i
    BY <1>5, <1>7, <2>1
  <2> QED BY <1>3, <2>2 DEF name
<1>9. CASE full(All) = {}
  <2>1. First(part(All)) = i /\ full(Some) = {}
    BY <1>3, <1>4, <1>5, <1>9
  <2>2. First(part(Some)) = i
    BY <1>5, <1>7, <2>1
  <2> QED BY <1>3, <2>1, <2>2 DEF name
<1> QED BY <1>8, <1>9

(* What may be open uses no channel twice and no more than there are.      *)
LEMMA MayOpenMeans ==
  ASSUME NEW lines \in Seq(LineType), openDevices \in MayOpen(lines)
  PROVE  OneDevicePerChannel
<1>1. openDevices \in Seq(OpenDevice) /\ AllGot(openDevices, lines) /\ Alone(openDevices)
  BY DEF MayOpen
<1>2. ASSUME NEW k \in DOMAIN openDevices, NEW l \in DOMAIN openDevices, NEW name,
             IsChannel(openDevices[k], name), IsChannel(openDevices[l], name)
      PROVE  k = l
  BY <1>1, <1>2 DEF IsChannel, Alone
<1>3. ASSUME NEW k \in DOMAIN openDevices
      PROVE  /\ Cardinality(openDevices[k].mics) <= Infos[openDevices[k].dev].in
             /\ openDevices[k].out => Infos[openDevices[k].dev].out >= 2
  <2> DEFINE d == openDevices[k]
  <2>1. PICK j \in DOMAIN lines : GotBy(d, lines[j])
    BY <1>1 DEF AllGot
  <2>2. d \in OpenDevice /\ lines[j] \in LineType
    BY <1>1, ElementOfSeq
  <2> HIDE DEF d
  <2>3. /\ lines[j].mics \in Seq(STRING) /\ d.mics \in SUBSET ToSet(lines[j].mics)
        /\ Len(lines[j].mics) <= Infos[d.dev].in /\ Infos[d.dev].in \in Nat
    BY <2>1, <2>2, BackendFacts DEF GotBy, LineType, OpenDevice
  <2>4. Cardinality(d.mics) <= Len(lines[j].mics) /\ IsFiniteSet(d.mics)
    BY <2>3, FewerThanPlaces
  <2>5. Cardinality(d.mics) \in Nat /\ Len(lines[j].mics) \in Nat
    BY <2>3, <2>4, FS_CardinalityType
  <2>6. Cardinality(d.mics) <= Infos[d.dev].in
    BY <2>3, <2>4, <2>5
  <2>7. d.out => Infos[d.dev].out >= 2
    BY <2>1 DEF GotBy
  <2> QED BY <2>6, <2>7 DEF d
<1> QED BY <1>2, <1>3 DEF OneDevicePerChannel

(* What the screen reads from devices: none for a channel that no device   *)
(* has, and else one that has it.                                          *)
LEMMA Loaded ==
  ASSUME NEW devices \in Seq(OpenDevice)
  PROVE  /\ Load(devices) \in [DOMAIN Channels -> Int]
         /\ \A n \in DOMAIN Channels :
              \/ /\ Load(devices)[n] = Unassigned
                 /\ \A k \in DOMAIN devices : ~ IsChannel(devices[k], Channels[n])
              \/ \E k \in DOMAIN devices : /\ IsChannel(devices[k], Channels[n])
                                           /\ Load(devices)[n] = devices[k].dev - 1
<1> DEFINE with(n) == {k \in DOMAIN devices : IsChannel(devices[k], Channels[n])}
<1>1. Load(devices) = [n \in DOMAIN Channels |->
                         IF with(n) = {} THEN Unassigned ELSE devices[Max(with(n))].dev - 1]
  BY DEF Load
<1>2. Len(devices) \in Nat /\ DOMAIN devices = 1 .. Len(devices)
  OBVIOUS
<1>3. ASSUME NEW n, with(n) # {} PROVE Max(with(n)) \in with(n)
  <2>1. with(n) \in SUBSET (1 .. Len(devices))
    BY <1>2
  <2> HIDE DEF with
  <2> QED BY <1>2, <1>3, <2>1, GreatestOfPart
<1>4. \A k \in DOMAIN devices : devices[k].dev \in Int
  <2>1. \A k \in DOMAIN devices : devices[k] \in OpenDevice
    OBVIOUS
  <2>2. \A k \in DOMAIN devices : devices[k].dev \in DOMAIN Infos
    BY <2>1 DEF OpenDevice
  <2> QED BY <2>2, BackendFacts
<1>5. ASSUME NEW n \in DOMAIN Channels
      PROVE  /\ Load(devices)[n] \in Int
             /\ \/ /\ Load(devices)[n] = Unassigned
                   /\ \A k \in DOMAIN devices : ~ IsChannel(devices[k], Channels[n])
                \/ \E k \in DOMAIN devices : /\ IsChannel(devices[k], Channels[n])
                                             /\ Load(devices)[n] = devices[k].dev - 1
  <2>1. CASE with(n) = {}
    <3>1. Load(devices)[n] = Unassigned
      BY <1>1, <2>1
    <3> QED BY <2>1, <3>1 DEF Unassigned
  <2>2. CASE with(n) # {}
    <3>1. Load(devices)[n] = devices[Max(with(n))].dev - 1 /\ Max(with(n)) \in with(n)
      BY <1>1, <1>3, <2>2
    <3>2. PICK k \in DOMAIN devices : k = Max(with(n)) /\ IsChannel(devices[k], Channels[n])
      BY <3>1
    <3>3. Load(devices)[n] = devices[k].dev - 1 /\ devices[k].dev \in Int
      BY <1>4, <3>1, <3>2
    <3>4. Load(devices)[n] \in Int
      BY <3>3
    <3> QED BY <3>2, <3>3, <3>4, Zenon
  <2> QED BY <2>1, <2>2
<1>6. Load(devices) = [n \in DOMAIN Channels |-> Load(devices)[n]]
  BY <1>1
<1> QED BY <1>5, <1>6

(* If each device has the channels that are wanted of it, what is open     *)
(* after the lines were read is where it was put.                          *)
AbleNow ==
  \A i \in DOMAIN Infos : /\ Cardinality(OnDevice(i)) <= Infos[i].in
                          /\ pos[1] = i - 1 => Infos[i].out >= 2

LEMMA OpenWhereChosen ==
  ASSUME FlexIsUnique, AbleNow, NEW devices \in MayOpen(DevConf), NEW k \in DOMAIN devices,
         NEW n \in DOMAIN Channels, IsChannel(devices[k], Channels[n])
  PROVE  pos[n] = devices[k].dev - 1
<1> DEFINE d == devices[k]
<1>1. AllGot(devices, DevConf) /\ DevConf \in ScreenLines
  BY TheScreenWrites DEF MayOpen
<1>2. PICK j \in DOMAIN DevConf : GotBy(d, DevConf[j])
  BY <1>1 DEF AllGot
<1>3. PICK i \in DOMAIN Infos : IsLineOf(DevConf[j], i)
  BY <1>1 DEF ScreenLines
<1> DEFINE line == DevConf[j]
<1>4. IsChannel(d, Channels[n])
  OBVIOUS
<1>5. Infos[i].in \in Nat /\ Infos[i].out \in Nat
  BY BackendFacts
<1> HIDE DEF d, line
<1>6. GotBy(d, line) /\ IsLineOf(line, i)
  BY <1>2, <1>3 DEF line
<1>7. CASE n = 1
  <2>1. d.out /\ line.out = 2
    BY <1>4, <1>6, <1>7, ColorFacts DEF IsChannel, GotBy
  <2>2. line = Line(i, <<>>, 2) /\ pos[1] = i - 1
    <3>1. Line(i, MicsFor(i), 0).out = 0
      BY DEF Line
    <3> QED BY <1>6, <2>1, <3>1 DEF IsLineOf
  <2>3. line.dev = Infos[i].flex /\ line.mics = <<>>
    BY <2>2 DEF Line
  <2>4. i \in Enough(TRUE, 2)
    BY <1>5, <2>2 DEF AbleNow, Enough
  <2>5. AskedFor(line) = i
    BY <2>1, <2>3, <2>4, FoundByFlex DEF AskedFor
  <2> QED BY <1>6, <1>7, <2>2, <2>5 DEF GotBy, d
<1>8. CASE n # 1
  <2>1. n - 1 \in DOMAIN Colors /\ Channels[n] = Colors[n - 1] /\ (n - 1) + 1 = n
    BY <1>8, ColorFacts
  <2>2. Colors[n - 1] \in d.mics
    BY <1>4, <2>1, ColorFacts DEF IsChannel
  <2>3. Colors[n - 1] \in ToSet(line.mics)
    BY <1>6, <2>2 DEF GotBy
  <2>4. line = Line(i, MicsFor(i), 0) /\ MicsFor(i) # <<>>
    <3>1. CASE line = Line(i, <<>>, 2)
      <4>1. line.mics = <<>>
        BY <3>1 DEF Line
      <4> QED BY <2>3, <4>1 DEF ToSet
    <3> QED BY <1>6, <3>1 DEF IsLineOf
  <2>5. line.dev = Infos[i].flex /\ line.mics = MicsFor(i)
    BY <2>4 DEF Line
  <2>6. /\ MicsFor(i) \in Seq(STRING) /\ OfDevice(MicsFor(i), i)
        /\ IsFiniteSet(OnDevice(i)) /\ Len(MicsFor(i)) <= Cardinality(OnDevice(i))
    BY MicsAreOfTheDevice
  <2>7. PICK m \in DOMAIN MicsFor(i) : MicsFor(i)[m] = Colors[n - 1]
    BY <2>3, <2>5 DEF ToSet
  <2>8. PICK o \in DOMAIN Colors : pos[o + 1] = i - 1 /\ MicsFor(i)[m] = Colors[o]
    BY <2>6 DEF OfDevice
  <2>9. o = n - 1
    BY <2>1, <2>7, <2>8, ColorFacts
  <2>10. pos[n] = i - 1
    BY <2>1, <2>8, <2>9
  <2>11. i \in Enough(FALSE, Len(MicsFor(i)))
    <3>1. Cardinality(OnDevice(i)) <= Infos[i].in
      BY DEF AbleNow
    <3>2. Cardinality(OnDevice(i)) \in Nat /\ Len(MicsFor(i)) \in Nat
      BY <2>6, FS_CardinalityType
    <3>3. Infos[i].in >= Len(MicsFor(i))
      BY <1>5, <2>6, <3>1, <3>2
    <3> QED BY <3>3 DEF Enough
  <2>12. AskedFor(line) = i
    BY <2>4, <2>5, <2>11, FoundByFlex DEF AskedFor
  <2> QED BY <1>6, <2>10, <2>12 DEF GotBy, d
<1> QED BY <1>7, <1>8

LEMMA SavedAsChosen ==
  ASSUME FlexIsUnique, AbleNow, pos \in [DOMAIN Channels -> Int],
         NEW devices \in MayOpen(DevConf), Verify(pos, devices)
  PROVE  Load(devices) = pos
<1>1. devices \in Seq(OpenDevice)
  BY DEF MayOpen
<1>2. ASSUME NEW n \in DOMAIN Channels PROVE Load(devices)[n] = pos[n]
  <2>1. CASE Load(devices)[n] = Unassigned
             /\ \A k \in DOMAIN devices : ~ IsChannel(devices[k], Channels[n])
    <3>1. pos[n] = Unassigned
      BY <2>1 DEF Verify
    <3> QED BY <2>1, <3>1
  <2>2. CASE \E k \in DOMAIN devices : /\ IsChannel(devices[k], Channels[n])
                                      /\ Load(devices)[n] = devices[k].dev - 1
    BY <2>2, OpenWhereChosen
  <2> QED BY <1>1, <2>1, <2>2, Loaded
<1>3. Load(devices) \in [DOMAIN Channels -> Int]
  BY <1>1, Loaded
<1> QED BY <1>2, <1>3

(* What is open was opened by some lines, and a channel that was chosen    *)
(* and saved is open there.                                                *)
DevicesInv ==
  /\ \E lines \in Seq(LineType) : openDevices \in MayOpen(lines)
  /\ pos \in [DOMAIN Channels -> Int] /\ column \in 0 .. Len(Channels) - 1
  /\ ChosenIsOpened

LEMMA DevicesInvMeans == DevicesInv => DevicesAsChosen
BY MayOpenMeans DEF DevicesInv, DevicesAsChosen

LEMMA DevicesInvInit == DevicesInit => DevicesInv
<1> SUFFICES ASSUME DevicesInit PROVE DevicesInv
  OBVIOUS
<1>1. PICK opens \in [DOMAIN config -> BOOLEAN] : openDevices = OpenAll(config, opens)
  BY DEF DevicesInit
<1>2. config \in Seq(LineType)
  BY LinesOfFiles DEF DevicesInit
<1>3. openDevices \in MayOpen(config)
  BY <1>1, <1>2, OpenedByLines
<1>4. pos \in [DOMAIN Channels -> Int] /\ column \in 0 .. Len(Channels) - 1
  BY ColorFacts DEF DevicesInit, Unassigned
<1>5. ChosenIsOpened
  BY DEF DevicesInit, ChosenIsOpened
<1> QED BY <1>2, <1>3, <1>4, <1>5 DEF DevicesInv

(* The lines are read again.                                               *)
LEMMA Restarted ==
  ASSUME NEW lines \in Seq(LineType), Restart(lines)
  PROVE  openDevices' \in MayOpen(lines) /\ openDevices' \in Seq(OpenDevice)
<1>1. PICK opens \in [DOMAIN lines -> BOOLEAN] : openDevices' = OpenAll(lines, opens)
  BY DEF Restart
<1>2. openDevices' \in MayOpen(lines)
  BY <1>1, OpenedByLines
<1> QED BY <1>2 DEF MayOpen

LEMMA SaveStep ==
  ASSUME FlexIsUnique, DevicesInv, SaveDevices
  PROVE  DevicesInv'
<1>1. /\ Restart(DevConf) /\ chosen' = pos /\ pos' = Load(openDevices') /\ column' = column
      /\ where' = IF Verify(pos, openDevices') THEN "Saved" ELSE where
      /\ where = "Devices"
  BY DEF SaveDevices, Press
<1>2. DevConf \in Seq(LineType)
  BY TheScreenWrites DEF ScreenLines
<1>3. openDevices' \in MayOpen(DevConf) /\ openDevices' \in Seq(OpenDevice)
  BY <1>1, <1>2, Restarted
<1>4. pos' \in [DOMAIN Channels -> Int]
  BY <1>1, <1>3, Loaded
<1>5. ASSUME where' = "Saved", Able' PROVE Load(openDevices') = chosen'
  <2>1. AbleNow
    BY <1>1, <1>5 DEF Able, AbleNow, OnDevice
  <2>2. Verify(pos, openDevices')
    BY <1>1, <1>5
  <2>3. Load(openDevices') = pos
    BY <1>3, <2>1, <2>2, SavedAsChosen DEF DevicesInv
  <2> QED BY <1>1, <2>3
<1>6. Load(openDevices)' = Load(openDevices')
  BY DEF Load
<1>7. ChosenIsOpened'
  BY <1>5, <1>6 DEF ChosenIsOpened
<1> QED BY <1>1, <1>2, <1>3, <1>4, <1>7 DEF DevicesInv

LEMMA ResetStep ==
  ASSUME DevicesInv, ResetAndSave
  PROVE  DevicesInv'
<1>1. /\ Restart(DefaultConfig) /\ pos' = Load(openDevices') /\ column' = column
      /\ where' = "Devices"
  BY DEF ResetAndSave, Press
<1>2. DefaultConfig \in Seq(LineType)
  BY LinesOfFiles
<1>3. openDevices' \in MayOpen(DefaultConfig) /\ openDevices' \in Seq(OpenDevice)
  BY <1>1, <1>2, Restarted
<1>4. pos' \in [DOMAIN Channels -> Int]
  BY <1>1, <1>3, Loaded
<1>5. ChosenIsOpened'
  BY <1>1 DEF ChosenIsOpened
<1> QED BY <1>1, <1>2, <1>3, <1>4, <1>5 DEF DevicesInv

(* Nothing else opens devices, and the screen is left as saved by START    *)
(* alone.                                                                  *)
LEMMA ChooseStep ==
  ASSUME DevicesInv, ChooseDevice
  PROVE  DevicesInv'
<1> DEFINE n == Len(Infos) + 1
           at == column + 1
<1>1. PICK p \in {((pos[at] + n) % n) - 1, ((pos[at] + n + 2) % n) - 1} :
        pos' = [pos EXCEPT ![at] = Beyond(p)]
  BY DEF ChooseDevice
<1>2. at \in DOMAIN Channels
  BY ColorFacts DEF DevicesInv
<1>3. pos[at] \in Int /\ n \in Nat \ {0}
  BY <1>2, BackendFacts DEF DevicesInv
<1> HIDE DEF n, at
<1>4. p \in Int
  <2>1. pos[at] + n \in Int /\ pos[at] + n + 2 \in Int
    BY <1>3
  <2>2. \A x \in Int : (x % n) - 1 \in Int
    BY <1>3
  <2> QED BY <1>1, <2>1, <2>2
<1>5. Beyond(p) \in Int
  BY <1>4 DEF Beyond, Unassigned
<1>6. pos' \in [DOMAIN Channels -> Int]
  BY <1>1, <1>5 DEF DevicesInv
<1>7. where' = "Devices" /\ openDevices' = openDevices /\ column' = column
  BY DEF ChooseDevice, Press
<1>8. ChosenIsOpened'
  BY <1>7 DEF ChosenIsOpened
<1> QED BY <1>6, <1>7, <1>8 DEF DevicesInv

LEMMA OtherDevicesStep ==
  ASSUME DevicesInv, EnterDevices \/ LeaveDevices \/ ChooseChannel \/ UNCHANGED avars
  PROVE  DevicesInv'
<1>1. openDevices' = openDevices
  BY DEF EnterDevices, LeaveDevices, ChooseChannel, avars
<1>2. PICK lines \in Seq(LineType) : openDevices \in MayOpen(lines)
  BY DEF DevicesInv
<1>3. openDevices \in Seq(OpenDevice)
  BY <1>2 DEF MayOpen
<1>4. pos' \in [DOMAIN Channels -> Int]
  BY <1>3, Loaded DEF DevicesInv, EnterDevices, LeaveDevices, ChooseChannel, avars
<1>5. column' \in 0 .. Len(Channels) - 1
  BY ColorFacts DEF DevicesInv, EnterDevices, LeaveDevices, ChooseChannel, avars
<1>6. ChosenIsOpened'
  <2>1. CASE UNCHANGED avars
    <3>1. ChosenIsOpened' <=> ChosenIsOpened
      BY <2>1 DEF avars, ChosenIsOpened, Able, Load, IsChannel
    <3> QED BY <3>1 DEF DevicesInv
  <2>2. CASE where' # "Saved"
    BY <2>2 DEF ChosenIsOpened
  <2> QED BY <2>1, <2>2 DEF EnterDevices, LeaveDevices, ChooseChannel
<1> QED BY <1>1, <1>2, <1>4, <1>5, <1>6 DEF DevicesInv

(* Audio::Impl and ScreenAudioDevices of DevicesAsChosen: whatever lines   *)
(* are in the file and whatever PortAudio refuses, no colour and no output *)
(* is opened twice, and what was chosen on the screen and saved is open on *)
(* the device chosen, if names tell the devices apart.                     *)
THEOREM ChosenDevicesAreOpened == ASSUME FlexIsUnique PROVE DevicesSpec => []DevicesAsChosen
<1>1. DevicesInit => DevicesInv
  BY DevicesInvInit
<1>2. DevicesInv /\ [DevicesNext]_avars => DevicesInv'
  BY SaveStep, ResetStep, ChooseStep, OtherDevicesStep DEF DevicesNext
<1>3. DevicesInv => DevicesAsChosen
  BY DevicesInvMeans
<1> QED BY <1>1, <1>2, <1>3, PTL DEF DevicesSpec
=============================================================================
