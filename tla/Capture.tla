------------------------------ MODULE Capture ------------------------------
(***************************************************************************)
(* The rings between the audio callbacks and those who read a microphone   *)
(* (ringbuffer.hh, Analyzer).  The two rings of an Analyzer share nothing: *)
(* a behaviour is about one of them, that of the engine, which reads       *)
(* windows that overlap, or that of the speakers.  Samples are numbered as *)
(* they come; 0 stands for memory nobody has written.  Positions are       *)
(* atomics and loaded and stored in steps of their own; samples are not,   *)
(* and are copied one by one.  size() is one step.                         *)
(***************************************************************************)
EXTENDS Integers, Sequences, FiniteSets

CONSTANTS
  Capacity,      \* SIZE of the ring; it has one cell more
  WindowSize,    \* FFT_N
  StepSize,      \* m_step
  Chunk,         \* samples an output callback wants, and with the margin of the kernel:
  Margin,
  Late, Keep,    \* the speakers lag too far behind, and skip to this (3000 and 700)
  \* bounds of the model
  MaxSamples,    \* samples captured
  MaxInput       \* samples in one callback

ASSUME CaptureAssumption ==
  /\ {Capacity, WindowSize, StepSize, Chunk, Margin, Late, Keep} \subseteq Nat
  /\ 0 < WindowSize /\ StepSize <= WindowSize /\ WindowSize <= Capacity /\ Keep <= Late

VARIABLES
  reader,   \* whose ring this is
  buf, rd, wr,  \* m_buf, m_read, m_write
  samples,  \* samples that have come from the microphone
  ins,      \* insert(): [at, w, r, left, overflow]
  get,      \* the reader: [at, r, window, pops]
  gap,      \* not in the program: an insert has overflowed since the reader's last window
  next      \* not in the program: the sample the next window should begin with; 0 if
            \* none is known after a gap

capvars == <<reader, buf, rd, wr, samples, ins, get, gap, next>>

Cells == 0 .. Capacity
Modulo(i) == (Capacity + 1 + i) % (Capacity + 1)
Size == Modulo(wr - rd)

CaptureInit ==
  /\ reader \in {"engine", "speakers"}
  /\ buf = [i \in Cells |-> 0] /\ rd = 0 /\ wr = 0 /\ samples = 0
  /\ ins = [at |-> "idle", w |-> 0, r |-> 0, left |-> 0, overflow |-> FALSE]
  /\ get = [at |-> "idle", r |-> 0, window |-> <<>>, pops |-> 0]
  /\ gap = FALSE /\ next = 1

-----------------------------------------------------------------------------
(* The input callback: Device::operator(), Analyzer::input, RingBuffer::insert *)

Insert ==
  /\ ins.at = "idle"
  /\ \E n \in 1 .. MaxInput :
       /\ samples + n <= MaxSamples
       /\ ins' = [at |-> "copy", w |-> wr, r |-> rd, left |-> n, overflow |-> FALSE]
  /\ UNCHANGED <<reader, buf, rd, wr, samples, get, gap, next>>

CopyIn ==
  /\ ins.at = "copy"
  /\ buf' = [buf EXCEPT ![ins.w] = samples + 1] /\ samples' = samples + 1
  /\ LET w == Modulo(ins.w + 1)
     IN  /\ ins' = [ins EXCEPT !.w = w, !.left = @ - 1, !.overflow = @ \/ w = ins.r,
                               !.at = IF ins.left = 1 THEN "publish" ELSE "copy"]
         /\ gap' = (gap \/ w = ins.r)
  /\ UNCHANGED <<reader, rd, wr, get, next>>

Publish ==
  /\ ins.at = "publish" /\ wr' = ins.w
  /\ ins' = [ins EXCEPT !.at = IF ins.overflow THEN "reset" ELSE "idle"]
  /\ UNCHANGED <<reader, buf, rd, samples, get, gap, next>>

\* The oldest data is discarded.
ResetRead ==
  /\ ins.at = "reset" /\ rd' = Modulo(ins.w + 1) /\ ins' = [ins EXCEPT !.at = "idle", !.overflow = FALSE]
  /\ UNCHANGED <<reader, buf, wr, samples, get, gap, next>>

-----------------------------------------------------------------------------
(* The readers: Analyzer::calcFFT in the engine, Analyzer::output in a callback *)

Wanted == IF reader = "engine" THEN WindowSize ELSE Chunk + Margin

\* mutant: one sample too few is enough
WrongAvailable == Size >= Wanted - 1
Available == Size >= Wanted

\* RingBuffer::read begins; without enough data the engine comes back later, and the
\* speakers get silence but move on all the same.
Read ==
  /\ get.at = "idle"
  /\ \/ Available /\ get' = [get EXCEPT !.at = "load", !.window = <<>>]
     \/ ~Available /\ reader = "speakers" /\ get' = [get EXCEPT !.at = "pop", !.window = <<>>]
  /\ UNCHANGED <<reader, buf, rd, wr, samples, ins, gap, next>>

LoadRead ==
  /\ get.at = "load" /\ get' = [get EXCEPT !.at = "copy", !.r = rd]
  /\ UNCHANGED <<reader, buf, rd, wr, samples, ins, gap, next>>

CopyOut ==
  /\ get.at = "copy"
  /\ get' = [get EXCEPT !.window = Append(@, buf[get.r]), !.r = Modulo(@ + 1),
                        !.at = IF Len(get.window) + 1 = Wanted THEN "pop" ELSE "copy"]
  /\ UNCHANGED <<reader, buf, rd, wr, samples, ins, gap, next>>

\* How far to move: a step; or what the resampling has used, about a chunk, and when
\* the speakers are late all but a little.
Moves ==
  IF reader = "engine" THEN {StepSize}
  ELSE IF Size > Late THEN {Size - Keep} ELSE Chunk - 1 .. Chunk + 1

\* RingBuffer::pop loads the position and stores the sum.
Pop ==
  /\ get.at = "pop"
  /\ \E n \in Moves : get' = [get EXCEPT !.at = "store", !.r = rd, !.pops = n]
  /\ UNCHANGED <<reader, buf, rd, wr, samples, ins, gap, next>>

PopStore ==
  /\ get.at = "store" /\ rd' = Modulo(get.r + get.pops)
  /\ get' = [get EXCEPT !.at = "idle", !.window = <<>>]
  /\ gap' = ins.overflow
  /\ next' = IF gap \/ get.window = <<>> THEN 0 ELSE get.window[1] + get.pops
  /\ UNCHANGED <<reader, buf, wr, samples, ins>>

CaptureNext ==
  \/ Insert \/ CopyIn \/ Publish \/ ResetRead
  \/ Read \/ LoadRead \/ CopyOut \/ Pop \/ PopStore

CaptureSpec == CaptureInit /\ [][CaptureNext]_capvars

-----------------------------------------------------------------------------
(* Properties *)

\* Without locks the engine hears the microphone as it was ("lock-free ring buffer",
\* "thread-safe (against other functions)"): as long as no insert runs into the reader,
\* every window is whole and begins one step after the last, so no sample is missed or
\* heard twice; and whatever ran into what, a ring at rest holds the newest samples, in
\* order, from the reading position on.
HeardInOrder ==
  reader = "engine" =>
    /\ get.at = "pop" /\ ~gap =>
         LET first == IF next = 0 THEN get.window[1] ELSE next
         IN  get.window = [i \in 1 .. WindowSize |-> first + i - 1]
    /\ ins.at = "idle" => \A i \in 0 .. Size - 1 : buf[Modulo(rd + i)] = samples - Size + 1 + i
=============================================================================
