---------------------------- MODULE AudioBuffer ----------------------------
(***************************************************************************)
(* The read-ahead buffer of one audio track (class AudioBuffer, ffmpeg.hh  *)
(* and ffmpeg.cc): a ring of samples filled by a decoder thread and read   *)
(* by the audio callback.  The two share one mutex and one condition       *)
(* variable; every critical section is one action, and whatever the        *)
(* decoder thread does with the mutex released is an action of its own.    *)
(*                                                                         *)
(* A sample is represented by its position in the file, so that the ring   *)
(* shows which sample would be heard; Silence is the zero sample.          *)
(***************************************************************************)
EXTENDS Integers

CONSTANTS
  Size,      (* number of samples in the ring, m_data.size()               *)
  End,       (* number of samples the file really decodes to               *)
  Duration,  (* number of samples the container announces, m_duration      *)
  Start,     (* position of the first decoded sample; may be negative      *)
  MaxFrame,  (* longest frame the codec and the resampler produce          *)
  Blocks,    (* the lengths the audio callback asks for                    *)
  Positions, (* the positions the audio callback asks for                  *)
  Faults     (* what may fail: "packet" a decoding error, "seek" a file    *)
             (* position that libavformat could not change                 *)

ASSUME ConstantsAssumption ==
  /\ Size \in Nat \ {0}
  /\ End \in Nat
  /\ Duration \in Nat
  /\ Start \in Int /\ Start <= 0
  /\ MaxFrame \in Nat \ {0} /\ 2 * MaxFrame <= Size
  /\ Blocks \subseteq Nat
  /\ Positions \subseteq Int
  /\ Faults \subseteq {"packet", "seek"}

Silence == -1
Slots == 0 .. Size - 1
NoFrame == [pos |-> 0, len |-> 0]

(* errors is only compared with 2 in the code; the model counts to 3.      *)
MaxErrors == 3

VARIABLES
  ring,      (* m_data: which sample each slot holds                       *)
  writePos,  (* m_write_pos                                                *)
  readPos,   (* m_read_pos                                                 *)
  eofPos,    (* m_eof_pos, -1 until the decoder met the end of the file    *)
  seekAsked, (* m_seek_asked                                               *)
  quit,      (* m_quit                                                     *)
  pc,        (* where the decoder thread is                                *)
  asleep,    (* the decoder thread is blocked inside m_cond.wait           *)
  target,    (* seek_pos, captured before the mutex is released            *)
  filePos,   (* position of the next sample libavcodec will return         *)
  frame,     (* the decoded frame on its way to operator()                 *)
  errors     (* consecutive decoding errors                                *)

buffer  == <<ring, writePos, readPos, eofPos, seekAsked, quit>>
decoder == <<pc, asleep, target, filePos, frame, errors>>
vars    == <<ring, writePos, readPos, eofPos, seekAsked, quit,
             pc, asleep, target, filePos, frame, errors>>

DecoderStates ==
  {"loop", "seeking", "decode", "frames", "deliver", "waitRoom",
   "eof", "waitSeek", "done"}

Frames == [pos : Int, len : 0 .. MaxFrame]

TypeOK ==
  /\ ring \in [Slots -> Int]
  /\ writePos \in Int
  /\ readPos \in Nat
  /\ eofPos \in Int
  /\ seekAsked \in BOOLEAN
  /\ quit \in BOOLEAN
  /\ pc \in DecoderStates
  /\ asleep \in BOOLEAN
  /\ target \in Nat
  /\ filePos \in Int
  /\ frame \in Frames
  /\ errors \in 0 .. MaxErrors

-----------------------------------------------------------------------------
(* Helpers of the class.                                                   *)

Lesser(a, b)  == IF a <= b THEN a ELSE b
Greater(a, b) == IF a <= b THEN b ELSE a

(* Definitions whose name starts with Wrong are plausible slips in the     *)
(* definition that follows them; each makes one property fail.             *)
WrongWantMore == writePos < readPos + Size
WantMore  == writePos < readPos + (Size \div 2)

SeekOrQuit == quit \/ seekAsked

Condition == SeekOrQuit \/ WantMore

Eof(p) == (eofPos # -1 /\ p >= eofPos) \/ p >= Duration

(* The two copies of operator(): the file's samples p .. p+n-1 are placed  *)
(* in the slots they wrap to.                                              *)
Store(r, p, n) ==
  [i \in Slots |-> IF (i - p) % Size < n THEN p + ((i - p) % Size) ELSE r[i]]

Zeros == [i \in Slots |-> Silence]

(* What the mixing loop of read() adds to the output block.                *)
Heard(n) == [s \in 0 .. n - 1 |-> ring[(readPos + s) % Size]]

(* m_cond.notify_all(): only the decoder thread ever waits.                *)
WrongNotify == UNCHANGED asleep
Notify == asleep' = FALSE

-----------------------------------------------------------------------------
(* The audio callback's side.                                              *)

(* A read before the start of the song is zero-filled up to position 0.    *)
ClampedPos(p) == Greater(p, 0)
ClampedLen(p, n) == IF p < 0 THEN Greater(n + p, 0) ELSE n

OutOfRange(p, n) == p >= readPos + Size - n \/ p < readPos

(* The mutex-protected part of read(): outside the window a seek is asked  *)
(* of the decoder thread, inside it the block is consumed.                 *)
ReadLocked(p, n) ==
  /\ readPos' = p + n
  /\ Notify
  /\ IF OutOfRange(p, n)
     THEN seekAsked' = TRUE /\ ring' = Zeros
     ELSE UNCHANGED <<seekAsked, ring>>
  /\ UNCHANGED <<writePos, eofPos, quit, pc, target, filePos, frame, errors>>

(* read() when it returns true and touches the buffer.                     *)
Read(p, n) ==
  /\ ~quit
  /\ p < 0 => n + p > 0
  /\ LET q == ClampedPos(p)
         m == ClampedLen(p, n)
     IN /\ ~Eof(q + m)
        /\ ReadLocked(q, Lesser(m, Size))

(* ~AudioBuffer() up to reader_thread.get().                               *)
Destroy ==
  /\ ~quit
  /\ readPos' = 0 /\ writePos' = 0
  /\ ring' = Zeros
  /\ quit' = TRUE
  /\ Notify
  /\ UNCHANGED <<eofPos, seekAsked, pc, target, filePos, frame, errors>>

-----------------------------------------------------------------------------
(* The decoder thread.                                                     *)

Goto(from, to) == pc = from /\ pc' = to

LoopQuit ==
  /\ quit /\ Goto("loop", "done")
  /\ UNCHANGED <<buffer, asleep, target, filePos, frame, errors>>

WrongLoopSeek ==
  /\ ~quit /\ seekAsked /\ Goto("loop", "seeking")
  /\ seekAsked' = FALSE
  /\ target' = readPos
  /\ UNCHANGED <<ring, writePos, readPos, eofPos, quit, asleep, filePos, frame,
                 errors>>

LoopSeek ==
  /\ ~quit /\ seekAsked /\ Goto("loop", "seeking")
  /\ seekAsked' = FALSE
  /\ writePos' = readPos
  /\ target' = readPos
  /\ UNCHANGED <<ring, readPos, eofPos, quit, asleep, filePos, frame, errors>>

LoopDecode ==
  /\ ~quit /\ ~seekAsked /\ Goto("loop", "decode")
  /\ UNCHANGED <<buffer, asleep, target, filePos, frame, errors>>

(* Where av_seek_frame leaves the file: at a frame not after the target    *)
(* (AVSEEK_FLAG_BACKWARD), or where it was when it fails, because its      *)
(* result is not looked at.                                                *)
Landings ==
  (Start .. Lesser(target, End))
    \cup (IF "seek" \in Faults THEN {filePos} ELSE {})

SeekFile ==
  /\ Goto("seeking", "loop")
  /\ filePos' \in Landings
  /\ UNCHANGED <<buffer, asleep, target, frame, errors>>

(* The codec hands out the next frame; called with the mutex released.     *)
TakeFrame ==
  /\ filePos < End
  /\ \E n \in 1 .. Lesser(MaxFrame, End - filePos) :
        /\ frame' = [pos |-> filePos, len |-> n]
        /\ filePos' = filePos + n

(* handleOneFrame() reads a packet with at least one frame ...             *)
ReadPacket ==
  /\ Goto("decode", "deliver")
  /\ TakeFrame
  /\ UNCHANGED <<buffer, asleep, target, errors>>

(* ... handleSomeFrames() goes on with the frames the packet still has ... *)
NextFrame ==
  /\ Goto("frames", "deliver")
  /\ TakeFrame
  /\ UNCHANGED <<buffer, asleep, target, errors>>

(* ... until the codec asks for another packet.                            *)
PacketDone ==
  /\ Goto("frames", "loop")
  /\ errors' = 0
  /\ UNCHANGED <<buffer, asleep, target, filePos, frame>>

DecodeError ==
  /\ "packet" \in Faults
  /\ pc \in {"decode", "frames"} /\ pc' = "loop"
  /\ errors' = Lesser(errors + 1, MaxErrors)
  /\ UNCHANGED <<buffer, asleep, target, filePos, frame>>

ReadEof ==
  /\ filePos >= End
  /\ Goto("decode", "eof")
  /\ UNCHANGED <<buffer, asleep, target, filePos, frame, errors>>

(* operator() once the frame is accepted and wait() returned.              *)
WriteFrame ==
  /\ Condition
  /\ pc' = "frames"
  /\ IF SeekOrQuit
     THEN UNCHANGED <<ring, writePos>>
     ELSE /\ ring' = Store(ring, frame.pos, frame.len)
          /\ writePos' = frame.pos + frame.len
  /\ UNCHANGED <<readPos, eofPos, seekAsked, quit, asleep, target, filePos,
                 frame, errors>>

DropFrame ==
  /\ Goto("deliver", "frames")
  /\ frame.pos < 0 \/ frame.pos < readPos
  /\ UNCHANGED <<buffer, asleep, target, filePos, frame, errors>>

DeliverFrame ==
  /\ pc = "deliver"
  /\ frame.pos >= 0 /\ frame.pos >= readPos
  /\ WriteFrame

(* No room: the thread blocks in m_cond.wait.                              *)
WaitForRoom ==
  /\ Goto("deliver", "waitRoom")
  /\ frame.pos >= 0 /\ frame.pos >= readPos
  /\ ~Condition
  /\ asleep' = TRUE
  /\ UNCHANGED <<buffer, target, filePos, frame, errors>>

WakeAndWrite ==
  /\ pc = "waitRoom" /\ ~asleep
  /\ WriteFrame

WakeNoRoom ==
  /\ pc = "waitRoom" /\ ~asleep /\ ~Condition
  /\ asleep' = TRUE
  /\ UNCHANGED <<buffer, pc, target, filePos, frame, errors>>

(* The Eof handler: record the end, then wait for a seek or for the end.   *)
MarkEof ==
  /\ pc = "eof"
  /\ eofPos' = writePos
  /\ IF SeekOrQuit
     THEN pc' = "loop" /\ UNCHANGED asleep
     ELSE pc' = "waitSeek" /\ asleep' = TRUE
  /\ UNCHANGED <<ring, writePos, readPos, seekAsked, quit, target, filePos,
                 frame, errors>>

WakeAtEof ==
  /\ pc = "waitSeek" /\ ~asleep
  /\ IF SeekOrQuit
     THEN pc' = "loop" /\ UNCHANGED asleep
     ELSE UNCHANGED pc /\ asleep' = TRUE
  /\ UNCHANGED <<buffer, target, filePos, frame, errors>>

-----------------------------------------------------------------------------
Init ==
  /\ ring = Zeros
  /\ writePos = 0 /\ readPos = 0 /\ eofPos = -1
  /\ seekAsked = FALSE /\ quit = FALSE
  /\ pc = "loop" /\ asleep = FALSE
  /\ target = 0 /\ filePos = Start
  /\ frame = NoFrame /\ errors = 0

Decoder ==
  \/ LoopQuit \/ LoopSeek \/ LoopDecode
  \/ SeekFile
  \/ ReadPacket \/ NextFrame \/ PacketDone \/ DecodeError \/ ReadEof
  \/ DropFrame \/ DeliverFrame \/ WaitForRoom \/ WakeAndWrite \/ WakeNoRoom
  \/ MarkEof \/ WakeAtEof

Reader == \E p \in Positions, n \in Blocks : Read(p, n)

(* The buffer is gone once reader_thread.get() returned.                   *)
Joined == quit /\ pc = "done" /\ UNCHANGED vars

Next == Decoder \/ Reader \/ Destroy \/ Joined

(* The decoder thread is scheduled; nothing obliges anybody to read.  An   *)
(* error uses up a packet (av_read_frame), and a file holds finitely many, *)
(* so that errors do not repeat for ever.                                  *)
Fairness == WF_vars(Decoder) /\ SF_vars(ReadPacket) /\ SF_vars(ReadEof)

Spec == Init /\ [][Next]_vars /\ Fairness

-----------------------------------------------------------------------------
(* Safety.                                                                 *)

(* The buffer is being repositioned or torn down: what the ring holds is   *)
(* about to be replaced.                                                   *)
Repositioning == seekAsked \/ quit

(* The decoder thread runs ahead of the reader by half a ring and at most  *)
(* one frame, so that it never reaches the samples still to be read.       *)
(* Concerns the wait of operator() against the moves of m_read_pos.        *)
WindowBounded ==
  ~Repositioning => writePos < readPos + (Size \div 2) + MaxFrame

(* Liveness.                                                               *)

(* The decoder thread sleeps through no notification: a seek asked by the  *)
(* callback is taken up, whatever the thread was waiting for, the room the *)
(* callback made is filled while there is something left to decode, and    *)
(* reader_thread.get() in the destructor returns.                          *)
DecoderWakes ==
  /\ seekAsked ~> (~seekAsked \/ quit)
  /\ WantMore ~> (~WantMore \/ pc = "waitSeek" \/ Repositioning)
  /\ quit ~> (pc = "done")

-----------------------------------------------------------------------------
(* The buffer implements the stream of SampleStream: the window is what    *)
(* the ring holds between the two positions, and is empty from the moment  *)
(* a seek is asked until the decoder thread is back with new samples.      *)
Window ==
  [q \in (IF Repositioning THEN {} ELSE readPos .. writePos - 1) |->
     ring[q % Size]]

Stream == INSTANCE SampleStream
            WITH Ahead <- Size \div 2, Slack <- MaxFrame,
                 rd <- readPos, window <- Window, closed <- quit

(* Every step of the buffer is a step of the stream or leaves it alone:    *)
(* the reader gets the file's samples in order, up to the gap a dropped    *)
(* frame leaves behind a seek.                                             *)
ImplementsStream == Stream!Spec
=============================================================================
