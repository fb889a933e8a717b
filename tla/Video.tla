------------------------------- MODULE Video -------------------------------
(***************************************************************************)
(* The video behind a song (video.cc): a grabber thread decodes frames     *)
(* into a queue under m_mutex, the main thread takes the one that is due   *)
(* and asks for a seek when the song has jumped.  Times are whole numbers; *)
(* frames have even ones and the song odd ones, as the two never meet.     *)
(* Of ffmpeg there is the next packet of the file, key frames, errors, and *)
(* the frames a decoder keeps back until it has seen later packets.        *)
(***************************************************************************)
EXTENDS Integers, Sequences, FiniteSets, FiniteSetsExt, SequencesExt

CONSTANTS
  LastFrame,  \* frames of the file: 2, 4, .., 2 * LastFrame
  KeyFrames,  \* frames at which a seek can land
  Delay,      \* frames the decoder keeps back
  QueueMax,   \* m_max
  Ahead,      \* a jump of more than this is a seek (4 seconds in the code)
  \* bounds of the model
  MaxMoves,   \* times the song moves on or jumps
  MaxErrors   \* errors of ffmpeg

ASSUME VideoAssumption == {LastFrame, Delay, QueueMax, Ahead} \subseteq Nat /\ 1 \in KeyFrames

VARIABLES
  queue,      \* m_queue
  position,   \* m_readPosition
  seekAsked,  \* m_seek_asked
  vquit,      \* m_quit
  grabber,    \* [at, frame, errors]: where the grabber is, the frame or seek position it has
  asleep,     \* it waits for m_cond and nobody has notified it yet
  packet,     \* number of the packet read next
  kept,       \* frames in the decoder
  time,       \* of the song, with the gap added
  moves,
  seen,       \* the frame in m_texture; 0 before the first
  failed      \* not in the program: ffmpeg has reported an error

vvars == <<queue, position, seekAsked, vquit, grabber, asleep, packet, kept, time, moves, seen, failed>>

Times == {2 * t - 1 : t \in 0 .. LastFrame + 1}
Image(t) == [timestamp |-> t, image |-> TRUE]
Eof == [timestamp |-> 0, image |-> FALSE]    \* Bitmap()

VideoInit ==
  /\ queue = <<>> /\ position = 0 /\ seekAsked = FALSE /\ vquit = FALSE
  /\ grabber = [at |-> "open", frame |-> Eof, errors |-> 0] /\ asleep = FALSE
  /\ packet = 1 /\ kept = <<>> /\ time = -1 /\ moves = 0 /\ seen = 0 /\ failed = FALSE

-----------------------------------------------------------------------------
(* The grabber; each step is a stretch with or without the mutex. *)

Grabber(at) == grabber' = [grabber EXCEPT !.at = at]

\* VideoFFmpeg::VideoFFmpeg; a file that cannot be read ends the thread.
Open ==
  /\ grabber.at = "open"
  /\ \/ Grabber("loop") /\ UNCHANGED failed
     \/ MaxErrors > 0 /\ Grabber("done") /\ failed' = TRUE
  /\ UNCHANGED <<queue, position, seekAsked, vquit, asleep, packet, kept, time, moves, seen>>

\* The head of the loop, under the mutex.
Loop ==
  /\ grabber.at = "loop"
  /\ CASE vquit -> Grabber("done") /\ UNCHANGED <<queue, seekAsked>>
       [] ~vquit /\ seekAsked ->
            /\ seekAsked' = FALSE /\ queue' = <<>>
            /\ grabber' = [grabber EXCEPT !.at = "seek", !.frame = Image(position)]
       [] OTHER -> Grabber("decode") /\ UNCHANGED <<queue, seekAsked>>
  /\ UNCHANGED <<position, vquit, asleep, packet, kept, time, moves, seen, failed>>

\* FFmpeg::seek with AVSEEK_FLAG_BACKWARD; what the decoder keeps stays there.
SeekVideo ==
  /\ grabber.at = "seek" /\ Grabber("loop")
  /\ packet' = Max({k \in KeyFrames : k = 1 \/ 2 * k <= grabber.frame.timestamp})
  /\ UNCHANGED <<queue, position, seekAsked, vquit, asleep, kept, time, moves, seen, failed>>

\* FFmpeg::handleOneFrame and VideoFFmpeg::processFrame: one packet goes into the
\* decoder, and what it gives up is pushed.
Decode ==
  /\ grabber.at = "decode" /\ packet <= LastFrame /\ packet' = packet + 1
  /\ LET frames == Append(kept, 2 * packet)
         full == Len(frames) > Delay
     IN  /\ kept' = IF full THEN Tail(frames) ELSE frames
         /\ grabber' = [grabber EXCEPT !.at = IF full THEN "push" ELSE "loop",
                          !.frame = IF full THEN Image(frames[1]) ELSE @, !.errors = 0]
  /\ UNCHANGED <<queue, position, seekAsked, vquit, asleep, time, moves, seen, failed>>

\* FFmpeg::Eof: an empty bitmap marks the end.
EndOfFile ==
  /\ grabber.at = "decode" /\ packet > LastFrame
  /\ grabber' = [grabber EXCEPT !.at = "push eof", !.frame = Eof]
  /\ UNCHANGED <<queue, position, seekAsked, vquit, asleep, packet, kept, time, moves, seen, failed>>

\* Three errors in a row end the thread.
DecodeFails ==
  /\ grabber.at = "decode" /\ packet <= LastFrame
  /\ grabber.errors < MaxErrors /\ packet' = packet + 1 /\ failed' = TRUE
  /\ grabber' = [grabber EXCEPT !.errors = @ + 1, !.at = IF grabber.errors = 2 THEN "done" ELSE "loop"]
  /\ UNCHANGED <<queue, position, seekAsked, vquit, asleep, kept, time, moves, seen>>

\* Video::push: wait for room, and drop the frame when a seek or the end is asked for.
MayGoOn == vquit \/ seekAsked \/ (grabber.at # "wait eof" /\ Len(queue) < QueueMax)
PushFrame ==
  /\ grabber.at \in {"push", "push eof"} /\ ~asleep
  /\ IF ~MayGoOn THEN asleep' = TRUE /\ UNCHANGED <<queue, grabber>>
     ELSE /\ queue' = IF vquit \/ seekAsked THEN queue ELSE Append(queue, grabber.frame)
          /\ Grabber(IF grabber.at = "push" THEN "loop" ELSE "wait eof")
          /\ UNCHANGED asleep
  /\ UNCHANGED <<position, seekAsked, vquit, packet, kept, time, moves, seen, failed>>

\* At the end of the file only a seek or the end of the video goes on.
WaitAtEof ==
  /\ grabber.at = "wait eof" /\ ~asleep
  /\ IF MayGoOn THEN Grabber("loop") /\ UNCHANGED asleep
     ELSE asleep' = TRUE /\ UNCHANGED grabber
  /\ UNCHANGED <<queue, position, seekAsked, vquit, packet, kept, time, moves, seen, failed>>

Grab == Open \/ Loop \/ SeekVideo \/ Decode \/ EndOfFile \/ PushFrame \/ WaitAtEof

-----------------------------------------------------------------------------
(* The main thread *)

\* Frames before the newest that is due are outdated.
Outdated == {i \in 1 .. Len(queue) - 1 : \A j \in 2 .. i + 1 : queue[j].timestamp < time'}
Due == SubSeq(queue, 1 + Cardinality(Outdated), Len(queue))

\* mutant: the grabber is told only of seeks
WrongWoken == seekAsked'
\* Whoever waits is told when a frame will go, and of every seek.
Woken == queue # <<>> \/ seekAsked'

\* Video::tryPop and prepare at time'.
TryPop ==
  /\ seekAsked' = (seekAsked \/ time' > position + Ahead \/ time' < position)
  /\ position' = time'
  /\ asleep' = (asleep /\ ~Woken)
  /\ CASE seekAsked' -> UNCHANGED <<queue, seen>>
       [] ~seekAsked' /\ (Due = <<>> \/ Due[1].timestamp > time') -> queue' = Due /\ UNCHANGED seen
       [] OTHER -> /\ queue' = Tail(Due)
                   /\ seen' = IF Due[1].image THEN Due[1].timestamp ELSE seen
  /\ UNCHANGED <<vquit, grabber, packet, kept, failed>>

\* A frame of the game, with the song where it was or further on,
Prepare == ~vquit /\ time' = time /\ UNCHANGED moves /\ TryPop
\* or elsewhere.
Play == ~vquit /\ moves < MaxMoves /\ moves' = moves + 1 /\ time' \in Times /\ TryPop

\* Video::~Video, which then waits for the grabber.
CloseVideo ==
  /\ ~vquit /\ vquit' = TRUE /\ asleep' = FALSE
  /\ UNCHANGED <<queue, position, seekAsked, grabber, packet, kept, time, moves, seen, failed>>

VideoNext == Grab \/ DecodeFails \/ Prepare \/ Play \/ CloseVideo

\* The grabber is a thread of its own, and every frame of the game prepares the video.
VideoFairness == WF_vvars(Grab) /\ WF_vvars(Prepare)
VideoSpec == VideoInit /\ [][VideoNext]_vvars /\ VideoFairness

-----------------------------------------------------------------------------
(* Properties *)

\* The newest frame that is due, while there is another to come.  (At the end tryPop
\* takes the empty bitmap, with the time 0, for a newer one that is due, and drops the
\* last frame.)
Newest ==
  IF time >= 2 * (LastFrame - Delay) THEN 0
  ELSE Max({0} \cup {t \in {2 * f : f \in 1 .. LastFrame} : t < time})

\* The picture follows the song (Video::prepare, the grabber): when the song stands
\* still, after any jumps and however they met the grabber, the picture comes to be
\* that of the moment, if no frame is lost to an error; and the destructor gets its
\* thread back.
VideoFollows ==
  /\ <>(vquit \/ failed) \/ <>[](Newest > 0 => seen \in Newest .. time)
  /\ vquit ~> grabber.at = "done"
=============================================================================
