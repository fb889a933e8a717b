---------------------------- MODULE AudioOutput ----------------------------
(***************************************************************************)
(* Audio playback (Output, Music and the Audio API of audio.cc): the main  *)
(* thread requests songs, seeks and pauses while the PortAudio callback    *)
(* promotes a prepared song, crossfades, mixes and retires songs.          *)
(*                                                                         *)
(* The main thread takes Output::mutex; the callback only tries to.  Each  *)
(* request takes effect when the mutex is taken, and Unlock gives it back, *)
(* so that the callback's try_lock may fail in between.  A song is known   *)
(* by the number of the playMusic call that made it.                       *)
(***************************************************************************)
EXTENDS Integers, Sequences, FiniteSets, Functions

CONSTANTS
  MaxRequests, (* bound: calls of playMusic, stopMusic and fadeout         *)
  MaxCommands, (* bound: commands queued at a time                         *)
  Full,        (* the fade level of a song at full volume                  *)
  FadeRates,   (* the rates a fade time can give; Full + 1 is "at once"    *)
  Length       (* blocks in a song                                         *)

ASSUME OutputAssumption ==
  /\ MaxRequests \in Nat \ {0} /\ MaxCommands \in Nat
  /\ Full \in Nat \ {0} /\ Length \in Nat
  /\ FadeRates \subseteq 1 .. Full + 1

Songs == 1 .. MaxRequests
None == 0

VARIABLES
  held,       (* the main thread holds Output::mutex                       *)
  requested,  (* number of playMusic calls so far                          *)
  preloading, (* Output::preloading                                        *)
  playing,    (* Output::playing                                           *)
  disposing,  (* Output::disposing                                         *)
  destroyed,  (* the songs whose destructor ran                            *)
  commands,   (* Output::commands: the newest song when each was queued    *)
  paused,     (* Output::paused                                            *)
  silent,     (* songs without tracks: those of stopMusic and fadeout      *)
  rate,       (* Music::fadeRate                                           *)
  level,      (* Music::fadeLevel                                          *)
  mpos,        (* Music::m_pos in blocks                                    *)
  cb,         (* where the callback is                                     *)
  index,      (* the song the callback is mixing                           *)
  loaded      (* m_pos as loaded by "m_pos += samples"                     *)

songVars == <<silent, rate, level, mpos>>
cbVars   == <<cb, index, loaded>>
outputVars == <<held, requested, preloading, playing, disposing, destroyed,
          commands, paused, silent, rate, level, mpos, cb, index, loaded>>

OutputTypeOK ==
  /\ held \in BOOLEAN /\ paused \in BOOLEAN
  /\ requested \in 0 .. MaxRequests
  /\ preloading \in Songs \cup {None}
  /\ playing \in Seq(Songs)
  /\ disposing \subseteq Songs /\ destroyed \subseteq Songs
  /\ commands \in Seq(0 .. MaxRequests) /\ Len(commands) <= MaxCommands
  /\ silent \subseteq Songs
  /\ rate \in [Songs -> -(Full + 1) .. Full + 1]
  /\ level \in [Songs -> 0 .. Full]
  /\ mpos \in [Songs -> 0 .. Length + 1]
  /\ cb \in {"idle", "updated", "mix", "store", "retire"}
  /\ index \in 1 .. MaxRequests + 1
  /\ loaded \in 0 .. Length + 1

OutputInit ==
  /\ held = FALSE /\ requested = 0 /\ preloading = None
  /\ playing = <<>> /\ disposing = {} /\ destroyed = {}
  /\ commands = <<>> /\ paused = FALSE
  /\ silent = {}
  /\ rate = [s \in Songs |-> 0] /\ level = [s \in Songs |-> 0]
  /\ mpos = [s \in Songs |-> 0]
  /\ cb = "idle" /\ index = 1 /\ loaded = 0

-----------------------------------------------------------------------------
(* The main thread.                                                        *)

Lock == ~held /\ held' = TRUE

Unlock ==
  /\ held /\ held' = FALSE
  /\ UNCHANGED <<requested, preloading, playing, disposing, destroyed,
                 commands, paused, songVars, cbVars>>

(* playMusic(): the earlier preloading song and the disposed ones are      *)
(* destroyed here.  stopMusic() and fadeout() request a song without       *)
(* tracks.                                                                 *)
Retired == disposing \cup ({preloading} \ {None})

WrongPlayMusic(r, empty, start) ==
  /\ requested < MaxRequests
  /\ Lock
  /\ LET s == requested + 1 IN
       /\ requested' = s
       /\ preloading' = s
       /\ silent' = IF empty THEN silent \cup {s} ELSE silent
       /\ rate' = [rate EXCEPT ![s] = r]
       /\ mpos' = [mpos EXCEPT ![s] = start]
  /\ destroyed' = destroyed \cup Retired
  /\ disposing' = {}
  /\ UNCHANGED <<playing, paused, level, commands, cbVars>>

PlayMusic(r, empty, start) ==
  /\ requested < MaxRequests
  /\ Lock
  /\ LET s == requested + 1 IN
       /\ requested' = s
       /\ preloading' = s
       /\ silent' = IF empty THEN silent \cup {s} ELSE silent
       /\ rate' = [rate EXCEPT ![s] = r]
       /\ mpos' = [mpos EXCEPT ![s] = start]
  /\ destroyed' = destroyed \cup Retired
  /\ disposing' = {}
  /\ commands' = <<>>
  /\ UNCHANGED <<playing, paused, level, cbVars>>

(* seek() and seekPos(): every playing song is moved, and the output       *)
(* resumes.                                                                *)
SeekPos(p) ==
  /\ Lock
  /\ mpos' = [s \in Songs |-> IF s \in Range(playing) THEN p ELSE mpos[s]]
  /\ paused' = FALSE
  /\ UNCHANGED <<requested, preloading, playing, disposing, destroyed,
                 commands, silent, rate, level, cbVars>>

(* streamFade(), streamBend() and playSample() queue a command.            *)
QueueCommand ==
  /\ Len(commands) < MaxCommands
  /\ Lock
  /\ commands' = Append(commands, requested)
  /\ UNCHANGED <<requested, preloading, playing, disposing, destroyed,
                 paused, songVars, cbVars>>

(* pause() stores an atomic flag without the mutex.                        *)
Pause(b) ==
  /\ paused # b /\ paused' = b
  /\ UNCHANGED <<held, requested, preloading, playing, disposing, destroyed,
                 commands, songVars, cbVars>>

-----------------------------------------------------------------------------
(* The audio callback.                                                     *)

(* callbackUpdate() could not take the mutex.                              *)
UpdateBusy ==
  /\ cb = "idle" /\ held
  /\ cb' = "updated"
  /\ UNCHANGED <<held, requested, preloading, playing, disposing, destroyed,
                 commands, paused, songVars, index, loaded>>

(* callbackUpdate() while nothing is prepared: only the commands are       *)
(* processed.                                                              *)
UpdateWaiting ==
  /\ cb = "idle" /\ ~held
  /\ preloading \notin silent
  /\ cb' = "updated"
  /\ commands' = <<>>
  /\ UNCHANGED <<held, requested, preloading, playing, disposing, destroyed,
                 paused, songVars, index, loaded>>

(* callbackUpdate() when prepare() returned true: the song goes in front   *)
(* and what was in front fades out at the new song's rate.                 *)
WrongPromote ==
  /\ cb = "idle" /\ ~held
  /\ preloading # None
  /\ cb' = "updated"
  /\ playing' = <<preloading>> \o playing
  /\ preloading' = None
  /\ commands' = <<>>
  /\ UNCHANGED <<held, requested, disposing, destroyed, paused,
                 songVars, index, loaded>>

Promote ==
  /\ cb = "idle" /\ ~held
  /\ preloading # None
  /\ cb' = "updated"
  /\ rate' = IF playing = <<>> THEN rate
             ELSE [rate EXCEPT ![playing[1]] = -rate[preloading]]
  /\ playing' = <<preloading>> \o playing
  /\ preloading' = None
  /\ commands' = <<>>
  /\ UNCHANGED <<held, requested, disposing, destroyed, paused,
                 silent, level, mpos, index, loaded>>

(* callback() returns at once while paused, else it starts mixing.         *)
StartMixing ==
  /\ cb = "updated"
  /\ cb' = IF paused \/ playing = <<>> THEN "idle" ELSE "mix"
  /\ index' = 1
  /\ UNCHANGED <<held, requested, preloading, playing, disposing, destroyed,
                 commands, paused, songVars, loaded>>

(* Music::operator() adds the block to m_pos without the mutex that seek() *)
(* holds: it loads the old position here ...                               *)
MixLoad ==
  /\ cb = "mix"
  /\ loaded' = mpos[playing[index]]
  /\ cb' = "store"
  /\ UNCHANGED <<held, requested, preloading, playing, disposing, destroyed,
                 commands, paused, songVars, index>>

WrongAtEnd(s, p) == s \notin silent /\ p >= Length

AtEnd(s, p) == s \in silent \/ p >= Length

Clamped(n) == IF n > Length THEN Length + 1 ELSE n

(* Where the song after the current one is mixed, or the callback returns. *)
GoOn(i, songs) ==
  IF i > Len(songs) THEN cb' = "idle" /\ index' = 1
  ELSE cb' = "mix" /\ index' = i

(* The fade level after a block; full volume ends the fade.                *)
Faded(s) ==
  LET l == level[s] + rate[s]
  IN IF l <= 0 THEN 0 ELSE IF l > Full THEN Full ELSE l

(* ... and stores the new one here; then it fades, and the song is over    *)
(* when it has faded out or has no audio left.                             *)
MixStore ==
  /\ cb = "store"
  /\ LET s == playing[index]
     IN /\ mpos' = [mpos EXCEPT ![s] = Clamped(loaded + 1)]
        /\ level' = [level EXCEPT ![s] = Faded(s)]
        /\ rate' = [rate EXCEPT ![s] = IF level[s] + @ > Full THEN 0 ELSE @]
        /\ IF Faded(s) <= 0 \/ AtEnd(s, loaded)
           THEN cb' = "retire" /\ UNCHANGED index
           ELSE GoOn(index + 1, playing)
  /\ UNCHANGED <<held, requested, preloading, playing, disposing, destroyed,
                 commands, paused, silent, loaded>>

(* A song that is over moves to disposing if the mutex can be taken ...    *)
Without(songs, i) ==
  SubSeq(songs, 1, i - 1) \o SubSeq(songs, i + 1, Len(songs))

KeptRetire ==
  /\ cb = "retire" /\ ~held
  /\ disposing' = disposing \cup {playing[index]}
  /\ GoOn(index + 1, playing)
  /\ UNCHANGED <<held, requested, preloading, playing, destroyed, commands,
                 paused, songVars, loaded>>

Retire ==
  /\ cb = "retire" /\ ~held
  /\ disposing' = disposing \cup {playing[index]}
  /\ playing' = Without(playing, index)
  /\ GoOn(index, playing')
  /\ UNCHANGED <<held, requested, preloading, destroyed, commands, paused,
                 songVars, loaded>>

(* ... and stays for the next callback if not.                             *)
RetireBusy ==
  /\ cb = "retire" /\ held
  /\ GoOn(index + 1, playing)
  /\ UNCHANGED <<held, requested, preloading, playing, disposing, destroyed,
                 commands, paused, songVars, loaded>>

-----------------------------------------------------------------------------
Callback ==
  \/ UpdateBusy \/ UpdateWaiting \/ Promote \/ StartMixing
  \/ MixLoad \/ MixStore \/ Retire \/ RetireBusy

Main ==
  \/ \E r \in FadeRates, empty \in BOOLEAN, p \in 0 .. Length - 1 :
       PlayMusic(r, empty, IF empty THEN 0 ELSE p)
  \/ \E p \in 0 .. Length - 1 : SeekPos(p)
  \/ QueueCommand
  \/ \E b \in BOOLEAN : Pause(b)
  \/ Unlock

OutputNext == Callback \/ Main

(* The main thread holds the mutex for moments only and not in step with   *)
(* the callback: "try again later" (callbackUpdate) finds it free again    *)
(* and again.                                                              *)
TryLockSucceeds ==
  /\ []<>(cb = "idle" /\ ~held)
  /\ []<>(cb = "retire") => []<>(cb = "retire" /\ ~held)

(* PortAudio calls the callback periodically, and a song that can be       *)
(* prepared is prepared in the end (LongSongsStart of MusicPlayback).      *)
OutputFairness ==
  /\ WF_outputVars(Callback) /\ WF_outputVars(Unlock)
  /\ SF_outputVars(Promote) /\ SF_outputVars(Retire)
  /\ TryLockSucceeds

OutputSpec == OutputInit /\ [][OutputNext]_outputVars /\ OutputFairness

-----------------------------------------------------------------------------
IsPlaying == preloading # None \/ playing # <<>>

(* At most one song is ever heard that is not fading out: the one promoted *)
(* last (callbackUpdate and Music::operator()).                            *)
OnlyFrontFadesIn ==
  \A i \in 2 .. Len(playing) : rate[playing[i]] < 0

(* A song is in one container at a time, and a destroyed one in none:      *)
(* what the callback mixes without the mutex is never freed under it.      *)
NoUseAfterFree ==
  /\ \A i, j \in DOMAIN playing : playing[i] = playing[j] => i = j
  /\ Range(playing) \cap (disposing \cup {preloading}) = {}
  /\ preloading \notin disposing
  /\ destroyed \cap (Range(playing) \cup disposing \cup {preloading}) = {}

(* The comment in playMusic: old commands "should not apply to the new     *)
(* music" (audio.cc:662).                                                  *)
CommandsProcessed == cb = "idle" /\ cb' = "updated" /\ commands # commands'

NoStaleCommand ==
  [][(CommandsProcessed /\ playing' # <<>>) =>
        \A c \in Range(commands) : Head(playing') <= c]_outputVars

(* After the last request, a stopMusic or a fadeout, everything falls      *)
(* silent unless the output is paused.                                     *)
StopsEventually ==
  (requested = MaxRequests /\ MaxRequests \in silent) ~> (~IsPlaying \/ paused)
=============================================================================
