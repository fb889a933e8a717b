---------------------------- MODULE AudioEffects ----------------------------
(***************************************************************************)
(* What is mixed on top of a song or done to it (audio.cc): samples, the   *)
(* synth, the fading of a track and the suppression of vocals, asked for   *)
(* by the main thread and done in the callback, if it gets the three       *)
(* mutexes.  The callback is two steps, its update and its mixing; songs   *)
(* that fade out are left to AudioOutput.                                  *)
(***************************************************************************)
EXTENDS Integers, Sequences, FiniteSets, SequencesExt

CONSTANTS
  SampleIds,
  SampleLength,  \* blocks
  SongLength,    \* blocks
  \* bounds of the model
  MaxMusic,      \* calls of playMusic
  MaxOrders      \* calls that queue a command

ASSUME EffectsAssumption == {SampleLength, SongLength, MaxMusic, MaxOrders} \subseteq Nat

Loud == 2   \* levels of a track: 0 silent, 1, 2 full
NoSong == [level |-> 0, suppressed |-> FALSE, left |-> -1]

VARIABLES
  musics,     \* calls of playMusic so far
  loading,   \* Output::preloading
  front,     \* Output::playing[0]: [level, suppressed, left: blocks of it]
  orders,    \* Output::commands: [type, arg]
  asked,     \* orders so far
  sounds,    \* Output::samples: [pos, eof]
  synth,     \* whether there is one
  setting,   \* audio/suppress_center_channel
  halted,    \* Output::paused
  block,        \* where the callback is
  \* not in the program:
  wanted,     \* the level of the track asked last for the song in front, or none
  crossed,   \* the suppression was switched while a song was preloading
  dropped    \* playMusic has thrown a sample's order away

fxvars == <<musics, loading, front, orders, asked, sounds, synth, setting, halted, block, wanted, crossed, dropped>>

EffectsInit ==
  /\ musics = 0 /\ loading = NoSong /\ front = NoSong /\ orders = <<>> /\ asked = 0
  /\ sounds = [s \in SampleIds |-> [pos |-> 0, eof |-> TRUE]]   \* Audio::loadSample
  /\ synth = FALSE /\ setting = FALSE /\ halted = FALSE /\ block = "update"
  /\ wanted = -1 /\ crossed = FALSE /\ dropped = FALSE

-----------------------------------------------------------------------------
(* The main thread *)

Asks(o) ==
  /\ asked < MaxOrders /\ asked' = asked + 1 /\ orders' = Append(orders, o)
  /\ UNCHANGED <<musics, loading, front, sounds, synth, setting, halted, block, crossed, dropped>>

PlaySample(s) == Asks([type |-> "sample", arg |-> s]) /\ UNCHANGED wanted

\* Audio::streamFade (and streamBend, whose factor nothing reads); not while a song is
\* about to take over.
StreamFade(l) ==
  /\ Asks([type |-> "fade", arg |-> l])
  /\ wanted' = IF front # NoSong /\ loading = NoSong THEN l ELSE wanted

\* Audio::playMusic; the song of stopMusic and fadeout has no tracks, and ends the synth.
StartMusic(stop) ==
  /\ musics < MaxMusic /\ musics' = musics + 1
  /\ loading' = [level |-> Loud, suppressed |-> setting, left |-> IF stop THEN 0 ELSE SongLength]
  /\ orders' = <<>> /\ wanted' = -1
  /\ dropped' = (dropped \/ \E i \in DOMAIN orders : orders[i].type = "sample")
  /\ synth' = (synth /\ ~stop)
  /\ UNCHANGED <<front, asked, sounds, setting, halted, block, crossed>>

ToggleSynth ==
  /\ synth' = ~synth
  /\ UNCHANGED <<musics, loading, front, orders, asked, sounds, setting, halted, block, wanted, crossed, dropped>>

\* The key V: the setting and the songs that play are switched, not the one preloading.
ToggleSuppressor ==
  /\ setting' = ~setting
  /\ front' = IF front = NoSong THEN front ELSE [front EXCEPT !.suppressed = ~@]
  /\ crossed' = (crossed \/ loading # NoSong)
  /\ UNCHANGED <<musics, loading, orders, asked, sounds, synth, halted, block, wanted, dropped>>

TogglePause ==
  /\ halted' = ~halted
  /\ UNCHANGED <<musics, loading, front, orders, asked, sounds, synth, setting, block, wanted, crossed, dropped>>

-----------------------------------------------------------------------------
(* The callback *)

\* Output::callbackUpdate with the mutex: the prepared song comes to the front, and the
\* commands are carried out in their order.
CarryOut ==
  /\ block = "update" /\ block' = "mix"
  /\ \E ready \in {loading # NoSong, loading.left = 0} :
       LET song == IF ready THEN loading ELSE front
           fades == SelectSeq(orders, LAMBDA o : o.type = "fade")
       IN  /\ loading' = IF ready THEN NoSong ELSE loading
           /\ front' = IF song # NoSong /\ fades # <<>> THEN [song EXCEPT !.level = Last(fades).arg]
                       ELSE song
  /\ LET reset(o) == o.type = "sample"
     IN  sounds' = [s \in SampleIds |->
                      IF \E i \in DOMAIN orders : reset(orders[i]) /\ orders[i].arg = s
                      THEN [pos |-> 0, eof |-> FALSE] ELSE sounds[s]]
  /\ orders' = <<>>
  /\ UNCHANGED <<musics, asked, synth, setting, halted, wanted, crossed, dropped>>

\* Without it, all that comes with the next block.
UpdateLater ==
  /\ block = "update" /\ block' = "mix"
  /\ UNCHANGED <<musics, loading, front, orders, asked, sounds, synth, setting, halted, wanted, crossed, dropped>>

\* mutant: a sample that has ended stays where it is
WrongSample(s) == [s EXCEPT !.eof = TRUE]
\* Sample::operator()
Sample(s) == [pos |-> IF s.eof THEN s.pos ELSE s.pos + 1, eof |-> s.eof \/ s.pos + 1 > SampleLength]

\* The rest of Output::callback: nothing while paused; the song plays and is disposed of
\* at its end; then the samples, if nobody loads one.
MixEffects ==
  /\ block = "mix" /\ block' = "update"
  /\ IF halted THEN UNCHANGED <<front, sounds, wanted>>
     ELSE /\ front' = IF front = NoSong \/ front.left = 0 THEN NoSong ELSE [front EXCEPT !.left = @ - 1]
          /\ wanted' = IF front' = NoSong THEN -1 ELSE wanted
          /\ sounds' = [s \in SampleIds |-> Sample(sounds[s])]
  /\ UNCHANGED <<musics, loading, orders, asked, synth, setting, halted, crossed, dropped>>

EffectsNext ==
  \/ \E s \in SampleIds : PlaySample(s)
  \/ \E l \in 0 .. Loud : StreamFade(l)
  \/ \E stop \in BOOLEAN : StartMusic(stop)
  \/ ToggleSynth \/ ToggleSuppressor \/ TogglePause
  \/ CarryOut \/ UpdateLater \/ MixEffects

EffectsFairness == SF_fxvars(CarryOut) /\ WF_fxvars(MixEffects)
EffectsSpec == EffectsInit /\ [][EffectsNext]_fxvars /\ EffectsFairness

-----------------------------------------------------------------------------
(* Properties *)

Asked(s) == \E i \in DOMAIN orders : orders[i] = [type |-> "sample", arg |-> s]

\* A sample that is asked for is heard to its end, however late the callback gets its
\* mutexes and whatever else is asked, unless a song is asked for before the callback
\* knows of it or the output stays paused; and the level of a track asked last is that of
\* the song when all is carried out, and vocals are suppressed as set, unless that was
\* switched while a song was preloading.
EffectsHeard ==
  /\ \A s \in SampleIds : Asked(s) ~> (sounds[s].pos > SampleLength \/ halted \/ dropped)
  /\ [](orders = <<>> /\ wanted # -1 => front.level = wanted)
  /\ [](front # NoSong => crossed \/ front.suppressed = setting)
=============================================================================
