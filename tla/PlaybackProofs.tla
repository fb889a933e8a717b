-------------------------- MODULE PlaybackProofs ---------------------------
(***************************************************************************)
(* The output, the clock and the buffer of the playback.  For any number   *)
(* of songs, commands, fade times and lengths: a song is in one container  *)
(* at a time and never used after it was destroyed, only the song in front *)
(* does not fade out, and no command reaches a newer song; the clock of a  *)
(* song never goes back nor past the last block; and the buffer shows the  *)
(* reader a window of the stream of the file.                              *)
(***************************************************************************)
EXTENDS AudioOutput, AudioClock, AudioBuffer, SequenceTheorems, FiniteSetTheorems, TLAPS

(* Where the callback mixes there is a song.                               *)
MixesASong == cb \in {"mix", "store", "retire"} => index \in 1 .. Len(playing)

(* Songs come from calls of playMusic, the newest of which preloads.       *)
Requested ==
  /\ \A i \in 1 .. Len(playing) : playing[i] <= requested
  /\ \A s \in disposing \cup destroyed \cup {preloading} : s <= requested

(* A song fades in until it is in front, and a queued command was queued   *)
(* since the last playMusic.                                               *)
FadesIn == preloading # None => rate[preloading] > 0
CommandsAreNew == \A i \in 1 .. Len(commands) : commands[i] = requested

ContainerTypes ==
  /\ preloading \in Songs \cup {None} /\ requested \in 0 .. MaxRequests
  /\ playing \in Seq(Songs) /\ disposing \subseteq Songs /\ destroyed \subseteq Songs

NoSongTwice == \A i, j \in 1 .. Len(playing) : playing[i] = playing[j] => i = j

Apart ==
  /\ \A i \in 1 .. Len(playing) : playing[i] \notin disposing \cup destroyed \cup {preloading}
  /\ (disposing \cup {preloading}) \cap destroyed = {}
  /\ preloading \notin disposing

ContainersInv == ContainerTypes /\ MixesASong /\ Requested /\ NoSongTwice /\ Apart

FadeInv ==
  /\ rate \in [Songs -> -(Full + 1) .. Full + 1] /\ level \in [Songs -> 0 .. Full]
  /\ FadesIn /\ OnlyFrontFadesIn

CommandInv == commands \in Seq(0 .. MaxRequests) /\ CommandsAreNew

USE DEF Songs, None

-----------------------------------------------------------------------------
(* Sequences of songs.                                                     *)

(* The songs that are left keep their order.                               *)
LEMMA WithoutProperties ==
  ASSUME NEW S, NEW songs \in Seq(S), NEW i \in 1 .. Len(songs)
  PROVE  /\ Without(songs, i) \in Seq(S)
         /\ Len(Without(songs, i)) = Len(songs) - 1
         /\ \A j \in 1 .. Len(songs) - 1 :
              Without(songs, i)[j] = IF j < i THEN songs[j] ELSE songs[j + 1]
<1> DEFINE before == SubSeq(songs, 1, i - 1)
           after == SubSeq(songs, i + 1, Len(songs))
<1>1. /\ before \in Seq(S) /\ Len(before) = i - 1
      /\ \A j \in 1 .. i - 1 : before[j] = songs[j]
  BY SubSeqProperties, ElementOfSeq
<1>2. /\ after \in Seq(S) /\ Len(after) = Len(songs) - i
      /\ \A j \in 1 .. Len(songs) - i : after[j] = songs[i + j]
  BY SubSeqProperties, ElementOfSeq
<1> HIDE DEF before, after
<1>3. /\ before \o after \in Seq(S) /\ Len(before \o after) = Len(songs) - 1
      /\ \A j \in 1 .. Len(songs) - 1 :
           (before \o after)[j] = IF j <= i - 1 THEN before[j] ELSE after[j - (i - 1)]
  <2>1. /\ before \o after \in Seq(S) /\ Len(before \o after) = Len(before) + Len(after)
        /\ \A j \in 1 .. Len(before) + Len(after) :
             (before \o after)[j] = IF j <= Len(before) THEN before[j] ELSE after[j - Len(before)]
    BY <1>1, <1>2, ConcatProperties, Zenon
  <2>2. Len(before) = i - 1 /\ Len(after) = Len(songs) - i /\ Len(songs) \in Nat
    BY <1>1, <1>2
  <2>3. Len(before) + Len(after) = Len(songs) - 1
    BY <2>2
  <2> QED BY <2>1, <2>2, <2>3
<1>4. Without(songs, i) = before \o after
  BY DEF Without, before, after
<1>5. ASSUME NEW j \in 1 .. Len(songs) - 1
      PROVE  Without(songs, i)[j] = IF j < i THEN songs[j] ELSE songs[j + 1]
  <2>1. CASE j < i
    BY <2>1, <1>1, <1>3, <1>4
  <2>2. CASE j >= i
    <3>1. j - (i - 1) \in 1 .. Len(songs) - i /\ i + (j - (i - 1)) = j + 1
      BY <2>2
    <3> QED BY <2>2, <3>1, <1>2, <1>3, <1>4
  <2> QED BY <2>1, <2>2
<1> QED BY <1>3, <1>4, <1>5

LEMMA PushFront ==
  ASSUME NEW S, NEW songs \in Seq(S), NEW s \in S
  PROVE  /\ <<s>> \o songs \in Seq(S)
         /\ Len(<<s>> \o songs) = Len(songs) + 1
         /\ \A i \in 1 .. Len(songs) + 1 :
              (<<s>> \o songs)[i] = IF i = 1 THEN s ELSE songs[i - 1]
<1>1. <<s>> \in Seq(S) /\ Len(<<s>>) = 1 /\ <<s>>[1] = s
  OBVIOUS
<1> QED BY <1>1, ConcatProperties

-----------------------------------------------------------------------------
(* Containers.                                                             *)

(* The other steps leave the containers alone.                             *)
Elsewhere ==
  UNCHANGED <<requested, preloading, playing, disposing, destroyed>>

(* Mixing goes on with a song, or the callback returns.                    *)
LEMMA GoesOn ==
  ASSUME NEW S, NEW songs \in Seq(S), NEW i \in Nat \ {0}, GoOn(i, songs)
  PROVE  /\ cb' \in {"idle", "mix"} /\ (cb' = "mix" => index' \in 1 .. Len(songs))
         /\ index' \in 1 .. Len(songs) + 1
<1>1. Len(songs) \in Nat
  OBVIOUS
<1> QED BY <1>1 DEF GoOn

LEMMA ContainersStep ==
  ASSUME ContainersInv, [OutputNext]_outputVars
  PROVE  ContainersInv'
<1> USE DEF ContainersInv
<1>0. Len(playing) \in Nat /\ MaxRequests \in Nat
  BY OutputAssumption DEF ContainerTypes
<1>10. \A i \in 1 .. Len(playing) : playing[i] \in Songs
  BY ElementOfSeq, Zenon DEF ContainerTypes
<1>1. ASSUME NEW r, NEW empty, NEW p, PlayMusic(r, empty, p)
      PROVE  ContainersInv'
  <2>1. /\ requested' = requested + 1 /\ preloading' = requested + 1 /\ disposing' = {}
        /\ destroyed' = destroyed \cup disposing \cup ({preloading} \ {None})
        /\ requested < MaxRequests /\ UNCHANGED <<playing, cb, index>>
    BY <1>1 DEF PlayMusic, Retired, cbVars
  <2>2. ContainerTypes'
    BY <1>0, <2>1 DEF ContainerTypes
  <2>3. MixesASong' /\ NoSongTwice'
    BY <2>1 DEF MixesASong, NoSongTwice
  <2>4. Requested'
    <3>1. ASSUME NEW i \in 1 .. Len(playing) PROVE playing[i] <= requested + 1
      BY <1>10 DEF Requested, ContainerTypes
    <3>2. ASSUME NEW s \in disposing \cup destroyed \cup {preloading}
          PROVE  s <= requested + 1
      BY DEF Requested, ContainerTypes
    <3>3. requested + 1 <= requested + 1
      BY DEF ContainerTypes
    <3> QED BY <2>1, <3>1, <3>2, <3>3 DEF Requested
  <2>5. Apart'
    <3>1. ASSUME NEW i \in 1 .. Len(playing) PROVE playing[i] # requested + 1
      BY <1>10 DEF Requested, ContainerTypes
    <3>2. requested + 1 \notin destroyed \cup disposing \cup {preloading}
      BY DEF Requested, ContainerTypes
    <3> QED BY <2>1, <3>1, <3>2 DEF Apart
  <2> QED BY <2>2, <2>3, <2>4, <2>5
<1>2. CASE Promote
  <2>1. preloading \in Songs /\ \A i \in 1 .. Len(playing) : playing[i] \in Songs
    BY <1>10, <1>2 DEF Promote, ContainerTypes
  <2>2. /\ playing' \in Seq(Songs) /\ Len(playing') = Len(playing) + 1
        /\ \A i \in 1 .. Len(playing) + 1 :
             playing'[i] = IF i = 1 THEN preloading ELSE playing[i - 1]
    BY <1>2, <2>1, PushFront DEF Promote, ContainerTypes
  <2>3. /\ preloading' = None /\ cb' = "updated"
        /\ UNCHANGED <<requested, disposing, destroyed>>
    BY <1>2 DEF Promote
  <2>4. ContainerTypes' /\ MixesASong'
    BY <2>2, <2>3 DEF ContainerTypes, MixesASong
  <2>5. ASSUME NEW i \in 1 .. Len(playing')
        PROVE  \/ i = 1 /\ playing'[i] = preloading
               \/ i - 1 \in 1 .. Len(playing) /\ playing'[i] = playing[i - 1]
    BY <1>0, <2>2
  <2>6. Requested'
    <3>1. 0 <= requested
      BY DEF ContainerTypes
    <3> QED BY <2>3, <2>5, <3>1 DEF Requested
  <2>7. NoSongTwice'
    <3> SUFFICES ASSUME NEW i \in 1 .. Len(playing'), NEW j \in 1 .. Len(playing'),
                        playing'[i] = playing'[j]
                 PROVE  i = j
      BY DEF NoSongTwice
    <3>1. \A k \in 1 .. Len(playing) : playing[k] # preloading
      BY DEF Apart
    <3>2. i \in Int /\ j \in Int
      OBVIOUS
    <3>3. CASE i = 1 \/ j = 1
      BY <2>5, <3>1, <3>3
    <3>4. CASE i # 1 /\ j # 1
      <4>1. /\ i - 1 \in 1 .. Len(playing) /\ playing'[i] = playing[i - 1]
            /\ j - 1 \in 1 .. Len(playing) /\ playing'[j] = playing[j - 1]
        BY <2>5, <3>4
      <4>2. i - 1 = j - 1
        BY <4>1 DEF NoSongTwice
      <4> QED BY <3>2, <4>2
    <3> QED BY <3>3, <3>4
  <2>8. Apart'
    <3>1. None \notin Songs
      OBVIOUS
    <3>2. ASSUME NEW i \in 1 .. Len(playing')
          PROVE  playing'[i] \in Songs /\ playing'[i] \notin disposing \cup destroyed
      BY <2>1, <2>5 DEF Apart
    <3> QED BY <2>3, <3>1, <3>2 DEF Apart, ContainerTypes
  <2> QED BY <2>4, <2>6, <2>7, <2>8
<1>3. CASE Retire
  <2>1. index \in 1 .. Len(playing) /\ playing[index] \in Songs /\ playing \in Seq(Songs)
    BY <1>10, <1>3 DEF Retire, ContainerTypes, MixesASong
  <2>2. /\ playing' \in Seq(Songs) /\ Len(playing') = Len(playing) - 1
        /\ \A j \in 1 .. Len(playing) - 1 :
             playing'[j] = IF j < index THEN playing[j] ELSE playing[j + 1]
    <3>1. playing' = Without(playing, index)
      BY <1>3 DEF Retire
    <3> QED BY <2>1, <3>1, WithoutProperties
  <2>3. /\ disposing' = disposing \cup {playing[index]}
        /\ UNCHANGED <<requested, preloading, destroyed>>
    BY <1>3 DEF Retire
  <2>4. MixesASong'
    <3>1. index \in Nat \ {0} /\ GoOn(index, playing')
      BY <1>0, <1>3, <2>1 DEF Retire
    <3>2. cb' \in {"idle", "mix"} /\ (cb' = "mix" => index' \in 1 .. Len(playing'))
      BY <2>2, <3>1, GoesOn, Zenon
    <3> QED BY <3>2 DEF MixesASong
  <2>5. ASSUME NEW i \in 1 .. Len(playing')
        PROVE  \E k \in 1 .. Len(playing) :
                 /\ k # index /\ playing'[i] = playing[k]
                 /\ k = IF i < index THEN i ELSE i + 1
    <3>1. i \in 1 .. Len(playing) - 1
      BY <2>2
    <3>2. CASE i < index
      BY <1>0, <2>1, <2>2, <3>1, <3>2
    <3>3. CASE i >= index
      <4>1. i + 1 \in 1 .. Len(playing) /\ i + 1 # index
        BY <1>0, <2>1, <3>1, <3>3
      <4>2. playing'[i] = playing[i + 1] /\ ~(i < index)
        BY <2>1, <2>2, <3>1, <3>3
      <4> QED BY <4>1, <4>2
    <3> QED BY <2>1, <3>1, <3>2, <3>3
  <2>6. ContainerTypes'
    BY <2>1, <2>2, <2>3 DEF ContainerTypes
  <2>7. Requested'
    BY <2>1, <2>3, <2>5, Zenon DEF Requested
  <2>8. NoSongTwice'
    <3> SUFFICES ASSUME NEW i \in 1 .. Len(playing'), NEW j \in 1 .. Len(playing'),
                        playing'[i] = playing'[j]
                 PROVE  i = j
      BY DEF NoSongTwice
    <3>1. PICK k \in 1 .. Len(playing) :
            playing'[i] = playing[k] /\ k = IF i < index THEN i ELSE i + 1
      BY <2>5
    <3>2. PICK l \in 1 .. Len(playing) :
            playing'[j] = playing[l] /\ l = IF j < index THEN j ELSE j + 1
      BY <2>5
    <3>3. k = l
      BY <3>1, <3>2 DEF NoSongTwice
    <3> QED BY <2>1, <3>1, <3>2, <3>3
  <2>9. Apart'
    <3>1. ASSUME NEW i \in 1 .. Len(playing')
          PROVE  /\ playing'[i] \notin disposing \cup destroyed \cup {preloading}
                 /\ playing'[i] # playing[index]
      BY <2>1, <2>5, Zenon DEF Apart, NoSongTwice
    <3>2. playing[index] \notin destroyed \cup {preloading}
      BY <2>1 DEF Apart
    <3> QED BY <2>3, <3>1, <3>2 DEF Apart
  <2> QED BY <2>4, <2>6, <2>7, <2>8, <2>9
<1>4. CASE Elsewhere /\ MixesASong'
  BY <1>4 DEF Elsewhere, ContainerTypes, Requested, NoSongTwice, Apart
<1>5. CASE UpdateBusy \/ UpdateWaiting \/ StartMixing \/ MixLoad
  <2>1. Elsewhere
    BY <1>5 DEF UpdateBusy, UpdateWaiting, StartMixing, MixLoad, Elsewhere
  <2>2. CASE StartMixing
    <3>1. cb' = "mix" => playing # <<>> /\ index' = 1
      BY <2>2 DEF StartMixing
    <3>2. playing # <<>> => 1 \in 1 .. Len(playing)
      BY <1>0, EmptySeq DEF ContainerTypes
    <3>3. cb' \in {"idle", "mix"} /\ playing' = playing
      BY <2>2 DEF StartMixing
    <3> QED BY <1>4, <2>1, <3>1, <3>2, <3>3 DEF MixesASong
  <2>3. CASE UpdateBusy \/ UpdateWaiting \/ MixLoad
    BY <1>4, <2>1, <2>3 DEF UpdateBusy, UpdateWaiting, MixLoad, MixesASong, Elsewhere
  <2> QED BY <1>5, <2>2, <2>3
<1>6. CASE MixStore \/ RetireBusy
  <2>1. Elsewhere
    BY <1>6 DEF MixStore, RetireBusy, Elsewhere
  <2>2. index \in 1 .. Len(playing)
    BY <1>6 DEF MixStore, RetireBusy, MixesASong
  <2>3. (cb' = "retire" /\ index' = index) \/ GoOn(index + 1, playing)
    BY <1>6 DEF MixStore, RetireBusy
  <2>4. MixesASong'
    BY <1>0, <2>1, <2>2, <2>3, GoesOn DEF Elsewhere, MixesASong, ContainerTypes
  <2> QED BY <1>4, <2>1, <2>4
<1>7. ASSUME NEW p, SeekPos(p) PROVE ContainersInv'
  BY <1>4, <1>7 DEF SeekPos, Elsewhere, cbVars, MixesASong
<1>8. ASSUME NEW b, Pause(b) PROVE ContainersInv'
  BY <1>4, <1>8 DEF Pause, Elsewhere, cbVars, MixesASong
<1>9. CASE QueueCommand \/ Unlock \/ UNCHANGED outputVars
  BY <1>4, <1>9 DEF QueueCommand, Unlock, outputVars, Elsewhere, cbVars, MixesASong
<1> QED
  BY <1>1, <1>2, <1>3, <1>5, <1>6, <1>7, <1>8, <1>9 DEF OutputNext, Callback, Main

-----------------------------------------------------------------------------
(* Fading.                                                                 *)

LEMMA FadedInRange ==
  ASSUME NEW s \in Songs, rate[s] \in Int, level[s] \in Int
  PROVE  Faded(s) \in 0 .. Full
BY OutputAssumption DEF Faded

(* A step that leaves the rates and the songs alone.                       *)
LEMMA FadesElsewhere ==
  ASSUME FadeInv, UNCHANGED <<rate, level, playing, preloading>>
  PROVE  FadeInv'
BY DEF FadeInv, FadesIn, OnlyFrontFadesIn

LEMMA FadeStep ==
  ASSUME ContainersInv, FadeInv, [OutputNext]_outputVars
  PROVE  FadeInv'
<1> USE DEF ContainersInv, FadeInv
<1>0. /\ Len(playing) \in Nat /\ MaxRequests \in Nat /\ Full \in Nat \ {0}
      /\ FadeRates \subseteq 1 .. Full + 1
  BY OutputAssumption DEF ContainerTypes
<1>1. \A i \in 1 .. Len(playing) : playing[i] \in Songs
  BY ElementOfSeq, Zenon DEF ContainerTypes
<1>2. \A i \in 1 .. Len(playing) : playing[i] # preloading
  BY DEF Apart
<1>3. ASSUME NEW r \in FadeRates, NEW empty, NEW p, PlayMusic(r, empty, p)
      PROVE  FadeInv'
  <2>1. /\ requested + 1 \in Songs /\ preloading' = requested + 1
        /\ rate' = [rate EXCEPT ![requested + 1] = r] /\ UNCHANGED <<level, playing>>
    BY <1>0, <1>3 DEF PlayMusic, ContainerTypes
  <2>2. \A i \in 1 .. Len(playing) : playing[i] # requested + 1
    BY <1>1 DEF Requested, ContainerTypes
  <2>3. r \in Int /\ r > 0 /\ r \in -(Full + 1) .. Full + 1
    BY <1>0
  <2>4. rate' \in [Songs -> -(Full + 1) .. Full + 1] /\ FadesIn'
    BY <2>1, <2>3 DEF FadesIn
  <2>5. OnlyFrontFadesIn'
    BY <1>0, <1>1, <2>1, <2>2 DEF OnlyFrontFadesIn
  <2> QED BY <2>1, <2>4, <2>5
<1>4. CASE Promote
  <2>1. /\ preloading \in Songs /\ preloading' = None /\ UNCHANGED level
        /\ rate' = IF playing = <<>> THEN rate
                   ELSE [rate EXCEPT ![playing[1]] = -rate[preloading]]
    BY <1>4 DEF Promote, ContainerTypes
  <2>2. /\ Len(playing') = Len(playing) + 1
        /\ \A i \in 1 .. Len(playing) + 1 :
             playing'[i] = IF i = 1 THEN preloading ELSE playing[i - 1]
    BY <1>4, <2>1, PushFront DEF Promote, ContainerTypes
  <2>3. rate[preloading] \in -(Full + 1) .. Full + 1 /\ rate[preloading] > 0
    BY <1>4, <2>1 DEF FadesIn, Promote
  <2>4. rate' \in [Songs -> -(Full + 1) .. Full + 1] /\ FadesIn'
    <3>1. -rate[preloading] \in -(Full + 1) .. Full + 1
      BY <1>0, <2>3
    <3> QED BY <2>1, <3>1 DEF FadesIn
  <2>5. OnlyFrontFadesIn'
    <3> SUFFICES ASSUME NEW i \in 2 .. Len(playing') PROVE rate'[playing'[i]] < 0
      BY DEF OnlyFrontFadesIn
    <3>1. /\ i - 1 \in 1 .. Len(playing) /\ playing'[i] = playing[i - 1]
          /\ 1 \in 1 .. Len(playing)
      BY <1>0, <2>2
    <3>2. playing # <<>>
      BY <3>1
    <3>3. CASE playing[i - 1] = playing[1]
      BY <1>1, <2>1, <2>3, <3>1, <3>2, <3>3
    <3>4. CASE playing[i - 1] # playing[1]
      <4>1. i - 1 \in 2 .. Len(playing)
        BY <3>1, <3>4
      <4>2. rate'[playing[i - 1]] = rate[playing[i - 1]]
        BY <1>1, <2>1, <3>1, <3>2, <3>4
      <4> QED BY <3>1, <4>1, <4>2 DEF OnlyFrontFadesIn
    <3> QED BY <3>3, <3>4
  <2> QED BY <2>1, <2>4, <2>5
<1>5. CASE MixStore
  <2> DEFINE s == playing[index]
  <2>1. s \in Songs /\ index \in 1 .. Len(playing)
    BY <1>1, <1>5 DEF MixStore, MixesASong
  <2>2. /\ level' = [level EXCEPT ![s] = Faded(s)] /\ UNCHANGED <<preloading, playing>>
        /\ rate' = [rate EXCEPT ![s] = IF level[s] + rate[s] > Full THEN 0 ELSE rate[s]]
    BY <1>5 DEF MixStore
  <2>3. level[s] \in 0 .. Full /\ rate[s] \in -(Full + 1) .. Full + 1
    BY <2>1
  <2>4. level' \in [Songs -> 0 .. Full]
    BY <2>1, <2>2, <2>3, FadedInRange
  <2>5. rate' \in [Songs -> -(Full + 1) .. Full + 1]
    BY <1>0, <2>1, <2>2, <2>3
  <2>6. FadesIn'
    BY <1>2, <2>1, <2>2 DEF FadesIn
  <2>7. OnlyFrontFadesIn'
    <3> SUFFICES ASSUME NEW i \in 2 .. Len(playing) PROVE rate'[playing[i]] < 0
      BY <2>2 DEF OnlyFrontFadesIn
    <3>1. rate[playing[i]] < 0 /\ i \in 1 .. Len(playing) /\ playing[i] \in Songs
      BY <1>0, <1>1 DEF OnlyFrontFadesIn
    <3>2. CASE playing[i] = s
      BY <1>0, <2>1, <2>2, <2>3, <3>1, <3>2
    <3>3. CASE playing[i] # s
      BY <2>2, <3>1, <3>3
    <3> QED BY <3>2, <3>3
  <2> QED BY <2>4, <2>5, <2>6, <2>7
<1>6. CASE Retire
  <2>1. index \in 1 .. Len(playing) /\ playing \in Seq(Songs)
    BY <1>6 DEF Retire, MixesASong, ContainerTypes
  <2>2. playing' = Without(playing, index) /\ UNCHANGED <<rate, level, preloading>>
    BY <1>6 DEF Retire, songVars
  <2>3. /\ Len(playing') = Len(playing) - 1
        /\ \A j \in 1 .. Len(playing) - 1 :
             playing'[j] = IF j < index THEN playing[j] ELSE playing[j + 1]
    BY <2>1, <2>2, WithoutProperties
  <2>4. OnlyFrontFadesIn'
    <3> SUFFICES ASSUME NEW i \in 2 .. Len(playing') PROVE rate[playing'[i]] < 0
      BY <2>2 DEF OnlyFrontFadesIn
    <3>1. i \in 2 .. Len(playing) /\ i + 1 \in 2 .. Len(playing) /\ i \in 1 .. Len(playing) - 1
      BY <1>0, <2>3
    <3>2. playing'[i] = playing[i] \/ playing'[i] = playing[i + 1]
      BY <2>3, <3>1
    <3> QED BY <3>1, <3>2 DEF OnlyFrontFadesIn
  <2> QED BY <2>2, <2>4 DEF FadesIn
<1>7. CASE UpdateBusy \/ UpdateWaiting \/ StartMixing \/ MixLoad \/ RetireBusy
  BY <1>7, FadesElsewhere
     DEF UpdateBusy, UpdateWaiting, StartMixing, MixLoad, RetireBusy, songVars
<1>8. CASE (\E p \in 0 .. Length - 1 : SeekPos(p)) \/ (\E b \in BOOLEAN : Pause(b))
  BY <1>8, FadesElsewhere DEF SeekPos, Pause, songVars
<1>9. CASE QueueCommand \/ Unlock \/ UNCHANGED outputVars
  BY <1>9, FadesElsewhere DEF QueueCommand, Unlock, outputVars, songVars
<1> QED
  BY <1>3, <1>4, <1>5, <1>6, <1>7, <1>8, <1>9 DEF OutputNext, Callback, Main

-----------------------------------------------------------------------------
(* Commands.                                                               *)

LEMMA CommandStep ==
  ASSUME ContainerTypes, CommandInv, [OutputNext]_outputVars
  PROVE  CommandInv'
<1> USE DEF CommandInv
<1>1. CASE commands' = <<>>
  BY <1>1 DEF CommandsAreNew
<1>2. CASE QueueCommand
  <2>1. requested \in 0 .. MaxRequests /\ commands \in Seq(0 .. MaxRequests)
    BY DEF ContainerTypes
  <2>2. commands' = Append(commands, requested) /\ UNCHANGED requested
    BY <1>2 DEF QueueCommand
  <2>3. /\ commands' \in Seq(0 .. MaxRequests) /\ Len(commands') = Len(commands) + 1
        /\ \A i \in 1 .. Len(commands) : commands'[i] = commands[i]
        /\ commands'[Len(commands) + 1] = requested
    BY <2>1, <2>2, AppendProperties
  <2>4. Len(commands) \in Nat
    BY <2>1
  <2> QED BY <2>2, <2>3, <2>4 DEF CommandsAreNew
<1>3. CASE UNCHANGED <<commands, requested>>
  BY <1>3 DEF CommandsAreNew
<1> QED
  BY <1>1, <1>2, <1>3 DEF OutputNext, Callback, Main, UpdateBusy, UpdateWaiting, Promote,
     StartMixing, MixLoad, MixStore, Retire, RetireBusy, PlayMusic, SeekPos, Pause, Unlock,
     outputVars

-----------------------------------------------------------------------------
(* The theorems.                                                           *)

OutputInv == ContainersInv /\ FadeInv /\ CommandInv

LEMMA OutputInvInit == OutputInit => OutputInv
<1> SUFFICES ASSUME OutputInit PROVE OutputInv
  OBVIOUS
<1>1. /\ playing = <<>> /\ commands = <<>> /\ preloading = None /\ requested = 0
      /\ disposing = {} /\ destroyed = {} /\ cb = "idle"
      /\ rate = [s \in Songs |-> 0] /\ level = [s \in Songs |-> 0]
  BY DEF OutputInit
<1>2. MaxRequests \in Nat /\ Full \in Nat
  BY OutputAssumption
<1>3. ContainersInv
  BY <1>1, <1>2 DEF ContainersInv, ContainerTypes, MixesASong, Requested, NoSongTwice, Apart
<1>4. FadeInv /\ CommandInv
  BY <1>1, <1>2 DEF FadeInv, CommandInv, FadesIn, OnlyFrontFadesIn, CommandsAreNew
<1> QED BY <1>3, <1>4 DEF OutputInv

LEMMA OutputInvStep == OutputInv /\ [OutputNext]_outputVars => OutputInv'
BY ContainersStep, FadeStep, CommandStep DEF OutputInv, ContainersInv

LEMMA OutputInvHolds == OutputSpec => []OutputInv
BY OutputInvInit, OutputInvStep, PTL DEF OutputSpec

(* What the callback mixes without the mutex is never freed under it: no   *)
(* song is in two containers or twice in one, and a destroyed one in none, *)
(* whatever the main thread requests and whenever the callback runs.       *)
THEOREM SongsAreNotUsedAfterFree == OutputSpec => []NoUseAfterFree
<1>1. OutputInv => NoUseAfterFree
  <2> SUFFICES ASSUME OutputInv PROVE NoUseAfterFree
    OBVIOUS
  <2>1. playing \in Seq(Songs) /\ DOMAIN playing = 1 .. Len(playing)
    BY DEF OutputInv, ContainersInv, ContainerTypes
  <2>2. NoSongTwice /\ Apart
    BY DEF OutputInv, ContainersInv
  <2>3. \A s \in Range(playing) : \E i \in 1 .. Len(playing) : s = playing[i]
    BY <2>1 DEF Range
  <2>4. \A i, j \in DOMAIN playing : playing[i] = playing[j] => i = j
    BY <2>1, <2>2 DEF NoSongTwice
  <2>5. \A s \in Range(playing) : s \notin disposing \cup destroyed \cup {preloading}
    BY <2>2, <2>3, Zenon DEF Apart
  <2> QED BY <2>2, <2>4, <2>5 DEF NoUseAfterFree, Apart
<1> QED BY <1>1, OutputInvHolds, PTL

(* At most the song promoted last is heard at full volume or fading in.    *)
THEOREM OnlyTheFrontSongFadesIn == OutputSpec => []OnlyFrontFadesIn
<1>1. OutputInv => OnlyFrontFadesIn
  BY DEF OutputInv, FadeInv
<1> QED BY <1>1, OutputInvHolds, PTL

(* The callback never applies to a song in front a command that was queued *)
(* before that song was requested.                                         *)
THEOREM CommandsReachTheirSong == OutputSpec => NoStaleCommand
<1> DEFINE Fresh ==
      CommandsProcessed /\ playing' # <<>> => \A c \in Range(commands) : Head(playing') <= c
<1>1. OutputInv /\ [OutputNext]_outputVars => [Fresh]_outputVars
  <2> SUFFICES ASSUME OutputInv, [OutputNext]_outputVars, CommandsProcessed, playing' # <<>>,
                      NEW c \in Range(commands)
               PROVE  Head(playing') <= c
    BY DEF OutputInv
  <2>1. /\ playing \in Seq(Songs) /\ preloading \in Songs \cup {None} /\ requested \in Nat
        /\ commands \in Seq(0 .. MaxRequests) /\ Requested /\ CommandsAreNew
    BY DEF OutputInv, ContainersInv, CommandInv, ContainerTypes
  <2>2. c = requested
    BY <2>1 DEF Range, CommandsAreNew
  <2>3. CASE playing' = playing
    <3>1. playing # <<>> /\ Head(playing) = playing[1] /\ 1 \in 1 .. Len(playing)
      BY <2>1, <2>3, EmptySeq
    <3> QED BY <2>1, <2>2, <2>3, <3>1 DEF Requested
  <2>4. CASE Promote
    <3>1. playing' = <<preloading>> \o playing /\ preloading \in Songs
      BY <2>1, <2>4 DEF Promote
    <3>2. Head(playing') = preloading
      BY <2>1, <3>1
    <3> QED BY <2>2, <2>1, <3>2 DEF Requested
  <2> QED
    BY <2>3, <2>4 DEF OutputNext, Callback, Main, CommandsProcessed, UpdateBusy,
       UpdateWaiting, StartMixing, MixLoad, MixStore, Retire, RetireBusy, PlayMusic, SeekPos,
       QueueCommand, Pause, Unlock, outputVars, cbVars
<1>2. OutputSpec => [][Fresh]_outputVars
  BY <1>1, OutputInvHolds, PTL DEF OutputSpec
<1> QED BY <1>2 DEF NoStaleCommand

-----------------------------------------------------------------------------
(* The clock.                                                              *)

LEMMA MinOfTwo ==
  ASSUME NEW a \in Int, NEW b \in Int
  PROVE  Min({a, b}) = IF a <= b THEN a ELSE b
<1>1. PICK m \in {a, b} : m <= a /\ m <= b
  OBVIOUS
<1>2. Min({a, b}) \in {a, b} /\ Min({a, b}) <= a /\ Min({a, b}) <= b
  BY <1>1 DEF Min
<1> QED BY <1>2

LEMMA MaxOfTwo ==
  ASSUME NEW a \in Int, NEW b \in Int
  PROVE  Max({a, b}) = IF a >= b THEN a ELSE b
<1>1. PICK m \in {a, b} : m >= a /\ m >= b
  OBVIOUS
<1>2. Max({a, b}) \in {a, b} /\ Max({a, b}) >= a /\ Max({a, b}) >= b
  BY <1>1 DEF Max
<1> QED BY <1>2

(* A skew is at most a hundredth, and no block is known of beyond the next *)
(* one, unless a seek moved the song.                                      *)
ClockInv ==
  /\ clock \in [baseTime : Int, basePos : Int, skew : -10 .. 10, max : Int]
  /\ now \in Int /\ due \in Int /\ moves \in Nat /\ moved \in BOOLEAN
  /\ clock.baseTime <= now
  /\ ~moved => clock.max <= due

(* The position without its limit.                                         *)
FreePosition ==
  clock.basePos + ((1000 + clock.skew) * (now - clock.baseTime)) \div 1000

Limited ==
  /\ FreePosition \in Int /\ Position \in Int
  /\ Position = IF FreePosition <= clock.max THEN FreePosition ELSE clock.max

LEMMA PositionIsLimited == ClockInv => Limited
<1> SUFFICES ASSUME ClockInv PROVE Limited
  OBVIOUS
<1>1. FreePosition \in Int /\ clock.max \in Int
  BY DEF ClockInv, FreePosition
<1>2. Position = Min({FreePosition, clock.max})
  BY DEF Position, FreePosition
<1> QED BY <1>1, <1>2, MinOfTwo DEF Limited

LEMMA PositionIsLimitedNext == (ClockInv => Limited)'
BY PositionIsLimited, PTL

(* A clock that starts now starts at its base.                             *)
AtBase == clock.baseTime = now /\ clock.basePos <= clock.max

LEMMA PositionAtBase == ClockInv /\ AtBase => Position = clock.basePos
<1> SUFFICES ASSUME ClockInv, AtBase PROVE Position = clock.basePos
  OBVIOUS
<1>1. FreePosition = clock.basePos
  <2>1. (1000 + clock.skew) * (now - clock.baseTime) = 0
    BY DEF ClockInv, AtBase
  <2> QED BY <2>1 DEF ClockInv, FreePosition
<1> QED BY <1>1, PositionIsLimited DEF Limited, AtBase

LEMMA PositionAtBaseNext == (ClockInv /\ AtBase => Position = clock.basePos)'
BY PositionAtBase, PTL

LEMMA FullSyncKeeps ==
  ASSUME ClockInv, NEW max \in Int, FullSync(max)
  PROVE  /\ clock'.baseTime = now /\ clock'.max = max
         /\ clock' \in [baseTime : Int, basePos : Int, skew : -10 .. 10, max : Int]
         /\ \/ clock'.basePos = Position /\ max > clock.max
            \/ clock'.basePos = due
<1>1. Position \in Int
  BY PositionIsLimited DEF Limited
<1>2. ASSUME NEW n \in Int PROVE Max({-10, Min({n, 10})}) \in -10 .. 10
  BY MinOfTwo, MaxOfTwo
<1>3. CASE clock' = [baseTime |-> now, basePos |-> due, skew |-> 0, max |-> max]
  BY <1>3 DEF ClockInv
<1>4. ASSUME NEW dither \in {0, BlockLength \div 10},
             max > clock.max,
             clock' = [baseTime |-> now, basePos |-> Position, max |-> max,
                       skew |-> Max({-10, Min({clock.skew + IF due - Position < dither
                                                            THEN -1 ELSE 1, 10})})]
      PROVE  /\ clock'.baseTime = now /\ clock'.max = max /\ clock'.basePos = Position
             /\ clock' \in [baseTime : Int, basePos : Int, skew : -10 .. 10, max : Int]
  <2>1. clock.skew + (IF due - Position < dither THEN -1 ELSE 1) \in Int
    BY DEF ClockInv
  <2> DEFINE skew == Max({-10, Min({clock.skew + IF due - Position < dither
                                                 THEN -1 ELSE 1, 10})})
  <2>2. skew \in -10 .. 10
    BY <1>2, <2>1, Zenon
  <2> HIDE DEF skew
  <2>3. clock' = [baseTime |-> now, basePos |-> Position, max |-> max, skew |-> skew]
    BY <1>4, Zenon DEF skew
  <2> QED BY <1>1, <2>2, <2>3 DEF ClockInv
<1> QED BY <1>3, <1>4 DEF FullSync

ClockMoves ==
  (~moved' => Position' <= due') /\ (moved \/ Position' >= Position)

LEMMA ClockStep ==
  ASSUME ClockInv, ClockNext
  PROVE  ClockInv' /\ ClockMoves
<1>0. /\ Position \in Int /\ FreePosition \in Int
      /\ Position = IF FreePosition <= clock.max THEN FreePosition ELSE clock.max
  BY PositionIsLimited DEF Limited
<1>1. SUFFICES ClockInv' /\ (moved \/ Position' >= Position)
  <2> SUFFICES ASSUME ClockInv' PROVE ~moved' => Position' <= due'
    BY DEF ClockMoves
  <2>1. Position' = (IF FreePosition' <= clock'.max THEN FreePosition' ELSE clock'.max)
        /\ FreePosition' \in Int
    BY PositionIsLimitedNext DEF Limited
  <2> QED BY <2>1 DEF ClockInv
<1>2. ASSUME FullSync(due + BlockLength), due' = due + BlockLength, UNCHANGED now,
             moves' \in Nat, moved' = FALSE
      PROVE  ClockInv' /\ (moved \/ Position' >= Position)
  <2>1. due + BlockLength \in Int /\ due + BlockLength > due
    BY DEF ClockInv, BlockLength
  <2>2. /\ clock'.baseTime = now /\ clock'.max = due + BlockLength
        /\ clock' \in [baseTime : Int, basePos : Int, skew : -10 .. 10, max : Int]
        /\ \/ clock'.basePos = Position /\ due + BlockLength > clock.max
           \/ clock'.basePos = due
    BY <1>2, <2>1, FullSyncKeeps
  <2>3. ClockInv'
    <3>1. now \in Int /\ due' \in Int /\ clock'.max <= due'
      BY <1>2, <2>1, <2>2 DEF ClockInv
    <3>2. moved' \in BOOLEAN /\ moves' \in Nat
      BY <1>2
    <3> QED BY <1>2, <2>2, <3>1, <3>2 DEF ClockInv
  <2>4. clock'.basePos <= clock'.max
    BY <1>0, <2>1, <2>2 DEF ClockInv
  <2>5. ClockInv' /\ clock'.baseTime = now' /\ clock'.basePos <= clock'.max
        => Position' = clock'.basePos
    BY PositionAtBaseNext DEF AtBase
  <2>6. moved \/ clock'.basePos >= Position
    BY <1>0, <2>2 DEF ClockInv
  <2> QED BY <1>2, <2>2, <2>3, <2>4, <2>5, <2>6
<1>3. ASSUME ClockInv', FreePosition' >= FreePosition, clock'.max >= clock.max
      PROVE  Position' >= Position
  <2>1. Position' = (IF FreePosition' <= clock'.max THEN FreePosition' ELSE clock'.max)
        /\ FreePosition' \in Int
    BY <1>3, PositionIsLimitedNext DEF Limited
  <2> QED BY <1>0, <1>3, <2>1 DEF ClockInv
<1>4. ASSUME clock' = [clock EXCEPT !.max = Max({@, due + BlockLength})],
             due' = due + BlockLength, UNCHANGED <<now, moved, moves>>
      PROVE  ClockInv' /\ Position' >= Position
  <2>1. /\ due + BlockLength \in Int /\ clock.max \in Int
        /\ due + BlockLength >= due
    BY DEF ClockInv, BlockLength
  <2>2. Max({clock.max, due + BlockLength})
          = IF clock.max >= due + BlockLength THEN clock.max ELSE due + BlockLength
    BY <2>1, MaxOfTwo
  <2>3. /\ clock' = [clock EXCEPT !.max = IF clock.max >= due + BlockLength THEN clock.max
                                          ELSE due + BlockLength]
        /\ clock'.max >= clock.max
    BY <1>4, <2>1, <2>2 DEF ClockInv
  <2>4. ClockInv'
    BY <1>4, <2>1, <2>3 DEF ClockInv
  <2>5. FreePosition' = FreePosition
    BY <1>4 DEF FreePosition, ClockInv
  <2> QED BY <1>0, <1>3, <2>3, <2>4, <2>5
<1>5. CASE MoveSong
  <2>1. PICK p \in 0 .. MaxBlocks - 1 : due' = p * BlockLength
    BY <1>5 DEF MoveSong
  <2>2. due' \in Int
    BY <2>1, ClockAssumption DEF BlockLength
  <2>3. ClockInv' /\ UNCHANGED <<clock, now>>
    BY <1>5, <2>2 DEF MoveSong, ClockInv
  <2>4. FreePosition' = FreePosition /\ clock'.max = clock.max /\ clock.max \in Int
    BY <2>3 DEF FreePosition, ClockInv
  <2> QED BY <1>0, <1>3, <2>3, <2>4
<1>6. CASE Passes
  <2>1. now' = now + 500 /\ UNCHANGED <<clock, due, moves, moved>>
    BY <1>6 DEF Passes, BlockLength
  <2>2. ClockInv'
    BY <2>1 DEF ClockInv
  <2> DEFINE before == (1000 + clock.skew) * (now - clock.baseTime)
             after == (1000 + clock.skew) * (now + 500 - clock.baseTime)
  <2>3. before \in Int /\ after \in Int /\ before <= after
    BY DEF ClockInv
  <2>4. before \div 1000 <= after \div 1000
    <3> HIDE DEF before, after
    <3> QED BY <2>3
  <2>5. FreePosition' >= FreePosition
    BY <2>1, <2>3, <2>4 DEF FreePosition, ClockInv
  <2> QED BY <1>3, <2>1, <2>2, <2>5 DEF ClockInv
<1> QED
  BY <1>2, <1>4, <1>5, <1>6 DEF ClockNext, TimeSync, ClockInv

(* The position of a song never goes back and never passes the end of the  *)
(* last block, whenever the blocks come and the clock is read, unless a    *)
(* seek moved the song since the clock was synced last.                    *)
THEOREM TheClockIsTrue == ClockSpec => ClockIsTrue
<1>1. ClockInit => ClockInv
  <2> SUFFICES ASSUME ClockInit PROVE ClockInv
    OBVIOUS
  <2>1. clock \in [baseTime : Int, basePos : Int, skew : -10 .. 10, max : Int]
    BY DEF ClockInit
  <2>2. moved \in BOOLEAN
    BY DEF ClockInit
  <2>3. clock.baseTime <= now /\ clock.max <= due
    BY DEF ClockInit
  <2> QED BY <2>1, <2>2, <2>3 DEF ClockInit, ClockInv
<1>2. ClockInv /\ [ClockNext]_clockVars => ClockInv'
  <2>1. ClockInv /\ UNCHANGED clockVars => ClockInv'
    BY DEF ClockInv, clockVars
  <2> QED BY <2>1, ClockStep
<1>3. ClockInv => (~moved => Position <= due)
  BY PositionIsLimited DEF ClockInv, Limited
<1>4. ClockInv /\ [ClockNext]_clockVars => [moved \/ Position' >= Position]_clockVars
  BY ClockStep DEF ClockMoves
<1>5. ClockSpec => [](~moved => Position <= due)
  BY <1>1, <1>2, <1>3, PTL DEF ClockSpec
<1>6. ClockSpec => [][moved \/ Position' >= Position]_clockVars
  BY <1>1, <1>2, <1>4, PTL DEF ClockSpec
<1> QED BY <1>5, <1>6 DEF ClockIsTrue

-----------------------------------------------------------------------------
(* The buffer, for every ring size, file length, frame length and reader.  *)

(***************************************************************************)
(* Every variable keeps its type whatever the reader asks for: m_read_pos  *)
(* never becomes negative although read() accepts negative positions.      *)
(***************************************************************************)
LEMMA InitType == Init => TypeOK
<1> SUFFICES ASSUME Init PROVE TypeOK
  OBVIOUS
<1>1. Zeros \in [Slots -> Int]
  BY DEF Zeros, Silence
<1>2. NoFrame \in Frames
  BY ConstantsAssumption DEF NoFrame, Frames
<1>3. Start \in Int
  BY ConstantsAssumption
<1>4. seekAsked \in BOOLEAN /\ quit \in BOOLEAN /\ asleep \in BOOLEAN
  BY DEF Init
<1>5. /\ ring \in [Slots -> Int] /\ writePos \in Int /\ readPos \in Nat
      /\ eofPos \in Int /\ target \in Nat /\ filePos \in Int
      /\ errors \in 0 .. MaxErrors
  BY <1>1, <1>3 DEF Init, MaxErrors
<1>6. pc \in DecoderStates /\ frame \in Frames
  BY <1>2 DEF Init, DecoderStates
<1>. QED
  BY <1>4, <1>5, <1>6 DEF TypeOK

LEMMA StoreType ==
  ASSUME NEW r \in [Slots -> Int], NEW p \in Int, NEW n \in Int
  PROVE  Store(r, p, n) \in [Slots -> Int]
  BY ConstantsAssumption DEF Store, Slots

LEMMA TakeFrameType ==
  ASSUME TypeOK, TakeFrame
  PROVE  frame' \in Frames /\ filePos' \in Int
         /\ filePos' = frame'.pos + frame'.len /\ frame'.pos = filePos
  BY ConstantsAssumption DEF TypeOK, TakeFrame, Frames, Lesser

LEMMA NextType == TypeOK /\ [Next]_vars => TypeOK'
<1> SUFFICES ASSUME TypeOK, [Next]_vars PROVE TypeOK'
  OBVIOUS
<1> USE ConstantsAssumption
<1>1. CASE LoopQuit
  BY <1>1 DEF TypeOK, LoopQuit, Goto, buffer, DecoderStates
<1>2. CASE LoopSeek
  <2>1. seekAsked' \in BOOLEAN /\ quit' \in BOOLEAN /\ asleep' \in BOOLEAN
    BY <1>2 DEF TypeOK, LoopSeek
  <2>2. /\ ring' \in [Slots -> Int] /\ writePos' \in Int /\ readPos' \in Nat
        /\ eofPos' \in Int /\ target' \in Nat /\ filePos' \in Int
        /\ errors' \in 0 .. MaxErrors /\ frame' \in Frames /\ pc' \in DecoderStates
    BY <1>2 DEF TypeOK, LoopSeek, Goto, DecoderStates
  <2>. QED
    BY <2>1, <2>2 DEF TypeOK
<1>3. CASE LoopDecode
  BY <1>3 DEF TypeOK, LoopDecode, Goto, buffer, DecoderStates
<1>4. CASE SeekFile
  BY <1>4 DEF TypeOK, SeekFile, Goto, buffer, DecoderStates, Landings, Lesser
<1>5. CASE ReadPacket
  BY <1>5, TakeFrameType DEF TypeOK, ReadPacket, Goto, buffer, DecoderStates
<1>6. CASE NextFrame
  BY <1>6, TakeFrameType DEF TypeOK, NextFrame, Goto, buffer, DecoderStates
<1>7. CASE PacketDone
  BY <1>7 DEF TypeOK, PacketDone, Goto, buffer, DecoderStates, MaxErrors
<1>8. CASE DecodeError
  BY <1>8 DEF TypeOK, DecodeError, buffer, DecoderStates, MaxErrors, Lesser
<1>9. CASE ReadEof
  BY <1>9 DEF TypeOK, ReadEof, Goto, buffer, DecoderStates
<1>10. CASE DropFrame
  BY <1>10 DEF TypeOK, DropFrame, Goto, buffer, DecoderStates
<1>11. ASSUME WriteFrame PROVE TypeOK'
  <2>1. Store(ring, frame.pos, frame.len) \in [Slots -> Int]
    BY StoreType DEF TypeOK, Frames
  <2>. QED
    BY <1>11, <2>1 DEF TypeOK, WriteFrame, DecoderStates, Frames
<1>12. CASE DeliverFrame
  BY <1>11, <1>12 DEF DeliverFrame
<1>13. CASE WaitForRoom
  BY <1>13 DEF TypeOK, WaitForRoom, Goto, buffer, DecoderStates
<1>14. CASE WakeAndWrite
  BY <1>11, <1>14 DEF WakeAndWrite
<1>15. CASE WakeNoRoom
  BY <1>15 DEF TypeOK, WakeNoRoom, buffer
<1>16. CASE MarkEof
  BY <1>16 DEF TypeOK, MarkEof, DecoderStates
<1>17. CASE WakeAtEof
  BY <1>17 DEF TypeOK, WakeAtEof, buffer, DecoderStates
<1>18. ASSUME NEW p \in Positions, NEW n \in Blocks, Read(p, n) PROVE TypeOK'
  <2>0. p \in Int /\ n \in Nat /\ Size \in Nat
    OBVIOUS
  <2>1. ClampedPos(p) \in Nat /\ Lesser(ClampedLen(p, n), Size) \in Nat
    BY <2>0 DEF ClampedPos, ClampedLen, Greater, Lesser
  <2>2. ReadLocked(ClampedPos(p), Lesser(ClampedLen(p, n), Size))
    BY <1>18 DEF Read
  <2>3. seekAsked' \in BOOLEAN /\ quit' \in BOOLEAN /\ asleep' \in BOOLEAN
    BY <2>2 DEF TypeOK, ReadLocked, Notify
  <2>4. ring' \in [Slots -> Int]
    BY <2>2 DEF TypeOK, ReadLocked, Zeros, Silence
  <2>5. /\ writePos' \in Int /\ readPos' \in Nat
        /\ eofPos' \in Int /\ target' \in Nat /\ filePos' \in Int
        /\ errors' \in 0 .. MaxErrors /\ frame' \in Frames /\ pc' \in DecoderStates
    BY <2>1, <2>2 DEF TypeOK, ReadLocked
  <2>. QED
    BY <2>3, <2>4, <2>5 DEF TypeOK
<1>19. CASE Destroy
  <2>1. seekAsked' \in BOOLEAN /\ quit' \in BOOLEAN /\ asleep' \in BOOLEAN
    BY <1>19 DEF TypeOK, Destroy, Notify
  <2>2. /\ ring' \in [Slots -> Int] /\ writePos' \in Int /\ readPos' \in Nat
        /\ eofPos' \in Int /\ target' \in Nat /\ filePos' \in Int
        /\ errors' \in 0 .. MaxErrors /\ frame' \in Frames /\ pc' \in DecoderStates
    BY <1>19 DEF TypeOK, Destroy, Zeros, Silence
  <2>. QED
    BY <2>1, <2>2 DEF TypeOK
<1>20. CASE UNCHANGED vars
  BY <1>20 DEF TypeOK, vars
<1>. QED
  BY <1>1, <1>2, <1>3, <1>4, <1>5, <1>6, <1>7, <1>8, <1>9, <1>10, <1>12,
     <1>13, <1>14, <1>15, <1>16, <1>17, <1>18, <1>19, <1>20
  DEF Next, Decoder, Reader, Joined

THEOREM TypeCorrect == Spec => []TypeOK
<1>1. Init => TypeOK
  BY InitType
<1>2. TypeOK /\ [Next]_vars => TypeOK'
  BY NextType
<1>. QED
  BY <1>1, <1>2, PTL DEF Spec

-----------------------------------------------------------------------------
(***************************************************************************)
(* The window between the two positions.  WindowBounded is not inductive:  *)
(* a step of the decoder thread depends on where the file stands, on the   *)
(* frame it carries and on the target it captured, which the three other   *)
(* parts of the invariant tie to the window.                               *)
(***************************************************************************)

(* The furthest a frame may start: where the window ends, or within one    *)
(* frame of the reading position.                                          *)
Frontier == Greater(writePos, readPos - 1 + MaxFrame)

CarriesFrame == pc \in {"deliver", "waitRoom"}

TargetInv == (pc = "seeking" /\ ~Repositioning) => (target = writePos)

FileInv ==
  (~Repositioning /\ pc # "seeking" /\ ~CarriesFrame) => filePos <= Frontier

FrameInv ==
  CarriesFrame =>
    /\ filePos = frame.pos + frame.len
    /\ ~Repositioning => frame.pos <= Frontier

WindowInv == WindowBounded /\ TargetInv /\ FileInv /\ FrameInv

USE DEF Repositioning, CarriesFrame, Lesser, Greater, Frontier

LEMMA InitWindow == Init => WindowInv
  BY ConstantsAssumption
  DEF Init, WindowInv, WindowBounded, TargetInv, FileInv, FrameInv

LEMMA HalfRing == Size \div 2 \in Nat /\ MaxFrame <= Size \div 2
  BY ConstantsAssumption

LEMMA NextWindow ==
  ASSUME TypeOK, TypeOK', WindowInv, [Next]_vars, "seek" \notin Faults
  PROVE  WindowInv'
<1> USE ConstantsAssumption, HalfRing
        DEF WindowInv, WindowBounded, TargetInv, FileInv, FrameInv, TypeOK, Frames
<1>1. CASE LoopQuit
  BY <1>1 DEF LoopQuit, Goto, buffer
<1>2. CASE LoopSeek
  BY <1>2 DEF LoopSeek, Goto
<1>3. CASE LoopDecode
  BY <1>3 DEF LoopDecode, Goto, buffer
<1>4. CASE SeekFile
  BY <1>4 DEF SeekFile, Goto, buffer, Landings
<1>5. CASE ReadPacket
  BY <1>5, TakeFrameType DEF ReadPacket, Goto, buffer
<1>6. CASE NextFrame
  BY <1>6, TakeFrameType DEF NextFrame, Goto, buffer
<1>7. CASE PacketDone
  BY <1>7 DEF PacketDone, Goto, buffer
<1>8. CASE DecodeError
  BY <1>8 DEF DecodeError, buffer
<1>9. CASE ReadEof
  BY <1>9 DEF ReadEof, Goto, buffer
<1>10. CASE DropFrame
  BY <1>10 DEF DropFrame, Goto, buffer
<1>11. ASSUME CarriesFrame, WriteFrame PROVE WindowInv'
  BY <1>11 DEF WriteFrame, Condition, WantMore, SeekOrQuit
<1>12. CASE DeliverFrame
  BY <1>11, <1>12 DEF DeliverFrame
<1>13. CASE WaitForRoom
  BY <1>13 DEF WaitForRoom, Goto, buffer
<1>14. CASE WakeAndWrite
  BY <1>11, <1>14 DEF WakeAndWrite
<1>15. CASE WakeNoRoom
  BY <1>15 DEF WakeNoRoom, buffer
<1>16. CASE MarkEof
  BY <1>16 DEF MarkEof, SeekOrQuit
<1>17. CASE WakeAtEof
  BY <1>17 DEF WakeAtEof, SeekOrQuit, buffer
<1>18. ASSUME NEW p \in Positions, NEW n \in Blocks, Read(p, n) PROVE WindowInv'
  <2>0. p \in Int /\ n \in Nat
    OBVIOUS
  <2> DEFINE q == ClampedPos(p)
             m == Lesser(ClampedLen(p, n), Size)
  <2>1. q \in Nat /\ m \in Nat
    BY <2>0 DEF ClampedPos, ClampedLen
  <2>2. ReadLocked(q, m)
    BY <1>18 DEF Read
  <2> HIDE DEF q, m
  <2>3. CASE OutOfRange(q, m)
    BY <2>1, <2>2, <2>3 DEF ReadLocked
  <2>4. CASE ~OutOfRange(q, m)
    BY <2>1, <2>2, <2>4 DEF ReadLocked, OutOfRange
  <2>. QED
    BY <2>3, <2>4
<1>19. CASE Destroy
  BY <1>19 DEF Destroy
<1>20. CASE UNCHANGED vars
  BY <1>20 DEF vars
<1>. QED
  BY <1>1, <1>2, <1>3, <1>4, <1>5, <1>6, <1>7, <1>8, <1>9, <1>10, <1>12,
     <1>13, <1>14, <1>15, <1>16, <1>17, <1>18, <1>19, <1>20
  DEF Next, Decoder, Reader, Joined

(***************************************************************************)
(* When every file can be repositioned, the decoder thread never runs more *)
(* than half a ring and a frame ahead of the callback: with MaxFrame at    *)
(* most half of the ring, no sample is overwritten before it is read.      *)
(***************************************************************************)
THEOREM WindowNeverOverrun ==
  ASSUME "seek" \notin Faults
  PROVE  Spec => []WindowBounded
<1>1. Init => WindowInv
  BY InitWindow
<1>2. TypeOK /\ TypeOK' /\ WindowInv /\ [Next]_vars => WindowInv'
  BY NextWindow
<1>3. WindowInv => WindowBounded
  BY DEF WindowInv
<1>. QED
  BY <1>1, <1>2, <1>3, TypeCorrect, PTL DEF Spec

-----------------------------------------------------------------------------
(***************************************************************************)
(* The buffer implements the stream.  A frame that is written joins the    *)
(* window where it ends, or the window is empty; the first holds from one  *)
(* frame to the next because the file is read in order.                    *)
(***************************************************************************)

Joins(pos) == pos = writePos \/ writePos <= readPos

OrderInv ==
  /\ CarriesFrame => frame.len >= 1
  /\ ~Repositioning =>
       /\ pc = "seeking" => writePos <= readPos
       /\ pc # "seeking" /\ ~CarriesFrame => Joins(filePos)
       /\ CarriesFrame => Joins(frame.pos)
       /\ pc = "waitRoom" => writePos <= frame.pos

LEMMA InitOrder == Init => OrderInv
  BY DEF Init, OrderInv, Joins

(* No handler breaks the order of the frames.                              *)
LEMMA NextOrder ==
  ASSUME TypeOK, FrameInv, OrderInv, [Next]_vars
  PROVE  OrderInv'
<1> USE ConstantsAssumption DEF OrderInv, Joins, TypeOK, Frames
<1>1. CASE LoopQuit
  BY <1>1 DEF LoopQuit, Goto, buffer
<1>2. CASE LoopSeek
  BY <1>2 DEF LoopSeek, Goto
<1>3. CASE LoopDecode
  BY <1>3 DEF LoopDecode, Goto, buffer
<1>4. CASE SeekFile
  BY <1>4 DEF SeekFile, Goto, buffer, Landings
<1>5. ASSUME TakeFrame PROVE frame'.len >= 1 /\ frame'.pos = filePos
  BY <1>5 DEF TakeFrame
<1>6. CASE ReadPacket
  BY <1>5, <1>6 DEF ReadPacket, Goto, buffer
<1>7. CASE NextFrame
  BY <1>5, <1>7 DEF NextFrame, Goto, buffer
<1>8. CASE PacketDone
  BY <1>8 DEF PacketDone, Goto, buffer
<1>9. CASE DecodeError
  BY <1>9 DEF DecodeError, buffer
<1>10. CASE ReadEof
  BY <1>10 DEF ReadEof, Goto, buffer
<1>11. CASE DropFrame
  BY <1>11 DEF DropFrame, Goto, buffer
<1>12. ASSUME CarriesFrame, WriteFrame PROVE OrderInv'
  BY <1>12 DEF WriteFrame, SeekOrQuit, FrameInv
<1>13. CASE DeliverFrame \/ WakeAndWrite
  BY <1>12, <1>13 DEF DeliverFrame, WakeAndWrite
<1>14. CASE WaitForRoom
  BY <1>14 DEF WaitForRoom, Goto, buffer
<1>15. CASE WakeNoRoom
  BY <1>15 DEF WakeNoRoom, buffer
<1>16. CASE MarkEof
  BY <1>16 DEF MarkEof, SeekOrQuit
<1>17. CASE WakeAtEof
  BY <1>17 DEF WakeAtEof, SeekOrQuit, buffer
<1>18. ASSUME NEW p \in Positions, NEW n \in Blocks, Read(p, n) PROVE OrderInv'
  <2>0. p \in Int /\ n \in Nat
    OBVIOUS
  <2> DEFINE q == ClampedPos(p)
             m == Lesser(ClampedLen(p, n), Size)
  <2>1. q \in Nat /\ m \in Nat
    BY <2>0 DEF ClampedPos, ClampedLen
  <2>2. ReadLocked(q, m)
    BY <1>18 DEF Read
  <2> HIDE DEF q, m
  <2>3. CASE OutOfRange(q, m)
    BY <2>1, <2>2, <2>3 DEF ReadLocked
  <2>4. CASE ~OutOfRange(q, m)
    BY <2>1, <2>2, <2>4 DEF ReadLocked, OutOfRange
  <2>. QED
    BY <2>3, <2>4
<1>19. CASE Destroy
  BY <1>19 DEF Destroy
<1>20. CASE UNCHANGED vars
  BY <1>20 DEF vars
<1>. QED
  BY <1>1, <1>2, <1>3, <1>4, <1>6, <1>7, <1>8, <1>9, <1>10, <1>11,
     <1>13, <1>14, <1>15, <1>16, <1>17, <1>18, <1>19, <1>20
  DEF Next, Decoder, Reader, Joined

-----------------------------------------------------------------------------
(* Where the samples of a frame are in the ring.                           *)

(* Multiples of the divisor do not change a remainder.                     *)
LEMMA SameRemainder ==
  ASSUME NEW n \in Nat \ {0}, NEW x \in Int, NEW d \in 0 .. n - 1, NEW k \in Int, x = k * n + d
  PROVE  x % n = d
<1> DEFINE j == x \div n
           r == x % n
<1>1. x = j * n + r /\ r \in 0 .. n - 1 /\ j \in Int
  OBVIOUS
<1> HIDE DEF j, r
<1>2. (k - j) * n = r - d
  BY <1>1
<1> DEFINE i == k - j
<1>3. i \in Int /\ i * n = r - d
  BY <1>1, <1>2
<1> HIDE DEF i
<1>4. i >= 1 => i * n >= n
  BY <1>3
<1>5. i <= -1 => i * n <= -n
  BY <1>3
<1>6. i = 0
  BY <1>1, <1>3, <1>4, <1>5
<1>7. r = d
  BY <1>1, <1>3, <1>6
<1> QED BY <1>7 DEF r

(* A sample of the frame is found in its slot; what lies less than a ring  *)
(* behind the end of the frame keeps its own.                              *)
LEMMA StoredSamples ==
  ASSUME NEW r \in [Slots -> Int], NEW p \in Int, NEW n \in 0 .. Size,
         NEW q \in Int, q < p + n, q >= p + n - Size
  PROVE  /\ q % Size \in Slots
         /\ q >= p => Store(r, p, n)[q % Size] = q
         /\ q < p => Store(r, p, n)[q % Size] = r[q % Size]
<1> USE ConstantsAssumption
<1> DEFINE i == q % Size
           k == q \div Size
<1>1. i \in Slots /\ i \in Int /\ k \in Int /\ q = k * Size + i
  BY DEF Slots
<1> HIDE DEF i, k
<1>2. Store(r, p, n)[i] = IF (i - p) % Size < n THEN p + ((i - p) % Size) ELSE r[i]
  BY <1>1 DEF Store
<1>3. CASE q >= p
  <2>1. q - p \in 0 .. Size - 1 /\ -k \in Int /\ i - p \in Int
    BY <1>1, <1>3
  <2>2. i - p = (-k) * Size + (q - p)
    BY <1>1
  <2>3. (i - p) % Size = q - p
    BY <2>1, <2>2, SameRemainder, ZenonT(30)
  <2> QED BY <1>1, <1>2, <1>3, <2>3 DEF i
<1>4. CASE q < p
  <2>1. q - p + Size \in 0 .. Size - 1 /\ -k - 1 \in Int /\ i - p \in Int
    BY <1>1, <1>4
  <2>2. i - p = (-k - 1) * Size + (q - p + Size)
    BY <1>1
  <2>3. (i - p) % Size = q - p + Size
    BY <2>1, <2>2, SameRemainder
  <2> QED BY <1>1, <1>2, <1>4, <2>3 DEF i
<1> QED BY <1>3, <1>4

-----------------------------------------------------------------------------
(* Steps of the buffer as steps of the stream                              *)

WindowDomain == IF Repositioning THEN {} ELSE readPos .. writePos - 1

LEMMA DomainOfWindow ==
  /\ DOMAIN Window = WindowDomain
  /\ \A q \in WindowDomain : Window[q] = ring[q % Size]
BY DEF Window, WindowDomain

LEMMA DomainOfNextWindow ==
  /\ DOMAIN Window' = WindowDomain'
  /\ \A q \in WindowDomain' : Window'[q] = ring'[q % Size]
BY DEF Window, WindowDomain

(* Until the frame is written the window stays as it is, and then the      *)
(* frame is the piece that tops the stream up.                             *)
LEMMA WriteTopsUp ==
  ASSUME TypeOK, TypeOK', WindowInv, WindowInv', OrderInv, CarriesFrame, WriteFrame,
         pc = "deliver" => frame.pos >= readPos
  PROVE  [Stream!Next]_Stream!streamVars
<1> USE ConstantsAssumption, HalfRing DEF TypeOK, Frames
<1>1. CASE SeekOrQuit
  <2>1. Window' = Window /\ readPos' = readPos /\ quit' = quit
    BY <1>1 DEF WriteFrame, Window
  <2> QED BY <2>1 DEF Stream!streamVars
<1>2. CASE ~SeekOrQuit
  <2> DEFINE p == frame.pos
             n == frame.len
             h == frame.pos + frame.len
  <2>1. /\ ring' = Store(ring, p, n) /\ writePos' = h
        /\ UNCHANGED <<readPos, seekAsked, quit>> /\ ~quit
        /\ ~Repositioning /\ ~Repositioning'
    BY <1>2 DEF WriteFrame, SeekOrQuit
  <2>2. /\ p \in Int /\ n \in 1 .. MaxFrame /\ writePos <= p
        /\ p = writePos \/ writePos <= readPos
        /\ h < readPos + (Size \div 2) + MaxFrame
        /\ p <= Frontier
    BY <2>1 DEF OrderInv, Joins, WindowInv, WindowBounded, FrameInv
  <2>3. WindowDomain = readPos .. writePos - 1 /\ WindowDomain' = readPos .. h - 1
    BY <2>1 DEF WindowDomain
  <2> HIDE DEF p, n, h
  <2>h. h = p + n /\ h \in Int
    BY <2>2 DEF h, p, n
  <2>4. CASE h <= readPos
    <3>1. DOMAIN Window' = {}
      BY <2>3, <2>4, <2>h, DomainOfNextWindow
    <3> QED BY <2>1, <3>1 DEF Stream!Next, Stream!Jump
  <2>5. CASE h > readPos
    <3>1. h \in readPos + 1 .. readPos + (Size \div 2) + MaxFrame - 1
      BY <2>2, <2>5, <2>h
    <3>2. DOMAIN Window = readPos .. writePos - 1 /\ DOMAIN Window' = readPos .. h - 1
      BY <2>3, DomainOfWindow, DomainOfNextWindow
    <3>3. DOMAIN Window \subseteq DOMAIN Window' /\ DOMAIN Window # DOMAIN Window'
      <4>1. writePos < h /\ h - 1 \in readPos .. h - 1 /\ h - 1 \notin readPos .. writePos - 1
        BY <2>2, <2>5, <2>h
      <4> QED BY <3>2, <4>1, SMTT(30)
    <3>4. ASSUME NEW q \in DOMAIN Window'
          PROVE  /\ q >= p => Window'[q] = q
                 /\ q < p => Window'[q] = ring[q % Size]
      <4>1. q \in Int /\ q < p + n /\ q >= p + n - Size /\ n \in 0 .. Size
        <5>1. q \in Int /\ q < h /\ q >= readPos
          BY <3>2, <3>4, <2>h, SMTT(30)
        <5>2. h <= readPos + Size
          BY <2>2, <2>h
        <5> QED BY <2>2, <2>h, <5>1, <5>2
      <4>2. Window'[q] = Store(ring, p, n)[q % Size]
        BY <2>1, <3>4, DomainOfNextWindow
      <4> QED BY <2>2, <4>1, <4>2, StoredSamples
    <3>5. \A q \in DOMAIN Window : Window'[q] = Window[q]
      <4> TAKE q \in DOMAIN Window
      <4>1. q < p /\ q \in DOMAIN Window'
        BY <2>2, <3>2, <3>3, SMTT(30)
      <4>2. Window[q] = ring[q % Size]
        BY <2>3, <3>2, DomainOfWindow
      <4> QED BY <3>4, <4>1, <4>2
    <3>6. ASSUME NEW q \in DOMAIN Window' \ DOMAIN Window
          PROVE  Window'[q] = q \/ (DOMAIN Window = {} /\ q < readPos + MaxFrame - 1)
      <4>1. q \in Int /\ q >= readPos /\ q >= writePos
        BY <2>h, <3>2, <3>6, SMTT(30)
      <4>2. CASE q >= p
        BY <3>4, <3>6, <4>2
      <4>3. CASE q < p
        <5>1. writePos <= readPos /\ q < readPos + MaxFrame - 1
          BY <2>2, <4>1, <4>3
        <5>2. DOMAIN Window = {}
          BY <3>2, <5>1
        <5> QED BY <5>1, <5>2
      <4> QED BY <2>2, <4>1, <4>2, <4>3
    <3>7. Stream!TopUp
      BY <2>1, <3>1, <3>2, <3>3, <3>5, <3>6 DEF Stream!TopUp
    <3> QED BY <3>7 DEF Stream!Next
  <2> QED BY <2>2, <2>4, <2>5, <2>h
<1> QED BY <1>1, <1>2

(* A read inside the window moves on in it; one outside leaves it empty.   *)
LEMMA ReadAdvancesOrJumps ==
  ASSUME TypeOK, NEW p \in Positions, NEW n \in Blocks, Read(p, n)
  PROVE  Stream!Next
<1> USE ConstantsAssumption DEF TypeOK
<1> DEFINE q == ClampedPos(p)
           m == Lesser(ClampedLen(p, n), Size)
<1>1. p \in Int /\ n \in Nat
  OBVIOUS
<1>2. q \in Nat /\ m \in Nat
  BY <1>1 DEF ClampedPos, ClampedLen
<1>3. ReadLocked(q, m)
  BY DEF Read
<1> HIDE DEF q, m
<1>4. readPos' = q + m /\ UNCHANGED <<writePos, quit>>
  BY <1>3 DEF ReadLocked
<1>5. CASE OutOfRange(q, m) \/ Repositioning
  <2>1. Repositioning'
    BY <1>3, <1>5, Zenon DEF ReadLocked
  <2>2. DOMAIN Window' = {}
    BY <2>1, DomainOfNextWindow DEF WindowDomain
  <2> QED BY <1>4, <2>2 DEF Stream!Next, Stream!Jump
<1>6. CASE ~(OutOfRange(q, m) \/ Repositioning)
  <2>1. UNCHANGED <<seekAsked, ring>> /\ readPos' >= readPos
    BY <1>2, <1>3, <1>6 DEF ReadLocked, OutOfRange
  <2>2. /\ DOMAIN Window = readPos .. writePos - 1
        /\ DOMAIN Window' = readPos' .. writePos - 1
    BY <1>4, <1>6, <2>1, DomainOfWindow, DomainOfNextWindow DEF WindowDomain
  <2>3. readPos' \in Int
    BY <1>2, <1>4
  <2>4. DOMAIN Window' = {s \in DOMAIN Window : s >= readPos'}
    BY <2>1, <2>2, <2>3
  <2>5. \A s \in DOMAIN Window' : Window'[s] = Window[s]
    BY <2>1, <2>4, DomainOfWindow, DomainOfNextWindow
  <2> QED BY <1>4, <2>1, <2>4, <2>5 DEF Stream!Next, Stream!Advance
<1> QED BY <1>5, <1>6

(* Whatever else happens leaves the window alone, or empty.                *)
LEMMA StepOfTheStream ==
  ASSUME TypeOK, TypeOK', WindowInv, WindowInv', OrderInv, [Next]_vars
  PROVE  [Stream!Next]_Stream!streamVars
<1>1. ASSUME UNCHANGED buffer PROVE [Stream!Next]_Stream!streamVars
  <2>1. Window' = Window /\ readPos' = readPos /\ quit' = quit
    BY <1>1 DEF buffer, Window
  <2> QED BY <2>1 DEF Stream!streamVars
<1>2. CASE \/ LoopQuit \/ LoopDecode \/ SeekFile \/ ReadPacket \/ NextFrame \/ PacketDone
           \/ DecodeError \/ ReadEof \/ DropFrame \/ WaitForRoom \/ WakeNoRoom \/ WakeAtEof
  BY <1>1, <1>2
  DEF LoopQuit, LoopDecode, SeekFile, ReadPacket, NextFrame, PacketDone, DecodeError, ReadEof,
      DropFrame, WaitForRoom, WakeNoRoom, WakeAtEof
<1>3. CASE LoopSeek
  <2>1. writePos' = readPos' /\ quit' = quit /\ readPos' \in Int
    BY <1>3 DEF LoopSeek, TypeOK
  <2>2. WindowDomain' = {}
    BY <2>1 DEF WindowDomain
  <2> QED BY <2>1, <2>2, DomainOfNextWindow DEF Stream!Next, Stream!Jump
<1>4. CASE DeliverFrame \/ WakeAndWrite
  BY <1>4, WriteTopsUp DEF DeliverFrame, WakeAndWrite
<1>5. CASE MarkEof
  <2>1. Window' = Window /\ readPos' = readPos /\ quit' = quit
    BY <1>5 DEF MarkEof, Window
  <2> QED BY <2>1 DEF Stream!streamVars
<1>6. CASE Reader
  BY <1>6, ReadAdvancesOrJumps DEF Reader
<1>7. CASE Destroy
  <2>1. quit' = TRUE
    BY <1>7 DEF Destroy
  <2>2. WindowDomain' = {}
    BY <2>1 DEF WindowDomain
  <2> QED BY <2>1, <2>2, DomainOfNextWindow DEF Stream!Next, Stream!Close
<1>8. CASE Joined \/ UNCHANGED vars
  BY <1>1, <1>8 DEF Joined, vars, buffer
<1>. QED
  BY <1>2, <1>3, <1>4, <1>5, <1>6, <1>7, <1>8 DEF Next, Decoder

(***************************************************************************)
(* With the same assumption the buffer implements the stream: whatever the *)
(* decoder thread and the callback do to each other, what the ring holds   *)
(* ahead of the reading position is the file's own samples, each in its    *)
(* place, and none is lost or replaced before it is read.                  *)
(***************************************************************************)
THEOREM TheBufferIsAStream ==
  ASSUME "seek" \notin Faults
  PROVE  Spec => ImplementsStream
<1>1. Init => TypeOK /\ WindowInv /\ OrderInv
  BY InitType, InitWindow, InitOrder
<1>2. TypeOK /\ WindowInv /\ OrderInv /\ [Next]_vars => TypeOK' /\ WindowInv' /\ OrderInv'
  BY NextType, NextWindow, NextOrder DEF WindowInv
<1>3. Init => Stream!Init
  <2> SUFFICES ASSUME Init PROVE Stream!Init
    OBVIOUS
  <2>1. readPos = 0 /\ writePos = 0 /\ quit = FALSE
    BY DEF Init
  <2>2. WindowDomain = {}
    BY <2>1 DEF WindowDomain
  <2> QED BY <2>1, <2>2, DomainOfWindow DEF Stream!Init
<1>4. TypeOK /\ TypeOK' /\ WindowInv /\ WindowInv' /\ OrderInv /\ [Next]_vars
        => [Stream!Next]_Stream!streamVars
  BY StepOfTheStream
<1>. QED
  BY <1>1, <1>2, <1>3, <1>4, PTL DEF Spec, ImplementsStream, Stream!Spec
=============================================================================
