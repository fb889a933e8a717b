------------------------------- MODULE Pitch -------------------------------
(***************************************************************************)
(* From the spectrum of a microphone to the note that is sung (Analyzer::  *)
(* calcTones, mergeWithOld and findTone, Tone).  The Fourier transform and *)
(* the exact frequencies its phases give are outside: a window comes with  *)
(* the frequency and the level of every bin, whole Hz and whole dB, and    *)
(* averages are rounded down.  stabledb and harmonics serve the display.   *)
(***************************************************************************)
EXTENDS Integers, Sequences, FiniteSets, FiniteSetsExt, SequencesExt, TLC

CONSTANTS
  BinWidth,   \* Hz of a bin
  Bins,       \* kMax, the last bin below FFT_MAXFREQ
  Voices,     \* what is sung: [freq, levels], levels of the harmonics in dB
  Learn,      \* windows after which a held note must have been found
  Fade        \* windows after which a note must be gone

ASSUME PitchAssumption == BinWidth > 0 /\ {Bins, Learn, Fade} \subseteq Nat

VARIABLES
  tones,    \* m_tones, by frequency
  oldfreq,  \* m_oldfreq; 0 for none
  found,    \* what findTone gave the engine; 0 for none
  \* not in the program:
  sung,     \* windows for which the present voice has been sung, up to Learn
  since     \* voice -> windows since it was sung, up to Fade

pvars == <<tones, oldfreq, found, sung, since>>

Silence == -1000   \* minus infinity
NoPeak == [freq |-> 0, db |-> Silence]
MinAge == 2

Gap(a, b) == IF a < b THEN b - a ELSE a - b

\* Tone::operator== and operator<
Same(f, g) == 20 * Gap(f, g) < g
Lower(t, u) == t.freq < u.freq /\ ~Same(t.freq, u.freq)

-----------------------------------------------------------------------------
(* Outside: the spectrum of a voice, each harmonic leaking into the next bins. *)

Bin(f) == (2 * f + BinWidth) \div (2 * BinWidth)
Leak(voice, k) ==
  LET at(h) == [freq |-> h * voice.freq, db |-> voice.levels[h] - 20 * Gap(Bin(h * voice.freq), k)]
      near == {h \in DOMAIN voice.levels : Gap(Bin(h * voice.freq), k) <= 1}
  IN  IF near = {} THEN NoPeak
      ELSE at(CHOOSE h \in near : \A g \in near : at(h).db >= at(g).db)
Spectrum(voice) == [k \in 0 .. Bins |-> IF voice = <<>> \/ k = 0 THEN NoPeak ELSE Leak(voice, k)]

-----------------------------------------------------------------------------
(* Analyzer::calcTones *)

\* Only peaks stay.  The loop ends before the last bin, which only clears its neighbour.
Prefilter(peaks) ==
  [k \in 0 .. Bins |->
     IF \/ k < Bins - 1 /\ peaks[k + 1].db > peaks[k].db
        \/ k \in 1 .. Bins - 1 /\ peaks[k].db < peaks[k - 1].db
     THEN NoPeak ELSE peaks[k]]

\* match: the highest of a bin and its neighbours
Match(peaks, pos) ==
  LET lower == IF peaks[pos - 1].db > peaks[pos].db THEN pos - 1 ELSE pos
  IN  IF peaks[pos + 1].db > peaks[lower].db THEN pos + 1 ELSE lower

\* The peak is not the n-th harmonic of top / div.
Off(peak, n, top, div) == 100 * Gap(peak.freq * div, n * top.freq) > 3 * n * top.freq

\* How well top fits as the div-th harmonic of something.
Score(peaks, k, div) ==
  FoldLeft(LAMBDA score, n :
             LET p == peaks[Match(peaks, (k * n) \div div)]
             IN  score - 1 + (IF p.db < -80 \/ Off(p, n, peaks[k], div) THEN 0
                              ELSE IF n = 1 THEN 6 ELSE 2),
           0, [n \in 1 .. Min({div - 1, 7}) |-> n])

\* mutant: the highest harmonic is taken for the note
WrongDivider(peaks, k) == 1

\* The first of the best dividers, if it is better than nothing.
Divider(peaks, k) ==
  LET divs == {d \in 2 .. k : k \div d > 1}
      best == Max({0} \cup {Score(peaks, k, d) : d \in divs})
  IN  IF best = 0 THEN 1 ELSE Min({d \in divs : Score(peaks, k, d) = best})

\* The harmonics of the peak k make one tone and are gone.
Combine(peaks, k) ==
  LET div == Divider(peaks, k)
      harmonic(a, n) ==
        LET at == Match(a.peaks, (k * n) \div div)
            p == a.peaks[at]
        IN  IF Off(p, n, peaks[k], div) THEN a
            ELSE [db |-> IF p.db > a.db - 10 THEN Max({a.db, p.db}) ELSE a.db,
                  count |-> IF p.db > a.db - 10 THEN a.count + 1 ELSE a.count,
                  sum |-> IF p.db > a.db - 10 THEN a.sum + (p.freq \div n) ELSE a.sum,
                  peaks |-> [a.peaks EXCEPT ![at] = NoPeak]]
  IN  FoldLeft(harmonic, [db |-> peaks[k].db, count |-> 0, sum |-> 0, peaks |-> peaks],
               [n \in 1 .. div |-> n])

\* From the highest bin down; a tone must be strong enough for its harmonics.
NewTones(peaks) ==
  FoldLeft(LAMBDA a, k :
             IF a.peaks[k].db < -60 THEN a
             ELSE LET c == Combine(a.peaks, k)
                  IN  [peaks |-> c.peaks,
                       tones |-> IF c.db > -40 - 3 * c.count
                                 THEN Append(a.tones, [freq |-> c.sum \div c.count, db |-> c.db, age |-> 0])
                                 ELSE a.tones],
           [peaks |-> Prefilter(peaks), tones |-> <<>>],
           [i \in 1 .. Bins - 1 |-> Bins - i]).tones

\* Analyzer::mergeWithOld: old tones go on in new ones of about their frequency,
\* and fade out otherwise.  Ages beyond the one that counts are all the same.
MergeWithOld(new) ==
  FoldLeft(LAMBDA a, old :
             LET later == {i \in a.next .. Len(a.tones) : ~Lower(a.tones[i], old)}
                 it == Min({Len(a.tones) + 1} \cup later)
             IN  IF it <= Len(a.tones) /\ Same(a.tones[it].freq, old.freq)
                 THEN [next |-> it,
                       tones |-> [a.tones EXCEPT ![it].age = Min({MinAge, old.age + 1}),
                                                 ![it].freq = (old.freq + @) \div 2]]
                 ELSE IF old.db > -70
                 THEN [next |-> it + 1, tones |-> InsertAt(a.tones, it, [old EXCEPT !.db = @ - 5])]
                 ELSE [a EXCEPT !.next = it],
           [next |-> 1, tones |-> SortSeq(new, Lower)], tones).tones

-----------------------------------------------------------------------------
(* Analyzer::findTone, between minfreq and maxfreq *)

\* In tenths of a dB: strength, the singing range, and what was found last.
Worth(t) ==
  10 * t.db - Max({180, Gap(t.freq, 300)})
    + (IF oldfreq # 0 /\ Same(t.freq, oldfreq) THEN 100 ELSE 0)

Eligible(list, i) ==
  /\ list[i].freq >= 65 /\ list[i].age >= MinAge
  /\ \A j \in DOMAIN list : list[i].db >= list[j].db - 20

\* The walk goes up in frequency and ends at the first tone that is worth less than
\* the best before it.
FindTone(list) ==
  FoldLeft(LAMBDA a, i :
             IF a.over \/ ~Eligible(list, i) THEN a
             ELSE IF list[i].freq > 1000 \/ (a.best # 0 /\ a.worth > Worth(list[i]))
             THEN [a EXCEPT !.over = TRUE]
             ELSE [best |-> list[i].freq, worth |-> Worth(list[i]), over |-> FALSE],
           [best |-> 0, worth |-> 0, over |-> FALSE], [i \in DOMAIN list |-> i]).best

-----------------------------------------------------------------------------

\* What there is new in a window of each voice, and in silence.
Window == [v \in Voices |-> NewTones(Spectrum(v))] @@ (<<>> :> <<>>)

PitchInit ==
  /\ tones = <<>> /\ oldfreq = 0 /\ found = 0
  /\ sung = 0 /\ since = [v \in Voices |-> Fade]

\* One window of Analyzer::process, and the engine that asks for the tone.
Analyze ==
  \E voice \in Voices \cup {<<>>} :
    /\ tones' = MergeWithOld(Window[voice])
    /\ found' = FindTone(tones') /\ oldfreq' = found'
    /\ since' = [v \in Voices |-> IF v = voice THEN 0 ELSE Min({Fade, since[v] + 1})]
    /\ sung' = CASE voice = <<>> -> 0
                  [] voice # <<>> /\ since[voice] = 0 -> Min({Learn, sung + 1})
                  [] OTHER -> 1

PitchNext == Analyze
PitchSpec == PitchInit /\ [][PitchNext]_pvars

-----------------------------------------------------------------------------
(* Properties *)

\* What the player is graded on is a note somebody sings or has just sung (Analyzer::
\* findTone, "the minimum age required for a tone to be output"): never a harmonic of
\* it; and a note that is held is found, whatever was sung before and however its
\* harmonics compare with its fundamental.
NoteIsHeard ==
  /\ found # 0 => \E v \in Voices : since[v] < Fade /\ Same(found, v.freq)
  /\ sung >= Learn => \E v \in Voices : since[v] = 0 /\ Same(found, v.freq)
=============================================================================
