----------------------------- MODULE TxtParser -----------------------------
(***************************************************************************)
(* The UltraStar TXT format (songparser-txt.cc).  A file is a header and a *)
(* sequence of lines: notes, line breaks ("sleep"), changes of the tempo,  *)
(* changes of the singer and the end.  A duet is merged into a third track.*)
(***************************************************************************)
EXTENDS SongParser

TxtLine == file.lines[parser.line]
TxtMore == Parsing("txt") /\ At("body") /\ parser.line <= Len(file.lines)
NextLine(p) == [p EXCEPT !.line = @ + 1]

(* Keys of the header that are kept in the parser and read every time.     *)
ReadFields(p) ==
  [p EXCEPT !.bpm = file.bpm, !.gap = file.gap, !.relative = file.relative]

FirstTempo == IF file.bpm = 0 THEN <<>> ELSE AddBPM(<<>>, file.gap, 0, file.bpm)

(* txtParseHeader(): artist and title are required; without its music the  *)
(* song is marked, and a singer P2 in the header announces a duet.         *)
TxtHeader ==
  /\ Parsing("txt") /\ At("header") /\ UNCHANGED file
  /\ IF ~file.titled THEN ParserThrows(TRUE)
     ELSE IF file.bpm < 0 THEN ParserThrows(FALSE)
     ELSE /\ song' = [song EXCEPT
                        !.vocal = [n \in {Singing} \cup (IF file.duet THEN {Duet} ELSE {})
                                     |-> EmptyTrack] @@ @,
                        !.status = IF file.files["music"] = NoFile THEN "error" ELSE @,
                        !.files = file.files, !.preview = file.preview,
                        !.bpms = IF file.bpm = 0 THEN @ ELSE FirstTempo]
          /\ parser' = [ReadFields(parser) EXCEPT !.pc = "guess"]

(* txtParse() until its first note: both tracks, and txtResetState().      *)
TxtStart ==
  /\ Parsing("txt") /\ At("start") /\ UNCHANGED file
  /\ song' = [song EXCEPT !.vocal = [n \in {Singing, Duet} |-> EmptyTrack],
                          !.bpms = FirstTempo]
  /\ parser' = [ReadFields(parser) EXCEPT !.pc = "body"]

TxtTempo ==
  /\ TxtMore /\ TxtLine.kind = "tempo" /\ UNCHANGED file
  /\ IF CanAddBPM(song.bpms, TxtLine.ts, TxtLine.step)
     THEN /\ song' = [song EXCEPT !.bpms = AddBPM(@, parser.gap, TxtLine.ts, TxtLine.step)]
          /\ parser' = NextLine(parser)
     ELSE ParserThrows(FALSE)

(* P1, P2 and P3 (both) reset the timing and the tempo map.                *)
TxtSinger ==
  /\ TxtMore /\ TxtLine.kind = "singer" /\ UNCHANGED file
  /\ IF parser.relative THEN ParserThrows(TRUE)
     ELSE /\ song' = [song EXCEPT !.bpms = FirstTempo]
          /\ parser' = [NextLine(parser) EXCEPT !.singer = TxtLine.singer,
                          !.prevtime = 0, !.prevts = 0, !.shift = 0]

-----------------------------------------------------------------------------
(* Notes and line breaks.                                                  *)

TxtTrack(p) == IF p.singer = "P2" THEN Duet ELSE Singing

(* What txtParseNote() does with a note n at ts.  A line that begins       *)
(* before the end of the one before it is skipped if it also begins before *)
(* the last note does.                                                     *)
AddNote(s, p, n) ==
  LET add(t) == [t EXCEPT !.notes = Append(@, n)]
      wide(t) == IF n.type # "sleep" /\ n.end > n.begin
                 THEN [t EXCEPT !.min = Min({@, n.note}), !.max = Max({@, n.note})] ELSE t
      sung == [s.vocal EXCEPT ![TxtTrack(p)] = add(wide(@))]
  IN  [s EXCEPT !.vocal = IF p.singer # "P3" THEN sung
                          ELSE [sung EXCEPT ![Duet] = add(@)]]

TxtPlace(n, p) ==
  LET notes == song.vocal[TxtTrack(p)].notes
      moved == [NextLine(p) EXCEPT !.prevtime = n.end]
      break == [n EXCEPT !.begin = p.prevtime, !.end = p.prevtime]
  IN  IF n.begin < p.prevtime /\ notes = <<>> THEN ParserThrows(TRUE)
      ELSE IF n.begin < p.prevtime /\ Last(notes).begin > n.begin
      THEN song' = [song EXCEPT !.broken = @ + 1] /\ parser' = NextLine(p)
      ELSE IF n.type # "sleep"
      THEN song' = AddNote(song, p, n) /\ parser' = moved
      ELSE /\ parser' = moved
           /\ song' = IF notes = <<>> \/ Last(notes).type = "sleep" THEN song
                      ELSE AddNote(song, p, break)

(* Relative timestamps are moved by the end of the last line break.        *)
Shift == IF parser.relative THEN parser.shift ELSE 0
Placed(ts, shift) ==
  [parser EXCEPT !.prevts = ts,
     !.shift = IF parser.relative /\ song.vocal[TxtTrack(parser)].notes = <<>>
               THEN ts ELSE shift]

TxtNote ==
  /\ TxtMore /\ TxtLine.kind = "note" /\ UNCHANGED file
  /\ LET ts == TxtLine.ts + Shift
         length == Max({TxtLine.length, 1})
         time(x) == TsTime(song.bpms, parser.gap, x)
     IN  IF \A x \in {ts, ts + length} : HasTime(song.bpms, x)
         THEN TxtPlace([begin |-> time(ts), end |-> time(ts + length), type |-> TxtLine.type,
                        note |-> TxtLine.note, syl |-> <<parser.line>>],
                       Placed(ts, parser.shift))
         ELSE ParserThrows(FALSE)

(* A line break may have two timestamps, one or none.                      *)
TxtBreak ==
  /\ TxtMore /\ TxtLine.kind = "break" /\ UNCHANGED file
  /\ LET from == IF TxtLine.ts = NoTime THEN parser.prevts ELSE TxtLine.ts
         to == IF TxtLine.end = NoTime THEN from ELSE TxtLine.end
         time(x) == TsTime(song.bpms, parser.gap, x)
     IN  IF \A x \in {from, to} : HasTime(song.bpms, x + Shift)
         THEN TxtPlace([begin |-> time(from + Shift), end |-> time(to + Shift),
                        type |-> "sleep", note |-> 0, syl |-> <<>>],
                       Placed(from + Shift, IF parser.relative THEN to + Shift
                                            ELSE parser.shift))
         ELSE ParserThrows(FALSE)

(* A key among the notes, or a line that cannot be read.                   *)
TxtBadLine ==
  /\ TxtMore /\ TxtLine.kind = "bad" /\ UNCHANGED file
  /\ ParserThrows(TRUE)

-----------------------------------------------------------------------------
(* The end of the notes.                                                   *)

(* Notes are merged by begin, a line break before a note at its time.      *)
BeginsBefore(a, b) ==
  IF a.begin = b.begin THEN a.type = "sleep" /\ b.type # "sleep" ELSE a.begin < b.begin

MergeStep(acc) ==
  IF acc.b = <<>> \/ (acc.a # <<>> /\ ~BeginsBefore(acc.b[1], acc.a[1]))
  THEN [acc EXCEPT !.a = Tail(@), !.out = Append(@, acc.a[1])]
  ELSE [acc EXCEPT !.b = Tail(@), !.out = Append(@, acc.b[1])]

MergedByBegin(a, b) ==
  FoldLeft(LAMBDA acc, k : MergeStep(acc), [a |-> a, b |-> b, out |-> <<>>],
           [k \in 1 .. Len(a) + Len(b) |-> k]).out

(* One note of the merged track.  A line break behind a single syllable is *)
(* skipped; behind the very first note there is no "previous to last", and *)
(* "lucky" is what the memory before the array looks like.  A note that    *)
(* runs into the next is cut two beats before it, and a break is put there.*)
DuetNote(bpms, lucky, out, n) ==
  LET cur == Last(out)
      cut == n.begin - 2 * BeatAt(bpms, cur.begin)
      before == IF Len(out) > 1 THEN out[Len(out) - 1].type = "sleep" ELSE lucky
  IN  IF out = <<>> THEN <<n>>
      ELSE IF n.type = "sleep" THEN (IF before THEN out ELSE Append(out, n))
      ELSE IF Overlapping(cur, n)
      THEN Front(out) \o
             <<[cur EXCEPT !.end = cut],
               [begin |-> cut, end |-> cut, type |-> "sleep", note |-> 0, syl |-> <<>>], n>>
      ELSE Append(out, n)

SameNote(a, b) ==
  IF a.type = "sleep" THEN b.type = "sleep"
  ELSE <<a.begin, a.end, a.note, a.type>> = <<b.begin, b.end, b.note, b.type>>

WithoutRepeats(notes) ==
  FoldLeft(LAMBDA out, n : IF out # <<>> /\ SameNote(Last(out), n) THEN out ELSE Append(out, n),
           <<>>, notes)

DuetTrack(s, lucky) ==
  LET a == s.vocal[Singing]
      b == s.vocal[Duet]
      merged == FoldLeft(LAMBDA out, n : DuetNote(s.bpms, lucky, out, n),
                         <<>>, MergedByBegin(a.notes, b.notes))
  IN  [EmptyTrack EXCEPT !.notes = WithoutRepeats(merged),
                         !.min = Min({a.min, b.min}), !.max = Max({a.max, b.max})]

(* A terminating note without length is dropped, and so are empty tracks.  *)
Trimmed(t) ==
  LET n == t.notes
  IN  IF n # <<>> /\ Last(n).type # "sleep" /\ Last(n).begin = Last(n).end
      THEN [t EXCEPT !.notes = Front(n)] ELSE t

Sung(tracks) ==
  LET trimmed == [n \in DOMAIN tracks |-> Trimmed(tracks[n])]
  IN  [n \in {m \in DOMAIN tracks : trimmed[m].notes # <<>>} |-> trimmed[n]]

TxtEnd ==
  /\ Parsing("txt") /\ At("body") /\ UNCHANGED file
  /\ IF TxtMore THEN TxtLine.kind = "end" ELSE TRUE
  /\ LET s == [song EXCEPT !.vocal = Sung(@)]
     IN  IF HasDuet(s)
         THEN \E lucky \in BOOLEAN :
                song' = [s EXCEPT !.vocal = InsertVocalTrack(@, Both, DuetTrack(s, lucky))]
         ELSE song' = s
  /\ parser' = [parser EXCEPT !.pc = "finalize"]

TxtParse ==
  \/ TxtHeader \/ TxtStart \/ TxtTempo \/ TxtSinger \/ TxtNote \/ TxtBreak
  \/ TxtBadLine \/ TxtEnd
=============================================================================
