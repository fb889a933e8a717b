----------------------------- MODULE SmParser -----------------------------
(***************************************************************************)
(* The StepMania SM format (songparser-sm.cc): tempos and stops by beat,   *)
(* and charts for dancing, which are sequences of measures, which are      *)
(* sequences of rows, which map an arrow to a symbol.  The header is read  *)
(* by parsing everything and dropping the notes.                           *)
(***************************************************************************)
EXTENDS SongParser

(* Chart types the game can play.                                          *)
DanceTypes == {"dance-single", "dance-double", "dance-solo", "pump-single"}

SmChart == file.charts[parser.local.chart]
SmMore == Parsing("sm") /\ At("body") /\ parser.local.chart <= Len(file.charts)

(* The container of a chart that is being read: its notes, and for every   *)
(* arrow the index of a hold note that has not ended.                      *)
NewChart(k) ==
  [chart |-> k, measure |-> 1, begin |-> 0, notes |-> <<>>, holds |-> [a \in {} |-> 0]]

(* #BPMS: every tempo is added with the one that stands at beat 0.         *)
SmTempos ==
  FoldLeft(LAMBDA acc, b :
             LET bpm == IF b.beat = 0 THEN b.step ELSE acc.bpm
             IN  IF acc.failed \/ ~CanAddBPM(acc.bpms, 4 * b.beat, bpm)
                 THEN [acc EXCEPT !.failed = TRUE]
                 ELSE [acc EXCEPT !.bpm = bpm, !.bpms = AddBPM(@, file.gap, 4 * b.beat, bpm)],
           [bpms |-> song.bpms, bpm |-> parser.bpm, failed |-> FALSE], file.bpms)

(* The fields before #NOTES.                                               *)
SmStart ==
  /\ Parsing("sm") /\ At(IF parser.full THEN "start" ELSE "header") /\ UNCHANGED file
  /\ IF SmTempos.failed THEN ParserThrows(FALSE)
     ELSE /\ song' = [song EXCEPT !.dance = [n \in {} |-> {}], !.bpms = SmTempos.bpms,
                        !.files = IF parser.full THEN @ ELSE file.files,
                        !.preview = IF parser.full THEN @ ELSE file.preview,
                        !.stops = IF parser.full THEN <<>> ELSE @]
          /\ parser' = [parser EXCEPT !.pc = "body", !.bpm = SmTempos.bpm, !.gap = file.gap,
                                      !.stops = file.stops, !.local = NewChart(1)]

-----------------------------------------------------------------------------
(* A measure.                                                              *)

(* One symbol of a row at time t, on an arrow.  The end of a hold note is  *)
(* set when the symbol for its end comes; anything else on the arrow       *)
(* forgets the hold.                                                       *)
SmSymbol(c, arrow, symbol, t) ==
  LET n == [begin |-> t, end |-> t, type |-> symbol, note |-> arrow, syl |-> <<>>]
      hold == IF arrow \in DOMAIN c.holds THEN c.holds[arrow] ELSE 0
      marked(h) == (arrow :> h) @@ c.holds
  IN  IF symbol \in {"hold", "roll"}
      THEN [c EXCEPT !.notes = Append(@, n), !.holds = marked(Len(c.notes) + 1)]
      ELSE IF symbol # "hold end"
      THEN [c EXCEPT !.notes = Append(@, n), !.holds = marked(0)]
      ELSE [c EXCEPT !.notes[hold].end = t, !.holds = marked(0)]

(* The symbols of a measure in the order of time and of arrows.            *)
SymbolsOf(rows) ==
  SetToSortSeq(UNION {{<<r, a>> : a \in DOMAIN rows[r]} : r \in DOMAIN rows},
               LAMBDA x, y : x[1] < y[1] \/ (x[1] = y[1] /\ x[2] < y[2]))

(* A hold may end only on an arrow where one began.                        *)
ValidSymbol(c, arrow, symbol) ==
  /\ symbol # "bad"
  /\ symbol = "hold end" => arrow \in DOMAIN c.holds /\ c.holds[arrow] # 0

(* tsTime() of the end of the measure spaces out its rows.                 *)
SmRows(c, rows, end) ==
  FoldLeft(LAMBDA acc, x :
             LET symbol == rows[x[1]][x[2]]
                 t == c.begin + (x[1] - 1) * ((end - c.begin) \div Len(rows))
             IN  IF acc.failed \/ ~ValidSymbol(acc.c, x[2], symbol) THEN [acc EXCEPT !.failed = TRUE]
                 ELSE [acc EXCEPT !.c = SmSymbol(@, x[2], symbol, t)],
           [c |-> c, failed |-> FALSE], SymbolsOf(rows))

SmMeasure ==
  /\ SmMore /\ ~SmChart.cut /\ UNCHANGED file
  /\ LET c == parser.local
         ts == 16 * c.measure
         end == TsTime(song.bpms, parser.gap, ts)
     IN  /\ c.measure <= Len(SmChart.measures)
         /\ IF ~HasTime(song.bpms, ts) THEN ParserThrows(FALSE)
            ELSE LET r == SmRows(c, SmChart.measures[c.measure], end)
                 IN  IF r.failed THEN ParserThrows(FALSE)
                     ELSE /\ parser' = [parser EXCEPT !.local =
                                          [r.c EXCEPT !.begin = end, !.measure = @ + 1]]
                          /\ UNCHANGED song

(* The file ends within the lines that describe a chart.                   *)
SmCutChart ==
  /\ SmMore /\ SmChart.cut /\ UNCHANGED file
  /\ ParserThrows(FALSE)

(* A chart of a known type is kept, unless its level is there already.     *)
SmChartEnd ==
  /\ SmMore /\ ~SmChart.cut /\ UNCHANGED file
  /\ LET c == parser.local
         old == IF SmChart.type \in DOMAIN song.dance THEN song.dance[SmChart.type] ELSE {}
         new == IF \E d \in old : d.level = SmChart.level THEN old
                ELSE old \cup {[level |-> SmChart.level, notes |-> c.notes]}
     IN  /\ c.measure > Len(SmChart.measures)
         /\ song' = IF SmChart.type \in DanceTypes
                    THEN [song EXCEPT !.dance = (SmChart.type :> new) @@ @] ELSE song
         /\ parser' = [parser EXCEPT !.local = NewChart(c.chart + 1),
                                     !.tsEnd = Max({@, 16 * c.measure})]

(* The end of the file.  A header forgets the notes again.                 *)
SmEnd ==
  /\ Parsing("sm") /\ At("body") /\ ~SmMore /\ UNCHANGED file
  /\ IF DOMAIN song.dance = {} \/ ~file.titled
        \/ \E i \in DOMAIN parser.stops : ~HasTime(song.bpms, 4 * parser.stops[i].beat)
     THEN ParserThrows(FALSE)
     ELSE LET s == [song EXCEPT !.stops =
                      [i \in DOMAIN parser.stops |->
                         <<TsTime(song.bpms, parser.gap, 4 * parser.stops[i].beat),
                           parser.stops[i].length>>]]
          IN  /\ song' = IF parser.full THEN s ELSE DropNotes(s)
              /\ parser' = [parser EXCEPT !.tsPerBeat = 4,
                              !.pc = IF parser.full THEN "finalize" ELSE "guess"]

SmParse == SmStart \/ SmMeasure \/ SmCutChart \/ SmChartEnd \/ SmEnd
=============================================================================
