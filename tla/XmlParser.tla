----------------------------- MODULE XmlParser -----------------------------
(***************************************************************************)
(* The SingStar XML format (songparser-xml.cc).  A file names its tracks   *)
(* (players); each has sentences, which may change the singer and begin a  *)
(* section, and have notes with a duration; a note of pitch 0 is a pause.  *)
(***************************************************************************)
EXTENDS SongParser

(* Tracks that are played: never the third, "Together".                    *)
Players == IF Cardinality(DOMAIN song.vocal) > 1 THEN 2 ELSE 1
XmlTrackName == InOrder(song.vocal)[parser.local.player]
XmlTrack == file.tracks[((parser.local.player - 1) % Len(file.tracks)) + 1]
XmlMore == Parsing("xml") /\ At("body") /\ parser.local.player <= Players

(* Without names there is one player, with two there is also "Together".   *)
XmlHeader ==
  /\ Parsing("xml") /\ At("header") /\ UNCHANGED file
  /\ IF ~file.titled \/ file.bpm <= 0 THEN ParserThrows(FALSE)
     ELSE LET names == IF file.names = {} THEN {"Player1"}
                       ELSE IF Cardinality(file.names) > 1 THEN file.names \cup {"Together"}
                       ELSE file.names
          IN  /\ song' = [song EXCEPT !.vocal = [n \in names |-> EmptyTrack],
                            !.bpms = AddBPM(@, 0, 0, file.bpm), !.files = file.files]
              /\ parser' = [parser EXCEPT !.bpm = file.bpm, !.pc = "guess"]

XmlPlayer(k) == [player |-> k, sentence |-> 1, ts |-> 0, singer |-> "Solo 1"]

XmlStart ==
  /\ Parsing("xml") /\ At("start") /\ UNCHANGED file
  /\ IF file.tracks = <<>> THEN ParserThrows(FALSE)
     ELSE /\ parser' = [parser EXCEPT !.pc = "body", !.local = XmlPlayer(1)]
          /\ UNCHANGED song

(* Extra line breaks are skipped.                                          *)
AddXmlNote(t, n) ==
  IF n.type # "sleep"
  THEN [t EXCEPT !.notes = Append(@, n), !.min = Min({@, n.note}), !.max = Max({@, n.note})]
  ELSE IF t.notes = <<>> \/ Last(t.notes).type = "sleep" THEN t
  ELSE [t EXCEPT !.notes = Append(@, n)]

(* The second player does not sing what is for "Solo 1", the first one not *)
(* what is for "Solo 2" if there are two.                                  *)
SingsIt(player, singer) ==
  ~(player # 1 /\ singer = "Solo 1") /\ ~(Players > 1 /\ player # 2 /\ singer = "Solo 2")

(* A sentence: a line break, then the notes one behind the other.          *)
XmlNotes(sentence, ts, sung, track) ==
  LET time(x) == TsTime(song.bpms, parser.gap, x)
      break == [begin |-> time(ts), end |-> time(ts), type |-> "sleep", note |-> 0, syl |-> <<>>]
  IN  FoldLeft(LAMBDA acc, n :
                 [ts |-> acc.ts + n.length,
                  track |-> IF n.note = 0 \/ ~sung THEN acc.track
                            ELSE AddXmlNote(acc.track,
                              [begin |-> time(acc.ts), end |-> time(acc.ts + n.length),
                               type |-> n.type, note |-> n.note, syl |-> <<n.id>>])],
               [ts |-> ts, track |-> AddXmlNote(track, break)], sentence.notes)

(* A value that is no number ends the parsing behind the notes before it.  *)
XmlSentence ==
  /\ XmlMore /\ parser.local.sentence <= Len(XmlTrack) /\ UNCHANGED file
  /\ LET p == parser.local
         sentence == XmlTrack[p.sentence]
         singer == IF sentence.singer = "" THEN p.singer ELSE sentence.singer
         read == XmlNotes(sentence, p.ts, SingsIt(p.player, singer), song.vocal[XmlTrackName])
         s == [song EXCEPT !.vocal[XmlTrackName] = read.track,
                 !.sections = IF sentence.part = "" THEN @
                              ELSE Append(@, TsTime(song.bpms, parser.gap, p.ts))]
     IN  IF sentence.bad THEN ThrowsFrom(s, FALSE)
         ELSE /\ song' = s
              /\ parser' = [parser EXCEPT !.local =
                              [p EXCEPT !.sentence = @ + 1, !.ts = read.ts, !.singer = singer]]

XmlPlayerEnd ==
  /\ XmlMore /\ parser.local.sentence > Len(XmlTrack) /\ UNCHANGED <<file, song>>
  /\ parser' = [parser EXCEPT !.local = XmlPlayer(parser.local.player + 1)]

XmlEnd ==
  /\ Parsing("xml") /\ At("body") /\ ~XmlMore /\ UNCHANGED <<file, song>>
  /\ parser' = [parser EXCEPT !.pc = "finalize"]

XmlParse == XmlHeader \/ XmlStart \/ XmlSentence \/ XmlPlayerEnd \/ XmlEnd
=============================================================================
