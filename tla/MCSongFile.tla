----------------------------- MODULE MCSongFile -----------------------------
(* Small song files of every format, and broken ones.                      *)
EXTENDS SongFile

(* TXT: all texts of up to MaxLines of these lines, under a few headers.   *)
CONSTANTS MaxLines, MaxOddLines

Note(ts, length) == [kind |-> "note", ts |-> ts, length |-> length, type |-> "normal", note |-> 5]
Break(ts, end) == [kind |-> "break", ts |-> ts, end |-> end]
Tempo(ts, step) == [kind |-> "tempo", ts |-> ts, step |-> step]
Singer(s) == [kind |-> "singer", singer |-> s]
Plain(k) == [kind |-> k]

PlainLines ==
  {Note(0, 3), Note(1, 8), Note(4, 4), Note(5, 0), Break(4, NoTime), Break(6, 2),
   Tempo(4, 3), Singer("P1"), Singer("P2"), Singer("P3"), Plain("end")}
OddLines ==
  {[Note(0, 5) EXCEPT !.note = -3, !.type = "golden"], Note(2, 2), Break(NoTime, NoTime), Break(3, 5),
   Tempo(0, 1), Tempo(2, 0), Singer("P2"), Plain("bad")}

Nothing == [f \in Fields |-> NoFile]
OnlyMusic == [Nothing EXCEPT !["music"] = "song.mp3"]
File(name, is) == [name |-> name, is |-> is]
Folder == <<File("a.jpg", {"image"}), File("cover.jpg", {"image", "cover name"}),
            File("guitar.ogg", {"audio", "guitar"}), File("song.mp3", {"audio", "song"})>>

Txt(lines) ==
  [type |-> "txt", titled |-> TRUE, duet |-> FALSE, bpm |-> 2, gap |-> 1, relative |-> FALSE,
   files |-> OnlyMusic, folder |-> Folder, preview |-> NoTime, lines |-> lines]

(* MIDI: tracks of events.                                                 *)
Event(ticks, kind, arg, val) == [ticks |-> ticks, kind |-> kind, arg |-> arg, val |-> val]
E1(ticks, kind, arg) == Event(ticks, kind, arg, 0)
End == E1(2, "end", 0)
Lyric(id, mark) == E1(0, "lyric", [id |-> id, mark |-> mark])
Control == <<E1(0, "tempo", 4), E1(0, "tempo", 4), E1(1, "section", 0), E1(4, "tempo", 8), End>>

Pitched(k) == {Event(0, "on", k, 1), Event(1, "on", k, 1), E1(1, "off", k), E1(1, "control", k),
               E1(1, "data", k), E1(2, "off", k)}
GuitarTrack(events) == <<E1(0, "name", "PART GUITAR")>> \o events \o <<End>>
VocalTrack(events) == <<E1(0, "name", "PART VOCALS")>> \o events \o <<End>>
VocalEvents ==
  {<<Lyric(1, ""), Event(1, "on", 60, 1), E1(1, "off", 60)>>,
   <<Lyric(2, "+"), Event(1, "on", 62, 1), E1(1, "off", 62)>>,
   <<Lyric(3, "#"), Event(0, "on", 116, 1), Event(0, "on", 64, 1), Event(1, "on", 64, 0)>>,
   <<Event(0, "on", 105, 1), E1(2, "off", 105)>>, <<E1(0, "off", 70)>>,
   <<Event(0, "on", 10, 1), E1(0, "rock ending", 0), E1(0, "sysex", 0), E1(1, "command", 0)>>}
Band(tracks) == [format |-> 1, division |-> 2, tracks |-> <<Control>> \o tracks]
MidiFolder == Append(Folder, File("notes.mid", {"notes.mid", "midi"}))
Ini(midi) ==
  [type |-> "ini", titled |-> TRUE, files |-> Nothing, folder |-> MidiFolder, start |-> 1,
   preview |-> NoTime, midi |-> midi]
IniFiles ==
  {Ini(Band(<<GuitarTrack(e)>>)) : e \in BoundedSeq(Pitched(96), 4)}
  \cup {Ini(Band(<<VocalTrack(FlattenSeq(e))>>)) : e \in BoundedSeq(VocalEvents, 3)}
  \cup {Ini(Band(<<GuitarTrack(<<Event(0, "on", 97, 1), E1(4, "off", 97)>>), x>>)) :
          x \in {GuitarTrack(<<Event(6, "on", 97, 1), E1(1, "off", 97)>>),
                 <<E1(0, "name", "events"), End>>, <<Event(0, "data", 1, 1), End>>, <<E1(0, "tempo", 0)>>}}
  \cup {Ini([format |-> 0, division |-> 2, tracks |-> t]) :
          t \in {<<<<E1(0, "tempo", 4), Event(1, "on", 97, 1), E1(3, "off", 97), End>>>>,
                 <<<<E1(2, "tempo", 4), End>>>>, <<<<E1(0, "section", 0)>>>>, <<>>}}
  \cup {[Ini(Band(<<>>)) EXCEPT !.folder = Folder],
        [Ini(Band(<<>>)) EXCEPT !.titled = FALSE], Ini(Band(<<>>))}

(* SM: measures of rows of an arrow or two.                                *)
Row(a, s) == a :> s
Rows == {<<>>, Row(1, "tap"), Row(1, "hold"), Row(1, "hold end"), Row(1, "roll") @@ Row(2, "mine")}
Measures == {<<>>} \cup {<<r>> : r \in Rows} \cup {<<r, s>> : r \in Rows, s \in Rows}
Chart(type, level, measures) ==
  [type |-> type, level |-> level, cut |-> FALSE, measures |-> measures]
Beat(b, x) == [beat |-> b, step |-> x, length |-> x]
Sm(charts) ==
  [type |-> "sm", titled |-> TRUE, files |-> OnlyMusic, folder |-> Folder, preview |-> 7, gap |-> 1,
   bpms |-> <<Beat(0, 2), Beat(5, 3)>>, stops |-> <<Beat(1, 4)>>, charts |-> charts]
OneChart == <<Chart("dance-single", "EASY", <<<<Row(1, "tap")>>>>)>>
SmFiles ==
  {Sm(<<Chart("dance-single", "EASY", <<m, n>>)>>) : m \in Measures, n \in Measures}
  \cup {Sm(OneChart \o OneChart), Sm(<<Chart("lights", "EASY", <<>>)>>), Sm(<<>>),
        Sm(<<[OneChart[1] EXCEPT !.cut = TRUE]>>)}
  \cup {[Sm(OneChart) EXCEPT !.titled = FALSE], [Sm(OneChart) EXCEPT !.bpms = <<>>],
        [Sm(OneChart) EXCEPT !.bpms = <<Beat(1, 2)>>]}

(* XML: one or two tracks of sentences.                                    *)
XNote(id, note, length) == [id |-> id, note |-> note, length |-> length, type |-> "normal"]
Sentence(singer, part, notes) == [singer |-> singer, part |-> part, bad |-> FALSE, notes |-> notes]
Sentences ==
  {Sentence("", "", <<>>), Sentence("", "Verse", <<XNote(1, 7, 2), XNote(2, 0, 1), XNote(3, -5, 0)>>),
   Sentence("Solo 1", "", <<XNote(4, 4, 3)>>), Sentence("Solo 2", "", <<XNote(5, 4, 1)>>),
   Sentence("Group", "", <<XNote(6, 2, 2)>>),
   [Sentence("Group", "", <<XNote(7, 2, 2)>>) EXCEPT !.bad = TRUE]}
Xml(names, tracks) ==
  [type |-> "xml", titled |-> TRUE, bpm |-> 2, files |-> Nothing, folder |-> Folder,
   names |-> names, tracks |-> tracks]
XmlFiles ==
  {Xml(names, <<t>>) : names \in {{}, {"Player1"}, {"Player1", "Player2"}},
                       t \in BoundedSeq(Sentences, 2)}
  \cup {Xml({"Player1", "Player2"}, <<<<s>>, <<t>>>>) : s \in Sentences, t \in Sentences}
  \cup {Xml({}, <<>>), [Xml({}, <<>>) EXCEPT !.titled = FALSE]}

MCFiles ==
  {Txt(l) : l \in BoundedSeq(PlainLines, MaxLines)}
  \cup UNION {{Txt(l), [Txt(l) EXCEPT !.bpm = 0], [Txt(l) EXCEPT !.relative = TRUE],
               [Txt(l) EXCEPT !.gap = -2, !.duet = TRUE]} :
              l \in BoundedSeq(OddLines, MaxOddLines)}
  \cup {[Txt(<<>>) EXCEPT !.titled = FALSE], [Txt(<<>>) EXCEPT !.bpm = -1],
        [Txt(<<Note(0, 3)>>) EXCEPT !.files = Nothing]}
  \cup {[Txt(<<Note(0, 3)>>) EXCEPT !.folder = MidiFolder] @@ [midi |-> Band(<<>>)]}
  \cup IniFiles \cup SmFiles \cup XmlFiles
=============================================================================
