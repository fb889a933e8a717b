---------------------------- MODULE Controllers ----------------------------
(***************************************************************************)
(* From keys, pads and MIDI notes to menu navigation and instruments       *)
(* (Controllers, Keyboard, Joysticks, Midi) and the screens they end in    *)
(* (checkEvents of main.cc, the joining of ScreenSing, ScreenPractice).    *)
(*                                                                         *)
(* A button is a pair of a device type and a number; numbers of different  *)
(* types overlap, as ButtonId does.  The mapping of controllers.xml is a   *)
(* constant: what each control may be mapped to, in the order in which     *)
(* pushHWEvent tries it, with the value each position gives.  Left out:    *)
(* the clock, latencies, names of devices and messages on the screen.      *)
(***************************************************************************)
EXTENDS Integers, Sequences, FiniteSets, SequencesExt, FiniteSetsExt, Functions

CONSTANTS
  Keys,       \* key -> [kind, inst, plain, ctrl]: the instrument the key belongs to,
              \* its button there, and its buttons for menus
  Modes,      \* game/keyboard_...: the instruments the keyboard may be
  Wired,      \* source -> [kind, polled, map: control -> sequence of [button, of]]
  Nav,        \* button -> navigation button, or None
  Repeating,  \* the navigation buttons that repeat
  Songs,      \* songs: the set of instruments each has; "practice" is the screen
  None,       \* no button, no navigation
  \* bounds of the model
  MaxEvents,  \* events in a frame
  MaxRepeat,  \* counted repetitions
  MaxSongs    \* songs entered

ASSUME ButtonAssumption ==
  /\ None \notin DOMAIN Nav
  /\ \A s \in DOMAIN Wired :
       s[1] # "keyboard" /\ \A x \in DOMAIN Wired[s].map : Wired[s].map[x] \in Seq(Range(Wired[s].map[x]))
  /\ \A s \in DOMAIN Songs : "generic" \notin Songs[s]

VARIABLES
  held,     \* keys held down, and whether Ctrl is
  position,      \* control of a pad or MIDI device -> its position
  midi,     \* MIDI messages not read yet
  kb,       \* Keyboard: numbers of pressed buttons, modes and Ctrl as of the last switch
  c,        \* Controllers::Impl; its flag m_eventsEnabled is g_enableInstruments too
  polled,   \* SDL events taken in this frame; MaxEvents when that is over
  song,     \* what is on the screen
  songs,    \* songs entered
  menu,     \* the menu of ScreenSing is open
  pads,     \* source of a joined instrument -> buttons it takes for pressed
  unseen    \* not in the program: buttons that moved while the instrument was not told

cvars == <<held, position, midi, kb, c, polled, song, songs, menu, pads, unseen>>

Number(button) == button[2]
Generic == "generic"
KeySource(kind) == <<"keyboard", kind>>
KindOf(src) == IF src[1] = "keyboard" THEN src[2] ELSE Wired[src].kind
Controls == {<<s, x>> : s \in DOMAIN Wired, x \in UNION {DOMAIN Wired[s].map : s \in DOMAIN Wired}}
Wires == {w \in Controls : w[2] \in DOMAIN Wired[w[1]].map}
Positions(w) == DOMAIN Wired[w[1]].map[w[2]][1].of
Put(f, x, y) == [z \in DOMAIN f \cup {x} |-> IF z = x THEN y ELSE f[z]]

-----------------------------------------------------------------------------
(* Controllers::Impl *)

\* mutant: the last value of a button is kept once for all devices
WrongUnique(src, button) == <<KeySource(KindOf(src)), button>>

UniqueButton(src, button) == <<src, button>>

\* Impl::valueChanged
ValueChanged(q, src, b, value) ==
  LET u == UniqueButton(src, b) IN u \notin DOMAIN q.values \/ q.values[u] # value

\* Navigation, and the repetition of what is held: kept for a navigation button,
\* whichever device it came from.
PushNav(q, src, b, value) ==
  LET n == Nav[b]
      event == [nav |-> n, src |-> src, times |-> 0]
      timer == [src |-> src, times |-> 0]
  IN  IF n = None THEN q
      ELSE IF value = 0
           THEN [q EXCEPT !.repeat = Restrict(@, DOMAIN @ \ {n})]
           ELSE [q EXCEPT !.nav = Append(@, event),
                          !.repeat = IF n \in Repeating /\ n \notin DOMAIN @
                                     THEN Put(@, n, timer) ELSE @]

\* A living device gets the event; if there is none, an orphan is made.  Of an orphan's
\* events only the player it becomes reads what was pressed, all at once and whatever
\* the order: that is what is kept.
PushDevice(q, src, b, value) ==
  LET event == [button |-> b, value |-> value]
      old == IF src \in DOMAIN q.queue THEN q.queue[src] ELSE <<>>
      orphan == src \notin DOMAIN q.queue \/ src \in q.orphans
      new == IF ~orphan THEN Append(old, event)
             ELSE IF value = 0 THEN old ELSE SetToSeq(ToSet(old) \cup {event})
  IN  IF ~q.enabled THEN q
      ELSE [q EXCEPT !.queue = Put(@, src, new), !.orphans = IF orphan THEN @ \cup {src} ELSE @]

\* Impl::pushMappedEvent
PushMapped(q, src, b, value) ==
  IF b = None \/ ~ValueChanged(q, src, b, value) THEN q
  ELSE LET kept == [q EXCEPT !.values = Put(@, UniqueButton(src, b), value)]
       IN  PushDevice(PushNav(kept, src, b, value), src, b, value)

\* Impl::pushHWEvent: everything the control is mapped to, in order
PushHW(q, src, control, at) ==
  FoldLeft(LAMBDA r, m : PushMapped(r, src, m.button, m.of[at]), q, Wired[src].map[control])

\* Impl::process: what is held repeats, at most once in a frame.  Which timers are
\* due is up to the clock; after a frame that took too long none is.
Repetitions(q, due) ==
  LET again(n) == Min({q.repeat[n].times + 1, MaxRepeat})
  IN  [q EXCEPT
         !.repeat = [n \in DOMAIN @ |-> IF n \in due THEN [@[n] EXCEPT !.times = again(n)] ELSE @[n]],
         !.nav = @ \o SetToSeq({[nav |-> n, src |-> q.repeat[n].src, times |-> again(n)] : n \in due})]

-----------------------------------------------------------------------------
(* The keyboard *)

\* Modes and modifiers are switched only while no button is pressed.
ModesNow ==
  IF kb.pressed # {} THEN kb
  ELSE [kb EXCEPT !.ctrl = held'.ctrl, !.modes = IF c.enabled THEN Modes ELSE {}]

\* Keyboard::mapping, then Keyboard::navigation
Mapping(k, at) ==
  IF ~at.ctrl /\ Keys[k].kind \in at.modes
  THEN [src |-> KeySource(Keys[k].kind), button |-> Keys[k].inst]
  ELSE [src |-> KeySource(Generic), button |-> IF at.ctrl THEN Keys[k].ctrl ELSE Keys[k].plain]

\* Keyboard::process, and what becomes of the event.  Buttons of all instruments
\* share the set of pressed numbers.
Key(k, value) ==
  LET now == ModesNow
      to == Mapping(k, now)
      n == Number(to.button)
  IN  IF to.button = None
      THEN kb' = now /\ c' = c
      ELSE /\ kb' = [now EXCEPT !.pressed = IF value # 0 THEN @ \cup {n} ELSE @ \ {n}]
           /\ c' = PushMapped(c, to.src, to.button, value)

-----------------------------------------------------------------------------
(* Instruments *)

Fold(queue, pressed) ==
  FoldLeft(LAMBDA r, e : IF e.value = 0 THEN r \ {e.button} ELSE r \cup {e.button}, pressed, queue)

\* Buttons of an instrument whose change it is not told.
Untold(q) ==
  [s \in DOMAIN pads |->
     LET moved == {u \in DOMAIN q.values : u[1] = s /\ (u \notin DOMAIN c.values \/ q.values[u] # c.values[u])}
     IN  IF q.enabled THEN unseen[s] \ {u[2] : u \in moved} ELSE unseen[s] \cup {u[2] : u \in moved}]

JoinButton == [dance |-> <<"dance", 2>>, guitar |-> <<"guitar", 0>>, drums |-> <<"drums", 0>>]

\* What a new player pressed: the joining button, and nothing else.
Joins(src) ==
  {e.button : e \in ToSet(c.queue[src])} = {JoinButton[KindOf(src)]}

CanParticipate(src) == song # "practice" /\ KindOf(src) \in Songs[song]

\* ScreenSing::manageEvent and ScreenPractice::manageEvent, as far as devices go:
\* an orphan is registered, its events are eaten, and it becomes an instrument or
\* is thrown away.
Register(e) ==
  IF /\ e.src \in c.orphans
     /\ song = "practice" \/ (e.times = 0 /\ CanParticipate(e.src))
  THEN LET rest == [c EXCEPT !.orphans = @ \ {e.src}, !.nav = Tail(@)]
       IN  IF song # "practice" /\ Joins(e.src)
           THEN /\ c' = [rest EXCEPT !.queue[e.src] = <<>>]
                /\ pads' = Put(pads, e.src, {})
                /\ unseen' = Put(unseen, e.src, {u[2] : u \in {v \in DOMAIN c.values : v[1] = e.src}})
           ELSE /\ c' = [rest EXCEPT !.queue = Restrict(@, DOMAIN @ \ {e.src})]
                /\ UNCHANGED <<pads, unseen>>
  ELSE c' = [c EXCEPT !.nav = Tail(@)] /\ UNCHANGED <<pads, unseen>>

\* Only what is no instrument opens the menu of the screen; START resumes.
MenuAfter(e) ==
  IF ~menu THEN song # "practice" /\ ~CanParticipate(e.src) /\ e.nav \in {"CANCEL", "PAUSE"}
  ELSE e.nav # "START"

-----------------------------------------------------------------------------

ControllersInit ==
  /\ held = [keys |-> {}, ctrl |-> FALSE] /\ position = [w \in Wires |-> 0] /\ midi = <<>>
  /\ kb = [pressed |-> {}, modes |-> {}, ctrl |-> FALSE]
  /\ c = [values |-> <<>>, nav |-> <<>>, repeat |-> <<>>, queue |-> <<>>, orphans |-> {},
          enabled |-> FALSE]
  /\ polled = MaxEvents
  /\ song \in DOMAIN Songs /\ songs = 1 /\ menu = FALSE /\ pads = <<>> /\ unseen = <<>>

\* Instruments read their events, prepare() enables or disables new ones, process()
\* reads MIDI notes (Midi::process) and then repeats what is held.
Frame ==
  /\ polled = MaxEvents /\ c.nav = <<>> /\ polled' = 0
  /\ pads' = [s \in DOMAIN pads |-> Fold(c.queue[s], pads[s])]
  /\ LET ready == [c EXCEPT
           !.queue = [s \in DOMAIN @ |-> IF s \in c.orphans THEN @[s] ELSE <<>>],
           !.enabled = (song = "practice" \/ (Songs[song] # {} /\ ~menu))]
         heard == FoldLeft(LAMBDA q, m : PushHW(q, m.wire[1], m.wire[2], m.at), ready, midi)
     IN  \E due \in SUBSET DOMAIN heard.repeat : c' = Repetitions(heard, due)
  /\ midi' = <<>> /\ unseen' = Untold(c')
  /\ UNCHANGED <<held, position, kb, song, songs, menu>>

\* checkEvents takes what SDL has until there is no more.
Poll ==
  /\ polled < MaxEvents /\ polled' = polled + 1
  /\ UNCHANGED <<midi, song, songs, menu, pads>>

Quiet ==
  /\ polled < MaxEvents /\ polled' = MaxEvents
  /\ UNCHANGED <<held, position, midi, kb, c, song, songs, menu, pads, unseen>>

\* A key goes down, repeats or comes up.
KeyEvent ==
  /\ Poll
  /\ \E k \in DOMAIN Keys, value \in 0 .. 1 :
       /\ value = 0 => k \in held.keys
       /\ held' = [held EXCEPT !.keys = IF value = 0 THEN @ \ {k} ELSE @ \cup {k}]
       /\ Key(k, value)
       /\ unseen' = Untold(c')
  /\ UNCHANGED position

CtrlEvent ==
  /\ Poll /\ held' = [held EXCEPT !.ctrl = ~@] /\ kb' = ModesNow
  /\ UNCHANGED <<position, c, unseen>>

\* Joysticks::process
PadEvent ==
  /\ Poll
  /\ \E w \in {x \in Wires : ~Wired[x[1]].polled} : \E at \in Positions(w) \ {position[w]} :
       /\ position' = [position EXCEPT ![w] = at]
       /\ c' = PushHW(c, w[1], w[2], at)
       /\ unseen' = Untold(c')
  /\ UNCHANGED <<held, kb>>

\* A note is struck or let go; it waits in the driver.
Strike ==
  /\ polled = MaxEvents /\ c.nav = <<>> /\ midi = <<>>
  /\ \E w \in {x \in Wires : Wired[x[1]].polled} : \E at \in Positions(w) \ {position[w]} :
       /\ position' = [position EXCEPT ![w] = at]
       /\ midi' = <<[wire |-> w, at |-> at]>>
  /\ UNCHANGED <<held, kb, c, polled, song, songs, menu, pads, unseen>>

\* checkEvents: volume keys stay there, the screen gets all others.
Navigate ==
  /\ polled = MaxEvents /\ c.nav # <<>>
  /\ LET e == Head(c.nav)
     IN  IF e.nav \in {"VOLUME_UP", "VOLUME_DOWN"}
         THEN c' = [c EXCEPT !.nav = Tail(@)] /\ UNCHANGED <<menu, pads, unseen>>
         ELSE Register(e) /\ menu' = MenuAfter(e)
  /\ UNCHANGED <<held, position, midi, kb, polled, song, songs>>

\* Another screen is entered: the instruments of the last one are gone.
EnterSong ==
  /\ polled = MaxEvents /\ c.nav = <<>>
  /\ songs < MaxSongs /\ songs' = songs + 1
  /\ \E s \in DOMAIN Songs : song' = s
  /\ menu' = FALSE /\ pads' = <<>> /\ unseen' = <<>>
  /\ c' = [c EXCEPT !.queue = Restrict(@, c.orphans), !.enabled = FALSE]
  /\ UNCHANGED <<held, position, midi, kb, polled>>

ControllersNext ==
  \/ Frame \/ KeyEvent \/ CtrlEvent \/ PadEvent \/ Quiet \/ Strike \/ Navigate \/ EnterSong

ControllersSpec == ControllersInit /\ [][ControllersNext]_cvars

-----------------------------------------------------------------------------
(* Properties *)

\* What somebody holds down: keys in any of their meanings, controls off their rest.
KeyNavs(k) == {Nav[b] : b \in {Keys[k].inst, Keys[k].plain, Keys[k].ctrl} \ {None}}
WireButtons(w) == {m.button : m \in {x \in ToSet(Wired[w[1]].map[w[2]]) : x.of[position[w]] # 0}}
HeldNavs ==
  (UNION {KeyNavs(k) : k \in held.keys})
    \cup {Nav[b] : b \in (UNION {WireButtons(w) : w \in Wires}) \ {None}}

HeldButtons(s) ==
  IF s[1] = "keyboard" THEN {Keys[k].inst : k \in {x \in held.keys : Keys[x].kind = s[2]}}
  ELSE UNION {WireButtons(w) : w \in {x \in Wires : x[1] = s}}

\* Navigation repeats only what is held down: no order of presses and releases on
\* any devices, of switches between keyboard and instrument or of Ctrl leaves a
\* button repeating for ever (m_navRepeat; "avoids buttons getting stuck on mode
\* change" in controllers-keyboard.cc).
NothingSticks == midi = <<>> => DOMAIN c.repeat \subseteq HeldNavs

\* A button an instrument takes for pressed is held down on that very device, once
\* it has read its events: but for changes while events were disabled.
PadsFollow ==
  midi = <<>> =>
    \A s \in DOMAIN pads : Fold(c.queue[s], pads[s]) \ unseen[s] \subseteq HeldButtons(s)

\* Nobody presses a button that nobody holds: in the menus and in the games.
OnlyHeldCounts == NothingSticks /\ PadsFollow
=============================================================================
