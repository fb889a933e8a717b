------------------------------ MODULE Workers ------------------------------
(***************************************************************************)
(* Three threads that serve the screens: the scan for backgrounds          *)
(* (backgrounds.cc), the grabber of the webcam (webcam.cc) and the starter *)
(* of the web server (webserver.cc).  They share nothing; a behaviour is   *)
(* about one of them.  Outside are the file system, the camera and which   *)
(* ports other programs hold.  Sleeps have no length.                      *)
(***************************************************************************)
EXTENDS Integers, Sequences, FiniteSets, SequencesExt

CONSTANTS
  Images,     \* background files
  \* bounds of the model
  MaxShown,   \* backgrounds shown
  MaxCamera,  \* frames of the camera
  MaxToggles  \* the camera is switched, other programs open or close a port

ASSUME WorkersAssumption == IsFiniteSet(Images) /\ {MaxShown, MaxCamera, MaxToggles} \subseteq Nat

VARIABLES
  bgs,      \* Backgrounds: [at, list, iter, loading, left: files not seen yet, quit]
  wall,     \* not in the program: the backgrounds shown since the scan
  cam,      \* Webcam: [at, running, quit, frame, available, grabbed, config]
  view,     \* the camera frame in m_texture
  web,      \* WebServer: [at, tried, fallback, object, quit]
  ports,    \* of "normal" and "fallback", those that can be opened
  toggles

wvars == <<bgs, wall, cam, view, web, ports, toggles>>
bgVars == <<bgs, wall>>
camVars == <<cam, view>>
webVars == <<web, ports>>

WorkersInit ==
  /\ bgs = [at |-> "clear", list |-> <<>>, iter |-> 0, loading |-> TRUE, left |-> Images, quit |-> FALSE]
  /\ wall = <<>>
  /\ cam = [at |-> "start", running |-> FALSE, quit |-> FALSE, frame |-> 0, available |-> FALSE,
            grabbed |-> 0, config |-> TRUE]
  /\ view = 0
  /\ web = [at |-> "try", tried |-> 0, fallback |-> FALSE, object |-> FALSE, quit |-> FALSE]
  /\ ports \in SUBSET {"normal", "fallback"} /\ toggles = 0

-----------------------------------------------------------------------------
(* Backgrounds *)

\* Backgrounds::reload_internal looks at m_loading before each folder and file.
ScanImages ==
  /\ \/ /\ bgs.at = "clear" /\ bgs' = [bgs EXCEPT !.at = "scan", !.list = <<>>]
     \/ /\ bgs.at = "scan" /\ bgs.loading /\ bgs.left # {}
        /\ \E f \in bgs.left : bgs' = [bgs EXCEPT !.list = Append(@, f), !.left = @ \ {f}]
     \/ /\ bgs.at = "scan" /\ (~bgs.loading \/ bgs.left = {})
        /\ bgs' = [bgs EXCEPT !.at = "shuffle", !.loading = FALSE]
  /\ UNCHANGED <<wall, camVars, webVars, toggles>>

Shuffle ==
  /\ bgs.at = "shuffle"
  /\ \E list \in SetToSeqs(ToSet(bgs.list)) : bgs' = [bgs EXCEPT !.at = "done", !.list = list, !.iter = 0]
  /\ wall' = <<>>
  /\ UNCHANGED <<camVars, webVars, toggles>>

Pick == 1 + ((bgs.iter + 1) % Len(bgs.list))

\* Backgrounds::getRandom takes no lock; without files it throws.
GetRandom ==
  /\ ~bgs.quit /\ bgs.list # <<>> /\ Len(wall) < MaxShown
  /\ bgs' = [bgs EXCEPT !.iter = @ + 1] /\ wall' = Append(wall, bgs.list[Pick])
  /\ UNCHANGED <<camVars, webVars, toggles>>

\* Backgrounds::~Backgrounds, which then joins the thread.
QuitBackgrounds ==
  /\ ~bgs.quit /\ bgs' = [bgs EXCEPT !.quit = TRUE, !.loading = FALSE]
  /\ UNCHANGED <<wall, camVars, webVars, toggles>>

-----------------------------------------------------------------------------
(* Webcam *)

\* Webcam::operator(): the thread switches itself on, whatever it was told before;
\* a frame is grabbed without the lock and stored under it.
Film ==
  /\ \/ cam.at = "start" /\ cam' = [cam EXCEPT !.at = "loop", !.running = TRUE]
     \/ /\ cam.at = "loop"
        /\ cam' = [cam EXCEPT !.at = CASE cam.quit -> "done"
                                       [] ~cam.quit /\ cam.running -> "grab"
                                       [] OTHER -> "loop"]
     \/ /\ cam.at = "grab"
        /\ IF cam.grabbed < MaxCamera
           THEN cam' = [cam EXCEPT !.at = "store", !.grabbed = @ + 1]
           ELSE cam' = [cam EXCEPT !.at = "loop"]    \* an exception
     \/ /\ cam.at = "store"
        /\ cam' = [cam EXCEPT !.at = "loop", !.frame = cam.grabbed, !.available = TRUE]
  /\ UNCHANGED <<view, bgVars, webVars, toggles>>

\* The key A of ScreenSing: the setting is switched and the camera follows (Webcam::pause).
SwitchCamera ==
  /\ ~cam.quit /\ toggles < MaxToggles /\ toggles' = toggles + 1
  /\ cam' = [cam EXCEPT !.config = ~@, !.running = ~cam.config, !.available = FALSE]
  /\ UNCHANGED <<view, bgVars, webVars>>

\* Webcam::render
RenderCamera ==
  /\ ~cam.quit /\ cam.config /\ cam.running /\ cam.available /\ cam.frame # 0
  /\ view' = cam.frame /\ cam' = [cam EXCEPT !.available = FALSE]
  /\ UNCHANGED <<bgVars, webVars, toggles>>

\* Webcam::~Webcam, which then joins the thread.
QuitCamera ==
  /\ ~cam.quit /\ cam' = [cam EXCEPT !.quit = TRUE]
  /\ UNCHANGED <<view, bgVars, webVars, toggles>>

-----------------------------------------------------------------------------
(* WebServer *)

\* The head of StartServer: after three tries the other port has its turn; after three
\* more "Couldn't start webserver" is shown, and it is tried on and on.
Retry(tried, fallback) ==
  IF tried > 2 /\ ~fallback THEN [at |-> "try", tried |-> 0, fallback |-> TRUE]
  ELSE [at |-> "try", tried |-> tried, fallback |-> fallback]

Port == IF web.fallback THEN "fallback" ELSE "normal"

\* WebServer::StartServer: the listener is made, then opened; otherwise it sleeps and
\* calls itself.  (More than three tries are counted as three.)
StartServer ==
  /\ \/ web.at = "try" /\ web' = [web EXCEPT !.at = "open", !.object = TRUE]
     \/ web.at = "open" /\ Port \in ports /\ web' = [web EXCEPT !.at = "up"]
     \/ web.at = "open" /\ Port \notin ports /\ web' = [web EXCEPT !.at = "sleep"]
     \/ /\ web.at = "sleep"
        /\ LET tries == IF web.tried < 3 THEN web.tried + 1 ELSE 3
               again == Retry(tries, web.fallback)
           IN  web' = [web EXCEPT !.at = again.at, !.tried = again.tried, !.fallback = again.fallback]
  /\ UNCHANGED <<ports, bgVars, camVars, toggles>>

\* Another program takes or frees a port.
ChangePorts ==
  /\ toggles < MaxToggles /\ toggles' = toggles + 1
  /\ ports' \in (SUBSET {"normal", "fallback"}) \ {ports}
  /\ UNCHANGED <<web, bgVars, camVars>>

\* WebServer::~WebServer: with no listener yet the running thread object is destroyed,
\* which ends the program; otherwise it joins.
QuitServer ==
  /\ ~web.quit
  /\ web' = [web EXCEPT !.quit = TRUE, !.at = IF web.object THEN @ ELSE "terminate"]
  /\ UNCHANGED <<ports, bgVars, camVars, toggles>>

-----------------------------------------------------------------------------

BackgroundsNext == ScanImages \/ Shuffle \/ GetRandom \/ QuitBackgrounds
WebcamNext == Film \/ SwitchCamera \/ RenderCamera \/ QuitCamera
WebServerNext == StartServer \/ ChangePorts \/ QuitServer

-----------------------------------------------------------------------------
(* Properties *)

\* Backgrounds come in turn: once the scan is over no image is seen again before all
\* others ("this relies on that the bgs are in random order").
InTurn ==
  bgs.at = "done" =>
    \A i, j \in DOMAIN wall : i < j /\ j < i + Len(bgs.list) => wall[i] # wall[j]

\* Destructors get their threads back, whatever the threads were doing.
ThreadsReturn == (bgs.quit ~> bgs.at = "done") /\ (cam.quit ~> cam.at = "done")

\* The web server comes up at last if its port becomes free at last, however long both
\* were taken.
ServerComesUp == (<>[]("normal" \in ports /\ "fallback" \in ports)) => <>(web.at \in {"up", "terminate"})

\* Each worker does for the game what it was started for, and ends with it.
WorkersServe == []InTurn /\ ThreadsReturn /\ ServerComesUp
=============================================================================
