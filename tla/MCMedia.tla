------------------------------ MODULE MCMedia ------------------------------
(***************************************************************************)
(* What is loaded, filmed and served beside the game, each by a thread of  *)
(* its own.  The parts share nothing: a behaviour is about one, its scene. *)
(***************************************************************************)
EXTENDS TextureLoader, Video, Workers

VARIABLE scene

allVars == <<scene, vars, vvars, wvars>>

Scenes == {"textures", "video", "backgrounds", "webcam", "webserver"}

MCInit ==
  /\ Init /\ VideoInit /\ WorkersInit
  /\ scene \in Scenes
  /\ scene # "webserver" => ports = {}

InScene(s, A, frozen) == scene = s /\ A /\ UNCHANGED <<scene, frozen>>
Textures == InScene("textures", Next, <<vvars, wvars>>)
VideoScene == InScene("video", VideoNext, <<vars, wvars>>)
Working(s, A) == InScene(s, A, <<vars, vvars>>)

MCNext ==
  \/ Textures \/ VideoScene
  \/ Working("backgrounds", BackgroundsNext)
  \/ Working("webcam", WebcamNext)
  \/ Working("webserver", WebServerNext)

(* Each thread runs, and the main loop of the game goes round. *)
MCFairness ==
  /\ WF_vars(scene = "textures" /\ Loader) /\ WF_vars(scene = "textures" /\ Apply)
  /\ WF_vars(scene = "textures" /\ Join)
  /\ WF_vvars(scene = "video" /\ Grab) /\ WF_vvars(scene = "video" /\ Prepare)
  /\ WF_wvars(scene = "backgrounds" /\ (ScanImages \/ Shuffle))
  /\ WF_wvars(scene = "webcam" /\ Film) /\ WF_wvars(scene = "webserver" /\ StartServer)

MCSpec == MCInit /\ [][MCNext]_allVars /\ MCFairness

-----------------------------------------------------------------------------
(* No thread beside the game leaves undone what it is there for, or        *)
(* outlives the game: the loader of textures, the backgrounds, the camera  *)
(* and the server (texture.cc, backgrounds.cc, webcam.cc, webserver.cc).   *)
ThreadsServe == EveryJobServed /\ WorkersServe
=============================================================================
