--------------------------- MODULE TextureLoader ---------------------------
(***************************************************************************)
(* Loading of textures in the background (texture.cc): the main thread     *)
(* creates, uploads and destroys textures while a loader thread reads the  *)
(* image files.  Jobs are keyed by the address of the Texture; a texture   *)
(* is known here by the number of its file.                                *)
(***************************************************************************)
EXTENDS Integers

CONSTANTS
  Addresses,        (* where the allocator can put textures                *)
  MaxFiles,         (* bound: textures created                             *)
  ReuseWhileLoading (* the allocator may give a new texture the address of *)
                    (* one that was destroyed while its file was read      *)

ASSUME LoaderAssumption ==
  /\ Addresses \subseteq Nat
  /\ MaxFiles \in Nat
  /\ ReuseWhileLoading \in BOOLEAN

Files == 1 .. MaxFiles
None == 0
Nowhere == -1

VARIABLES
  created, (* textures created so far                                      *)
  texture, (* the texture at each address, or None                         *)
  shown,   (* the image each texture shows; None is the black placeholder  *)
  name,    (* Job::name of the job at each address; None when cleared      *)
  jobs,    (* the keys of m_jobs                                           *)
  bitmap,  (* Job::bitmap                                                  *)
  quit,    (* m_quit                                                       *)
  joining, (* the destructor has notified and joins the loader             *)
  pc,      (* where the loader thread is                                   *)
  target,  (* the loader's local variables target and name                 *)
  reading

mainVars   == <<created, texture, shown, quit, joining>>
loaderVars == <<pc, target, reading>>
vars == <<created, texture, shown, name, jobs, bitmap, quit, joining,
          pc, target, reading>>

Steps == {"check", "poll", "asleep", "load", "done"}

LoaderTypeOK ==
  /\ created \in 0 .. MaxFiles
  /\ texture \in [Addresses -> 0 .. MaxFiles]
  /\ shown \in [Addresses -> 0 .. MaxFiles]
  /\ name \in [Addresses -> 0 .. MaxFiles]
  /\ bitmap \in [Addresses -> 0 .. MaxFiles]
  /\ jobs \subseteq Addresses
  /\ quit \in BOOLEAN /\ joining \in BOOLEAN
  /\ pc \in Steps
  /\ target \in Addresses \cup {Nowhere}
  /\ reading \in 0 .. MaxFiles
  /\ pc = "load" => target # Nowhere /\ reading # None

Init ==
  /\ created = 0
  /\ texture = [a \in Addresses |-> None]
  /\ shown = [a \in Addresses |-> None]
  /\ name = [a \in Addresses |-> None]
  /\ bitmap = [a \in Addresses |-> None]
  /\ jobs = {}
  /\ quit = FALSE /\ joining = FALSE
  /\ pc = "check" /\ target = Nowhere /\ reading = None

-----------------------------------------------------------------------------
(* The main thread.                                                        *)

WrongNotifyOne == FALSE
NotifyOne == pc = "asleep"

(* Texture::Texture(filename): show black, push the job and notify.        *)
Create(a) ==
  /\ created < MaxFiles /\ ~quit
  /\ texture[a] = None
  /\ ReuseWhileLoading \/ pc # "load" \/ target # a
  /\ created' = created + 1
  /\ texture' = [texture EXCEPT ![a] = created + 1]
  /\ shown' = [shown EXCEPT ![a] = None]
  /\ jobs' = jobs \cup {a}
  /\ name' = [name EXCEPT ![a] = created + 1]
  /\ bitmap' = [bitmap EXCEPT ![a] = None]
  /\ pc' = IF NotifyOne THEN "check" ELSE pc
  /\ UNCHANGED <<quit, joining, target, reading>>

(* Texture::~Texture().                                                    *)
Delete(a) ==
  /\ texture[a] # None
  /\ texture' = [texture EXCEPT ![a] = None]
  /\ shown' = [shown EXCEPT ![a] = None]
  /\ jobs' = jobs \ {a}
  /\ name' = [name EXCEPT ![a] = None]
  /\ bitmap' = [bitmap EXCEPT ![a] = None]
  /\ UNCHANGED <<created, quit, joining, loaderVars>>

(* updateTextures(): upload every completed job and erase it.  The upload  *)
(* goes to the Texture at the job's address, alive or not.                 *)
Completed == {a \in jobs : name[a] = None}

Apply ==
  /\ Completed # {}
  /\ shown' = [a \in Addresses |-> IF a \in Completed THEN bitmap[a] ELSE shown[a]]
  /\ jobs' = jobs \ Completed
  /\ bitmap' = [a \in Addresses |-> IF a \in Completed THEN None ELSE bitmap[a]]
  /\ UNCHANGED <<created, texture, name, quit, joining, loaderVars>>

(* ~Impl(): m_quit = true, then notify_one and join; neither takes         *)
(* m_mutex.  No Texture is left by then (texture.hh:241).                  *)
Quit ==
  /\ ~quit /\ \A a \in Addresses : texture[a] = None
  /\ quit' = TRUE
  /\ UNCHANGED <<created, texture, shown, joining, name, jobs, bitmap, loaderVars>>

Join ==
  /\ quit /\ ~joining
  /\ joining' = TRUE
  /\ pc' = IF NotifyOne THEN "check" ELSE pc
  /\ UNCHANGED <<created, texture, shown, quit, name, jobs, bitmap, target, reading>>

-----------------------------------------------------------------------------
(* The loader thread: run().                                               *)

Check ==
  /\ pc = "check"
  /\ pc' = IF quit THEN "done" ELSE "poll"
  /\ UNCHANGED <<mainVars, name, jobs, bitmap, target, reading>>

Pending == {a \in jobs : name[a] # None}

(* The map is searched in the order of the addresses.                      *)
Take ==
  /\ pc = "poll"
  /\ \E a \in Pending :
       /\ \A b \in Pending : a <= b
       /\ target' = a
       /\ reading' = name[a]
  /\ pc' = "load"
  /\ UNCHANGED <<mainVars, name, jobs, bitmap>>

(* No job: m_condition.wait(l), without a predicate.                       *)
Wait ==
  /\ pc = "poll" /\ Pending = {}
  /\ pc' = "asleep"
  /\ UNCHANGED <<mainVars, name, jobs, bitmap, target, reading>>

SpuriousWake ==
  /\ pc = "asleep"
  /\ pc' = "check"
  /\ UNCHANGED <<mainVars, name, jobs, bitmap, target, reading>>

(* load() either gives an image or leaves the bitmap empty.  The result is *)
(* stored under the address, if there is still a job for it.               *)
WrongStore ==
  /\ pc = "load"
  /\ jobs' = jobs \cup {target}
  /\ name' = [name EXCEPT ![target] = None]
  /\ bitmap' = [bitmap EXCEPT ![target] = reading]
  /\ pc' = "check" /\ target' = Nowhere /\ reading' = None
  /\ UNCHANGED mainVars

StoreFirst ==
  /\ pc = "load"
  /\ IF Pending # {}
     THEN LET a == CHOOSE b \in Pending : \A c \in Pending : b <= c
          IN /\ name' = [name EXCEPT ![a] = None]
             /\ bitmap' = [bitmap EXCEPT ![a] = reading]
     ELSE UNCHANGED <<name, bitmap>>
  /\ pc' = "check" /\ target' = Nowhere /\ reading' = None
  /\ UNCHANGED <<mainVars, jobs>>

Store ==
  /\ pc = "load"
  /\ IF target \in jobs
     THEN /\ name' = [name EXCEPT ![target] = None]
          /\ \E image \in {reading, None} : bitmap' = [bitmap EXCEPT ![target] = image]
     ELSE UNCHANGED <<name, bitmap>>
  /\ pc' = "check" /\ target' = Nowhere /\ reading' = None
  /\ UNCHANGED <<mainVars, jobs>>

-----------------------------------------------------------------------------
Loader == Check \/ Take \/ Wait \/ Store

Finished == pc = "done" /\ UNCHANGED vars

Next ==
  \/ \E a \in Addresses : Create(a) \/ Delete(a)
  \/ Apply \/ Quit \/ Join
  \/ Loader \/ SpuriousWake \/ Finished

(* The loader is a thread of its own, the main loop calls updateTextures() *)
(* in every frame, and a destructor runs to its join.  Nobody promises a   *)
(* spurious wake-up.                                                       *)
Spec == Init /\ [][Next]_vars /\ WF_vars(Loader) /\ WF_vars(Apply) /\ WF_vars(Join)

-----------------------------------------------------------------------------
(* An upload never goes to a destroyed Texture: a job exists only while    *)
(* the Texture at its address does (Texture::~Texture, Impl::run).         *)
NoDanglingUpload == \A a \in jobs : texture[a] # None

(* texture.cc:109, "using calling Texture's address as unique ID": a       *)
(* texture shows the image of its own file.                                *)
OwnImage == \A a \in Addresses : shown[a] \in {None, texture[a]}

(* No job is forgotten, whatever the loader was doing when it was pushed,  *)
(* and its placeholder is replaced (push, run, apply).                     *)
EveryJobServed ==
  \A a \in Addresses, f \in Files :
    (texture[a] = f /\ a \in jobs) ~> (texture[a] # f \/ a \notin jobs)
=============================================================================
