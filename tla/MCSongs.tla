------------------------------ MODULE MCSongs ------------------------------
(***************************************************************************)
(* The song collection while it is loaded, filtered and sorted, step by    *)
(* step; and the song browser on top of it: two scenes.                    *)
(***************************************************************************)
EXTENDS Browser

MCDisk == <<"a", "bad", "b">>
MCBroken == {"bad"}
MCFilters == [text : {"", "x"}, type : {0, 1}]
MCNoFilter == [text |-> "", type |-> 0]
(* The search finds one song, the type the other, both none. *)
MCMatches == [f \in MCFilters |->
  IF f = MCNoFilter THEN SongFiles
  ELSE (IF f.text = "" THEN SongFiles ELSE {"b"}) \cap (IF f.type = 0 THEN SongFiles ELSE {"a"})]
MCCategory == [t \in {0, 1} |-> 2 * t]
MCMusicOf == [s \in SongFiles |-> s]
MCOrders == {[a |-> 1, b |-> 2, bad |-> 0], [a |-> 2, b |-> 1, bad |-> 0]}
MCMenuOrders == {[a |-> 1, b |-> 2, bad |-> 0]}

VARIABLE scene

MCInit ==
  /\ BrowserInit
  /\ scene \in {"loader", "browser"}
  /\ scene = "browser" => order \in MenuOrders

MCNext ==
  \/ scene = "loader" /\ SongsNext /\ UNCHANGED <<scene, browserVars>>
  \/ scene = "browser" /\ BrowserNext /\ UNCHANGED scene

(* The fairness of each part, in its scene.                                *)
Loading(A) == scene = "loader" /\ A
Browsing(A) == scene = "browser" /\ Other(A)
MCFairness ==
  /\ WF_songsVars(Loading(Loader)) /\ SF_songsVars(Loading(Alert))
  /\ WF_songsVars(Loading(ReloadClear \/ ReloadSet \/ ReloadStart \/ Gone))
  /\ \A c \in Clients :
       /\ WF_songsVars(Loading(Copy(c) \/ Swap(c) \/ Sort(c) \/ RestoreSel(c)))
       /\ SF_songsVars(Loading(Update(c)))
  /\ WF_bvars(Browsing(LoadSong)) /\ SF_bvars(Browsing(PollSongs))
  /\ WF_bvars(Browsing(DrawSongs)) /\ WF_bvars(Browsing(TimePasses))
  /\ WF_bvars(Browsing(MusicEnds))

MCSpec == MCInit /\ [][MCNext]_<<scene, bvars>> /\ MCFairness
=============================================================================
