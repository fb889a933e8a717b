---------------------------- MODULE SongsLoader ----------------------------
(***************************************************************************)
(* The song collection (Songs, songs.cc): a thread scans the song folders  *)
(* and appends to m_songs while the user interface, and the web server's   *)
(* threads, filter and sort it into m_filtered and move the selection.     *)
(*                                                                         *)
(* m_songs is guarded by m_mutex: every locked section is a step.  Nothing *)
(* guards m_filtered, m_filter, m_order and the selection, so that         *)
(* filter_internal() is taken apart into its reads and writes of them.     *)
(***************************************************************************)
EXTENDS Integers, Sequences, SequencesExt

CONSTANTS
  Disk,      (* the song files, in the order in which they are found       *)
  Broken,    (* the files whose parser throws                              *)
  Filters,   (* search texts and type filters                              *)
  NoFilter,  (* the filter of the start: no text and all types              *)
  Matches,   (* the songs each filter lets through                         *)
  Orders,    (* the sort orders: each a rank for every song                *)
  Clients,   (* threads that use the collection: "ui", and "web" or not    *)
  MaxReloads (* bound: calls of reload()                                   *)

SongFiles == Range(Disk)

ASSUME SongsAssumption ==
  /\ Disk \in Seq(SongFiles) /\ Broken \subseteq SongFiles
  /\ Matches \in [Filters -> SUBSET SongFiles]
  /\ NoFilter \in Filters /\ Matches[NoFilter] = SongFiles
  /\ Orders \subseteq [SongFiles -> Nat]
  /\ "ui" \in Clients
  /\ MaxReloads \in Nat

Nobody == "nobody"

VARIABLES
  songs,          (* m_songs                                               *)
  dirty,          (* m_dirty                                               *)
  loading,        (* m_loading                                             *)
  doneLoading,    (* doneLoading                                           *)
  displayedAlert, (* displayedAlert                                        *)
  filter, order,  (* m_filter with m_type; m_order                         *)
  filtered,       (* m_filtered                                            *)
  selected,       (* math_cover's target, an index from 1 on               *)
  lpc, found,     (* the loader: where it is, files scanned so far         *)
  upc, reloads,   (* the main thread inside reload() or ~Songs()           *)
  cpc, copy, kept (* each client inside filter_internal(): where it is,    *)
                  (* its local "filtered" and the song of RestoreSel       *)

loadVars == <<songs, dirty, loading, doneLoading>>
viewVars == <<filter, order, filtered, selected>>
clientVars == <<cpc, copy, kept>>
songsVars == <<loadVars, displayedAlert, viewVars, lpc, found, upc, reloads, clientVars>>

SongsTypeOK ==
  /\ songs \in Seq(SongFiles) /\ filtered \in Seq(SongFiles)
  /\ Len(songs) <= Len(Disk)
  /\ \A b \in {dirty, loading, doneLoading, displayedAlert} : b \in BOOLEAN
  /\ filter \in Filters /\ order \in Orders
  /\ selected \in 1 .. Len(Disk) + 1
  /\ lpc \in {"clear", "scan", "cache", "done", "ended"}
  /\ found \in 0 .. Len(Disk)
  /\ upc \in {"idle", "clearing", "setting", "joining", "quitting", "gone"}
  /\ reloads \in 0 .. MaxReloads
  /\ cpc \in [Clients -> {"idle", "copy", "swap", "sort", "restore"}]
  /\ copy \in [Clients -> Seq(SongFiles)]
  /\ kept \in [Clients -> SongFiles \cup {Nobody}]

(* The constructor has called reload().                                    *)
SongsInit ==
  /\ songs = <<>> /\ filtered = <<>>
  /\ dirty = FALSE /\ loading = TRUE
  /\ doneLoading = FALSE /\ displayedAlert = FALSE
  /\ filter = NoFilter /\ order \in Orders /\ selected = 1
  /\ lpc = "clear" /\ found = 0
  /\ upc = "idle" /\ reloads = 0
  /\ cpc = [c \in Clients |-> "idle"]
  /\ copy = [c \in Clients |-> <<>>]
  /\ kept = [c \in Clients |-> Nobody]

-----------------------------------------------------------------------------
(* The loader thread: reload_internal().                                   *)

LoaderOnly == UNCHANGED <<displayedAlert, viewVars, upc, reloads, clientVars>>

Clear ==
  /\ lpc = "clear" /\ lpc' = "scan"
  /\ songs' = <<>> /\ dirty' = TRUE /\ found' = 0
  /\ LoaderOnly /\ UNCHANGED <<loading, doneLoading>>

WrongScan ==
  /\ lpc = "scan" /\ loading /\ found < Len(Disk)
  /\ found' = found + 1
  /\ songs' = Append(songs, Disk[found + 1])
  /\ LoaderOnly /\ UNCHANGED <<dirty, loading, doneLoading, lpc>>

(* One file: appended under the lock unless its parser throws.             *)
Scan ==
  /\ lpc = "scan" /\ loading /\ found < Len(Disk)
  /\ found' = found + 1
  /\ IF Disk[found + 1] \in Broken
     THEN UNCHANGED <<songs, dirty>>
     ELSE songs' = Append(songs, Disk[found + 1]) /\ dirty' = TRUE
  /\ LoaderOnly /\ UNCHANGED <<loading, doneLoading, lpc>>

ScanEnds ==
  /\ lpc = "scan" /\ (~loading \/ found = Len(Disk))
  /\ lpc' = "cache"
  /\ loading' = FALSE
  /\ LoaderOnly /\ UNCHANGED <<songs, dirty, doneLoading, found>>

(* CacheSonglist() writes the cache file, then doneLoading is set.         *)
WriteCache ==
  /\ lpc = "cache" /\ lpc' = "done"
  /\ LoaderOnly /\ UNCHANGED <<loadVars, found>>

LoadDone ==
  /\ lpc = "done" /\ lpc' = "ended"
  /\ doneLoading' = TRUE
  /\ LoaderOnly /\ UNCHANGED <<songs, dirty, loading, found>>

Loader == Clear \/ Scan \/ ScanEnds \/ WriteCache \/ LoadDone

-----------------------------------------------------------------------------
(* The main thread in reload() and in the destructor.                      *)

Free(c) == cpc[c] = "idle" /\ upc \in (IF c = "ui" THEN {"idle"} ELSE
             {"idle", "clearing", "setting", "joining"})

MainOnly == UNCHANGED <<viewVars, clientVars, songs, dirty>>

Reload ==
  /\ Free("ui") /\ reloads < MaxReloads
  /\ ~loading
  /\ reloads' = reloads + 1 /\ upc' = "clearing"
  /\ MainOnly /\ UNCHANGED <<loading, doneLoading, displayedAlert, lpc, found>>

ReloadClear ==
  /\ upc = "clearing" /\ upc' = "setting"
  /\ doneLoading' = FALSE
  /\ displayedAlert' = IF doneLoading THEN FALSE ELSE displayedAlert
  /\ MainOnly /\ UNCHANGED <<loading, lpc, found, reloads>>

ReloadSet ==
  /\ upc = "setting" /\ upc' = "joining"
  /\ loading' = TRUE
  /\ MainOnly /\ UNCHANGED <<doneLoading, displayedAlert, lpc, found, reloads>>

(* The old thread is joined and a new one started.                         *)
ReloadStart ==
  /\ upc = "joining" /\ lpc = "ended"
  /\ upc' = "idle" /\ lpc' = "clear" /\ found' = 0
  /\ MainOnly /\ UNCHANGED <<loading, doneLoading, displayedAlert, reloads>>

(* The main loop's "Done Loading!" dialog.                                 *)
Alert ==
  /\ Free("ui")
  /\ doneLoading /\ ~displayedAlert
  /\ displayedAlert' = TRUE
  /\ MainOnly /\ UNCHANGED <<loading, doneLoading, upc, reloads, lpc, found>>

(* ~Songs() stops the scan at its next file and joins the loader.          *)
Quit ==
  /\ \A c \in Clients : Free(c)
  /\ upc' = "quitting"
  /\ loading' = FALSE
  /\ MainOnly /\ UNCHANGED <<doneLoading, displayedAlert, reloads, lpc, found>>

Gone ==
  /\ upc = "quitting" /\ lpc = "ended"
  /\ upc' = "gone"
  /\ MainOnly /\ UNCHANGED <<loading, doneLoading, displayedAlert, reloads, lpc, found>>

-----------------------------------------------------------------------------
(* Clients of the collection.                                              *)

ClientOnly == UNCHANGED <<songs, loading, doneLoading, displayedAlert, lpc, found,
                          upc, reloads>>

Current == IF selected <= Len(filtered) THEN filtered[selected] ELSE Nobody

(* The elements of a set, one after the other by their rank.               *)
Arranged(S, rank) ==
  CHOOSE f \in [1 .. Cardinality(S) -> S] :
    Range(f) = S /\ \A i, j \in DOMAIN f : i < j => rank[f[i]] <= rank[f[j]]

Sorted(s) == Arranged(Range(s), order)

(* The songs that a filter lets through, as they come in the collection.   *)
Matching(f) ==
  LET places == {i \in DOMAIN songs : songs[i] \in Matches[f]}
      at == Arranged(places, [i \in DOMAIN songs |-> i])
  IN  [k \in DOMAIN at |-> songs[at[k]]]

(* ~RestoreSel(): the selected song stays selected, or the first one is.   *)
WrongRestored(song, list) == selected

Restored(song, list) ==
  IF song \in Range(list) THEN CHOOSE i \in DOMAIN list : list[i] = song ELSE 1

(* filter_internal() first clears m_dirty and remembers the selection ...  *)
StartFilter(c) ==
  /\ cpc' = [cpc EXCEPT ![c] = "copy"]
  /\ dirty' = FALSE
  /\ kept' = [kept EXCEPT ![c] = Current]
  /\ UNCHANGED <<copy, order, filtered, selected>>

(* update(): at most twice a second, if songs came.                        *)
Update(c) ==
  /\ Free(c) /\ dirty
  /\ StartFilter(c) /\ ClientOnly /\ UNCHANGED filter

(* setFilter(), typeChange() and typeCycle().                              *)
SetFilter(c, f) ==
  /\ Free(c) /\ f # filter
  /\ filter' = f
  /\ StartFilter(c) /\ ClientOnly

(* ... copies the matching songs under the shared lock ...                 *)
Copy(c) ==
  /\ cpc[c] = "copy"
  /\ cpc' = [cpc EXCEPT ![c] = "swap"]
  /\ copy' = [copy EXCEPT ![c] = Matching(filter)]
  /\ ClientOnly /\ UNCHANGED <<viewVars, kept, dirty>>

WrongSwap(c) ==
  /\ cpc[c] = "swap"
  /\ cpc' = [cpc EXCEPT ![c] = "sort"]
  /\ filtered' = copy[c]
  /\ copy' = [copy EXCEPT ![c] = <<>>]
  /\ dirty' = FALSE
  /\ ClientOnly /\ UNCHANGED <<filter, order, selected, kept>>

(* ... swaps them in, sorts them and restores the selection.               *)
Swap(c) ==
  /\ cpc[c] = "swap"
  /\ cpc' = [cpc EXCEPT ![c] = "sort"]
  /\ filtered' = copy[c]
  /\ copy' = [copy EXCEPT ![c] = <<>>]
  /\ ClientOnly /\ UNCHANGED <<dirty, filter, order, selected, kept>>

Sort(c) ==
  /\ cpc[c] = "sort"
  /\ cpc' = [cpc EXCEPT ![c] = "restore"]
  /\ filtered' = Sorted(filtered)
  /\ ClientOnly /\ UNCHANGED <<dirty, filter, order, selected, copy, kept>>

RestoreSel(c) ==
  /\ cpc[c] = "restore"
  /\ cpc' = [cpc EXCEPT ![c] = "idle"]
  /\ selected' = Restored(kept[c], filtered)
  /\ kept' = [kept EXCEPT ![c] = Nobody]
  /\ ClientOnly /\ UNCHANGED <<dirty, filter, order, filtered, copy>>

(* sortChange() and sortSpecificChange().                                  *)
ChangeOrder(c, o) ==
  /\ Free(c) /\ o # order
  /\ order' = o
  /\ kept' = [kept EXCEPT ![c] = Current]
  /\ cpc' = [cpc EXCEPT ![c] = "sort"]
  /\ ClientOnly /\ UNCHANGED <<dirty, filter, filtered, selected, copy>>

(* advance() and setToTarget().                                            *)
Advance(d) ==
  /\ Free("ui") /\ filtered # <<>>
  /\ selected' = ((selected - 1 + d) % Len(filtered)) + 1
  /\ ClientOnly /\ UNCHANGED <<dirty, filter, order, filtered, clientVars>>

-----------------------------------------------------------------------------
Main == Reload \/ ReloadClear \/ ReloadSet \/ ReloadStart \/ Alert \/ Quit \/ Gone

Client(c) ==
  \/ Update(c) \/ Copy(c) \/ Swap(c) \/ Sort(c) \/ RestoreSel(c)
  \/ \E f \in Filters : SetFilter(c, f)
  \/ \E o \in Orders : ChangeOrder(c, o)

Exited == upc = "gone" /\ UNCHANGED songsVars

SongsNext ==
  \/ Loader \/ Main
  \/ \E c \in Clients : Client(c)
  \/ \E d \in {-1, 1} : Advance(d)
  \/ Exited

(* The loader is a thread of its own; the main thread runs what it began   *)
(* to its end and polls update() and doneLoading in every frame.           *)
SongsSpec ==
  /\ SongsInit /\ [][SongsNext]_songsVars
  /\ WF_songsVars(Loader)
  /\ WF_songsVars(ReloadClear \/ ReloadSet \/ ReloadStart \/ Gone)
  /\ SF_songsVars(Alert)
  /\ \A c \in Clients :
       /\ WF_songsVars(Copy(c) \/ Swap(c) \/ Sort(c) \/ RestoreSel(c))
       /\ SF_songsVars(Update(c))

-----------------------------------------------------------------------------
Wanted(s) == {x \in Range(s) : x \in Matches[filter]}

(* When nothing is dirty and nobody is filtering, the list shown is the    *)
(* part of the collection the current filter lets through: no song is      *)
(* lost between the loader's m_dirty and update()'s (filter_internal).     *)
UpToDate ==
  (~dirty /\ \A c \in Clients : cpc[c] = "idle") => Range(filtered) = Wanted(songs)

(* New songs, a new filter or a new order do not move the selection away   *)
(* from a song that stays in the list (RestoreSel).                        *)
SelectionKept ==
  [][\A c \in Clients :
       (cpc[c] = "restore" /\ cpc'[c] = "idle" /\ kept[c] \in Range(filtered))
         => filtered[selected'] = kept[c]]_songsVars

(* Once the loader has ended, every song it found that the filter wants    *)
(* comes to be shown: no update() is missed (m_dirty).                     *)
EverySongShown ==
  (lpc = "ended" /\ upc = "idle")
    ~> (Wanted(songs) \subseteq Range(filtered) \/ lpc # "ended" \/ upc # "idle")
=============================================================================
