------------------------ MODULE SongsSettingsProofs ------------------------
(***************************************************************************)
(* The song collection, for any files, filters and orders: with the main   *)
(* thread as its only client the list on the screen is up to date whenever *)
(* nobody works on it; and for any number of clients the selection stays   *)
(* with its song.  And the settings: what is saved, for any items in the   *)
(* menu and whatever fails or is killed on the way, is what the next start *)
(* reads.                                                                  *)
(***************************************************************************)
EXTENDS SongsLoader, Settings, SequenceTheorems, FoldLemmas

SongsTypes ==
  /\ songs \in Seq(SongFiles) /\ filtered \in Seq(SongFiles)
  /\ filter \in Filters /\ order \in Orders
  /\ found \in 0 .. Len(Disk)
  /\ cpc \in [Clients -> {"idle", "copy", "swap", "sort", "restore"}]
  /\ copy \in [Clients -> Seq(SongFiles)]

(* A copy that is not out of date already is what the filter lets through, *)
(* and so is the list once it was swapped in.                              *)
ViewInv ==
  /\ cpc["ui"] = "swap" /\ ~dirty => Range(copy["ui"]) = Wanted(songs)
  /\ cpc["ui"] \in {"sort", "restore", "idle"} /\ ~dirty => Range(filtered) = Wanted(songs)

SongsInv == SongsTypes /\ ViewInv

-----------------------------------------------------------------------------
(* Arranging a finite set by rank.                                         *)

(* What Arranged chooses.                                                  *)
ArrangedAs(f, S, rank) ==
  /\ f \in [1 .. Cardinality(S) -> S]
  /\ Range(f) = S /\ \A i, j \in DOMAIN f : i < j => rank[f[i]] <= rank[f[j]]

(* One more element, of the least rank, goes to the front.                 *)
LEMMA ArrangedInFront ==
  ASSUME NEW S, IsFiniteSet(S), NEW rank, \A x \in S : rank[x] \in Nat,
         NEW x \in S, \A y \in S : rank[x] <= rank[y],
         NEW g, ArrangedAs(g, S \ {x}, rank)
  PROVE  \E f : ArrangedAs(f, S, rank)
<1> DEFINE n == Cardinality(S)
           f == [i \in 1 .. n |-> IF i = 1 THEN x ELSE g[i - 1]]
<1>1. n \in Nat /\ Cardinality(S \ {x}) = n - 1 /\ n >= 1
  BY FS_RemoveElement, FS_CardinalityType, FS_EmptySet
<1> HIDE DEF n
<1>2. g \in [1 .. n - 1 -> S \ {x}] /\ Range(g) = S \ {x}
  BY <1>1 DEF ArrangedAs
<1>3. \A i \in 1 .. n : f[i] = IF i = 1 THEN x ELSE g[i - 1]
  OBVIOUS
<1>4. \A i \in 1 .. n : i # 1 => i - 1 \in 1 .. n - 1
  BY <1>1
<1>5. f \in [1 .. n -> S]
  BY <1>2, <1>4
<1>6. ASSUME NEW y \in S PROVE \E i \in 1 .. n : f[i] = y
  <2>1. CASE y = x
    <3>1. 1 \in 1 .. n
      BY <1>1
    <3> QED BY <1>3, <2>1, <3>1
  <2>2. CASE y # x
    <3>1. PICK i \in 1 .. n - 1 : g[i] = y
      BY <1>2, <2>2 DEF Range
    <3>2. i + 1 \in 1 .. n /\ i + 1 # 1 /\ (i + 1) - 1 = i
      BY <1>1
    <3> QED BY <1>3, <3>1, <3>2
  <2> QED BY <2>1, <2>2
<1>7. Range(f) = S
  BY <1>5, <1>6 DEF Range
<1>8. ASSUME NEW i \in 1 .. n, NEW j \in 1 .. n, i < j
      PROVE  rank[f[i]] <= rank[f[j]]
  <2>1. CASE i = 1
    BY <1>3, <1>5, <2>1
  <2>2. CASE i # 1
    <3>1. i - 1 \in 1 .. n - 1 /\ j - 1 \in 1 .. n - 1 /\ i - 1 < j - 1 /\ j # 1
      BY <1>1, <1>8, <2>2
    <3>2. rank[g[i - 1]] <= rank[g[j - 1]]
      BY <1>2, <3>1 DEF ArrangedAs
    <3> QED BY <1>3, <2>2, <3>1, <3>2
  <2> QED BY <2>1, <2>2
<1> HIDE DEF f
<1>9. ArrangedAs(f, S, rank)
  BY <1>5, <1>7, <1>8 DEF ArrangedAs, n
<1> QED BY <1>9

(* Every finite set can be arranged: the smallest that could not would     *)
(* have an element of the least rank, and the rest of it can be.           *)
LEMMA ArrangedProperties ==
  ASSUME NEW S, IsFiniteSet(S), NEW rank, \A x \in S : rank[x] \in Nat
  PROVE  ArrangedAs(Arranged(S, rank), S, rank)
<1> DEFINE Fails(n) == \E T \in SUBSET S : Cardinality(T) = n /\ ~ \E f : ArrangedAs(f, T, rank)
           Failing == {n \in Nat : Fails(n)}
<1>1. Failing = {}
  <2> SUFFICES ASSUME Failing # {} PROVE FALSE
    OBVIOUS
  <2>1. PICK n \in Failing : \A m \in Failing : n <= m
    BY LeastNumber, Failing \in SUBSET Nat
  <2>2. PICK T \in SUBSET S : Cardinality(T) = n /\ ~ \E f : ArrangedAs(f, T, rank)
    BY <2>1
  <2>3. IsFiniteSet(T) /\ n \in Nat
    BY <2>1, FS_Subset
  <2>4. T # {}
    <3> SUFFICES ASSUME T = {} PROVE FALSE
      OBVIOUS
    <3>1. <<>> \in [1 .. 0 -> {}] /\ 1 .. 0 = {} /\ DOMAIN <<>> = {}
      OBVIOUS
    <3>2. ArrangedAs(<<>>, {}, rank)
      BY <3>1, FS_EmptySet DEF ArrangedAs, Range
    <3> QED BY <2>2, <3>2
  <2>5. PICK x \in T : \A y \in T : rank[x] <= rank[y]
    <3> DEFINE Ranks == {rank[y] : y \in T}
    <3>1. Ranks \in SUBSET Nat /\ Ranks # {}
      BY <2>4
    <3>2. PICK r \in Ranks : \A q \in Ranks : r <= q
      BY <3>1, LeastNumber
    <3> QED BY <3>2
  <2>6. Cardinality(T \ {x}) = n - 1 /\ n - 1 \in Nat
    <3>1. Cardinality(T \ {x}) = n - 1 /\ IsFiniteSet(T \ {x})
      BY <2>2, <2>3, FS_RemoveElement
    <3> QED BY <3>1, FS_CardinalityType
  <2>7. n - 1 \notin Failing
    BY <2>1, <2>3
  <2>8. PICK g : ArrangedAs(g, T \ {x}, rank)
    BY <2>6, <2>7
  <2>9. \E f : ArrangedAs(f, T, rank)
    BY <2>3, <2>5, <2>8, ArrangedInFront
  <2> QED BY <2>2, <2>9
<1>2. PICK f : ArrangedAs(f, S, rank)
  <2>1. Cardinality(S) \in Nat
    BY FS_CardinalityType
  <2> QED BY <1>1, <2>1
<1> QED BY <1>2 DEF Arranged, ArrangedAs

-----------------------------------------------------------------------------
(* What is sorted and what is filtered.                                    *)

LEMMA SongFilesFinite == IsFiniteSet(SongFiles)
<1>1. Disk \in Surjection(1 .. Len(Disk), SongFiles) /\ Len(Disk) \in Nat
  <2>1. Disk \in [1 .. Len(Disk) -> SongFiles] /\ Len(Disk) \in Nat
    BY SongsAssumption
  <2> QED BY <2>1 DEF SongFiles, Range, Surjection
<1>2. IsFiniteSet(1 .. Len(Disk))
  BY <1>1, FS_Interval
<1> QED BY <1>1, <1>2, FS_Surjection

(* Sorting loses no song.                                                  *)
LEMMA SortedProperties ==
  ASSUME NEW s \in Seq(SongFiles), order \in Orders
  PROVE  Sorted(s) \in Seq(SongFiles) /\ Range(Sorted(s)) = Range(s)
<1>1. Range(s) \subseteq SongFiles /\ IsFiniteSet(Range(s))
  <2>1. Range(s) \subseteq SongFiles
    BY ElementOfSeq DEF Range
  <2> QED BY <2>1, SongFilesFinite, FS_Subset
<1>2. \A x \in Range(s) : order[x] \in Nat
  BY <1>1, SongsAssumption
<1>3. ArrangedAs(Sorted(s), Range(s), order)
  BY <1>1, <1>2, ArrangedProperties DEF Sorted
<1>4. Cardinality(Range(s)) \in Nat
  BY <1>1, FS_CardinalityType
<1> QED BY <1>1, <1>3, <1>4 DEF ArrangedAs

(* A filter lets through what matches it, in the collection's order.       *)
LEMMA MatchingProperties ==
  ASSUME songs \in Seq(SongFiles), NEW f \in Filters
  PROVE  /\ Matching(f) \in Seq(SongFiles)
         /\ Range(Matching(f)) = {x \in Range(songs) : x \in Matches[f]}
<1> DEFINE places == {i \in DOMAIN songs : songs[i] \in Matches[f]}
           rank == [i \in DOMAIN songs |-> i]
           at == Arranged(places, rank)
<1>1. DOMAIN songs = 1 .. Len(songs) /\ Len(songs) \in Nat
  OBVIOUS
<1>2. IsFiniteSet(places)
  <2>1. IsFiniteSet(1 .. Len(songs))
    BY <1>1, FS_Interval
  <2>2. places \in SUBSET (1 .. Len(songs))
    BY <1>1
  <2> QED BY <2>1, <2>2, FS_Subset, Zenon
<1>3. \A i \in places : rank[i] \in Nat
  BY <1>1
<1>4. ArrangedAs(at, places, rank)
  BY <1>2, <1>3, ArrangedProperties
<1>5. Cardinality(places) \in Nat
  BY <1>2, FS_CardinalityType
<1> DEFINE n == Cardinality(places)
<1>6. at \in [1 .. n -> places] /\ Range(at) = places
  BY <1>4 DEF ArrangedAs
<1>7. Matching(f) = [k \in 1 .. n |-> songs[at[k]]]
  BY <1>6 DEF Matching
<1> HIDE DEF n, at
<1>8. \A i \in places : songs[i] \in SongFiles
  BY ElementOfSeq
<1>9. Matching(f) \in Seq(SongFiles)
  BY <1>5, <1>6, <1>7, <1>8 DEF n
<1>10. ASSUME NEW x \in Range(songs), x \in Matches[f]
       PROVE  \E k \in 1 .. n : songs[at[k]] = x
  <2>1. PICK i \in places : songs[i] = x
    BY <1>10 DEF Range
  <2>2. PICK k \in 1 .. n : at[k] = i
    BY <1>6 DEF Range
  <2> QED BY <2>1, <2>2
<1>11. ASSUME NEW k \in 1 .. n
       PROVE  songs[at[k]] \in Range(songs) /\ songs[at[k]] \in Matches[f]
  BY <1>6 DEF Range
<1>12. Range(Matching(f)) = {songs[at[k]] : k \in 1 .. n}
  BY <1>7 DEF Range
<1> QED BY <1>9, <1>10, <1>11, <1>12

-----------------------------------------------------------------------------
(* The list on the screen.                                                 *)

LEMMA SongsTypesStep ==
  ASSUME SongsTypes, [SongsNext]_songsVars
  PROVE  SongsTypes'
<1> USE DEF SongsTypes, loadVars, viewVars, clientVars
<1>0. <<>> \in Seq(SongFiles) /\ 0 \in 0 .. Len(Disk) /\ Len(Disk) \in Nat
  BY SongsAssumption
<1>1. CASE Loader
  <2>1. CASE Clear
    BY <1>0, <2>1 DEF Clear, LoaderOnly
  <2>2. CASE Scan
    <3>1. found + 1 \in 1 .. Len(Disk) /\ found' = found + 1
      BY <1>0, <2>2 DEF Scan
    <3>2. Disk[found + 1] \in SongFiles
      BY <3>1, SongsAssumption, ElementOfSeq
    <3>3. songs' \in Seq(SongFiles)
      <4>1. Append(songs, Disk[found + 1]) \in Seq(SongFiles)
        BY <3>2, AppendProperties
      <4> QED BY <2>2, <4>1 DEF Scan
    <3> QED BY <2>2, <3>1, <3>3 DEF Scan, LoaderOnly
  <2>3. CASE ScanEnds \/ WriteCache \/ LoadDone
    BY <2>3 DEF ScanEnds, WriteCache, LoadDone, LoaderOnly
  <2> QED BY <1>1, <2>1, <2>2, <2>3 DEF Loader
<1>2. CASE Main
  BY <1>0, <1>2 DEF Main, Reload, ReloadClear, ReloadSet, ReloadStart, Alert, Quit, Gone, MainOnly
<1>3. ASSUME NEW c \in Clients, Client(c)
      PROVE  SongsTypes'
  <2>1. CASE Update(c)
    BY <2>1 DEF Update, StartFilter, ClientOnly
  <2>2. CASE \E f \in Filters : SetFilter(c, f)
    BY <2>2 DEF SetFilter, StartFilter, ClientOnly
  <2>3. CASE Copy(c)
    BY <2>3, MatchingProperties DEF Copy, ClientOnly
  <2>4. CASE Swap(c)
    BY <1>0, <2>4 DEF Swap, ClientOnly
  <2>5. CASE Sort(c)
    BY <2>5, SortedProperties DEF Sort, ClientOnly
  <2>6. CASE RestoreSel(c)
    BY <2>6 DEF RestoreSel, ClientOnly
  <2>7. CASE \E o \in Orders : ChangeOrder(c, o)
    BY <2>7 DEF ChangeOrder, ClientOnly
  <2> QED BY <1>3, <2>1, <2>2, <2>3, <2>4, <2>5, <2>6, <2>7 DEF Client
<1>4. CASE \E d \in {-1, 1} : Advance(d)
  BY <1>4 DEF Advance, ClientOnly
<1>5. CASE UNCHANGED songsVars
  BY <1>5 DEF songsVars
<1> QED BY <1>1, <1>2, <1>3, <1>4, <1>5 DEF SongsNext, Exited

LEMMA ViewStep ==
  ASSUME Clients = {"ui"}, SongsInv, [SongsNext]_songsVars
  PROVE  ViewInv'
<1> USE DEF SongsInv, ViewInv, Wanted, loadVars, viewVars, clientVars
<1>0. cpc \in [{"ui"} -> {"idle", "copy", "swap", "sort", "restore"}]
      /\ copy \in [{"ui"} -> Seq(SongFiles)]
  BY DEF SongsTypes
<1>1. CASE Loader
  <2>1. \/ dirty'
        \/ UNCHANGED <<songs, dirty, filter, filtered, cpc, copy>>
    BY <1>1 DEF Loader, Clear, Scan, ScanEnds, WriteCache, LoadDone, LoaderOnly
  <2> QED BY <1>1, <2>1
<1>2. CASE Main
  BY <1>2 DEF Main, Reload, ReloadClear, ReloadSet, ReloadStart, Alert, Quit, Gone, MainOnly
<1>3. CASE Client("ui")
  <2>1. CASE Update("ui") \/ \E f \in Filters : SetFilter("ui", f)
    <3>1. cpc'["ui"] = "copy"
      BY <1>0, <2>1 DEF Update, SetFilter, StartFilter
    <3> QED BY <3>1
  <2>2. CASE Copy("ui")
    <3>1. cpc'["ui"] = "swap" /\ copy'["ui"] = Matching(filter) /\ UNCHANGED <<songs, filter>>
      BY <1>0, <2>2 DEF Copy, ClientOnly
    <3>2. Range(Matching(filter)) = {x \in Range(songs) : x \in Matches[filter]}
      BY MatchingProperties DEF SongsTypes
    <3> QED BY <3>1, <3>2
  <2>3. CASE Swap("ui")
    <3>1. /\ cpc["ui"] = "swap" /\ cpc'["ui"] = "sort" /\ filtered' = copy["ui"]
          /\ UNCHANGED <<songs, filter, dirty>>
      BY <1>0, <2>3 DEF Swap, ClientOnly
    <3> QED BY <3>1
  <2>4. CASE Sort("ui")
    <3>1. /\ cpc["ui"] = "sort" /\ cpc'["ui"] = "restore" /\ filtered' = Sorted(filtered)
          /\ UNCHANGED <<songs, filter, dirty>>
      BY <1>0, <2>4 DEF Sort, ClientOnly
    <3>2. Range(Sorted(filtered)) = Range(filtered)
      BY SortedProperties DEF SongsTypes
    <3> QED BY <3>1, <3>2
  <2>5. CASE RestoreSel("ui")
    BY <1>0, <2>5 DEF RestoreSel, ClientOnly
  <2>6. CASE \E o \in Orders : ChangeOrder("ui", o)
    BY <1>0, <2>6 DEF ChangeOrder, Free, ClientOnly
  <2> QED BY <1>3, <2>1, <2>2, <2>3, <2>4, <2>5, <2>6 DEF Client
<1>4. CASE \E d \in {-1, 1} : Advance(d)
  BY <1>4 DEF Advance, ClientOnly
<1>5. CASE UNCHANGED songsVars
  BY <1>5 DEF songsVars
<1> QED BY <1>1, <1>2, <1>3, <1>4, <1>5 DEF SongsNext, Exited

(* With the main thread as its only client: when nothing is dirty and      *)
(* nobody is filtering, the list shown is the part of the collection that  *)
(* the filter lets through; no song is lost between the loader's m_dirty   *)
(* and update()'s (filter_internal).  With a second client that is not so. *)
THEOREM TheListIsUpToDate ==
  ASSUME Clients = {"ui"}
  PROVE  SongsSpec => []UpToDate
<1>1. SongsInit => SongsInv
  <2>1. <<>> \in Seq(SongFiles) /\ 0 \in 0 .. Len(Disk) /\ Range(<<>>) = {}
    BY SongsAssumption DEF Range
  <2> QED BY <2>1, SongsAssumption DEF SongsInit, SongsInv, SongsTypes, ViewInv, Wanted
<1>2. SongsInv /\ [SongsNext]_songsVars => SongsInv'
  BY SongsTypesStep, ViewStep DEF SongsInv
<1>3. SongsInv => UpToDate
  BY DEF SongsInv, ViewInv, UpToDate
<1> QED BY <1>1, <1>2, <1>3, PTL DEF SongsSpec

(* For any clients: new songs, a new filter or a new order do not move the *)
(* selection away from a song that stays in the list (RestoreSel).         *)
THEOREM TheSelectionIsKept == SongsSpec => SelectionKept
<1> DEFINE Kept == \A c \in Clients :
       (cpc[c] = "restore" /\ cpc'[c] = "idle" /\ kept[c] \in Range(filtered))
         => filtered[selected'] = kept[c]
<1>1. SongsInit => SongsTypes
  <2>1. <<>> \in Seq(SongFiles) /\ 0 \in 0 .. Len(Disk)
    BY SongsAssumption
  <2> QED BY <2>1, SongsAssumption DEF SongsInit, SongsTypes
<1>2. SongsTypes /\ [SongsNext]_songsVars => SongsTypes'
  BY SongsTypesStep
<1>3. ASSUME SongsTypes, [SongsNext]_songsVars, NEW c \in Clients,
             cpc[c] = "restore", cpc'[c] = "idle", kept[c] \in Range(filtered)
      PROVE  filtered[selected'] = kept[c]
  <2> USE DEF loadVars, viewVars, clientVars
  <2>1. CASE RestoreSel(c)
    <3>1. selected' = CHOOSE i \in DOMAIN filtered : filtered[i] = kept[c]
      BY <1>3, <2>1 DEF RestoreSel, Restored
    <3> QED BY <1>3, <3>1 DEF Range
  <2>2. ASSUME NEW d \in Clients, Client(d), ~ RestoreSel(c)
        PROVE  cpc'[c] # "idle"
    BY <1>3, <2>2 DEF SongsTypes, Client, Update, SetFilter, StartFilter, Copy, Swap, Sort,
                      RestoreSel, ChangeOrder
  <2>3. CASE Loader \/ Main \/ (\E d \in {-1, 1} : Advance(d)) \/ UNCHANGED songsVars
    BY <1>3, <2>3 DEF Loader, Clear, Scan, ScanEnds, WriteCache, LoadDone, LoaderOnly, Main,
                      Reload, ReloadClear, ReloadSet, ReloadStart, Alert, Quit, Gone, MainOnly,
                      Advance, ClientOnly, songsVars
  <2> QED BY <1>3, <2>1, <2>2, <2>3 DEF SongsNext, Exited
<1>4. SongsTypes /\ [SongsNext]_songsVars => [Kept]_songsVars
  BY <1>3
<1> QED BY <1>1, <1>2, <1>4, PTL DEF SongsSpec, SelectionKept

-----------------------------------------------------------------------------
(* The settings: what the two files mean to the next start.                *)

\* For one item, and for all.
Populated(i, v, installed) ==
  CASE i = "theme" -> PopulateThemes(v, installed)
    [] i = "language" -> PopulateLanguages(v)
    [] i = "backend" -> PopulateBackends(v)
    [] OTHER -> v
ReadAs(i, v, installed) == Meaning(i, Populated(i, v, installed), 0, installed)
AtStart(sys, user, installed) ==
  [i \in Items |-> ReadAs(i, Over(Over(Factory, sys), user)[i], installed)]

(* What is assumed of the lists.                                           *)
LEMMA Ids == AutoId \in Nat /\ \A n \in Nat : n <= AutoId => ~ (AutoId < n)
BY DEF AutoId

LEMMA LanguageFacts ==
  /\ Languages \in Seq(STRING) /\ Len(Languages) \in Nat
  /\ 0 < Len(Languages) /\ ~ (AutoId < Len(Languages)) /\ Languages[1] = "Auto"
<1>1. Languages \in Seq(STRING) /\ Len(Languages) \in 1 .. AutoId /\ Languages[1] = "Auto"
  BY SettingsAssumption, Zenon
<1> QED BY <1>1, Ids

LEMMA ThemeFacts ==
  ASSUME NEW t \in ThemeSets
  PROVE  /\ Len(t) \in Nat /\ ~ (AutoId < Len(t)) /\ \E k \in 1 .. Len(t) : t[k] = "default"
<1>1. t \in Seq(STRING) /\ Len(t) <= AutoId /\ Contains(t, "default")
  BY SettingsAssumption, Zenon
<1> QED BY <1>1, Ids DEF Contains

LEMMA BackendFacts ==
  /\ Backends \in Seq(STRING) /\ DOMAIN Backends = 1 .. Len(Backends)
  /\ "Auto" \notin ToSet(Backends)
  /\ \A b \in ToSet(Backends) : TypeOf[b] \in Nat /\ TypeOf[b] # AutoId
  /\ \A b, d \in ToSet(Backends) : TypeOf[b] = TypeOf[d] => b = d
<1>1. Backends \in Seq(STRING \ {"Auto"})
  BY SettingsAssumption, Zenon
<1>2. \A b \in ToSet(Backends) : TypeOf[b] \in Nat \ {AutoId}
  BY SettingsAssumption, Zenon
<1>3. \A b, d \in ToSet(Backends) : TypeOf[b] = TypeOf[d] => b = d
  BY SettingsAssumption, Zenon
<1>4. Backends \in Seq(STRING) /\ DOMAIN Backends = 1 .. Len(Backends)
      /\ \A k \in DOMAIN Backends : Backends[k] # "Auto"
  BY <1>1
<1> QED BY <1>2, <1>3, <1>4 DEF ToSet

(* The place of what is in a list.                                         *)
LEMMA PlaceOf ==
  ASSUME NEW list, Len(list) \in Nat, NEW k \in 1 .. Len(list)
  PROVE  /\ Place(list, list[k]) \in 0 .. Len(list) - 1
         /\ list[Place(list, list[k]) + 1] = list[k]
<1> DEFINE I == {i \in 1 .. Len(list) : list[i] = list[k]}
<1>1. I \in SUBSET Nat /\ I # {}
  BY DEF I
<1>2. Min(I) \in I
  BY <1>1, MinOf
<1>3. Place(list, list[k]) = Min(I) - 1
  BY <1>1 DEF Place, SelectInSeq
<1> QED BY <1>2, <1>3

(* The backends of the menu.                                               *)
Listed == <<"Auto">> \o Backends
LEMMA OneBefore ==
  ASSUME NEW S, NEW a, NEW s \in Seq(S)
  PROVE  /\ Len(<<a>> \o s) = Len(s) + 1 /\ Len(s) \in Nat /\ (<<a>> \o s)[1] = a
         /\ \A k \in 1 .. Len(s) : (<<a>> \o s)[k + 1] = s[k]
         /\ \A k \in 2 .. Len(s) + 1 : (<<a>> \o s)[k] = s[k - 1]
OBVIOUS

LEMMA ListedBackends ==
  /\ Len(Listed) = Len(Backends) + 1 /\ Len(Backends) \in Nat /\ Listed[1] = "Auto"
  /\ \A k \in 1 .. Len(Backends) : Listed[k + 1] = Backends[k]
  /\ \A k \in 2 .. Len(Listed) : Listed[k] = Backends[k - 1]
<1>1. Backends \in Seq(STRING)
  BY BackendFacts
<1>2. PICK a : a = "Auto"
  OBVIOUS
<1>3. Listed = <<a>> \o Backends
  BY <1>2 DEF Listed
<1>4. /\ Len(Listed) = Len(Backends) + 1 /\ Len(Backends) \in Nat /\ Listed[1] = a
      /\ \A k \in 1 .. Len(Backends) : Listed[k + 1] = Backends[k]
      /\ \A k \in 2 .. Len(Backends) + 1 : Listed[k] = Backends[k - 1]
  BY <1>1, <1>3, OneBefore
<1> QED BY <1>2, <1>4

LEMMA BackendListed == ASSUME NEW r PROVE \E k \in 1 .. Len(Listed) : Listed[k] = BackendOf(r)
<1>1. CASE \E b \in ToSet(Backends) : TypeOf[b] = r
  <2>1. BackendOf(r) \in ToSet(Backends)
    BY <1>1 DEF BackendOf
  <2>2. PICK k \in 1 .. Len(Backends) : Backends[k] = BackendOf(r)
    BY <2>1, BackendFacts DEF ToSet
  <2>3. k + 1 \in 1 .. Len(Listed) /\ Listed[k + 1] = BackendOf(r)
    BY <2>2, ListedBackends
  <2> QED BY <2>3
<1>2. CASE ~ \E b \in ToSet(Backends) : TypeOf[b] = r
  BY <1>2, ListedBackends DEF BackendOf
<1> QED BY <1>1, <1>2

LEMMA BackendRead == ASSUME NEW r, NEW t PROVE ReadAs("backend", r, t) = BackendOf(r)
<1>1. PICK k \in 1 .. Len(Listed) : Listed[k] = BackendOf(r)
  BY BackendListed
<1>2. Len(Listed) \in Nat /\ Len(Listed) = Len(Backends) + 1
  BY ListedBackends
<1> DEFINE p == Place(Listed, BackendOf(r))
<1>3. p \in 0 .. Len(Listed) - 1 /\ Listed[p + 1] = BackendOf(r)
  BY <1>1, <1>2, PlaceOf
<1>4. Populated("backend", r, t) = p
  BY DEF Populated, PopulateBackends, Listed
<1>5. p < Len(Backends) + 1
  BY <1>2, <1>3
<1> HIDE DEF p
<1> QED BY <1>3, <1>4, <1>5 DEF ReadAs, Meaning, Listed

(* The items that are read as they mean, whatever their number.            *)
Plain == Items \ {"format", "backend"}
LEMMA PlainRead ==
  ASSUME NEW i \in Plain, NEW v, NEW s, NEW t \in ThemeSets
  PROVE  ReadAs(i, v, t) = Meaning(i, v, s, t)
<1>1. CASE i = "language"
  <2>1. 0 < Len(Languages) /\ Languages[1] = "Auto"
    BY LanguageFacts
  <2>2. Meaning("language", 0, 0, t) = "Auto"
    BY <2>1 DEF Meaning
  <2>3. CASE v < Len(Languages)
    BY <1>1, <2>3, Zenon DEF ReadAs, Populated, PopulateLanguages, Meaning
  <2>4. CASE ~ (v < Len(Languages))
    <3>1. ReadAs("language", v, t) = "Auto"
      BY <2>2, <2>4, Zenon DEF ReadAs, Populated, PopulateLanguages
    <3>2. Meaning("language", v, s, t) = "Auto"
      BY <2>4, Zenon DEF Meaning
    <3> QED BY <1>1, <3>1, <3>2
  <2> QED BY <2>3, <2>4
<1>2. CASE i = "theme"
  <2>1. PICK k \in 1 .. Len(t) : t[k] = "default"
    BY ThemeFacts
  <2>2. Len(t) \in Nat /\ ~ (AutoId < Len(t))
    BY ThemeFacts
  <2>3. Place(t, "default") \in 0 .. Len(t) - 1 /\ t[Place(t, "default") + 1] = "default"
    BY <2>1, <2>2, PlaceOf
  <2>4. Place(t, "default") < Len(t)
    BY <2>2, <2>3
  <2> QED BY <1>2, <2>2, <2>3, <2>4 DEF ReadAs, Populated, PopulateThemes, Meaning
<1>3. CASE i \in {"volume", "folders"}
  BY <1>3 DEF ReadAs, Populated, Meaning
<1> QED BY <1>1, <1>2, <1>3 DEF Plain, Items

-----------------------------------------------------------------------------
(* What is kept of the types: what is read as a place in a list is a       *)
(* number, and the option list is a list.                                  *)
IsList(z) == \E n \in Nat : DOMAIN z = 1 .. n
FileOK(f) ==
  /\ DOMAIN f \subseteq Items
  /\ \A i \in DOMAIN f : /\ i \in {"language", "backend"} => f[i] \in Nat
                         /\ i = "format" => IsList(f[i])
SettingsTypes ==
  /\ DOMAIN value = Items /\ FileOK(value) /\ DOMAIN default = Items /\ FileOK(default)
  /\ FileOK(sysFile) /\ FileOK(userFile) /\ FileOK(tmp)
  /\ DOMAIN saving = {"step", "system", "exiting"} /\ (~running => saving = Idle)
  /\ running => themes \in ThemeSets

DefaultsKept ==
  \A i \in Plain, t \in ThemeSets : AtStart(sysFile, NoFile, t)[i] = Meaning(i, default[i], 0, t)

(* What is expected of the next start is what the files mean; and an item  *)
(* with its default means what it does without a user's file.              *)
FilesMean ==
  /\ expected # {} => \A t \in ThemeSets : AtStart(sysFile, userFile, t) \in expected
  /\ expected # {} /\ running => DefaultsKept

(* While a save is going on the temporary file means what the game does;   *)
(* without a user's file the next start would find the defaults.           *)
SavingMeans ==
  /\ saving.step \in {"remove", "rename"} /\ ~saving.system /\ expected # {} =>
       \A t \in ThemeSets : AtStart(sysFile, tmp, t) = Meanings /\ AtStart(sysFile, NoFile, t) \in expected
  /\ saving.step \in {"remove", "rename"} /\ saving.system =>
       \A t \in ThemeSets : AtStart(tmp, NoFile, t) = Meanings
  /\ saving.step = "user" => default = value /\ \A t \in ThemeSets : AtStart(sysFile, NoFile, t) = Meanings
  /\ saving.step = "user" \/ (saving.step = "rename" /\ saving.system) => expected = {}

SettingsInv == SettingsTypes /\ FilesMean /\ SavingMeans

-----------------------------------------------------------------------------
(* A document means what the game does.                                    *)

LEMMA SelectedIsList == ASSUME FileOK(value), DOMAIN value = Items
                        PROVE  IsList(Selected) /\ Selected[1] = value["format"][sel + 1]
<1> DEFINE v == value["format"]
           others == {k \in DOMAIN v : v[k] # v[sel + 1]}
<1>1. PICK n \in Nat : DOMAIN v = 1 .. n
  BY DEF FileOK, IsList, Items
<1>2. Cardinality(others) \in Nat
  <2>1. IsFiniteSet(1 .. n) /\ others \subseteq 1 .. n
    BY <1>1, Intervals
  <2> HIDE DEF others
  <2> QED BY <2>1, FS_Subset, FS_CardinalityType
<1>3. DOMAIN Selected = 1 .. Cardinality(others) + 1
  BY DEF Selected
<1>4. Selected[1] = v[sel + 1]
  <2>1. 1 \in 1 .. Cardinality(others) + 1
    BY <1>2
  <2> QED BY <2>1 DEF Selected
<1>5. Cardinality(others) + 1 \in Nat
  BY <1>2
<1> QED BY <1>3, <1>4, <1>5 DEF IsList

(* A language is stored by its id, a backend by its type; both are read as *)
(* what they were.                                                         *)
IsName(name) == name # ""
LEMMA LanguageStored ==
  ASSUME NEW v \in Nat, NEW name, v < Len(Languages), name = Languages[v + 1], NEW s, NEW t
  PROVE  IsName(name) => /\ ReadAs("language", LanguageId(name), t) = Meaning("language", v, s, t)
                         /\ LanguageId(name) \in Nat
<1>1. Meaning("language", v, s, t) = name
  BY DEF Meaning
<1>2. CASE name = "Auto"
  <2>1. LanguageId(name) = AutoId
    BY <1>2 DEF LanguageId
  <2>2. Populated("language", AutoId, t) = 0
    BY LanguageFacts DEF Populated, PopulateLanguages
  <2>3. Meaning("language", 0, 0, t) = "Auto"
    BY LanguageFacts DEF Meaning
  <2> QED BY <1>1, <1>2, <2>1, <2>2, <2>3, Ids DEF ReadAs
<1>3. CASE name # "Auto" /\ IsName(name)
  <2>1. v + 1 \in 1 .. Len(Languages) /\ Len(Languages) \in Nat
    BY LanguageFacts
  <2>2. PICK p : p = Place(Languages, name)
    OBVIOUS
  <2>3. p \in 0 .. Len(Languages) - 1 /\ Languages[p + 1] = name
    BY <2>1, <2>2, PlaceOf
  <2>4. p < Len(Languages) /\ p \in Nat
    BY <2>1, <2>3
  <2>5. LanguageId(name) = p
    BY <1>3, <2>2 DEF LanguageId, IsName
  <2>6. ReadAs("language", p, t) = name
    BY <2>3, <2>4 DEF ReadAs, Populated, PopulateLanguages, Meaning
  <2> QED BY <1>1, <2>4, <2>5, <2>6
<1> QED BY <1>2, <1>3

LEMMA BackendStored ==
  ASSUME NEW v \in Nat, NEW name, v < Len(Listed), name = Listed[v + 1], NEW s, NEW t
  PROVE  /\ ReadAs("backend", BackendType(name), t) = Meaning("backend", v, s, t)
         /\ BackendType(name) \in Nat
<1>2. Len(Listed) = Len(Backends) + 1 /\ Len(Backends) \in Nat /\ Listed[1] = "Auto"
      /\ \A k \in 2 .. Len(Listed) : Listed[k] = Backends[k - 1]
  BY ListedBackends
<1>3. Meaning("backend", v, s, t) = name
  <2>1. v < Len(Backends) + 1
    BY <1>2
  <2> QED BY <2>1, Zenon DEF Meaning, Listed
<1>4. ReadAs("backend", BackendType(name), t) = BackendOf(BackendType(name))
  BY BackendRead
<1>5. CASE name = "Auto"
  <2>1. BackendType(name) = AutoId
    BY <1>5 DEF BackendType
  <2>2. ~ \E b \in ToSet(Backends) : TypeOf[b] = AutoId
    BY BackendFacts
  <2>3. BackendOf(AutoId) = "Auto"
    BY <2>2 DEF BackendOf
  <2> QED BY <1>3, <1>4, <1>5, <2>1, <2>3, Ids
<1>6. CASE name # "Auto"
  <2>1. name \in ToSet(Backends)
    <3>1. v # 0
      BY <1>2, <1>6
    <3>2. v + 1 \in 2 .. Len(Listed) /\ v \in 1 .. Len(Backends) /\ (v + 1) - 1 = v
      BY <1>2, <3>1
    <3>3. name = Backends[v]
      BY <1>2, <3>2
    <3>4. DOMAIN Backends = 1 .. Len(Backends)
      BY BackendFacts
    <3> QED BY <3>2, <3>3, <3>4 DEF ToSet
  <2>2. BackendType(name) = TypeOf[name] /\ TypeOf[name] \in Nat
    BY <1>6, <2>1, BackendFacts DEF BackendType
  <2>3. BackendOf(TypeOf[name]) = name
    BY <2>1, BackendFacts DEF BackendOf
  <2> QED BY <1>3, <1>4, <2>2, <2>3
<1> QED BY <1>5, <1>6

-----------------------------------------------------------------------------
(* What a start finds of one item.                                         *)
LEMMA OverAt ==
  ASSUME NEW sys, NEW user, NEW i \in Items
  PROVE  Over(Over(Factory, sys), user)[i]
           = (IF i \in DOMAIN user THEN user[i] ELSE IF i \in DOMAIN sys THEN sys[i] ELSE Factory[i])
BY DEF Over

LEMMA OverOK ==
  ASSUME NEW f, NEW g, FileOK(f), DOMAIN f = Items, FileOK(g)
  PROVE  DOMAIN Over(f, g) = Items /\ FileOK(Over(f, g))
BY DEF Over, FileOK

LEMMA FactoryOK == DOMAIN Factory = Items /\ FileOK(Factory)
<1>1. DOMAIN Factory = Items /\ Factory["language"] \in Nat /\ Factory["backend"] \in Nat
  BY SettingsAssumption, Zenon
<1>2. Factory["format"] \in Seq(STRING)
  BY SettingsAssumption, Zenon
<1>3. IsList(Factory["format"])
  BY <1>2 DEF IsList
<1> QED BY <1>1, <1>3 DEF FileOK

(* A document means what the game does.                                    *)
LEMMA StoredRead ==
  ASSUME SettingsTypes, running, NEW system, ~ WriteThrows(system), NEW i \in DOMAIN Document(system)
  PROVE  /\ ReadAs(i, Stored(i), themes) = Meaning(i, value[i], sel, themes)
         /\ i \in {"language", "backend"} => Stored(i) \in Nat
         /\ i = "format" => IsList(Stored(i))
<1>1. i \in Items /\ (i = "backend" \/ ~ IsDefault(i, system)) /\ themes \in ThemeSets
  BY DEF Document, SettingsTypes, Items
<1>2. CASE i = "backend"
  <2>1. PICK v : v = value["backend"]
    OBVIOUS
  <2>2. PICK name : name = GetEnumName("backend")
    OBVIOUS
  <2>3. v \in Nat
    BY <2>1 DEF SettingsTypes, FileOK, Items
  <2>4. name # ""
    BY <2>2 DEF WriteThrows
  <2>5. EnumsOf("backend") = Listed
    BY Zenon DEF EnumsOf, Listed
  <2>6. v < Len(Listed) /\ name = Listed[v + 1]
    BY <2>1, <2>2, <2>4, <2>5, Zenon DEF GetEnumName
  <2>7. Stored(i) = BackendType(name)
    BY <1>2, <2>2, Zenon DEF Stored
  <2>8. PICK s, t : s = sel /\ t = themes
    OBVIOUS
  <2>9. /\ ReadAs("backend", BackendType(name), t) = Meaning("backend", v, s, t)
        /\ BackendType(name) \in Nat
    BY <2>3, <2>6, BackendStored
  <2> QED BY <1>2, <2>1, <2>7, <2>8, <2>9
<1>3. CASE i = "language"
  <2>1. PICK v : v = value["language"]
    OBVIOUS
  <2>2. PICK name : name = GetEnumName("language")
    OBVIOUS
  <2>3. v \in Nat
    BY <2>1 DEF SettingsTypes, FileOK, Items
  <2>4. IsName(name)
    BY <1>1, <1>3, <2>2 DEF WriteThrows, IsName
  <2>5. EnumsOf("language") = Languages
    BY Zenon DEF EnumsOf
  <2>6. v < Len(Languages) /\ name = Languages[v + 1]
    BY <2>1, <2>2, <2>4, <2>5, Zenon DEF GetEnumName, IsName
  <2>7. Stored(i) = LanguageId(name)
    BY <1>3, <2>2, Zenon DEF Stored, StoredLanguage
  <2>8. PICK s, t : s = sel /\ t = themes
    OBVIOUS
  <2>9. IsName(name) => /\ ReadAs("language", LanguageId(name), t) = Meaning("language", v, s, t)
                        /\ LanguageId(name) \in Nat
    BY <2>3, <2>6, LanguageStored
  <2> QED BY <1>3, <2>1, <2>4, <2>7, <2>8, <2>9, Zenon
<1>4. CASE i = "format"
  <2>1. IsList(Selected) /\ Selected[1] = value["format"][sel + 1]
    BY SelectedIsList DEF SettingsTypes
  <2>2. Stored(i) = Selected
    BY <1>4 DEF Stored
  <2>3. ReadAs("format", Selected, themes) = Selected[0 + 1]
    BY DEF ReadAs, Populated, Meaning
  <2>4. Meaning("format", value["format"], sel, themes) = value["format"][sel + 1]
    BY DEF Meaning
  <2> QED BY <1>4, <2>1, <2>2, <2>3, <2>4
<1>5. CASE i \in Plain /\ i # "language"
  <2>1. Stored(i) = value[i]
    BY <1>5 DEF Stored, Plain, Items
  <2> QED BY <1>1, <1>5, <2>1, PlainRead DEF Plain
<1> QED BY <1>1, <1>2, <1>3, <1>4, <1>5 DEF Plain, Items

LEMMA DocumentOK ==
  ASSUME SettingsTypes, running, NEW system, ~ WriteThrows(system)
  PROVE  FileOK(Document(system))
<1>1. DOMAIN Document(system) \subseteq Items
  BY DEF Document
<1>2. \A i \in DOMAIN Document(system) : Document(system)[i] = Stored(i)
  BY DEF Document
<1> QED BY <1>1, <1>2, StoredRead DEF FileOK

(* Without a user's file it is the defaults.                               *)
LEMMA DefaultsRead ==
  ASSUME themes \in ThemeSets
  PROVE  AtStart(sysFile, NoFile, themes) = DefaultMeanings
<1> DEFINE d == Over(Factory, sysFile)
<1>1. ASSUME NEW i \in Items PROVE Over(d, NoFile)[i] = d[i]
  BY DEF Over, NoFile
<1>2. ASSUME NEW i \in Items
      PROVE  ReadAs(i, d[i], themes) = (IF i = "backend" THEN BackendOf(d[i]) ELSE Meaning(i, d[i], 0, themes))
  <2> HIDE DEF d
  <2>1. CASE i = "backend"
    BY <2>1, BackendRead
  <2>2. CASE i = "format"
    BY <2>2 DEF ReadAs, Populated
  <2>3. CASE i \in Plain
    BY <2>3, PlainRead DEF Plain
  <2> QED BY <2>1, <2>2, <2>3 DEF Plain
<1>3. ReadConfig.default = d
  BY DEF ReadConfig
<1> HIDE DEF d
<1>4. AtStart(sysFile, NoFile, themes) = [i \in Items |-> ReadAs(i, d[i], themes)]
  BY <1>1 DEF AtStart, d
<1> QED BY <1>2, <1>3, <1>4 DEF DefaultMeanings

LEMMA WholeDocumentRead ==
  ASSUME SettingsTypes, running, ~ WriteThrows(TRUE)
  PROVE  AtStart(Document(TRUE), NoFile, themes) = Meanings
<1>1. ASSUME NEW i \in Items
      PROVE  ReadAs(i, Over(Over(Factory, Document(TRUE)), NoFile)[i], themes)
               = Meaning(i, value[i], sel, themes)
  <2>1. i \notin DOMAIN NoFile
    BY DEF NoFile
  <2>2. CASE i \in DOMAIN Document(TRUE)
    <3>1. Over(Over(Factory, Document(TRUE)), NoFile)[i] = Stored(i)
      BY <2>1, <2>2, OverAt DEF Document
    <3> QED BY <2>2, <3>1, StoredRead
  <2>3. CASE i \notin DOMAIN Document(TRUE)
    <3>1. i \in Plain /\ value[i] = Factory[i]
      BY <2>3 DEF Document, IsDefault, Plain
    <3>2. Over(Over(Factory, Document(TRUE)), NoFile)[i] = value[i]
      BY <2>1, <2>3, <3>1, OverAt
    <3>3. themes \in ThemeSets
      BY DEF SettingsTypes
    <3> QED BY <3>1, <3>2, <3>3, PlainRead
  <2> QED BY <2>2, <2>3
<1> QED BY <1>1 DEF AtStart, Meanings

LEMMA UserDocumentRead ==
  ASSUME SettingsTypes, running, ~ WriteThrows(FALSE), DefaultsKept
  PROVE  AtStart(sysFile, Document(FALSE), themes) = Meanings
<1>1. ASSUME NEW i \in Items
      PROVE  ReadAs(i, Over(Over(Factory, sysFile), Document(FALSE))[i], themes)
               = Meaning(i, value[i], sel, themes)
  <2>2. CASE i \in DOMAIN Document(FALSE)
    <3>1. Over(Over(Factory, sysFile), Document(FALSE))[i] = Stored(i)
      BY <2>2, OverAt DEF Document
    <3> QED BY <2>2, <3>1, StoredRead
  <2>3. CASE i \notin DOMAIN Document(FALSE)
    <3>1. i \in Plain /\ value[i] = default[i] /\ i \notin DOMAIN NoFile
      BY <2>3 DEF Document, IsDefault, Plain, NoFile
    <3>2. Over(Over(Factory, sysFile), Document(FALSE))[i] = Over(Over(Factory, sysFile), NoFile)[i]
      <4>0. PICK x : x = IF i \in DOMAIN sysFile THEN sysFile[i] ELSE Factory[i]
        OBVIOUS
      <4>1. Over(Over(Factory, sysFile), Document(FALSE))[i] = x
        BY <4>0, <2>3, OverAt
      <4>2. Over(Over(Factory, sysFile), NoFile)[i] = x
        BY <4>0, <3>1, OverAt
      <4> QED BY <4>1, <4>2
    <3>3. themes \in ThemeSets
      BY DEF SettingsTypes
    <3>4. ReadAs(i, Over(Over(Factory, sysFile), NoFile)[i], themes) = Meaning(i, default[i], 0, themes)
      BY <3>1, <3>3 DEF DefaultsKept, AtStart
    <3>5. Meaning(i, value[i], 0, themes) = Meaning(i, value[i], sel, themes)
      BY <3>1, <3>3, PlainRead
    <3> QED BY <3>1, <3>2, <3>4, <3>5
  <2> QED BY <2>2, <2>3
<1> QED BY <1>1 DEF AtStart, Meanings

-----------------------------------------------------------------------------
(* Every step keeps the invariant.                                         *)

\* Changes in memory while nothing is being saved, and a save that gives up.
LEMMA MemoryStep ==
  ASSUME SettingsInv, saving' = Idle, UNCHANGED <<userFile, sysFile, tmp, expected, default, themes, running>>,
         DOMAIN value' = Items, FileOK(value')
  PROVE  SettingsInv'
<1>1. SettingsTypes'
  BY DEF SettingsInv, SettingsTypes, Idle
<1>2. FilesMean'
  BY DEF SettingsInv, FilesMean, DefaultsKept
<1>3. SavingMeans'
  BY DEF SavingMeans, Idle
<1> QED BY <1>1, <1>2, <1>3 DEF SettingsInv

LEMMA OffStep ==
  ASSUME SettingsInv, Off, saving' = Idle, UNCHANGED <<userFile, sysFile, tmp, expected>>
  PROVE  SettingsInv'
<1>1. SettingsTypes'
  BY FactoryOK DEF SettingsInv, SettingsTypes, Off, Idle
<1>2. FilesMean'
  BY DEF SettingsInv, FilesMean, Off
<1>3. SavingMeans'
  BY DEF SavingMeans, Idle
<1> QED BY <1>1, <1>2, <1>3 DEF SettingsInv

LEMMA DoneStep ==
  ASSUME SettingsInv, Done, UNCHANGED <<userFile, sysFile, tmp, expected>>
  PROVE  SettingsInv'
<1>1. saving' = Idle
  BY DEF Done
<1>2. CASE saving.exiting
  BY <1>1, <1>2, OffStep DEF Done
<1>3. CASE ~ saving.exiting
  <2>1. UNCHANGED <<default, themes, running, value>>
    BY <1>3 DEF Done, GoesOn, itemVars
  <2> QED BY <1>1, <2>1, MemoryStep DEF SettingsInv, SettingsTypes
<1> QED BY <1>2, <1>3

ThemesStay == \A s, t \in ThemeSets : s = t

LEMMA WriteStep ==
  ASSUME SettingsInv, ThemesStay, running, saving = Idle, NEW system \in BOOLEAN, NEW exiting \in BOOLEAN,
         WriteTmp(system, exiting), UNCHANGED <<running, value, default, sel, themes, userFile, sysFile>>
  PROVE  SettingsInv'
<1>1. SettingsTypes'
  BY DocumentOK DEF SettingsInv, SettingsTypes, WriteTmp
<1>2. expected' # {} => expected # {} /\ expected \subseteq expected' /\ DefaultMeanings \in expected'
  BY DEF WriteTmp
<1>3. FilesMean'
  BY <1>2 DEF SettingsInv, FilesMean, DefaultsKept
<1>4. themes \in ThemeSets /\ \A t \in ThemeSets : t = themes
  BY DEF SettingsInv, SettingsTypes, ThemesStay
<1>5. Meanings' = Meanings /\ tmp' = Document(system) /\ ~ WriteThrows(system)
      /\ saving'.step = "remove" /\ saving'.system = system
  BY DEF WriteTmp, Meanings
<1>6. CASE system = TRUE
  <2>1. AtStart(Document(TRUE), NoFile, themes) = Meanings
    BY <1>5, <1>6, WholeDocumentRead DEF SettingsInv
  <2> QED BY <1>1, <1>3, <1>4, <1>5, <1>6, <2>1 DEF SettingsInv, SavingMeans
<1>7. CASE system = FALSE
  <2>1. ASSUME expected' # {}
        PROVE  AtStart(sysFile, Document(FALSE), themes) = Meanings
               /\ AtStart(sysFile, NoFile, themes) \in expected'
    <3>1. DefaultsKept
      BY <1>2, <2>1 DEF SettingsInv, FilesMean
    <3>2. AtStart(sysFile, NoFile, themes) = DefaultMeanings
      BY <1>4, DefaultsRead
    <3> QED BY <1>2, <1>5, <1>7, <2>1, <3>1, <3>2, UserDocumentRead DEF SettingsInv
  <2> QED BY <1>1, <1>3, <1>4, <1>5, <1>7, <2>1 DEF SettingsInv, SavingMeans
<1> QED BY <1>6, <1>7

LEMMA RemoveStep ==
  ASSUME SettingsInv, RemoveOld
  PROVE  SettingsInv'
<1>1. /\ UNCHANGED <<running, value, default, sel, themes, tmp>>
      /\ saving.step = "remove" /\ saving'.step = "rename" /\ saving'.system = saving.system /\ running
  BY DEF RemoveOld, itemVars, SettingsInv, SettingsTypes
<1>2. FileOK(NoFile)
  BY DEF FileOK, NoFile
<1>3. SettingsTypes'
  BY <1>1, <1>2 DEF SettingsInv, SettingsTypes, RemoveOld
<1>4. Meanings' = Meanings
  BY <1>1 DEF Meanings
<1>5. CASE saving.system
  <2>1. expected' = {}
    BY <1>5 DEF RemoveOld
  <2> QED BY <1>1, <1>3, <1>4, <1>5, <2>1 DEF SettingsInv, FilesMean, SavingMeans
<1>6. CASE ~ saving.system
  <2>1. userFile' = NoFile /\ sysFile' = sysFile /\ expected' = expected
    BY <1>6 DEF RemoveOld
  <2>2. FilesMean'
    BY <1>1, <1>6, <2>1 DEF SettingsInv, FilesMean, SavingMeans, DefaultsKept
  <2>3. SavingMeans'
    BY <1>1, <1>4, <1>6, <2>1 DEF SettingsInv, SavingMeans
  <2> QED BY <1>3, <2>2, <2>3 DEF SettingsInv
<1> QED BY <1>5, <1>6

LEMMA RenameStep ==
  ASSUME SettingsInv, ThemesStay, Rename
  PROVE  SettingsInv'
<1>1. running /\ saving.step = "rename" /\ tmp' = NoFile /\ FileOK(NoFile)
  BY DEF Rename, FileOK, NoFile
<1>2. themes \in ThemeSets /\ \A t \in ThemeSets : t = themes
  BY <1>1 DEF SettingsInv, SettingsTypes, ThemesStay
<1>3. CASE saving.system
  <2>1. /\ UNCHANGED <<running, value, sel, themes, userFile, expected>>
        /\ sysFile' = tmp /\ default' = value
        /\ DOMAIN saving' = DOMAIN saving /\ saving'.step = "user" /\ saving'.system = saving.system
    BY <1>3 DEF Rename, SettingsInv, SettingsTypes
  <2>2. Meanings' = Meanings
    BY <2>1 DEF Meanings
  <2>3. expected' = {}
    BY <1>1, <1>3, <2>1 DEF SettingsInv, SavingMeans
  <2>4. SettingsTypes'
    BY <1>1, <2>1 DEF SettingsInv, SettingsTypes
  <2>5. SavingMeans'
    BY <1>1, <1>3, <2>1, <2>2, <2>3 DEF SettingsInv, SavingMeans
  <2> QED BY <2>3, <2>4, <2>5 DEF SettingsInv, FilesMean
<1>4. CASE ~ saving.system
  <2>1. /\ userFile' = tmp /\ sysFile' = sysFile /\ saving' = Idle
        /\ expected' = (IF expected = {} THEN {} ELSE {Meanings})
    BY <1>4 DEF Rename, Done
  <2>2. SavingMeans'
    BY <2>1 DEF SavingMeans, Idle
  <2>3. expected' # {} => \A t \in ThemeSets : AtStart(sysFile', userFile', t) \in expected'
    BY <1>1, <1>4, <2>1 DEF SettingsInv, SavingMeans
  <2>4. CASE saving.exiting
    <3>1. Off
      BY <1>4, <2>4 DEF Rename, Done
    <3>2. SettingsTypes'
      BY <1>1, <2>1, <3>1, FactoryOK DEF SettingsInv, SettingsTypes, Off, Idle
    <3>3. FilesMean'
      BY <2>3, <3>1 DEF FilesMean, Off
    <3> QED BY <2>2, <3>2, <3>3 DEF SettingsInv
  <2>5. CASE ~ saving.exiting
    <3>1. UNCHANGED <<running, value, default, themes>>
      BY <1>4, <2>5 DEF Rename, Done, GoesOn, itemVars
    <3>2. SettingsTypes'
      BY <1>1, <2>1, <3>1 DEF SettingsInv, SettingsTypes, Idle
    <3>3. FilesMean'
      BY <2>1, <2>3, <3>1 DEF SettingsInv, FilesMean, DefaultsKept
    <3> QED BY <2>2, <3>2, <3>3 DEF SettingsInv
  <2> QED BY <2>4, <2>5
<1> QED BY <1>3, <1>4

LEMMA RemoveUserStep ==
  ASSUME SettingsInv, ThemesStay, RemoveUser
  PROVE  SettingsInv'
<1>1. /\ running /\ saving.step = "user" /\ userFile' = NoFile /\ sysFile' = sysFile /\ tmp' = tmp
      /\ expected' = {Meanings} /\ saving' = Idle /\ FileOK(NoFile)
  BY DEF RemoveUser, Done, FileOK, NoFile
<1>2. SavingMeans'
  BY <1>1 DEF SavingMeans, Idle
<1>3. /\ default = value /\ themes \in ThemeSets
      /\ \A t \in ThemeSets : AtStart(sysFile, NoFile, t) = Meanings
  BY <1>1 DEF SettingsInv, SettingsTypes, SavingMeans
<1>4. CASE saving.exiting
  <2>1. Off
    BY <1>4 DEF RemoveUser, Done
  <2>2. SettingsTypes'
    BY <1>1, <2>1, FactoryOK DEF SettingsInv, SettingsTypes, Off, Idle
  <2>3. FilesMean'
    BY <1>1, <1>3, <2>1 DEF FilesMean, Off
  <2> QED BY <1>2, <2>2, <2>3 DEF SettingsInv
<1>5. CASE ~ saving.exiting
  <2>1. UNCHANGED <<running, value, default, themes>>
    BY <1>5 DEF RemoveUser, Done, GoesOn, itemVars
  <2>2. SettingsTypes'
    BY <1>1, <2>1 DEF SettingsInv, SettingsTypes, Idle
  <2>3. ASSUME NEW i \in Plain, NEW t \in ThemeSets
        PROVE  AtStart(sysFile, NoFile, t)[i] = Meaning(i, default[i], 0, t)
    <3>1. AtStart(sysFile, NoFile, t)[i] = Meaning(i, value[i], sel, themes)
      BY <1>3, <2>3 DEF Meanings, Plain
    <3>2. Meaning(i, value[i], sel, themes) = Meaning(i, value[i], 0, themes)
      BY <1>3, <2>3, PlainRead
    <3>3. t = themes
      BY <1>3, <2>3 DEF ThemesStay
    <3> QED BY <1>3, <3>1, <3>2, <3>3
  <2>4. DefaultsKept'
    BY <1>1, <2>1, <2>3 DEF DefaultsKept
  <2>5. FilesMean'
    BY <1>1, <1>3, <2>4 DEF FilesMean
  <2> QED BY <1>2, <2>2, <2>5 DEF SettingsInv
<1> QED BY <1>4, <1>5

(* The values that the menus change stay of their types.                   *)
LEMMA OneItemOK ==
  ASSUME NEW f, DOMAIN f = Items, FileOK(f), NEW i, NEW x, i \in {"language", "backend"} => x \in Nat,
         i = "format" => IsList(x)
  PROVE  DOMAIN [f EXCEPT ![i] = x] = Items /\ FileOK([f EXCEPT ![i] = x])
BY DEF FileOK

LEMMA StartStep ==
  ASSUME SettingsInv, ThemesStay, Start
  PROVE  /\ SettingsInv'
         /\ expected # {} => [i \in Items |-> Meaning(i, value'[i], sel', themes')] \in expected
<1> DEFINE read == Over(Over(Factory, sysFile), userFile)
<1>0. ReadConfig = [default |-> Over(Factory, sysFile), value |-> read]
  BY DEF ReadConfig
<1> HIDE DEF read
<1>1. PICK t \in ThemeSets :
        /\ themes' = t
        /\ value' = [read EXCEPT !["theme"] = PopulateThemes(@, t), !["language"] = PopulateLanguages(@),
                                 !["backend"] = PopulateBackends(@)]
  BY <1>0 DEF Start
<1>2. /\ running' = TRUE /\ default' = Over(Factory, sysFile) /\ sel' = 0 /\ ~running
      /\ expected' = {[i \in Items |-> Meaning(i, value'[i], 0, themes')]}
      /\ UNCHANGED <<userFile, sysFile, tmp, saving>>
  BY <1>0 DEF Start
<1>3. DOMAIN read = Items /\ FileOK(read) /\ DOMAIN default' = Items /\ FileOK(default')
  BY <1>2, FactoryOK, OverOK DEF SettingsInv, SettingsTypes, read
<1>4. ASSUME NEW i \in Items PROVE value'[i] = Populated(i, read[i], t)
  BY <1>1, <1>3 DEF Populated, Items
<1>5. /\ DOMAIN value' = Items
      /\ \A i \in Items : i \notin {"theme", "language", "backend"} => value'[i] = read[i]
  BY <1>1, <1>3, <1>4 DEF Populated, Items
<1>6. PopulateLanguages(read["language"]) \in Nat /\ PopulateBackends(read["backend"]) \in Nat
  <2>1. read["language"] \in Nat
    BY <1>3 DEF FileOK, Items
  <2>2. PICK k \in 1 .. Len(Listed) : Listed[k] = BackendOf(read["backend"])
    BY BackendListed
  <2>3. Len(Listed) \in Nat
    BY ListedBackends
  <2>4. Place(Listed, BackendOf(read["backend"])) \in Nat
    BY <2>2, <2>3, PlaceOf
  <2> QED BY <2>1, <2>4 DEF PopulateLanguages, PopulateBackends, Listed
<1>7. FileOK(value')
  BY <1>3, <1>4, <1>5, <1>6 DEF FileOK, Populated, Items
<1>8. AtStart(sysFile, userFile, t) = [i \in Items |-> Meaning(i, value'[i], 0, themes')]
  BY <1>1, <1>4 DEF AtStart, ReadAs, read
<1>9. \A s \in ThemeSets : s = t
  BY DEF ThemesStay
<1>10. SettingsTypes'
  BY <1>1, <1>2, <1>3, <1>5, <1>7 DEF SettingsInv, SettingsTypes
<1>11. DefaultsKept'
  <2>1. ASSUME NEW i \in Plain, NEW s \in ThemeSets
        PROVE  AtStart(sysFile, NoFile, s)[i] = Meaning(i, Over(Factory, sysFile)[i], 0, s)
    <3>1. i \in Items /\ i \notin DOMAIN NoFile
      BY <2>1 DEF Plain, NoFile
    <3>2. AtStart(sysFile, NoFile, s)[i] = ReadAs(i, Over(Factory, sysFile)[i], s)
      BY <3>1 DEF AtStart, Over
    <3> QED BY <2>1, <3>2, PlainRead
  <2> QED BY <1>2, <2>1 DEF DefaultsKept
<1>12. FilesMean'
  BY <1>2, <1>8, <1>9, <1>11 DEF FilesMean
<1>13. SavingMeans'
  BY <1>2 DEF SettingsInv, SettingsTypes, SavingMeans, Idle
<1>14. expected # {} => AtStart(sysFile, userFile, t) \in expected
  BY <1>1 DEF SettingsInv, FilesMean
<1> QED BY <1>2, <1>8, <1>10, <1>12, <1>13, <1>14 DEF SettingsInv

\* Steps of the menu and of the dialog for folders, by what they do to the values.
LEMMA KeepsValues ==
  ASSUME SettingsInv, Move \/ Cancel \/ OpenSubmenu \/ ActivateScreen \/ DrawBackend \/ UpdateScreen
                      \/ LeavePaths \/ GoTo
  PROVE  SettingsInv'
<1>1. saving' = Idle /\ UNCHANGED <<userFile, sysFile, tmp, expected, value, default, themes, running>>
  BY DEF Move, Cancel, OpenSubmenu, ActivateScreen, DrawBackend, UpdateScreen, LeavePaths, GoTo,
         InPaths, InScreen, itemVars, fileVars
<1> QED BY <1>1, MemoryStep DEF SettingsInv, SettingsTypes

LEMMA ChangeStep ==
  ASSUME SettingsInv, ChangeValue
  PROVE  SettingsInv'
<1>1. saving' = Idle /\ UNCHANGED <<userFile, sysFile, tmp, expected, default, themes, running>>
  BY DEF ChangeValue, InScreen, fileVars
<1>0. PICK i : i = CurrentOption.item
  OBVIOUS
<1>2. PICK dir \in {-1, 1} : IncDec(i, dir)
  BY <1>0 DEF ChangeValue
<1>3. DOMAIN value = Items /\ FileOK(value)
  BY DEF SettingsInv, SettingsTypes
<1>4. CASE i = "format"
  BY <1>1, <1>2, <1>3, <1>4, MemoryStep DEF IncDec
<1>5. CASE i # "format"
  <2>1. PICK x : x = Clamp(value[i] + dir, 0, MaxOf(i))
    OBVIOUS
  <2>2. value' = [value EXCEPT ![i] = x]
    BY <1>2, <1>5, <2>1 DEF IncDec
  <2>3. ASSUME i \in {"language", "backend"} PROVE x \in Nat
    <3>1. value[i] \in Nat
      BY <1>3, <2>3 DEF FileOK, Items
    <3>2. MaxOf(i) \in Nat
      <4>1. CASE i = "language"
        <5>1. MaxOf(i) = Len(Languages) - 1
          BY <4>1 DEF MaxOf, EnumsOf
        <5> QED BY <5>1, LanguageFacts
      <4>2. CASE i = "backend"
        <5>1. MaxOf(i) = Len(Listed) - 1
          BY <4>2, Zenon DEF MaxOf, EnumsOf, Listed
        <5> QED BY <5>1, ListedBackends
      <4> QED BY <2>3, <4>1, <4>2
    <3>3. value[i] + dir \in Int
      BY <1>2, <3>1
    <3> QED BY <2>1, <3>2, <3>3 DEF Clamp
  <2>4. DOMAIN value' = Items /\ FileOK(value')
    BY <1>3, <1>5, <2>2, <2>3, OneItemOK
  <2> QED BY <1>1, <2>4, MemoryStep
<1> QED BY <1>4, <1>5

LEMMA ResetStep ==
  ASSUME SettingsInv, Reset
  PROVE  SettingsInv'
<1>1. saving' = Idle /\ UNCHANGED <<userFile, sysFile, tmp, expected, default, themes, running>>
  BY DEF Reset, InScreen, fileVars
<1>0. PICK i : i = CurrentOption.item
  OBVIOUS
<1>2. PICK from \in {default, Factory} : value' = [value EXCEPT ![i] = from[i]]
  BY <1>0 DEF Reset
<1>3. DOMAIN value = Items /\ FileOK(value) /\ DOMAIN from = Items /\ FileOK(from)
  BY <1>2, FactoryOK DEF SettingsInv, SettingsTypes
<1>4. PICK x : x = from[i]
  OBVIOUS
<1>5. /\ i \in {"language", "backend"} => x \in Nat
      /\ i = "format" => IsList(x)
  BY <1>3, <1>4 DEF FileOK, Items
<1>6. DOMAIN value' = Items /\ FileOK(value')
  BY <1>2, <1>3, <1>4, <1>5, OneItemOK
<1> QED BY <1>1, <1>6, MemoryStep

LEMMA FoldersStep ==
  ASSUME SettingsInv, AddFolder \/ RemoveFolder \/ ResetFolders
  PROVE  SettingsInv'
<1>1. saving' = Idle /\ UNCHANGED <<userFile, sysFile, tmp, expected, default, themes, running>>
  BY DEF AddFolder, RemoveFolder, ResetFolders, InPaths, InScreen, fileVars
<1>2. PICK x : value' = [value EXCEPT !["folders"] = x]
  BY DEF AddFolder, RemoveFolder, ResetFolders, Folders
<1>3. DOMAIN value' = Items /\ FileOK(value')
  BY <1>2, OneItemOK DEF SettingsInv, SettingsTypes
<1> QED BY <1>1, <1>3, MemoryStep

LEMMA SavingStep ==
  ASSUME SettingsInv, ThemesStay, Save \/ SaveAtExit \/ SaveFails \/ Kill \/ StartTwice
  PROVE  SettingsInv'
<1>1. CASE Save
  <2>1. PICK system \in BOOLEAN : WriteTmp(system, FALSE)
    BY <1>1 DEF Save
  <2>2. /\ running /\ saving = Idle /\ FALSE \in BOOLEAN
        /\ UNCHANGED <<running, value, default, sel, themes, userFile, sysFile>>
    BY <1>1 DEF Save, InScreen
  <2> QED BY <2>1, <2>2, WriteStep
<1>2. CASE SaveAtExit
  <2>1. running /\ saving = Idle /\ UNCHANGED <<userFile, sysFile>> /\ {TRUE, FALSE} \subseteq BOOLEAN
    BY <1>2 DEF SaveAtExit, InScreen
  <2>2. CASE WriteTmp(FALSE, TRUE) /\ UNCHANGED <<running, value, default, sel, themes>>
    BY <2>1, <2>2, WriteStep
  <2>3. CASE Off /\ UNCHANGED <<tmp, saving, expected>>
    BY <2>1, <2>3, OffStep
  <2> QED BY <1>2, <2>2, <2>3 DEF SaveAtExit
<1>3. CASE SaveFails
  BY <1>3, DoneStep DEF SaveFails
<1>4. CASE Kill
  BY <1>4, OffStep DEF Kill
<1>5. CASE StartTwice
  BY <1>5, OffStep DEF StartTwice, InScreen, fileVars
<1> QED BY <1>1, <1>2, <1>3, <1>4, <1>5

LEMMA SettingsStep ==
  ASSUME SettingsInv, ThemesStay, [SettingsNext]_vars
  PROVE  SettingsInv'
<1>1. CASE UNCHANGED vars
  <2> USE <1>1 DEF vars, itemVars, fileVars
  <2>1. SettingsTypes'
    BY DEF SettingsInv, SettingsTypes
  <2>2. FilesMean'
    BY DEF SettingsInv, FilesMean, DefaultsKept
  <2>3. Meanings' = Meanings
    BY DEF Meanings
  <2>4. SavingMeans'
    BY <2>3 DEF SettingsInv, SavingMeans
  <2> QED BY <2>1, <2>2, <2>4 DEF SettingsInv
<1> QED BY <1>1, StartStep, RemoveStep, RenameStep, RemoveUserStep, KeepsValues, ChangeStep, ResetStep,
           FoldersStep, SavingStep DEF SettingsNext

(* The first start is expected to find the defaults.                       *)
LEMMA SettingsStart == SettingsInit => SettingsInv
<1> SUFFICES ASSUME SettingsInit PROVE SettingsInv
  OBVIOUS
<1>1. SettingsTypes
  BY FactoryOK DEF SettingsInit, SettingsTypes, FileOK, NoFile, Idle
<1>2. SavingMeans
  BY DEF SettingsInit, SavingMeans, Idle
<1>3. ASSUME NEW t \in ThemeSets PROVE AtStart(NoFile, NoFile, t) = DefaultMeanings
  <2>1. /\ expected = {DefaultMeanings} /\ themes = <<"default">> /\ sysFile = NoFile
        /\ Factory["theme"] = AutoId
    BY SettingsAssumption, Zenon DEF SettingsInit
  <2>2. ASSUME NEW i \in Items
        PROVE  /\ Over(Over(Factory, NoFile), NoFile)[i] = Factory[i]
               /\ ReadConfig.default[i] = Factory[i]
    BY <2>1 DEF Over, NoFile, ReadConfig
  <2>3. ASSUME NEW i \in Items
        PROVE  ReadAs(i, Factory[i], t)
                 = (IF i = "backend" THEN BackendOf(Factory[i]) ELSE Meaning(i, Factory[i], 0, themes))
    <3>1. CASE i = "backend"
      BY <3>1, BackendRead
    <3>2. CASE i = "format"
      BY <3>2 DEF ReadAs, Populated, Meaning
    <3>3. CASE i = "theme"
      <4>1. ReadAs(i, Factory[i], t) = Meaning("theme", AutoId, 0, t)
        BY <1>3, <2>1, <3>3, PlainRead DEF Plain, Items
      <4>2. ~ (AutoId < Len(t)) /\ ~ (AutoId < Len(<<"default">>))
        BY <1>3, ThemeFacts DEF AutoId
      <4>3. Meaning("theme", AutoId, 0, t) = "default" /\ Meaning("theme", AutoId, 0, <<"default">>) = "default"
        BY <4>2 DEF Meaning
      <4> QED BY <2>1, <3>3, <4>1, <4>3
    <3>4. CASE i \in Plain /\ i # "theme"
      <4>1. ReadAs(i, Factory[i], t) = Meaning(i, Factory[i], 0, t)
        BY <1>3, <3>4, PlainRead
      <4>2. Meaning(i, Factory[i], 0, t) = Meaning(i, Factory[i], 0, themes)
        BY <3>4, Zenon DEF Meaning
      <4> QED BY <3>4, <4>1, <4>2 DEF Plain
    <3> QED BY <3>1, <3>2, <3>3, <3>4 DEF Plain
  <2> QED BY <2>2, <2>3 DEF AtStart, DefaultMeanings
<1>4. FilesMean
  BY <1>3 DEF SettingsInit, FilesMean
<1> QED BY <1>1, <1>2, <1>4 DEF SettingsInv

(* For any languages, backends, themes that stay as they are, folders and  *)
(* menu, and whatever fails or is killed between the steps of writeConfig: *)
(* the next start finds every item to mean what it meant when it was last  *)
(* saved, or all of them one of what was there before.                     *)
THEOREM WhatIsSavedIsRead ==
  ASSUME ThemesStay
  PROVE  SettingsSpec => SavedIsRead
<1> DEFINE Reads == ~running /\ running' /\ expected # {} =>
                      [i \in Items |-> Meaning(i, value'[i], sel', themes')] \in expected
<1>1. SettingsInit => SettingsInv
  BY SettingsStart
<1>2. SettingsInv /\ [SettingsNext]_vars => SettingsInv'
  BY SettingsStep
<1>3. SettingsInv /\ [SettingsNext]_vars => [Reads]_vars
  <2>1. CASE Start
    BY <2>1, StartStep
  <2>2. ASSUME SettingsNext, ~ Start PROVE running
    BY <2>2 DEF SettingsNext, Save, SaveAtExit, RemoveOld, Rename, RemoveUser, SaveFails, Kill, Move,
       Cancel, OpenSubmenu, ActivateScreen, StartTwice, ChangeValue, Reset, DrawBackend, UpdateScreen,
       LeavePaths, AddFolder, RemoveFolder, GoTo, ResetFolders, InPaths, InScreen
  <2> QED BY <2>1, <2>2
<1> QED BY <1>1, <1>2, <1>3, PTL DEF SettingsSpec, SavedIsRead

=============================================================================
