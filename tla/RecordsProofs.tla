---------------------------- MODULE RecordsProofs ----------------------------
(***************************************************************************)
(* Hiscores are kept for those who made them (HiscoresKept), and what is   *)
(* loaded is what was saved (LoadsWhatWasSaved).  First sets of items with *)
(* an id and the order of their ids; then the folds by which a file is     *)
(* loaded; then the invariant, step by step.                               *)
(***************************************************************************)
EXTENDS Records, SequenceTheorems, FoldLemmas

-----------------------------------------------------------------------------
(* Items with an id: there are finitely many, and no two of one id.        *)

WithIds(all) ==
  /\ IsFiniteSet(all) /\ \A a \in all : a.id \in Nat
  /\ \A a, b \in all : a.id = b.id => a = b

LEMMA NumbersAreBounded ==
  ASSUME NEW S \in SUBSET Nat, IsFiniteSet(S)
  PROVE  \E n \in Nat : S \subseteq 0 .. n
<1> DEFINE P == {s \in SUBSET S : \E n \in Nat : s \subseteq 0 .. n}
<1>1. {} \in P
  OBVIOUS
<1>2. ASSUME NEW s \in SUBSET S, NEW x \in S, s \in P, x \notin s
      PROVE  s \cup {x} \in P
  <2>1. PICK n \in Nat : s \subseteq 0 .. n
    BY <1>2
  <2>2. n + x \in Nat /\ s \cup {x} \subseteq 0 .. n + x
    BY <2>1
  <2> QED BY <2>2
<1>3. S \in P
  <2> HIDE DEF P
  <2> QED BY <1>1, <1>2, SetInduction, Zenon
<1> QED BY <1>3

LEMMA MaxOf ==
  ASSUME NEW S \in SUBSET Nat, IsFiniteSet(S), S # {}
  PROVE  Max(S) \in S /\ \A x \in S : x <= Max(S)
<1>1. PICK n \in Nat : S \subseteq 0 .. n
  BY NumbersAreBounded
<1> QED BY <1>1, GreatestOf

LEMMA MaxOfIds ==
  ASSUME NEW all, WithIds(all), all # {}
  PROVE  MaxId(all) \in Nat /\ HasId(all, MaxId(all)) /\ \A a \in all : a.id <= MaxId(all)
<1> DEFINE S == {a.id : a \in all}
           f == [a \in all |-> a.id]
<1>1. S \in SUBSET Nat /\ S # {}
  BY DEF WithIds
<1>2. IsFiniteSet(S)
  <2>1. f \in Surjection(all, S)
    BY DEF Surjection
  <2> QED BY <2>1, FS_Surjection DEF WithIds
<1>3. Max(S) \in S /\ \A x \in S : x <= Max(S)
  BY <1>1, <1>2, MaxOf
<1> QED BY <1>1, <1>3 DEF MaxId, HasId

(* How many come before an item; no two items have the same rank, and      *)
(* every rank is that of one.                                              *)
Before(all, i) == {j \in all : j.id < i.id}
Rank(all, i) == Cardinality(Before(all, i))

LEMMA RankIsANumber ==
  ASSUME NEW all, WithIds(all), NEW i \in all
  PROVE  Rank(all, i) \in 0 .. Cardinality(all) - 1
<1>1. IsFiniteSet(all) /\ Before(all, i) \in SUBSET all /\ i.id \in Nat
  BY DEF WithIds, Before
<1>2. i \notin Before(all, i)
  BY <1>1 DEF Before
<1>3. /\ IsFiniteSet(Before(all, i)) /\ Cardinality(Before(all, i)) <= Cardinality(all)
      /\ Cardinality(Before(all, i)) # Cardinality(all)
  BY <1>1, <1>2, FS_Subset
<1>4. Cardinality(Before(all, i)) \in Nat /\ Cardinality(all) \in Nat
  BY <1>1, <1>3, FS_CardinalityType
<1> QED BY <1>3, <1>4 DEF Rank

LEMMA RanksDiffer ==
  ASSUME NEW all, WithIds(all), NEW i \in all, NEW j \in all, i.id < j.id
  PROVE  Rank(all, i) < Rank(all, j)
<1>1. IsFiniteSet(all) /\ i.id \in Nat /\ j.id \in Nat /\ \A k \in all : k.id \in Nat
  BY DEF WithIds
<1>2. Before(all, i) \in SUBSET Before(all, j) /\ i \in Before(all, j) /\ i \notin Before(all, i)
  BY <1>1 DEF Before
<1>3. Before(all, j) \in SUBSET all
  BY DEF Before
<1>4. IsFiniteSet(Before(all, j))
  BY <1>1, <1>3, FS_Subset
<1>5. /\ Cardinality(Before(all, i)) <= Cardinality(Before(all, j))
      /\ Cardinality(Before(all, i)) # Cardinality(Before(all, j))
      /\ IsFiniteSet(Before(all, i))
  BY <1>2, <1>4, FS_Subset
<1>6. Cardinality(Before(all, i)) \in Nat /\ Cardinality(Before(all, j)) \in Nat
  BY <1>4, <1>5, FS_CardinalityType
<1> QED BY <1>5, <1>6 DEF Rank

LEMMA EveryRank ==
  ASSUME NEW all, WithIds(all), NEW r \in 0 .. Cardinality(all) - 1
  PROVE  \E i \in all : Rank(all, i) = r
<1> DEFINE T == 0 .. Cardinality(all) - 1
           f == [i \in all |-> Rank(all, i)]
<1>1. IsFiniteSet(all) /\ Cardinality(all) \in Nat
  BY FS_CardinalityType DEF WithIds
<1>2. IsFiniteSet(T) /\ Cardinality(T) = Cardinality(all)
  BY <1>1, FS_Interval
<1>3. f \in [all -> T]
  BY RankIsANumber
<1>4. ASSUME NEW i \in all, NEW j \in all, f[i] = f[j] PROVE i = j
  <2>1. i.id \in Nat /\ j.id \in Nat /\ (i.id = j.id => i = j)
    BY DEF WithIds
  <2>2. Rank(all, i) = Rank(all, j) /\ Rank(all, i) \in Nat
    BY <1>4, RankIsANumber
  <2>3. ~ (i.id < j.id) /\ ~ (j.id < i.id)
    BY <2>2, RanksDiffer
  <2> QED BY <2>1, <2>3
<1>5. f \in Injection(all, T)
  <2> HIDE DEF f, T
  <2> QED BY <1>3, <1>4 DEF Injection, IsInjective
<1>6. f \in Surjection(all, T)
  BY <1>2, <1>5, FS_Injection
<1>7. \A t \in T : \E i \in all : f[i] = t
  BY <1>6 DEF Surjection
<1> QED BY <1>7

(* The items sorted are a sequence of them, each once.                     *)
LEMMA SortedById ==
  ASSUME NEW all, WithIds(all)
  PROVE  /\ ById(all) \in Seq(all) /\ Len(ById(all)) = Cardinality(all)
         /\ ToSet(ById(all)) = all
         /\ \A x, y \in DOMAIN ById(all) : ById(all)[x].id = ById(all)[y].id => x = y
<1> DEFINE n == Cardinality(all)
           s == ById(all)
<1>1. n \in Nat
  BY FS_CardinalityType DEF WithIds
<1>2. s = [k \in 1 .. n |-> CHOOSE i \in all : Rank(all, i) = k - 1]
  BY DEF ById, Rank, Before
<1>3. ASSUME NEW k \in 1 .. n PROVE s[k] \in all /\ Rank(all, s[k]) = k - 1
  <2>1. k - 1 \in 0 .. n - 1
    BY <1>1
  <2>2. \E i \in all : Rank(all, i) = k - 1
    BY <2>1, EveryRank
  <2>3. s[k] = CHOOSE i \in all : Rank(all, i) = k - 1
    BY <1>2
  <2> QED BY <2>2, <2>3
<1>4. DOMAIN s = 1 .. n /\ s \in [1 .. n -> all]
  <2>1. DOMAIN s = 1 .. n /\ s = [k \in 1 .. n |-> s[k]]
    BY <1>2
  <2> HIDE DEF s, n
  <2> QED BY <1>3, <2>1
<1> HIDE DEF s
<1>5. s \in Seq(all) /\ Len(s) = n
  BY <1>1, <1>4
<1>6. ASSUME NEW i \in all PROVE \E k \in 1 .. n : s[k] = i
  <2>1. Rank(all, i) \in 0 .. n - 1
    BY RankIsANumber
  <2>2. PICK k \in 1 .. n : k - 1 = Rank(all, i)
    <3>1. Rank(all, i) + 1 \in 1 .. n /\ (Rank(all, i) + 1) - 1 = Rank(all, i)
      BY <1>1, <2>1
    <3> QED BY <3>1
  <2>3. s[k] \in all /\ Rank(all, s[k]) = Rank(all, i)
    BY <1>3, <2>2
  <2>4. s[k].id \in Nat /\ i.id \in Nat /\ (s[k].id = i.id => s[k] = i)
    BY <2>3 DEF WithIds
  <2>5. ~ (s[k].id < i.id) /\ ~ (i.id < s[k].id)
    BY <2>1, <2>3, RanksDiffer
  <2> QED BY <2>4, <2>5
<1>7. ToSet(s) = all
  BY <1>3, <1>4, <1>6 DEF ToSet
<1>8. ASSUME NEW x \in 1 .. n, NEW y \in 1 .. n, s[x].id = s[y].id PROVE x = y
  <2>1. s[x] = s[y]
    BY <1>3, <1>8 DEF WithIds
  <2>2. x - 1 = y - 1
    BY <1>3, <2>1
  <2> QED BY <2>2
<1> QED BY <1>4, <1>5, <1>7, <1>8 DEF s

-----------------------------------------------------------------------------
(* What is added has an id of its own, and one that was assigned is        *)
(* greater than all there are.                                             *)

PlayerItems == [id : Nat, name : STRING]
SongItems == [id : Nat, title : STRING, broken : BOOLEAN, song : SongObjects \cup {NoSong}]

Above(all, i) == \A a \in all : a.id < i.id
Adds(all, new, Made, assigned) ==
  /\ WithIds(new) /\ all \subseteq new
  /\ \A i \in new \ all : i \in Made /\ ~HasId(all, i.id) /\ (assigned => Above(all, i))

LEMMA Inserted ==
  ASSUME NEW all, WithIds(all), NEW i, i.id \in Nat
  PROVE  /\ WithIds(Insert(all, i)) /\ all \subseteq Insert(all, i)
         /\ \A j \in Insert(all, i) \ all : j = i /\ ~HasId(all, i.id)
         /\ ~HasId(all, i.id) => Insert(all, i) = all \cup {i}
<1>1. CASE HasId(all, i.id)
  BY <1>1 DEF Insert
<1>2. CASE ~HasId(all, i.id)
  <2>1. Insert(all, i) = all \cup {i}
    BY <1>2 DEF Insert
  <2>2. IsFiniteSet(all \cup {i})
    BY FS_AddElement DEF WithIds
  <2>3. \A a \in all : a.id # i.id
    BY <1>2 DEF HasId
  <2>4. \A a, b \in all \cup {i} : a.id = b.id => a = b
    BY <2>3 DEF WithIds
  <2>5. \A a \in all \cup {i} : a.id \in Nat
    BY DEF WithIds
  <2>6. WithIds(all \cup {i})
    BY <2>2, <2>4, <2>5 DEF WithIds
  <2> QED BY <1>2, <2>1, <2>6
<1> QED BY <1>1, <1>2

LEMMA AssignedIdIsNew ==
  ASSUME NEW all, WithIds(all)
  PROVE  /\ AssignPlayerId(all) \in Nat /\ AssignSongId(all) \in Nat
         /\ ~HasId(all, AssignSongId(all))
         /\ \A a \in all : a.id < AssignSongId(all)
         /\ ~HasId(all, AssignPlayerId(all)) => \A a \in all : a.id < AssignPlayerId(all)
<1>1. CASE all = {}
  BY <1>1 DEF AssignPlayerId, AssignSongId, HasId
<1>2. CASE all # {}
  <2>1. MaxId(all) \in Nat /\ HasId(all, MaxId(all)) /\ \A a \in all : a.id <= MaxId(all)
    BY <1>2, MaxOfIds
  <2>2. \A a \in all : a.id \in Nat
    BY DEF WithIds
  <2>3. AssignSongId(all) = MaxId(all) + 1
    BY <1>2 DEF AssignSongId
  <2>4. \A a \in all : a.id < MaxId(all) + 1
    BY <2>1, <2>2
  <2>5. ~HasId(all, MaxId(all) + 1)
    BY <2>1, <2>4, <2>2 DEF HasId
  <2>6. CASE MaxId(all) = 0
    <3>1. AssignPlayerId(all) = 0 /\ HasId(all, 0)
      BY <2>1, <2>6 DEF AssignPlayerId
    <3> QED BY <2>1, <2>3, <2>4, <2>5, <3>1
  <2>7. CASE MaxId(all) # 0
    <3>1. AssignPlayerId(all) = MaxId(all) + 1
      BY <1>2, <2>7 DEF AssignPlayerId
    <3> QED BY <2>1, <2>3, <2>4, <2>5, <3>1
  <2> QED BY <2>6, <2>7
<1> QED BY <1>1, <1>2

LEMMA PlayerAdded ==
  ASSUME NEW all, WithIds(all), all \subseteq PlayerItems,
         NEW name \in STRING, NEW id \in Nat \cup {NoId}
  PROVE  /\ Adds(all, AddPlayer(all, name, id), [id : Nat, name : {name}], id = NoId)
         /\ AddPlayer(all, name, id) \subseteq PlayerItems
<1> DEFINE wanted == IF id = NoId THEN AssignPlayerId(all) ELSE id
           given1 == IF HasId(all, wanted) THEN AssignPlayerId(all) ELSE wanted
           i == [id |-> given1, name |-> name]
           new == AddPlayer(all, name, id)
<1>1. new = Insert(all, i)
  BY DEF AddPlayer
<1>2. AssignPlayerId(all) \in Nat /\ (~HasId(all, AssignPlayerId(all)) => \A a \in all : a.id < AssignPlayerId(all))
  BY AssignedIdIsNew
<1>3. given1 \in Nat /\ (id = NoId => given1 = AssignPlayerId(all))
  BY <1>2
<1>4. i \in [id : Nat, name : {name}] /\ i.id = given1 /\ i \in PlayerItems
  BY <1>3 DEF PlayerItems
<1> HIDE DEF i, new
<1>5. /\ WithIds(new) /\ all \subseteq new /\ \A j \in new \ all : j = i /\ ~HasId(all, i.id)
      /\ ~HasId(all, i.id) => new = all \cup {i}
  BY <1>1, <1>3, <1>4, Inserted
<1>6. \A j \in new \ all : id = NoId => Above(all, j)
  BY <1>2, <1>3, <1>4, <1>5 DEF Above
<1>7. new \subseteq PlayerItems
  BY <1>4, <1>5
<1>8. Adds(all, new, [id : Nat, name : {name}], id = NoId)
  BY <1>4, <1>5, <1>6 DEF Adds
<1> QED BY <1>7, <1>8 DEF new

LEMMA SongItemAdded ==
  ASSUME NEW all, WithIds(all), all \subseteq SongItems,
         NEW title \in STRING, NEW isBroken \in BOOLEAN, NEW id \in Nat \cup {NoId}
  PROVE  /\ Adds(all, AddSongItem(all, title, isBroken, id),
                 [id : Nat, title : {title}, broken : {isBroken}, song : {NoSong}], id = NoId)
         /\ AddSongItem(all, title, isBroken, id) \subseteq SongItems
         /\ id = NoId => \E i \in AddSongItem(all, title, isBroken, id) : i.title = title
<1> DEFINE wanted == IF id = NoId THEN AssignSongId(all) ELSE id
           given1 == IF HasId(all, wanted) THEN AssignSongId(all) ELSE wanted
           i == [id |-> given1, title |-> title, broken |-> isBroken, song |-> NoSong]
           new == AddSongItem(all, title, isBroken, id)
           Made == [id : Nat, title : {title}, broken : {isBroken}, song : {NoSong}]
<1>1. new = Insert(all, i)
  BY DEF AddSongItem
<1>2. /\ AssignSongId(all) \in Nat /\ \A a \in all : a.id < AssignSongId(all)
      /\ ~HasId(all, AssignSongId(all))
  BY AssignedIdIsNew
<1>3. given1 \in Nat /\ (id = NoId => given1 = AssignSongId(all))
  BY <1>2
<1>4. i \in Made /\ i.id = given1 /\ i.title = title /\ i \in SongItems
  BY <1>3 DEF SongItems
<1> HIDE DEF i, new, Made
<1>5. /\ WithIds(new) /\ all \subseteq new /\ \A j \in new \ all : j = i /\ ~HasId(all, i.id)
      /\ ~HasId(all, i.id) => new = all \cup {i}
  BY <1>1, <1>3, <1>4, Inserted
<1>6. \A j \in new \ all : id = NoId => Above(all, j)
  BY <1>2, <1>3, <1>4, <1>5 DEF Above
<1>7. new \subseteq SongItems
  BY <1>4, <1>5
<1>8. Adds(all, new, Made, id = NoId)
  BY <1>4, <1>5, <1>6 DEF Adds
<1>9. id = NoId => \E j \in new : j.title = title
  BY <1>2, <1>3, <1>4, <1>5
<1> QED BY <1>7, <1>8, <1>9 DEF new, Made

-----------------------------------------------------------------------------
(* What the good entries of a file are.                                    *)

LEMMA GoodEntries ==
  ASSUME NEW E, Bad \notin E, NEW entries \in Seq(E \cup {Bad})
  PROVE  /\ GoodPart(entries) \in Seq(E)
         /\ entries \in Seq(E) => AllGood(entries)
<1> DEFINE I == {i \in 1 .. Len(entries) : entries[i] = Bad}
<1>1. Len(entries) \in Nat /\ \A i \in 1 .. Len(entries) : entries[i] \in E \cup {Bad}
  OBVIOUS
<1>2. CASE I = {}
  <2>1. ~Contains(entries, Bad)
    BY <1>2 DEF Contains
  <2>2. \A i \in 1 .. Len(entries) : entries[i] \in E
    BY <1>1, <1>2
  <2>3. entries \in Seq(E)
    BY <2>2
  <2> QED BY <2>1, <2>3 DEF GoodPart, AllGood
<1>3. CASE I # {}
  <2>1. Contains(entries, Bad)
    BY <1>3 DEF Contains
  <2>2. I \in SUBSET Nat
    OBVIOUS
  <2>3. Min(I) \in I /\ \A x \in I : Min(I) <= x
    BY <1>3, <2>2, MinOf
  <2>4. SelectInSeq(entries, LAMBDA e : e = Bad) = Min(I)
    BY <1>3 DEF SelectInSeq
  <2> DEFINE m == Min(I)
  <2> HIDE DEF m
  <2>5. m \in 1 .. Len(entries) /\ entries[m] = Bad /\ \A x \in I : m <= x
    BY <2>3 DEF m
  <2>6. GoodPart(entries) = SubSeq(entries, 1, m - 1)
    BY <2>1, <2>4 DEF GoodPart, m
  <2>7. \A i \in 1 .. m - 1 : i \in 1 .. Len(entries) /\ entries[i] \in E
    BY <1>1, <2>5
  <2>8. SubSeq(entries, 1, m - 1) \in Seq(E)
    <3>1. SubSeq(entries, 1, m - 1) = [i \in 1 .. m - 1 |-> entries[i]]
      BY <2>5
    <3>2. m - 1 \in Nat
      BY <2>5
    <3> QED BY <2>7, <3>1, <3>2
  <2>9. entries \notin Seq(E)
    BY <2>5
  <2> QED BY <2>6, <2>8, <2>9
<1> QED BY <1>2, <1>3

LEMMA Elements ==
  ASSUME NEW E, NEW s \in Seq(E), NEW k \in 1 .. Len(s)
  PROVE  s[k] \in E
OBVIOUS

LEMMA NoEntryIsBad == Bad \notin PlayerEntries /\ Bad \notin SongEntries /\ Bad \notin HiscoreEntries
<1>1. DOMAIN Bad = {"bad"}
  BY DEF Bad
<1>2. \A e \in PlayerEntries : "name" \in DOMAIN e
  BY DEF PlayerEntries
<1>3. \A e \in SongEntries : "title" \in DOMAIN e
  BY DEF SongEntries
<1>4. \A e \in HiscoreEntries : "score" \in DOMAIN e
  BY DEF HiscoreEntries
<1> QED BY <1>1, <1>2, <1>3, <1>4

(* A file goes into the database entry by entry.                           *)
LEMMA PlayersChain ==
  ASSUME NEW f, GoodPart(f.players) \in Seq(PlayerEntries)
  PROVE  \E g : /\ g[0] = {} /\ LoadPlayers(f) = g[Len(GoodPart(f.players))]
                /\ \A k \in 1 .. Len(GoodPart(f.players)) :
                     g[k] = AddPlayer(g[k - 1], GoodPart(f.players)[k].name, GoodPart(f.players)[k].id)
                /\ \A k \in 0 .. Len(GoodPart(f.players)) : g[k] \subseteq PlayerItems /\ WithIds(g[k])
<1> DEFINE T == {t \in SUBSET PlayerItems : WithIds(t)}
           seq == GoodPart(f.players)
           n == Len(seq)
           New(t, k) == AddPlayer(t, seq[k].name, seq[k].id)
           F == [p \in T \X (1 .. n) |-> New(p[1], p[2])]
           Eq(h) == h = [s \in SUBSET (DOMAIN seq) |->
                           IF s = {} THEN {} ELSE AddPlayer(h[s \ {Max(s)}], seq[Max(s)].name, seq[Max(s)].id)]
           X == CHOOSE h : Eq(h)
<1>1. LoadPlayers(f) = X[DOMAIN seq]
  BY DEF LoadPlayers, FoldLeft, MapThenFoldSet
<1>2. n \in Nat /\ DOMAIN seq = 1 .. n /\ {} \in T
  <2>1. WithIds({})
    BY FS_EmptySet DEF WithIds
  <2> QED BY <2>1
<1>3. \A t \in T, k \in 1 .. n : New(t, k) \in T
  <2> SUFFICES ASSUME NEW t \in T, NEW k \in 1 .. n PROVE New(t, k) \in T
    BY Zenon
  <2>1. WithIds(t) /\ t \subseteq PlayerItems
    OBVIOUS
  <2>2. seq[k] \in PlayerEntries
    BY <1>2, Elements
  <2> DEFINE e == seq[k]
  <2> HIDE DEF e
  <2>3. e.name \in STRING /\ e.id \in Nat \cup {NoId}
    BY <2>2 DEF e, PlayerEntries
  <2>4. /\ AddPlayer(t, e.name, e.id) \subseteq PlayerItems
        /\ Adds(t, AddPlayer(t, e.name, e.id), [id : Nat, name : {e.name}], e.id = NoId)
    BY <2>1, <2>3, PlayerAdded
  <2>5. AddPlayer(t, e.name, e.id) \in T
    BY <2>4 DEF Adds
  <2> QED BY <2>5 DEF e
<1>4. \A t \in T, k \in 1 .. n : F[<<t, k>>] = New(t, k) /\ F[<<t, k>>] \in T
  BY <1>3
<1> HIDE DEF F, T, New, n, seq
<1>5. StaysWithin(F, T, n)
  BY <1>4 DEF StaysWithin
<1>6. PICK h : FoldsSequence(h, F, {}, n) /\ \A s \in SUBSET (1 .. n) : h[s] \in T
  BY <1>2, <1>5, SequenceFoldExists
<1>7. Eq(h)
  <2>1. \A s \in SUBSET (1 .. n) : s # {} =>
          F[<<h[s \ {Max(s)}], Max(s)>>] = New(h[s \ {Max(s)}], Max(s))
    <3> SUFFICES ASSUME NEW s \in SUBSET (1 .. n), s # {}
                 PROVE  F[<<h[s \ {Max(s)}], Max(s)>>] = New(h[s \ {Max(s)}], Max(s))
      OBVIOUS
    <3>1. Max(s) \in 1 .. n /\ s \ {Max(s)} \in SUBSET (1 .. n)
      BY <1>2, GreatestOfPart
    <3>2. h[s \ {Max(s)}] \in T
      BY <1>2, <1>6, <3>1
    <3> QED BY <1>4, <3>1, <3>2
  <2>2. h = [s \in SUBSET (1 .. n) |-> IF s = {} THEN {} ELSE New(h[s \ {Max(s)}], Max(s))]
    BY <1>6, <2>1 DEF FoldsSequence
  <2> QED BY <1>2, <2>2 DEF New
<1>8. Eq(X)
  <2> HIDE DEF Eq
  <2> QED BY <1>7
<1>9. \A s \in SUBSET (1 .. n) : X[s] = IF s = {} THEN {} ELSE New(X[s \ {Max(s)}], Max(s))
  <2> HIDE DEF X
  <2> QED BY <1>2, <1>8 DEF New
<1> HIDE DEF X
<1>10. FoldsWithin(X, F, {}, n, T)
  <2>1. {} \in SUBSET (1 .. n) /\ X[{}] = {}
    BY <1>9
  <2>2. ASSUME NEW s \in SUBSET (1 .. n), s # {}, X[s \ {Max(s)}] \in T
        PROVE  X[s] = F[<<X[s \ {Max(s)}], Max(s)>>]
    <3>1. Max(s) \in 1 .. n
      BY <1>2, <2>2, GreatestOfPart
    <3>2. X[s] = New(X[s \ {Max(s)}], Max(s))
      BY <1>9, <2>2
    <3> QED BY <1>4, <2>2, <3>1, <3>2
  <2> QED BY <2>1, <2>2 DEF FoldsWithin
<1>11. PICK g : Chains(g, F, {}, n) /\ g[n] = X[1 .. n] /\ \A k \in 0 .. n : g[k] \in T
  BY <1>2, <1>5, <1>10, SequenceFoldChain
<1>12. \A k \in 1 .. n : g[k] = New(g[k - 1], k)
  <2> SUFFICES ASSUME NEW k \in 1 .. n PROVE g[k] = New(g[k - 1], k)
    OBVIOUS
  <2>1. k - 1 \in 0 .. n /\ g[k] = F[<<g[k - 1], k>>]
    BY <1>2, <1>11 DEF Chains
  <2>2. g[k - 1] \in T
    BY <1>11, <2>1
  <2> QED BY <1>4, <2>1, <2>2
<1>13. g[0] = {} /\ LoadPlayers(f) = g[n]
  BY <1>1, <1>2, <1>11 DEF Chains
<1> QED BY <1>11, <1>12, <1>13 DEF New, seq, n, T

(* Nothing is linked to a Song yet.                                        *)
UnlinkedItems == [id : Nat, title : STRING, broken : BOOLEAN, song : {NoSong}]

LEMMA SongsChain ==
  ASSUME NEW f, GoodPart(f.songs) \in Seq(SongEntries),
         AllGood(f.players)
  PROVE  \E g : /\ g[0] = {} /\ LoadSongs(f) = g[Len(GoodPart(f.songs))]
                /\ \A k \in 1 .. Len(GoodPart(f.songs)) :
                     g[k] = AddSongItem(g[k - 1], GoodPart(f.songs)[k].title,
                                        GoodPart(f.songs)[k].broken, GoodPart(f.songs)[k].id)
                /\ \A k \in 0 .. Len(GoodPart(f.songs)) : g[k] \subseteq UnlinkedItems /\ WithIds(g[k])
<1> DEFINE T == {t \in SUBSET UnlinkedItems : WithIds(t)}
           seq == GoodPart(f.songs)
           n == Len(seq)
           New(t, k) == AddSongItem(t, seq[k].title, seq[k].broken, seq[k].id)
           F == [p \in T \X (1 .. n) |-> New(p[1], p[2])]
           Eq(h) == h = [s \in SUBSET (DOMAIN seq) |->
                           IF s = {} THEN {} ELSE AddSongItem(h[s \ {Max(s)}], seq[Max(s)].title, seq[Max(s)].broken, seq[Max(s)].id)]
           X == CHOOSE h : Eq(h)
<1>1. LoadSongs(f) = X[DOMAIN seq]
  BY DEF LoadSongs, FoldLeft, MapThenFoldSet
<1>2. n \in Nat /\ DOMAIN seq = 1 .. n /\ {} \in T
  <2>1. WithIds({})
    BY FS_EmptySet DEF WithIds
  <2> QED BY <2>1
<1>3. \A t \in T, k \in 1 .. n : New(t, k) \in T
  <2> SUFFICES ASSUME NEW t \in T, NEW k \in 1 .. n PROVE New(t, k) \in T
    BY Zenon
  <2>1. WithIds(t) /\ t \subseteq UnlinkedItems /\ t \subseteq SongItems
    BY DEF UnlinkedItems, SongItems
  <2>2. seq[k] \in SongEntries
    BY <1>2, Elements
  <2> DEFINE e == seq[k]
  <2> HIDE DEF e
  <2>3. e.title \in STRING /\ e.broken \in BOOLEAN /\ e.id \in Nat \cup {NoId}
    BY <2>2 DEF e, SongEntries
  <2>4. /\ AddSongItem(t, e.title, e.broken, e.id) \subseteq SongItems
        /\ Adds(t, AddSongItem(t, e.title, e.broken, e.id),
                [id : Nat, title : {e.title}, broken : {e.broken}, song : {NoSong}], e.id = NoId)
    BY <2>1, <2>3, SongItemAdded
  <2>5. AddSongItem(t, e.title, e.broken, e.id) \in T
    <3> DEFINE new == AddSongItem(t, e.title, e.broken, e.id)
    <3>1. WithIds(new) /\ new \subseteq SongItems /\ \A i \in new \ t : i.song = NoSong
      BY <2>4 DEF Adds
    <3> HIDE DEF new
    <3>2. \A i \in new : i \in UnlinkedItems
      BY <2>1, <3>1 DEF UnlinkedItems, SongItems
    <3> QED BY <3>1, <3>2 DEF new
  <2> QED BY <2>5 DEF e
<1>4. \A t \in T, k \in 1 .. n : F[<<t, k>>] = New(t, k) /\ F[<<t, k>>] \in T
  BY <1>3
<1> HIDE DEF F, T, New, n, seq
<1>5. StaysWithin(F, T, n)
  BY <1>4 DEF StaysWithin
<1>6. PICK h : FoldsSequence(h, F, {}, n) /\ \A s \in SUBSET (1 .. n) : h[s] \in T
  BY <1>2, <1>5, SequenceFoldExists
<1>7. Eq(h)
  <2>1. \A s \in SUBSET (1 .. n) : s # {} =>
          F[<<h[s \ {Max(s)}], Max(s)>>] = New(h[s \ {Max(s)}], Max(s))
    <3> SUFFICES ASSUME NEW s \in SUBSET (1 .. n), s # {}
                 PROVE  F[<<h[s \ {Max(s)}], Max(s)>>] = New(h[s \ {Max(s)}], Max(s))
      OBVIOUS
    <3>1. Max(s) \in 1 .. n /\ s \ {Max(s)} \in SUBSET (1 .. n)
      BY <1>2, GreatestOfPart
    <3>2. h[s \ {Max(s)}] \in T
      BY <1>2, <1>6, <3>1
    <3> QED BY <1>4, <3>1, <3>2
  <2>2. h = [s \in SUBSET (1 .. n) |-> IF s = {} THEN {} ELSE New(h[s \ {Max(s)}], Max(s))]
    BY <1>6, <2>1 DEF FoldsSequence
  <2> QED BY <1>2, <2>2 DEF New
<1>8. Eq(X)
  <2> HIDE DEF Eq
  <2> QED BY <1>7
<1>9. \A s \in SUBSET (1 .. n) : X[s] = IF s = {} THEN {} ELSE New(X[s \ {Max(s)}], Max(s))
  <2> HIDE DEF X
  <2> QED BY <1>2, <1>8 DEF New
<1> HIDE DEF X
<1>10. FoldsWithin(X, F, {}, n, T)
  <2>1. {} \in SUBSET (1 .. n) /\ X[{}] = {}
    BY <1>9
  <2>2. ASSUME NEW s \in SUBSET (1 .. n), s # {}, X[s \ {Max(s)}] \in T
        PROVE  X[s] = F[<<X[s \ {Max(s)}], Max(s)>>]
    <3>1. Max(s) \in 1 .. n
      BY <1>2, <2>2, GreatestOfPart
    <3>2. X[s] = New(X[s \ {Max(s)}], Max(s))
      BY <1>9, <2>2
    <3> QED BY <1>4, <2>2, <3>1, <3>2
  <2> QED BY <2>1, <2>2 DEF FoldsWithin
<1>11. PICK g : Chains(g, F, {}, n) /\ g[n] = X[1 .. n] /\ \A k \in 0 .. n : g[k] \in T
  BY <1>2, <1>5, <1>10, SequenceFoldChain
<1>12. \A k \in 1 .. n : g[k] = New(g[k - 1], k)
  <2> SUFFICES ASSUME NEW k \in 1 .. n PROVE g[k] = New(g[k - 1], k)
    OBVIOUS
  <2>1. k - 1 \in 0 .. n /\ g[k] = F[<<g[k - 1], k>>]
    BY <1>2, <1>11 DEF Chains
  <2>2. g[k - 1] \in T
    BY <1>11, <2>1
  <2> QED BY <1>4, <2>1, <2>2
<1>13. g[0] = {} /\ LoadSongs(f) = g[n]
  BY <1>1, <1>2, <1>11 DEF Chains
<1> QED BY <1>11, <1>12, <1>13 DEF New, seq, n, T


-----------------------------------------------------------------------------
(* The list of hiscores stays sorted, and nothing is taken from it.        *)

LEMMA InsertedAt ==
  ASSUME NEW E, NEW s \in Seq(E), NEW i \in 1 .. Len(s) + 1, NEW e \in E
  PROVE  /\ InsertAt(s, i, e) \in Seq(E) /\ Len(InsertAt(s, i, e)) = Len(s) + 1
         /\ \A k \in 1 .. Len(s) + 1 :
              InsertAt(s, i, e)[k] = IF k < i THEN s[k] ELSE IF k = i THEN e ELSE s[k - 1]
<1> DEFINE a == SubSeq(s, 1, i - 1)
           b == SubSeq(s, i, Len(s))
           ab == a \o <<e>>
<1>1. Len(s) \in Nat /\ i \in Nat
  OBVIOUS
<1>2. a \in Seq(E) /\ Len(a) = i - 1 /\ \A k \in 1 .. i - 1 : a[k] = s[k]
  OBVIOUS
<1>3. b \in Seq(E) /\ Len(b) = Len(s) - i + 1 /\ \A k \in 1 .. Len(s) - i + 1 : b[k] = s[i + k - 1]
  OBVIOUS
<1> HIDE DEF a, b
<1>4. ab \in Seq(E) /\ Len(ab) = i /\ \A k \in 1 .. i : ab[k] = IF k < i THEN s[k] ELSE e
  BY <1>1, <1>2
<1> HIDE DEF ab
<1>5. InsertAt(s, i, e) = ab \o b
  BY DEF InsertAt, ab, a, b
<1>6. ab \o b \in Seq(E) /\ Len(ab \o b) = Len(s) + 1
  <2>1. ab \o b \in Seq(E) /\ Len(ab \o b) = Len(ab) + Len(b)
    BY <1>3, <1>4, ConcatProperties
  <2>2. Len(ab) + Len(b) = Len(s) + 1
    BY <1>1, <1>3, <1>4
  <2> QED BY <2>1, <2>2
<1>7. ASSUME NEW k \in 1 .. Len(s) + 1
      PROVE  (ab \o b)[k] = IF k < i THEN s[k] ELSE IF k = i THEN e ELSE s[k - 1]
  <2>1. CASE k <= i
    <3>1. (ab \o b)[k] = ab[k]
      BY <1>1, <1>3, <1>4, <2>1
    <3> QED BY <1>1, <1>4, <2>1, <3>1
  <2>2. CASE k > i
    <3>1. (ab \o b)[k] = b[k - i]
      BY <1>1, <1>3, <1>4, <2>2
    <3>2. b[k - i] = s[i + (k - i) - 1]
      BY <1>1, <1>3, <2>2
    <3>3. i + (k - i) - 1 = k - 1
      BY <1>1
    <3> QED BY <1>1, <2>2, <3>1, <3>2, <3>3
  <2>3. k <= i \/ k > i
    BY <1>1
  <2> QED BY <2>1, <2>2, <2>3, Zenon
<1> QED BY <1>5, <1>6, <1>7

Sorted == {list \in Seq(HiscoreEntries) : BestFirst(list)}

LEMMA NotBelowComesFirst ==
  ASSUME NEW list \in Sorted, NEW h \in HiscoreEntries
  PROVE  /\ Cardinality(NotBelow(list, h)) \in 0 .. Len(list)
         /\ NotBelow(list, h) = 1 .. Cardinality(NotBelow(list, h))
<1> DEFINE n == Len(list)
           S == NotBelow(list, h)
<1>1. n \in Nat /\ DOMAIN list = 1 .. n /\ list \in Seq(HiscoreEntries) /\ BestFirst(list)
  BY DEF Sorted
<1>2. h.score \in Nat /\ \A k \in 1 .. n : list[k].score \in Nat
  <2>1. \A e \in HiscoreEntries : e.score \in Nat
    BY DEF HiscoreEntries
  <2>2. \A k \in 1 .. n : list[k] \in HiscoreEntries
    BY <1>1, Elements
  <2> QED BY <2>1, <2>2
<1>3. S \in SUBSET (0 .. n) /\ S = {k \in 1 .. n : list[k].score >= h.score}
  BY <1>1 DEF NotBelow
<1> HIDE DEF S, n
<1>4. CASE S = {}
  <2>1. Cardinality(S) = 0 /\ S = 1 .. 0
    BY <1>4, FS_EmptySet
  <2> QED BY <1>1, <2>1 DEF S, n
<1>5. CASE S # {}
  <2>1. Max(S) \in S /\ \A x \in S : x <= Max(S)
    BY <1>1, <1>3, <1>5, GreatestOf
  <2> DEFINE m == Max(S)
  <2> HIDE DEF m
  <2>2. m \in S /\ m \in 1 .. n /\ \A x \in S : x <= m
    BY <1>3, <2>1 DEF m
  <2>3. ASSUME NEW k \in 1 .. m PROVE k \in S
    <3>1. k \in 1 .. n /\ (k < m \/ k = m)
      BY <1>1, <2>2
    <3>2. CASE k < m
      <4>1. list[k].score >= list[m].score /\ list[m].score >= h.score
        BY <1>1, <1>3, <2>2, <3>1, <3>2 DEF BestFirst
      <4> QED BY <1>2, <1>3, <2>2, <3>1, <4>1
    <3> QED BY <2>2, <3>1, <3>2
  <2>4. S = 1 .. m
    BY <1>1, <1>3, <2>2, <2>3
  <2>5. Cardinality(S) = m
    BY <1>1, <2>2, <2>4, FS_Interval
  <2> QED BY <1>1, <2>2, <2>4, <2>5 DEF S, n
<1> QED BY <1>4, <1>5

LEMMA HiscoreAdded ==
  ASSUME NEW list \in Sorted, NEW h \in HiscoreEntries, NEW least
  PROVE  /\ AddHiscore(list, h, least) \in Sorted
         /\ ToSet(list) \subseteq ToSet(AddHiscore(list, h, least))
         /\ ToSet(AddHiscore(list, h, least)) \subseteq ToSet(list) \cup {h}
         /\ AddHiscore(list, h, least) # list => h \in ToSet(AddHiscore(list, h, least))
<1>1. CASE ~Reached(list, h, least)
  BY <1>1 DEF AddHiscore
<1>2. CASE Reached(list, h, least)
  <2> DEFINE n == Len(list)
             i == Cardinality(NotBelow(list, h)) + 1
             new == InsertAt(list, i, h)
  <2>1. AddHiscore(list, h, least) = new
    BY <1>2 DEF AddHiscore
  <2>2. n \in Nat /\ DOMAIN list = 1 .. n /\ list \in Seq(HiscoreEntries) /\ BestFirst(list)
    BY DEF Sorted
  <2>3. i \in 1 .. n + 1 /\ NotBelow(list, h) = 1 .. i - 1
    <3> DEFINE m == Cardinality(NotBelow(list, h))
    <3>1. m \in 0 .. n /\ NotBelow(list, h) = 1 .. m
      BY NotBelowComesFirst
    <3> HIDE DEF m
    <3>2. m + 1 \in 1 .. n + 1 /\ (m + 1) - 1 = m
      BY <2>2, <3>1
    <3> QED BY <3>1, <3>2 DEF m
  <2> HIDE DEF i
  <2>4. /\ new \in Seq(HiscoreEntries) /\ Len(new) = n + 1
        /\ \A k \in 1 .. n + 1 : new[k] = IF k < i THEN list[k] ELSE IF k = i THEN h ELSE list[k - 1]
    BY <2>2, <2>3, InsertedAt
  <2> HIDE DEF new, n
  <2>5. DOMAIN new = 1 .. n + 1
    BY <2>2, <2>4
  <2>6. h.score \in Nat /\ \A k \in 1 .. n : list[k].score \in Nat
    <3>1. \A e \in HiscoreEntries : e.score \in Nat
      BY DEF HiscoreEntries
    <3>2. \A k \in 1 .. n : list[k] \in HiscoreEntries
      BY <2>2, Elements DEF n
    <3> QED BY <3>1, <3>2
  <2>7. \A k \in 1 .. n : (k < i) <=> list[k].score >= h.score
    <3>1. \A k \in 1 .. n : k \in 1 .. i - 1 <=> list[k].score >= h.score
      BY <2>2, <2>3 DEF NotBelow
    <3>2. \A k \in 1 .. n : k \in 1 .. i - 1 <=> k < i
      BY <2>2, <2>3
    <3> QED BY <3>1, <3>2
  <2>8. ASSUME NEW x \in 1 .. n + 1, NEW y \in 1 .. n + 1, x < y
        PROVE  new[x].score >= new[y].score
    <3>1. /\ x \in Nat /\ y \in Nat /\ i \in Nat
          /\ x < i => x \in 1 .. n
          /\ x > i => x - 1 \in 1 .. n
          /\ y < i => y \in 1 .. n
          /\ y > i => y - 1 \in 1 .. n
      BY <2>2, <2>3
    <3>2. CASE y < i
      <4>1. new[x] = list[x] /\ new[y] = list[y] /\ x \in 1 .. n /\ y \in 1 .. n
        BY <2>4, <2>8, <3>1, <3>2
      <4> QED BY <2>2, <2>8, <4>1 DEF BestFirst
    <3>3. CASE y = i
      <4>1. new[x] = list[x] /\ new[y] = h /\ x \in 1 .. n /\ x < i
        BY <2>4, <2>8, <3>1, <3>3
      <4> QED BY <2>7, <4>1
    <3>4. CASE y > i /\ x < i
      <4>1. x \in 1 .. n /\ y - 1 \in 1 .. n /\ x < y - 1
        BY <3>1, <3>4
      <4>2. list[x].score >= list[y - 1].score
        BY <2>2, <4>1 DEF BestFirst
      <4>3. new[x] = list[x] /\ new[y] = list[y - 1]
        BY <2>4, <3>1, <3>4
      <4> QED BY <4>2, <4>3
    <3>5. CASE y > i /\ x = i
      <4>1. new[x] = h /\ new[y] = list[y - 1] /\ y - 1 \in 1 .. n /\ ~(y - 1 < i)
        BY <2>4, <3>1, <3>5
      <4>2. ~(list[y - 1].score >= h.score)
        BY <2>7, <4>1
      <4> QED BY <2>6, <4>1, <4>2
    <3>6. CASE y > i /\ x > i
      <4>1. new[x] = list[x - 1] /\ new[y] = list[y - 1]
        BY <2>4, <3>1, <3>6
      <4>2. x - 1 \in 1 .. n /\ y - 1 \in 1 .. n /\ x - 1 < y - 1
        BY <2>8, <3>1, <3>6
      <4> QED BY <2>2, <4>1, <4>2 DEF BestFirst
    <3> QED BY <3>1, <3>2, <3>3, <3>4, <3>5, <3>6
  <2>9. new \in Sorted
    BY <2>4, <2>5, <2>8 DEF Sorted, BestFirst
  <2>10. ASSUME NEW k \in 1 .. n PROVE \E x \in 1 .. n + 1 : new[x] = list[k]
    <3>1. CASE k < i
      BY <2>2, <2>4, <3>1
    <3>2. CASE ~(k < i)
      <4>1. k + 1 \in 1 .. n + 1 /\ k + 1 > i /\ (k + 1) - 1 = k
        BY <2>2, <2>3, <3>2
      <4>2. new[k + 1] = list[k]
        BY <2>3, <2>4, <4>1
      <4> QED BY <4>1, <4>2
    <3> QED BY <3>1, <3>2
  <2>11. ASSUME NEW x \in 1 .. n + 1 PROVE new[x] = h \/ \E k \in 1 .. n : new[x] = list[k]
    <3>1. CASE x < i
      <4>1. x \in 1 .. n /\ new[x] = list[x]
        BY <2>2, <2>3, <2>4, <3>1
      <4> QED BY <4>1
    <3>2. CASE x > i
      <4>1. x - 1 \in 1 .. n /\ new[x] = list[x - 1]
        BY <2>2, <2>3, <2>4, <3>2
      <4> QED BY <4>1
    <3>3. CASE x = i
      BY <2>4, <3>3
    <3> QED BY <2>3, <3>1, <3>2, <3>3
  <2>12. new[i] = h
    BY <2>3, <2>4
  <2>13. /\ ToSet(list) \subseteq ToSet(new) /\ ToSet(new) \subseteq ToSet(list) \cup {h}
         /\ h \in ToSet(new)
    <3>1. ToSet(list) = {list[k] : k \in 1 .. n} /\ ToSet(new) = {new[x] : x \in 1 .. n + 1}
      BY <2>2, <2>5 DEF ToSet
    <3>2. \A e \in ToSet(list) : e \in ToSet(new)
      BY <2>10, <3>1
    <3>3. \A e \in ToSet(new) : e \in ToSet(list) \cup {h}
      BY <2>11, <3>1
    <3>4. h \in ToSet(new)
      BY <2>3, <2>12, <3>1
    <3> QED BY <3>2, <3>3, <3>4
  <2> QED BY <2>1, <2>9, <2>13
<1> QED BY <1>1, <1>2


(* The hiscores of a file are added one by one, and so are the best of them. *)
LEMMA HiscoresChain ==
  ASSUME NEW f, AllGood(f.players), AllGood(f.songs),
         GoodPart(f.hiscores) \in Seq(HiscoreEntries), NEW least \in Nat
  PROVE  \E g : /\ g[0] = <<>> /\ LoadHiscores(f, least) = g[Len(GoodPart(f.hiscores))]
                /\ \A k \in 1 .. Len(GoodPart(f.hiscores)) :
                     g[k] = AddHiscore(g[k - 1], GoodPart(f.hiscores)[k], least)
                /\ \A k \in 0 .. Len(GoodPart(f.hiscores)) : g[k] \in Sorted
<1> DEFINE T == Sorted
           seq == GoodPart(f.hiscores)
           n == Len(seq)
           New(t, k) == AddHiscore(t, seq[k], least)
           F == [p \in T \X (1 .. n) |-> New(p[1], p[2])]
           Eq(h) == h = [s \in SUBSET (DOMAIN seq) |->
                           IF s = {} THEN <<>> ELSE AddHiscore(h[s \ {Max(s)}], seq[Max(s)], least)]
           X == CHOOSE h : Eq(h)
<1>1. LoadHiscores(f, least) = X[DOMAIN seq]
  BY DEF LoadHiscores, FoldLeft, MapThenFoldSet
<1>2. n \in Nat /\ DOMAIN seq = 1 .. n /\ <<>> \in T
  <2>1. <<>> \in Seq(HiscoreEntries) /\ DOMAIN <<>> = {}
    OBVIOUS
  <2>2. <<>> \in Sorted
    BY <2>1 DEF Sorted, BestFirst
  <2> QED BY <2>2
<1>3. \A t \in T, k \in 1 .. n : New(t, k) \in T
  <2> SUFFICES ASSUME NEW t \in T, NEW k \in 1 .. n PROVE New(t, k) \in T
    BY Zenon
  <2>1. seq[k] \in HiscoreEntries
    BY <1>2, Elements
  <2> QED BY <2>1, HiscoreAdded
<1>4. \A t \in T, k \in 1 .. n : F[<<t, k>>] = New(t, k) /\ F[<<t, k>>] \in T
  BY <1>3
<1> HIDE DEF F, T, New, n, seq
<1>5. StaysWithin(F, T, n)
  BY <1>4 DEF StaysWithin
<1>6. PICK h : FoldsSequence(h, F, <<>>, n) /\ \A s \in SUBSET (1 .. n) : h[s] \in T
  BY <1>2, <1>5, SequenceFoldExists
<1>7. Eq(h)
  <2>1. \A s \in SUBSET (1 .. n) : s # {} =>
          F[<<h[s \ {Max(s)}], Max(s)>>] = New(h[s \ {Max(s)}], Max(s))
    <3> SUFFICES ASSUME NEW s \in SUBSET (1 .. n), s # {}
                 PROVE  F[<<h[s \ {Max(s)}], Max(s)>>] = New(h[s \ {Max(s)}], Max(s))
      OBVIOUS
    <3>1. Max(s) \in 1 .. n /\ s \ {Max(s)} \in SUBSET (1 .. n)
      BY <1>2, GreatestOfPart
    <3>2. h[s \ {Max(s)}] \in T
      BY <1>2, <1>6, <3>1
    <3> QED BY <1>4, <3>1, <3>2
  <2>2. h = [s \in SUBSET (1 .. n) |-> IF s = {} THEN <<>> ELSE New(h[s \ {Max(s)}], Max(s))]
    BY <1>6, <2>1 DEF FoldsSequence
  <2> QED BY <1>2, <2>2 DEF New
<1>8. Eq(X)
  <2> HIDE DEF Eq
  <2> QED BY <1>7
<1>9. \A s \in SUBSET (1 .. n) : X[s] = IF s = {} THEN <<>> ELSE New(X[s \ {Max(s)}], Max(s))
  <2> HIDE DEF X
  <2> QED BY <1>2, <1>8 DEF New
<1> HIDE DEF X
<1>10. FoldsWithin(X, F, <<>>, n, T)
  <2>1. {} \in SUBSET (1 .. n) /\ X[{}] = <<>>
    BY <1>9
  <2>2. ASSUME NEW s \in SUBSET (1 .. n), s # {}, X[s \ {Max(s)}] \in T
        PROVE  X[s] = F[<<X[s \ {Max(s)}], Max(s)>>]
    <3>1. Max(s) \in 1 .. n
      BY <1>2, <2>2, GreatestOfPart
    <3>2. X[s] = New(X[s \ {Max(s)}], Max(s))
      BY <1>9, <2>2
    <3> QED BY <1>4, <2>2, <3>1, <3>2
  <2> QED BY <2>1, <2>2 DEF FoldsWithin
<1>11. PICK g : Chains(g, F, <<>>, n) /\ g[n] = X[1 .. n] /\ \A k \in 0 .. n : g[k] \in T
  BY <1>2, <1>5, <1>10, SequenceFoldChain
<1>12. \A k \in 1 .. n : g[k] = New(g[k - 1], k)
  <2> SUFFICES ASSUME NEW k \in 1 .. n PROVE g[k] = New(g[k - 1], k)
    OBVIOUS
  <2>1. k - 1 \in 0 .. n /\ g[k] = F[<<g[k - 1], k>>]
    BY <1>2, <1>11 DEF Chains
  <2>2. g[k - 1] \in T
    BY <1>11, <2>1
  <2> QED BY <1>4, <2>1, <2>2
<1>13. g[0] = <<>> /\ LoadHiscores(f, least) = g[n]
  BY <1>1, <1>2, <1>11 DEF Chains
<1> QED BY <1>11, <1>12, <1>13 DEF New, seq, n, T

IsKept(list, i, least) ==
  /\ list[i].score >= least
  /\ Cardinality({j \in 1 .. i - 1 : j \in OwnPlaces(list, list[i])}) < MaximumStoredScores

LEMMA BestChain ==
  ASSUME NEW list \in Seq(HiscoreEntries), NEW least
  PROVE  \E g : /\ g[0] = <<>> /\ BestOf(list, least) = g[Len(list)]
                /\ \A k \in 1 .. Len(list) :
                     g[k] = IF IsKept(list, k, least) THEN Append(g[k - 1], list[k]) ELSE g[k - 1]
<1> DEFINE T == Seq(HiscoreEntries)
           seq == [i \in DOMAIN list |-> i]
           n == Len(seq)
           New(t, k) == IF IsKept(list, seq[k], least) THEN Append(t, list[seq[k]]) ELSE t
           F == [p \in T \X (1 .. n) |-> New(p[1], p[2])]
           Eq(h) == h = [s \in SUBSET (DOMAIN seq) |->
                           IF s = {} THEN <<>> ELSE IF IsKept(list, seq[Max(s)], least)
                           THEN Append(h[s \ {Max(s)}], list[seq[Max(s)]]) ELSE h[s \ {Max(s)}]]
           X == CHOOSE h : Eq(h)
<1>1. BestOf(list, least) = X[DOMAIN seq]
  BY DEF BestOf, IsKept, FoldLeft, MapThenFoldSet
<1>2. n \in Nat /\ DOMAIN seq = 1 .. n /\ <<>> \in T
  <2>1. DOMAIN list = 1 .. Len(list) /\ Len(list) \in Nat
    OBVIOUS
  <2>2. DOMAIN seq = 1 .. Len(list)
    BY <2>1
  <2>3. seq \in Seq(1 .. Len(list)) /\ Len(seq) = Len(list)
    BY <2>1
  <2>4. <<>> \in Seq(HiscoreEntries)
    OBVIOUS
  <2> QED BY <2>1, <2>2, <2>3, <2>4
<1>3. \A t \in T, k \in 1 .. n : New(t, k) \in T
  <2> SUFFICES ASSUME NEW t \in T, NEW k \in 1 .. n PROVE New(t, k) \in T
    BY Zenon
  <2>1. k \in 1 .. Len(list) /\ seq[k] = k
    BY <1>2
  <2>2. list[k] \in HiscoreEntries
    BY <2>1, Elements
  <2> DEFINE e == list[k]
  <2> HIDE DEF e
  <2>3. Append(t, e) \in Seq(HiscoreEntries)
    BY <2>2 DEF e
  <2> QED BY <2>1, <2>3 DEF e
<1>4. \A t \in T, k \in 1 .. n : F[<<t, k>>] = New(t, k) /\ F[<<t, k>>] \in T
  BY <1>3
<1> HIDE DEF F, T, New, n, seq
<1>5. StaysWithin(F, T, n)
  BY <1>4 DEF StaysWithin
<1>6. PICK h : FoldsSequence(h, F, <<>>, n) /\ \A s \in SUBSET (1 .. n) : h[s] \in T
  BY <1>2, <1>5, SequenceFoldExists
<1>7. Eq(h)
  <2>1. \A s \in SUBSET (1 .. n) : s # {} =>
          F[<<h[s \ {Max(s)}], Max(s)>>] = New(h[s \ {Max(s)}], Max(s))
    <3> SUFFICES ASSUME NEW s \in SUBSET (1 .. n), s # {}
                 PROVE  F[<<h[s \ {Max(s)}], Max(s)>>] = New(h[s \ {Max(s)}], Max(s))
      OBVIOUS
    <3>1. Max(s) \in 1 .. n /\ s \ {Max(s)} \in SUBSET (1 .. n)
      BY <1>2, GreatestOfPart
    <3>2. h[s \ {Max(s)}] \in T
      BY <1>2, <1>6, <3>1
    <3> QED BY <1>4, <3>1, <3>2
  <2>2. h = [s \in SUBSET (1 .. n) |-> IF s = {} THEN <<>> ELSE New(h[s \ {Max(s)}], Max(s))]
    BY <1>6, <2>1 DEF FoldsSequence
  <2> QED BY <1>2, <2>2 DEF New
<1>8. Eq(X)
  <2> HIDE DEF Eq
  <2> QED BY <1>7
<1>9. \A s \in SUBSET (1 .. n) : X[s] = IF s = {} THEN <<>> ELSE New(X[s \ {Max(s)}], Max(s))
  <2> HIDE DEF X
  <2> QED BY <1>2, <1>8 DEF New
<1> HIDE DEF X
<1>10. FoldsWithin(X, F, <<>>, n, T)
  <2>1. {} \in SUBSET (1 .. n) /\ X[{}] = <<>>
    BY <1>9
  <2>2. ASSUME NEW s \in SUBSET (1 .. n), s # {}, X[s \ {Max(s)}] \in T
        PROVE  X[s] = F[<<X[s \ {Max(s)}], Max(s)>>]
    <3>1. Max(s) \in 1 .. n
      BY <1>2, <2>2, GreatestOfPart
    <3>2. X[s] = New(X[s \ {Max(s)}], Max(s))
      BY <1>9, <2>2
    <3> QED BY <1>4, <2>2, <3>1, <3>2
  <2> QED BY <2>1, <2>2 DEF FoldsWithin
<1>11. PICK g : Chains(g, F, <<>>, n) /\ g[n] = X[1 .. n] /\ \A k \in 0 .. n : g[k] \in T
  BY <1>2, <1>5, <1>10, SequenceFoldChain
<1>12. \A k \in 1 .. n : g[k] = New(g[k - 1], k)
  <2> SUFFICES ASSUME NEW k \in 1 .. n PROVE g[k] = New(g[k - 1], k)
    OBVIOUS
  <2>1. k - 1 \in 0 .. n /\ g[k] = F[<<g[k - 1], k>>]
    BY <1>2, <1>11 DEF Chains
  <2>2. g[k - 1] \in T
    BY <1>11, <2>1
  <2> QED BY <1>4, <2>1, <2>2
<1>13. g[0] = <<>> /\ BestOf(list, least) = g[n]
  BY <1>1, <1>2, <1>11 DEF Chains
<1>14. n = Len(list) /\ \A k \in 1 .. n : seq[k] = k
  <2>1. DOMAIN list = 1 .. Len(list) /\ Len(list) \in Nat
    OBVIOUS
  <2>2. seq \in Seq(1 .. Len(list)) /\ Len(seq) = Len(list)
    BY <2>1 DEF seq
  <2>3. \A k \in 1 .. Len(list) : seq[k] = k
    BY <2>1 DEF seq
  <2> QED BY <2>2, <2>3 DEF n
<1>15. \A k \in 1 .. n :
         g[k] = IF IsKept(list, k, least) THEN Append(g[k - 1], list[k]) ELSE g[k - 1]
  BY <1>12, <1>14 DEF New
<1> QED BY <1>13, <1>14, <1>15


-----------------------------------------------------------------------------
(* A file as the program writes it is loaded as it is.                     *)

LEMMA PlayerAddedAsIs ==
  ASSUME NEW all, WithIds(all), all \subseteq PlayerItems,
         NEW name \in STRING, NEW id \in Nat \cup {NoId}, id # NoId, ~HasId(all, id)
  PROVE  AddPlayer(all, name, id) = all \cup {[id |-> id, name |-> name]}
<1>1. AddPlayer(all, name, id) = Insert(all, [id |-> id, name |-> name])
  BY DEF AddPlayer
<1> QED BY <1>1 DEF Insert

LEMMA SongItemAddedAsIs ==
  ASSUME NEW all, WithIds(all), all \subseteq SongItems,
         NEW title \in STRING, NEW isBroken \in BOOLEAN, NEW id \in Nat \cup {NoId},
         id # NoId, ~HasId(all, id)
  PROVE  AddSongItem(all, title, isBroken, id) =
           all \cup {[id |-> id, title |-> title, broken |-> isBroken, song |-> NoSong]}
<1>1. AddSongItem(all, title, isBroken, id) =
        Insert(all, [id |-> id, title |-> title, broken |-> isBroken, song |-> NoSong])
  BY DEF AddSongItem
<1> QED BY <1>1 DEF Insert

LEMMA PlayersAsWritten ==
  ASSUME NEW f, f.players \in Seq(PlayerEntries), EachItsId(f.players),
         \A i \in DOMAIN f.players : f.players[i].id # NoId
  PROVE  LoadPlayers(f) = ToSet(f.players)
<1> DEFINE list == f.players
           n == Len(list)
<1>1. GoodPart(list) = list
  <2>1. list \in Seq(PlayerEntries \cup {Bad})
    <3>1. \A E, F : E \subseteq F => Seq(E) \subseteq Seq(F)
      BY SeqMonotonic, Zenon
    <3> QED BY <3>1
  <2>2. AllGood(list)
    BY <2>1, GoodEntries, NoEntryIsBad
  <2> QED BY <2>2 DEF AllGood
<1>2. GoodPart(f.players) \in Seq(PlayerEntries) /\ GoodPart(f.players) = list
  BY <1>1
<1>3. PICK g : /\ g[0] = {} /\ LoadPlayers(f) = g[n]
               /\ \A k \in 1 .. n : g[k] = AddPlayer(g[k - 1], list[k].name, list[k].id)
               /\ \A k \in 0 .. n : g[k] \subseteq PlayerItems /\ WithIds(g[k])
  BY <1>2, PlayersChain
<1>4. n \in Nat /\ DOMAIN list = 1 .. n
  OBVIOUS
<1>5. EachItsId(list) /\ \A k \in 1 .. n : list[k] \in PlayerEntries /\ list[k].id # NoId
  <2>1. \A k \in 1 .. n : list[k] \in PlayerEntries
    BY Elements
  <2> QED BY <1>4, <2>1
<1> HIDE DEF list, n
<1> DEFINE P == {k \in Nat : k <= n => g[k] = {list[i] : i \in 1 .. k}}
<1>6. 0 \in P
  <2>1. {list[i] : i \in 1 .. 0} = {}
    OBVIOUS
  <2> QED BY <1>3, <2>1
<1>7. ASSUME NEW k \in Nat, k \in P PROVE k + 1 \in P
  <2> SUFFICES ASSUME k + 1 <= n PROVE g[k + 1] = {list[i] : i \in 1 .. k + 1}
    OBVIOUS
  <2> DEFINE e == list[k + 1]
  <2>1. k + 1 \in 1 .. n /\ k \in 0 .. n /\ (k + 1) - 1 = k /\ k <= n
    BY <1>4
  <2>2. g[k] = {list[i] : i \in 1 .. k} /\ g[k] \subseteq PlayerItems /\ WithIds(g[k])
    BY <1>3, <1>7, <2>1
  <2>3. g[k + 1] = AddPlayer(g[k], e.name, e.id)
    BY <1>3, <2>1
  <2>4. e \in PlayerEntries /\ e.id # NoId
    BY <1>5, <2>1
  <2>5. ~HasId(g[k], e.id)
    <3>1. \A i \in 1 .. k : i \in 1 .. n /\ i # k + 1
      BY <2>1, <1>4
    <3>2. \A i \in 1 .. k : list[i].id # e.id
      BY <1>4, <1>5, <2>1, <3>1 DEF EachItsId
    <3> QED BY <2>2, <3>2 DEF HasId
  <2>6. e.name \in STRING /\ e.id \in Nat \cup {NoId} /\ e = [id |-> e.id, name |-> e.name]
    BY <2>4 DEF PlayerEntries
  <2> HIDE DEF e
  <2>7. AddPlayer(g[k], e.name, e.id) = g[k] \cup {[id |-> e.id, name |-> e.name]}
    <3>1. WithIds(g[k]) /\ g[k] \subseteq PlayerItems
      BY <2>2
    <3> QED BY <2>4, <2>5, <2>6, <3>1, PlayerAddedAsIs, Zenon
  <2>8. g[k + 1] = g[k] \cup {e}
    BY <2>3, <2>6, <2>7
  <2> USE DEF e
  <2>9. 1 .. k + 1 = (1 .. k) \cup {k + 1}
    OBVIOUS
  <2> QED BY <2>2, <2>8, <2>9
<1>8. \A k \in Nat : k \in P
  <2> HIDE DEF P
  <2> QED BY <1>6, <1>7, Induction
<1>9. g[n] = {list[i] : i \in 1 .. n}
  BY <1>4, <1>8
<1> QED BY <1>3, <1>4, <1>9 DEF ToSet, list

Key(i) == [id |-> i.id, title |-> i.title, broken |-> i.broken]
Keys(items) == {Key(i) : i \in items}

LEMMA SongsAsWritten ==
  ASSUME NEW f, AllGood(f.players), f.songs \in Seq(SongEntries), EachItsId(f.songs)
  PROVE  Keys(LoadSongs(f)) = ToSet(f.songs)
<1> DEFINE list == f.songs
           n == Len(list)
<1>1. GoodPart(list) = list
  <2>1. list \in Seq(SongEntries \cup {Bad})
    <3>1. \A E, F : E \subseteq F => Seq(E) \subseteq Seq(F)
      BY SeqMonotonic, Zenon
    <3> QED BY <3>1
  <2>2. AllGood(list)
    BY <2>1, GoodEntries, NoEntryIsBad
  <2> QED BY <2>2 DEF AllGood
<1>2. GoodPart(f.songs) \in Seq(SongEntries) /\ GoodPart(f.songs) = list
  BY <1>1
<1>3. PICK g : /\ g[0] = {} /\ LoadSongs(f) = g[n]
               /\ \A k \in 1 .. n :
                    g[k] = AddSongItem(g[k - 1], list[k].title, list[k].broken, list[k].id)
               /\ \A k \in 0 .. n : g[k] \subseteq UnlinkedItems /\ WithIds(g[k])
  BY <1>2, SongsChain
<1>4. n \in Nat /\ DOMAIN list = 1 .. n
  OBVIOUS
<1>5. EachItsId(list) /\ \A k \in 1 .. n : list[k] \in SongEntries
  <2>1. \A k \in 1 .. n : list[k] \in SongEntries
    BY Elements
  <2> QED BY <1>4, <2>1
<1> HIDE DEF list, n
<1> DEFINE P == {k \in Nat : k <= n => Keys(g[k]) = {list[i] : i \in 1 .. k}}
<1>6. 0 \in P
  <2>1. {list[i] : i \in 1 .. 0} = {}
    OBVIOUS
  <2> QED BY <1>3, <2>1 DEF Keys
<1>7. ASSUME NEW k \in Nat, k \in P PROVE k + 1 \in P
  <2> SUFFICES ASSUME k + 1 <= n PROVE Keys(g[k + 1]) = {list[i] : i \in 1 .. k + 1}
    OBVIOUS
  <2> DEFINE e == list[k + 1]
             new == [id |-> e.id, title |-> e.title, broken |-> e.broken, song |-> NoSong]
  <2>1. k + 1 \in 1 .. n /\ k \in 0 .. n /\ (k + 1) - 1 = k /\ k <= n
    BY <1>4
  <2>2. Keys(g[k]) = {list[i] : i \in 1 .. k} /\ g[k] \subseteq SongItems /\ WithIds(g[k])
    <3>1. UnlinkedItems \subseteq SongItems
      BY DEF UnlinkedItems, SongItems
    <3> QED BY <1>3, <1>7, <2>1, <3>1
  <2>3. g[k + 1] = AddSongItem(g[k], e.title, e.broken, e.id)
    BY <1>3, <2>1
  <2>4. e \in SongEntries
    BY <1>5, <2>1
  <2>5. ~HasId(g[k], e.id)
    <3> SUFFICES ASSUME NEW j \in g[k], j.id = e.id PROVE FALSE
      BY DEF HasId
    <3>1. Key(j) \in {list[i] : i \in 1 .. k}
      BY <2>2 DEF Keys
    <3>2. PICK i \in 1 .. k : Key(j) = list[i]
      BY <3>1
    <3>3. i \in 1 .. n /\ i # k + 1
      BY <2>1, <1>4
    <3>4. list[i].id = e.id
      BY <3>2 DEF Key
    <3> QED BY <1>4, <1>5, <2>1, <3>3, <3>4 DEF EachItsId
  <2>6. /\ e.title \in STRING /\ e.broken \in BOOLEAN /\ e.id \in Nat /\ e.id \in Nat \cup {NoId}
        /\ e.id # NoId /\ e = [id |-> e.id, title |-> e.title, broken |-> e.broken]
    BY <2>4 DEF SongEntries, NoId
  <2> HIDE DEF e
  <2>7. AddSongItem(g[k], e.title, e.broken, e.id) = g[k] \cup {new}
    <3>1. WithIds(g[k]) /\ g[k] \subseteq SongItems
      BY <2>2
    <3> QED BY <2>5, <2>6, <3>1, SongItemAddedAsIs DEF new
  <2>8. Key(new) = e
    BY <2>6 DEF Key
  <2> HIDE DEF new
  <2>9. Keys(g[k + 1]) = Keys(g[k]) \cup {e}
    BY <2>3, <2>7, <2>8 DEF Keys
  <2> USE DEF e
  <2>10. 1 .. k + 1 = (1 .. k) \cup {k + 1}
    OBVIOUS
  <2> QED BY <2>2, <2>9, <2>10
<1>8. \A k \in Nat : k \in P
  <2> HIDE DEF P
  <2> QED BY <1>6, <1>7, Induction
<1>9. Keys(g[n]) = {list[i] : i \in 1 .. n}
  BY <1>4, <1>8
<1> QED BY <1>3, <1>4, <1>9 DEF ToSet, list


-----------------------------------------------------------------------------
(* Hiscores that come best first are appended, each list until it is full. *)

SameList(e, h) == e.songid = h.songid /\ e.level = h.level /\ e.track = h.track
EarlierOwn(list, k, h) == {j \in 1 .. k : j \in OwnPlaces(list, h)}

LEMMA OwnPlacesOf ==
  ASSUME NEW list \in Seq(HiscoreEntries), NEW h
  PROVE  /\ OwnPlaces(list, h) = {i \in 1 .. Len(list) : SameList(list[i], h)}
         /\ IsFiniteSet(OwnPlaces(list, h)) /\ Cardinality(OwnPlaces(list, h)) \in Nat
<1>1. OwnPlaces(list, h) = {i \in 1 .. Len(list) : SameList(list[i], h)}
  BY DEF OwnPlaces, SameList
<1>2. Len(list) \in Nat
  OBVIOUS
<1>3. IsFiniteSet(1 .. Len(list))
  BY <1>2, Intervals
<1>4. IsFiniteSet(OwnPlaces(list, h))
  BY <1>1, <1>3, FS_Subset
<1> QED BY <1>1, <1>4, FS_CardinalityType

LEMMA OwnPlacesAppended ==
  ASSUME NEW list \in Seq(HiscoreEntries), NEW e \in HiscoreEntries, NEW h
  PROVE  Cardinality(OwnPlaces(Append(list, e), h)) =
           IF SameList(e, h) THEN Cardinality(OwnPlaces(list, h)) + 1 ELSE Cardinality(OwnPlaces(list, h))
<1> DEFINE n == Len(list)
           new == Append(list, e)
           S == OwnPlaces(list, h)
<1>1. /\ new \in Seq(HiscoreEntries) /\ Len(new) = n + 1 /\ n \in Nat
      /\ new[n + 1] = e /\ \A k \in 1 .. n : new[k] = list[k]
  OBVIOUS
<1> HIDE DEF new, n
<1>2. OwnPlaces(new, h) = {i \in 1 .. n + 1 : SameList(new[i], h)}
  BY <1>1, OwnPlacesOf
<1>3. S = {i \in 1 .. n : SameList(list[i], h)} /\ IsFiniteSet(S)
  BY OwnPlacesOf DEF n
<1>4. CASE SameList(e, h)
  <2>1. OwnPlaces(new, h) = S \cup {n + 1} /\ n + 1 \notin S
    BY <1>1, <1>2, <1>3, <1>4
  <2>2. Cardinality(S \cup {n + 1}) = Cardinality(S) + 1
    BY <1>3, <2>1, FS_AddElement
  <2> QED BY <1>4, <2>1, <2>2 DEF new
<1>5. CASE ~SameList(e, h)
  <2>1. OwnPlaces(new, h) = S
    BY <1>1, <1>2, <1>3, <1>5
  <2> QED BY <1>5, <2>1 DEF new
<1> QED BY <1>4, <1>5

LEMMA EarlierOwnOf ==
  ASSUME NEW list \in Seq(HiscoreEntries), NEW h, NEW k \in Nat, k + 1 <= Len(list)
  PROVE  /\ Cardinality(EarlierOwn(list, k, h)) \in Nat
         /\ Cardinality(EarlierOwn(list, k + 1, h)) =
              IF SameList(list[k + 1], h) THEN Cardinality(EarlierOwn(list, k, h)) + 1
              ELSE Cardinality(EarlierOwn(list, k, h))
<1> DEFINE S == EarlierOwn(list, k, h)
<1>1. OwnPlaces(list, h) = {i \in 1 .. Len(list) : SameList(list[i], h)} /\ Len(list) \in Nat
  BY OwnPlacesOf
<1>2. /\ S = {i \in 1 .. k : SameList(list[i], h)}
      /\ EarlierOwn(list, k + 1, h) = {i \in 1 .. k + 1 : SameList(list[i], h)}
  BY <1>1 DEF EarlierOwn
<1> HIDE DEF S
<1>3. IsFiniteSet(S)
  <2>1. IsFiniteSet(1 .. k)
    BY Intervals
  <2> QED BY <1>2, <2>1, FS_Subset
<1>4. Cardinality(S) \in Nat
  BY <1>3, FS_CardinalityType
<1>5. CASE SameList(list[k + 1], h)
  <2>1. EarlierOwn(list, k + 1, h) = S \cup {k + 1} /\ k + 1 \notin S
    BY <1>2, <1>5
  <2>2. Cardinality(S \cup {k + 1}) = Cardinality(S) + 1
    BY <1>3, <2>1, FS_AddElement
  <2> QED BY <1>4, <1>5, <2>1, <2>2 DEF S
<1>6. CASE ~SameList(list[k + 1], h)
  <2>1. EarlierOwn(list, k + 1, h) = S
    BY <1>2, <1>6
  <2> QED BY <1>4, <1>6, <2>1 DEF S
<1> QED BY <1>5, <1>6

LEMMA WorseIsAppended ==
  ASSUME NEW list \in Seq(HiscoreEntries), NEW e \in HiscoreEntries, NEW least,
         \A k \in 1 .. Len(list) : list[k].score >= e.score
  PROVE  AddHiscore(list, e, least) =
           IF e.score >= least /\ Cardinality(OwnPlaces(list, e)) < MaximumStoredScores
           THEN Append(list, e) ELSE list
<1> DEFINE n == Len(list)
<1>1. n \in Nat /\ NotBelow(list, e) = 1 .. n
  BY DEF NotBelow
<1>2. Cardinality(NotBelow(list, e)) = n
  BY <1>1, FS_Interval
<1>3. OwnPlaces(list, e) \cap NotBelow(list, e) = OwnPlaces(list, e)
  <2>1. OwnPlaces(list, e) = {i \in 1 .. n : SameList(list[i], e)}
    BY OwnPlacesOf
  <2> QED BY <1>1, <2>1
<1>4. InsertAt(list, n + 1, e) = Append(list, e)
  <2> DEFINE new == InsertAt(list, n + 1, e)
             app == Append(list, e)
  <2>1. n + 1 \in 1 .. n + 1
    BY <1>1
  <2>2. /\ new \in Seq(HiscoreEntries) /\ Len(new) = n + 1
        /\ \A k \in 1 .. n + 1 :
             new[k] = IF k < n + 1 THEN list[k] ELSE IF k = n + 1 THEN e ELSE list[k - 1]
    <3> DEFINE m == n + 1
    <3>1. m \in 1 .. n + 1
      BY <2>1
    <3> HIDE DEF m
    <3>2. /\ InsertAt(list, m, e) \in Seq(HiscoreEntries) /\ Len(InsertAt(list, m, e)) = n + 1
          /\ \A k \in 1 .. n + 1 :
               InsertAt(list, m, e)[k] = IF k < m THEN list[k] ELSE IF k = m THEN e ELSE list[k - 1]
      BY <3>1, InsertedAt
    <3> QED BY <3>2 DEF m
  <2>3. /\ app \in Seq(HiscoreEntries) /\ Len(app) = n + 1
        /\ app[n + 1] = e /\ \A k \in 1 .. n : app[k] = list[k]
    OBVIOUS
  <2> HIDE DEF new, app, n
  <2>4. \A k \in 1 .. n + 1 : new[k] = app[k]
    BY <1>1, <2>2, <2>3
  <2>5. new = app
    BY <2>2, <2>3, <2>4, SeqEqual
  <2> QED BY <2>5 DEF new, app
<1> QED BY <1>2, <1>3, <1>4 DEF AddHiscore, Reached

(* As many are kept of each list as were there, up to the maximum.         *)
KeptOf(d) == IF d < MaximumStoredScores THEN d ELSE MaximumStoredScores

LEMMA OneMoreKept ==
  ASSUME NEW c, NEW d \in Nat, c = KeptOf(d)
  PROVE  /\ c < MaximumStoredScores <=> d < MaximumStoredScores
         /\ KeptOf(d + 1) = IF c < MaximumStoredScores THEN c + 1 ELSE c
<1>1. MaximumStoredScores \in Nat
  BY RecordsAssumption, Zenon
<1> QED BY <1>1 DEF KeptOf

LEMMA BestAsLoaded ==
  ASSUME NEW f, AllGood(f.players), AllGood(f.songs), f.hiscores \in Sorted, NEW least \in Nat
  PROVE  LoadHiscores(f, least) = BestOf(f.hiscores, least)
<1> DEFINE list == f.hiscores
           n == Len(list)
<1>1. list \in Seq(HiscoreEntries) /\ n \in Nat /\ DOMAIN list = 1 .. n /\ BestFirst(list)
  BY DEF Sorted
<1>2. GoodPart(list) = list
  <2>1. list \in Seq(HiscoreEntries \cup {Bad})
    <3>1. \A E, F : E \subseteq F => Seq(E) \subseteq Seq(F)
      BY SeqMonotonic, Zenon
    <3> QED BY <1>1, <3>1
  <2>2. AllGood(list)
    BY <1>1, <2>1, GoodEntries, NoEntryIsBad
  <2> QED BY <2>2 DEF AllGood
<1>3. GoodPart(f.hiscores) \in Seq(HiscoreEntries) /\ GoodPart(f.hiscores) = list
  BY <1>1, <1>2
<1>4. PICK g : /\ g[0] = <<>> /\ LoadHiscores(f, least) = g[n]
               /\ \A k \in 1 .. n : g[k] = AddHiscore(g[k - 1], list[k], least)
               /\ \A k \in 0 .. n : g[k] \in Sorted
  <2>1. PICK g : /\ g[0] = <<>> /\ LoadHiscores(f, least) = g[Len(GoodPart(f.hiscores))]
                 /\ \A k \in 1 .. Len(GoodPart(f.hiscores)) :
                      g[k] = AddHiscore(g[k - 1], GoodPart(f.hiscores)[k], least)
                 /\ \A k \in 0 .. Len(GoodPart(f.hiscores)) : g[k] \in Sorted
    BY <1>3, HiscoresChain
  <2> QED BY <1>3, <2>1
<1>5. PICK b : /\ b[0] = <<>> /\ BestOf(list, least) = b[n]
               /\ \A k \in 1 .. n :
                    b[k] = IF IsKept(list, k, least) THEN Append(b[k - 1], list[k]) ELSE b[k - 1]
  BY <1>1, BestChain
<1>6. /\ \A k \in 1 .. n : list[k] \in HiscoreEntries /\ list[k].score \in Nat
      /\ \A k \in 1 .. n : \A j \in 1 .. k - 1 : j \in 1 .. n /\ list[j].score >= list[k].score
  <2>1. \A k \in 1 .. n : list[k] \in HiscoreEntries
    BY <1>1, Elements
  <2>2. \A e \in HiscoreEntries : e.score \in Nat
    BY DEF HiscoreEntries
  <2>3. \A k \in 1 .. n : \A j \in 1 .. k - 1 : j \in 1 .. n /\ j < k
    BY <1>1
  <2> QED BY <1>1, <2>1, <2>2, <2>3 DEF BestFirst
<1> HIDE DEF list, n
<1> DEFINE Seen(k) == \A x \in 1 .. Len(g[k]) : \E j \in 1 .. k : g[k][x] = list[j]
           Good(k) == \A j \in 1 .. k : list[j].score >= least
           Counts(k) == \A h \in HiscoreEntries :
                          Cardinality(OwnPlaces(g[k], h)) = KeptOf(Cardinality(EarlierOwn(list, k, h)))
           P == {k \in Nat : k <= n => g[k] = b[k] /\ Seen(k) /\ (Good(k) => Counts(k))}
<1>7. 0 \in P
  <2>1. g[0] = <<>> /\ b[0] = <<>> /\ Len(<<>>) = 0
    BY <1>4, <1>5
  <2>2. ASSUME NEW h \in HiscoreEntries
        PROVE  Cardinality(OwnPlaces(g[0], h)) = KeptOf(Cardinality(EarlierOwn(list, 0, h)))
    <3>1. OwnPlaces(g[0], h) = {} /\ EarlierOwn(list, 0, h) = {}
      BY <2>1 DEF OwnPlaces, EarlierOwn
    <3>2. Cardinality({}) = 0
      BY FS_EmptySet
    <3>3. KeptOf(0) = 0
      <4>1. MaximumStoredScores \in Nat \ {0}
        BY RecordsAssumption, Zenon
      <4> QED BY <4>1 DEF KeptOf
    <3> QED BY <3>1, <3>2, <3>3
  <2> QED BY <2>1, <2>2
<1>8. ASSUME NEW k \in Nat, k \in P PROVE k + 1 \in P
  <2> SUFFICES ASSUME k + 1 <= n
               PROVE  g[k + 1] = b[k + 1] /\ Seen(k + 1) /\ (Good(k + 1) => Counts(k + 1))
    OBVIOUS
  <2>1. k + 1 \in 1 .. n /\ k \in 0 .. n /\ (k + 1) - 1 = k /\ k <= n
    BY <1>1
  <2>2. g[k] = b[k] /\ Seen(k) /\ (Good(k) => Counts(k))
    BY <1>8, <2>1
  <2>3. PICK e : e = list[k + 1]
    OBVIOUS
  <2>4. e \in HiscoreEntries /\ e.score \in Nat
    BY <1>6, <2>1, <2>3
  <2>5. \A j \in 1 .. k : list[j].score >= e.score /\ list[j].score \in Nat
    BY <1>6, <2>1, <2>3
  <2>6. PICK c : c = g[k]
    OBVIOUS
  <2>7. c \in Seq(HiscoreEntries)
    BY <1>4, <2>1, <2>6 DEF Sorted
  <2>8. \A x \in 1 .. Len(c) : c[x].score >= e.score
    BY <2>2, <2>5, <2>6
  <2>9. AddHiscore(c, e, least) =
          IF e.score >= least /\ Cardinality(OwnPlaces(c, e)) < MaximumStoredScores THEN Append(c, e) ELSE c
    BY <2>4, <2>7, <2>8, WorseIsAppended
  <2>10. g[k + 1] = AddHiscore(c, e, least)
    BY <1>4, <2>1, <2>3, <2>6
  <2>11. b[k + 1] = IF IsKept(list, k + 1, least) THEN Append(c, e) ELSE c
    BY <1>5, <2>1, <2>2, <2>3, <2>6
  <2>12. e.score >= least => Good(k)
    BY <2>4, <2>5
  <2>13. Good(k) => \A h \in HiscoreEntries :
           Cardinality(OwnPlaces(c, h)) = KeptOf(Cardinality(EarlierOwn(list, k, h)))
    BY <2>2, <2>6
  <2>14. \A h : Cardinality(EarlierOwn(list, k, h)) \in Nat
    BY <1>1, EarlierOwnOf DEF list, n
  <2>15. IsKept(list, k + 1, least) <=>
           e.score >= least /\ Cardinality(OwnPlaces(c, e)) < MaximumStoredScores
    <3>1. IsKept(list, k + 1, least) <=>
            e.score >= least /\ Cardinality(EarlierOwn(list, k, e)) < MaximumStoredScores
      BY <2>1, <2>3 DEF IsKept, EarlierOwn
    <3>2. CASE e.score >= least
      <4>1. Cardinality(OwnPlaces(c, e)) = KeptOf(Cardinality(EarlierOwn(list, k, e)))
        BY <2>4, <2>12, <2>13, <3>2
      <4>2. Cardinality(OwnPlaces(c, e)) < MaximumStoredScores <=>
              Cardinality(EarlierOwn(list, k, e)) < MaximumStoredScores
        BY <2>14, <4>1, OneMoreKept
      <4> QED BY <3>1, <4>2
    <3> QED BY <3>1, <3>2
  <2>16. g[k + 1] = b[k + 1]
    BY <2>9, <2>10, <2>11, <2>15
  <2>17. Seen(k + 1)
    <3>1. \A j \in 1 .. k : j \in 1 .. k + 1
      OBVIOUS
    <3>2. CASE g[k + 1] = c
      BY <2>2, <2>6, <3>1, <3>2
    <3>3. CASE g[k + 1] = Append(c, e)
      <4>1. /\ Len(Append(c, e)) = Len(c) + 1 /\ Append(c, e)[Len(c) + 1] = e /\ Len(c) \in Nat
            /\ \A x \in 1 .. Len(c) : Append(c, e)[x] = c[x]
        BY <2>7
      <4>2. \A x \in 1 .. Len(c) + 1 : x \in 1 .. Len(c) \/ x = Len(c) + 1
        BY <4>1
      <4>3. \A x \in 1 .. Len(c) : \E j \in 1 .. k + 1 : Append(c, e)[x] = list[j]
        BY <2>2, <2>6, <3>1, <4>1
      <4>4. k + 1 \in 1 .. k + 1 /\ Append(c, e)[Len(c) + 1] = list[k + 1]
        BY <2>3, <4>1
      <4> QED BY <3>3, <4>1, <4>2, <4>3, <4>4
    <3> QED BY <2>9, <2>10, <3>2, <3>3
  <2>18. ASSUME Good(k + 1) PROVE Counts(k + 1)
    <3>1. e.score >= least
      BY <2>3, <2>18
    <3> SUFFICES ASSUME NEW h \in HiscoreEntries
                 PROVE  Cardinality(OwnPlaces(g[k + 1], h)) = KeptOf(Cardinality(EarlierOwn(list, k + 1, h)))
      BY Zenon
    <3>2. PICK d : d = Cardinality(EarlierOwn(list, k, h))
      OBVIOUS
    <3>3. PICK m : m = Cardinality(OwnPlaces(c, h))
      OBVIOUS
    <3>4. d \in Nat /\ m = KeptOf(d)
      BY <2>12, <2>13, <2>14, <3>1, <3>2, <3>3
    <3>5. /\ m < MaximumStoredScores <=> d < MaximumStoredScores
          /\ KeptOf(d + 1) = IF m < MaximumStoredScores THEN m + 1 ELSE m
      BY <3>4, OneMoreKept
    <3>6. Cardinality(EarlierOwn(list, k + 1, h)) = IF SameList(e, h) THEN d + 1 ELSE d
      BY <1>1, <2>3, <3>2, EarlierOwnOf DEF list, n
    <3>7. Cardinality(OwnPlaces(Append(c, e), h)) = IF SameList(e, h) THEN m + 1 ELSE m
      BY <2>4, <2>7, <3>3, OwnPlacesAppended
    <3>8. CASE SameList(e, h)
      <4>1. OwnPlaces(c, e) = OwnPlaces(c, h)
        BY <3>8 DEF OwnPlaces, SameList
      <4>2. g[k + 1] = IF m < MaximumStoredScores THEN Append(c, e) ELSE c
        BY <2>9, <2>10, <3>1, <3>3, <4>1
      <4> QED BY <3>3, <3>5, <3>6, <3>7, <3>8, <4>2
    <3>9. CASE ~SameList(e, h)
      <4>1. g[k + 1] = Append(c, e) \/ g[k + 1] = c
        BY <2>9, <2>10
      <4> QED BY <3>3, <3>4, <3>6, <3>7, <3>9, <4>1
    <3> QED BY <3>8, <3>9
  <2> QED BY <2>16, <2>17, <2>18
<1>9. \A k \in Nat : k \in P
  <2> HIDE DEF P
  <2> QED BY <1>7, <1>8, Induction
<1>10. g[n] = b[n]
  BY <1>1, <1>9
<1> QED BY <1>4, <1>5, <1>10 DEF list


-----------------------------------------------------------------------------
(* The players and their filter.                                           *)

PlayersType ==
  [all : SUBSET PlayerItems, filtered : Seq(PlayerItems), filter : STRING, target : Nat,
   dirty : BOOLEAN]
Matching(all, text) == {q \in all : text = "" \/ <<q.name, text>> \in Includes}
GoodPlayers(p) ==
  /\ p \in PlayersType /\ WithIds(p.all)
  /\ ~p.dirty => ToSet(p.filtered) = Matching(p.all, p.filter)

LEMMA PartHasIds ==
  ASSUME NEW all, WithIds(all), NEW part \in SUBSET all
  PROVE  WithIds(part)
<1>1. IsFiniteSet(part)
  BY FS_Subset DEF WithIds
<1> QED BY <1>1 DEF WithIds

LEMMA Filtered ==
  ASSUME NEW p \in PlayersType, WithIds(p.all), NEW text \in STRING
  PROVE  /\ GoodPlayers(FilterInternal(p, text)) /\ FilterInternal(p, text).all = p.all
         /\ FilterInternal(p, text).filter = text /\ FilterInternal(p, text).dirty = FALSE
         /\ Current(p) = "" => FilterInternal(p, text).target = 0
<1> DEFINE new == FilterInternal(p, text)
           part == Matching(p.all, text)
           list == ById(part)
           same == {i \in DOMAIN list : list[i].name = Current(p)}
           place == IF Current(p) = "" \/ same = {} THEN 0 ELSE Min(same) - 1
<1>1. part \in SUBSET p.all /\ p.all \in SUBSET PlayerItems
  BY DEF Matching, PlayersType
<1>2. WithIds(part)
  BY <1>1, PartHasIds
<1>3. list \in Seq(part) /\ ToSet(list) = part
  BY <1>2, SortedById
<1>4. list \in Seq(PlayerItems)
  <2>1. part \subseteq PlayerItems
    BY <1>1
  <2> HIDE DEF part, list
  <2>2. \A E, F : E \subseteq F => Seq(E) \subseteq Seq(F)
    BY SeqMonotonic, Zenon
  <2> QED BY <1>3, <2>1, <2>2
<1>5. new = [p EXCEPT !.filter = text, !.dirty = FALSE, !.filtered = list, !.target = place]
  BY DEF FilterInternal, Matching
<1>6. place \in Nat
  <2>1. DOMAIN list \subseteq Nat \ {0}
    BY <1>4
  <2> HIDE DEF list
  <2>2. CASE same = {} \/ Current(p) = ""
    BY <2>2
  <2>3. CASE same # {} /\ Current(p) # ""
    <3>1. same \in SUBSET Nat /\ same \subseteq Nat \ {0}
      BY <2>1
    <3>2. Min(same) \in same
      BY <2>3, <3>1, MinOf
    <3>3. PICK m : m = Min(same)
      OBVIOUS
    <3>4. m \in Nat \ {0}
      BY <3>1, <3>2, <3>3
    <3> HIDE DEF same
    <3>5. m - 1 \in Nat
      BY <3>4
    <3> QED BY <2>3, <3>3, <3>5
  <2> QED BY <2>2, <2>3
<1>7. Current(p) = "" => place = 0
  OBVIOUS
<1> HIDE DEF list, place
<1>8. /\ new \in PlayersType /\ new.all = p.all /\ new.filter = text /\ new.dirty = FALSE
      /\ new.filtered = list /\ new.target = place
  BY <1>4, <1>5, <1>6 DEF PlayersType
<1>9. GoodPlayers(new)
  BY <1>3, <1>8 DEF GoodPlayers, list
<1> QED BY <1>7, <1>8, <1>9

LEMMA FilterSet ==
  ASSUME NEW p, GoodPlayers(p), NEW text \in STRING
  PROVE  /\ GoodPlayers(SetFilter(p, text)) /\ SetFilter(p, text).all = p.all
         /\ SetFilter(p, text).filter = text
         /\ p.dirty = FALSE => SetFilter(p, text).dirty = FALSE
<1>1. p \in PlayersType /\ WithIds(p.all)
  BY DEF GoodPlayers
<1>2. /\ GoodPlayers(FilterInternal(p, text)) /\ FilterInternal(p, text).all = p.all
      /\ FilterInternal(p, text).filter = text /\ FilterInternal(p, text).dirty = FALSE
  BY <1>1, Filtered
<1> QED BY <1>2 DEF SetFilter

LEMMA Updated ==
  ASSUME NEW p, GoodPlayers(p)
  PROVE  /\ GoodPlayers(Update(p)) /\ Update(p).all = p.all
         /\ Update(p).filter = p.filter /\ Update(p).dirty = FALSE
<1>1. p \in PlayersType /\ WithIds(p.all) /\ p.filter \in STRING /\ p.dirty \in BOOLEAN
  BY DEF GoodPlayers, PlayersType
<1>2. /\ GoodPlayers(FilterInternal(p, p.filter)) /\ FilterInternal(p, p.filter).all = p.all
      /\ FilterInternal(p, p.filter).filter = p.filter /\ FilterInternal(p, p.filter).dirty = FALSE
  BY <1>1, Filtered
<1> QED BY <1>1, <1>2 DEF Update

(* What can be searched for.                                               *)
Searches == Names \cup {""}

LEMMA SearchesMatch ==
  ASSUME NEW text \in Searches
  PROVE  text \in STRING /\ (text = "" \/ <<text, text>> \in Includes)
<1>1. Names \cup {""} \subseteq STRING /\ \A n \in Names : <<n, n>> \in Includes
  BY RecordsAssumption, Zenon
<1>2. CASE text \in Names
  BY <1>1, <1>2, Zenon
<1>3. CASE text = ""
  BY <1>1, <1>3, Zenon
<1> QED BY <1>2, <1>3, Zenon DEF Searches

(* A player of the name that was typed is made if no name matches, and is  *)
(* the one selected then.                                                  *)
LEMMA NewPlayerMade ==
  ASSUME NEW p, GoodPlayers(p), p.dirty = FALSE, p.filter = search,
         search \in Searches
  PROVE  /\ GoodPlayers(NewPlayer(p)) /\ NewPlayer(p).dirty = FALSE /\ NewPlayer(p).filter = search
         /\ p.all \subseteq NewPlayer(p).all /\ \A q \in NewPlayer(p).all \ p.all : Above(p.all, q)
         /\ p.filtered = <<>> /\ PlayerIds(NewPlayer(p), search) # {} =>
              Current(NewPlayer(p)) = search
<1>1. CASE p.filtered # <<>>
  BY <1>1 DEF NewPlayer
<1>2. CASE p.filtered = <<>>
  <2> DEFINE more == AddPlayer(p.all, search, NoId)
             dirtied == [p EXCEPT !.all = more, !.dirty = TRUE]
             new == FilterInternal(dirtied, search)
  <2>1. p \in PlayersType /\ WithIds(p.all) /\ p.all \subseteq PlayerItems
    BY DEF GoodPlayers, PlayersType
  <2>2. NoId \in Nat \cup {NoId} /\ search \in STRING
    <3>2. search \in STRING
      BY SearchesMatch, Zenon
    <3>3. NoId \in Nat \cup {NoId}
      OBVIOUS
    <3> QED BY <3>2, <3>3
  <2>3. /\ Adds(p.all, more, [id : Nat, name : {search}], NoId = NoId)
        /\ more \subseteq PlayerItems
    BY <2>1, <2>2, PlayerAdded
  <2>4. /\ WithIds(more) /\ p.all \subseteq more
        /\ \A q \in more \ p.all : q.name = search /\ Above(p.all, q)
    BY <2>3 DEF Adds
  <2> HIDE DEF more
  <2>5. /\ dirtied \in PlayersType /\ dirtied.all = more /\ dirtied.dirty = TRUE
        /\ dirtied.filter = search /\ dirtied.filtered = <<>>
    BY <1>2, <2>1, <2>3 DEF PlayersType
  <2> HIDE DEF dirtied
  <2>6. Current(dirtied) = ""
    <3>1. dirtied.target \in Nat /\ Len(<<>>) = 0
      BY <2>5 DEF PlayersType
    <3>2. Len(dirtied.filtered) = 0
      BY <2>5, <3>1
    <3>3. PICK t : t = dirtied.target
      OBVIOUS
    <3>4. t \in Nat /\ ~(t < 0)
      BY <3>1, <3>3
    <3> QED BY <3>2, <3>3, <3>4 DEF Current
  <2>7. NewPlayer(p) = new
    <3>1. SetFilter(dirtied, search) = dirtied
      BY <2>5 DEF SetFilter
    <3>2. Update(dirtied) = new
      BY <2>5 DEF Update
    <3> QED BY <1>2, <3>1, <3>2 DEF NewPlayer, dirtied, more
  <2>8. /\ GoodPlayers(new) /\ new.all = more /\ new.filter = search /\ new.dirty = FALSE
        /\ new.target = 0
    BY <2>2, <2>4, <2>5, <2>6, Filtered
  <2> HIDE DEF new
  <2>9. ASSUME PlayerIds(new, search) # {} PROVE Current(new) = search
    <3>1. Matching(p.all, search) = {}
      <4>1. ToSet(<<>>) = {}
        <5>1. DOMAIN <<>> = {}
          OBVIOUS
        <5> QED BY <5>1 DEF ToSet
      <4> QED BY <1>2, <4>1 DEF GoodPlayers
    <3>2. ToSet(new.filtered) = Matching(more, search)
      BY <2>8 DEF GoodPlayers
    <3>3. PICK q \in more : q.name = search
      BY <2>8, <2>9 DEF PlayerIds
    <3>5. q \in ToSet(new.filtered)
      BY <3>2, <3>3, SearchesMatch, Zenon DEF Matching
    <3>6. new.filtered \in Seq(PlayerItems)
      BY <2>8 DEF GoodPlayers, PlayersType
    <3>7. 0 < Len(new.filtered) /\ new.filtered[1] \in ToSet(new.filtered)
      <4>1. PICK list : list = new.filtered
        OBVIOUS
      <4>2. Len(list) \in Nat /\ DOMAIN list = 1 .. Len(list)
        BY <3>6, <4>1
      <4>3. PICK i \in 1 .. Len(list) : q = list[i]
        BY <3>5, <4>1, <4>2 DEF ToSet
      <4>4. 0 < Len(list) /\ 1 \in DOMAIN list
        BY <4>2, <4>3
      <4> QED BY <4>1, <4>4 DEF ToSet
    <3>8. Current(new) = new.filtered[1].name
      <4>1. new.target < Len(new.filtered) /\ new.target + 1 = 1
        BY <2>8, <3>7
      <4> QED BY <4>1 DEF Current
    <3>9. new.filtered[1] \in more \ p.all
      BY <3>1, <3>2, <3>7 DEF Matching
    <3> QED BY <2>4, <3>8, <3>9
  <2> QED BY <2>4, <2>7, <2>8, <2>9
<1> QED BY <1>1, <1>2


-----------------------------------------------------------------------------
(* The songs: what is linked to a Song is the first item of its title, and *)
(* what is added comes last.                                               *)

IsFirst(all, i) == \A j \in all : j.title = i.title => i.id <= j.id
GoodSongs(all) ==
  /\ all \subseteq SongItems /\ WithIds(all)
  /\ \A i \in all : i.song # NoSong => i.title = Title[i.song] /\ IsFirst(all, i)
Same(i, j) == i.id = j.id /\ i.title = j.title
Grows(all, new) ==
  /\ \A i \in all : \E j \in new : Same(i, j)
  /\ \A j \in new : (\E i \in all : Same(i, j)) \/ Above(all, j)

LEMMA TitleType == \A s \in SongObjects : Title[s] \in STRING
<1>1. Title \in [SongObjects -> STRING]
  BY RecordsAssumption, Zenon
<1> QED BY <1>1

LEMMA FirstStays ==
  ASSUME NEW all, WithIds(all), NEW new, WithIds(new), Grows(all, new),
         NEW i \in all, IsFirst(all, i), NEW j \in new, Same(i, j)
  PROVE  IsFirst(new, j)
<1> SUFFICES ASSUME NEW k \in new, k.title = j.title PROVE j.id <= k.id
  BY DEF IsFirst
<1>1. j.id = i.id /\ k.title = i.title /\ i.id \in Nat /\ k.id \in Nat
  BY DEF Same, WithIds
<1>2. CASE \E m \in all : Same(m, k)
  <2>1. PICK m \in all : m.id = k.id /\ m.title = k.title
    BY <1>2 DEF Same
  <2> QED BY <1>1, <2>1 DEF IsFirst
<1>3. CASE Above(all, k)
  <2>1. i.id < k.id
    BY <1>3 DEF Above
  <2> QED BY <1>1, <2>1
<1> QED BY <1>2, <1>3 DEF Grows

LEMMA FirstOfTitle ==
  ASSUME NEW all, WithIds(all), NEW s, \E i \in all : i.title = Title[s]
  PROVE  /\ SongIds(all, s) # {} /\ SongId(all, s) \in Nat
         /\ \E i \in all : i.id = SongId(all, s) /\ i.title = Title[s] /\ IsFirst(all, i)
<1> DEFINE ids == SongIds(all, s)
<1>1. \A x : x \in ids <=> \E i \in all : i.title = Title[s] /\ x = i.id
  BY DEF SongIds
<1> HIDE DEF ids
<1>2. ids # {} /\ ids \in SUBSET Nat
  BY <1>1 DEF WithIds
<1>3. Min(ids) \in ids /\ \A x \in ids : Min(ids) <= x
  BY <1>2, MinOf
<1>4. PICK i \in all : i.title = Title[s] /\ Min(ids) = i.id
  BY <1>1, <1>3
<1>5. IsFirst(all, i)
  BY <1>1, <1>3, <1>4 DEF IsFirst
<1>6. SongId(all, s) = Min(ids)
  BY DEF SongId, ids
<1> QED BY <1>2, <1>3, <1>4, <1>5, <1>6 DEF ids

LEMMA SongItemForNew ==
  ASSUME NEW all, GoodSongs(all), NEW s \in SongObjects, SongIds(all, s) = {},
         NEW new, new = AddSongItem(all, Title[s], FALSE, NoId)
  PROVE  GoodSongs(new) /\ Grows(all, new) /\ \E i \in new : i.title = Title[s]
<1> DEFINE title == Title[s]
<1>1. WithIds(all) /\ all \subseteq SongItems /\ title \in STRING
  BY TitleType DEF GoodSongs
<1> HIDE DEF title
<1>2. FALSE \in BOOLEAN /\ NoId \in Nat \cup {NoId}
  OBVIOUS
<1>3. /\ Adds(all, new, [id : Nat, title : {title}, broken : {FALSE}, song : {NoSong}], NoId = NoId)
      /\ new \subseteq SongItems /\ (NoId = NoId => \E i \in new : i.title = title)
  BY <1>1, <1>2, SongItemAdded DEF title
<1>4. /\ WithIds(new) /\ all \subseteq new
      /\ \A j \in new \ all : j.song = NoSong /\ Above(all, j)
  BY <1>3 DEF Adds
<1>5. Grows(all, new)
  BY <1>4 DEF Grows, Same
<1>6. ASSUME NEW i \in new, i.song # NoSong PROVE i.title = Title[i.song] /\ IsFirst(new, i)
  <2>1. i \in all
    BY <1>4, <1>6
  <2>2. i.title = Title[i.song] /\ IsFirst(all, i)
    BY <1>6, <2>1 DEF GoodSongs
  <2>3. IsFirst(new, i)
    BY <1>1, <1>4, <1>5, <2>1, <2>2, FirstStays DEF Same
  <2> QED BY <2>2, <2>3
<1>7. GoodSongs(new)
  BY <1>3, <1>4, <1>6 DEF GoodSongs
<1> QED BY <1>3, <1>5, <1>7 DEF title

LEMMA SongLinked ==
  ASSUME NEW all, GoodSongs(all), NEW s \in SongObjects, \E i \in all : i.title = Title[s],
         NEW item \in all, item.id = SongId(all, s),
         NEW link \in SongItems, Same(link, item), link.song = s,
         NEW new, new = (all \ {item}) \cup {link}
  PROVE  GoodSongs(new) /\ Grows(all, new) /\ \E i \in new : i.title = Title[s]
<1>1. WithIds(all) /\ all \subseteq SongItems
  BY DEF GoodSongs
<1>2. PICK i \in all : i.id = SongId(all, s) /\ i.title = Title[s] /\ IsFirst(all, i)
  BY <1>1, FirstOfTitle
<1>3. item = i
  BY <1>1, <1>2 DEF WithIds
<1>4. item.title = Title[s] /\ IsFirst(all, item)
  BY <1>1, <1>2, <1>3
<1>5. link.id = item.id /\ link.title = item.title
  BY DEF Same
<1>6. \A a \in new : a = link \/ (a \in all /\ a # item)
  OBVIOUS
<1>7. WithIds(new)
  <2>1. IsFiniteSet(all) /\ IsFiniteSet(all \ {item})
    BY <1>1, FS_Subset DEF WithIds
  <2>2. IsFiniteSet(new)
    <3>1. IsFiniteSet((all \ {item}) \cup {link})
      BY <2>1, FS_AddElement
    <3> QED BY <3>1
  <2>3. \A a \in new : a.id \in Nat
    BY <1>1, <1>5, <1>6 DEF WithIds
  <2>4. ASSUME NEW a \in new, NEW b \in new, a.id = b.id PROVE a = b
    <3>1. \A c \in all : c.id = item.id => c = item
      BY <1>1 DEF WithIds
    <3>2. \A c, d \in all : c.id = d.id => c = d
      BY <1>1 DEF WithIds
    <3>3. (a = link \/ (a \in all /\ a # item)) /\ (b = link \/ (b \in all /\ b # item))
      BY <1>6
    <3> QED BY <1>5, <2>4, <3>1, <3>2, <3>3
  <2> QED BY <2>2, <2>3, <2>4 DEF WithIds
<1>8. Grows(all, new)
  <2>1. \A a \in all : \E j \in new : Same(a, j)
    BY <1>5 DEF Same
  <2>2. \A j \in new : \E a \in all : Same(a, j)
    BY <1>5, <1>6 DEF Same
  <2> QED BY <2>1, <2>2 DEF Grows
<1>9. ASSUME NEW j \in new, j.song # NoSong PROVE j.title = Title[j.song] /\ IsFirst(new, j)
  <2>1. CASE j = link
    <3>1. IsFirst(new, j)
      BY <1>1, <1>4, <1>5, <1>7, <1>8, <2>1, FirstStays DEF Same
    <3> QED BY <1>4, <1>5, <2>1, <3>1
  <2>2. CASE j # link
    <3>1. j \in all
      BY <1>6, <2>2
    <3>2. j.title = Title[j.song] /\ IsFirst(all, j)
      BY <1>9, <3>1 DEF GoodSongs
    <3>3. IsFirst(new, j)
      BY <1>1, <1>7, <1>8, <3>1, <3>2, FirstStays DEF Same
    <3> QED BY <3>2, <3>3
  <2> QED BY <2>1, <2>2
<1>10. new \subseteq SongItems
  BY <1>1
<1>11. GoodSongs(new)
  BY <1>7, <1>9, <1>10 DEF GoodSongs
<1>12. link \in new /\ link.title = Title[s]
  BY <1>4, <1>5
<1> QED BY <1>8, <1>11, <1>12

LEMMA GrowsTwice ==
  ASSUME NEW all, WithIds(all), NEW more, WithIds(more), NEW new, WithIds(new),
         Grows(all, more), Grows(more, new)
  PROVE  Grows(all, new)
<1>1. \A i \in all : \E j \in new : Same(i, j)
  BY DEF Grows, Same
<1>2. ASSUME NEW j \in new PROVE (\E i \in all : Same(i, j)) \/ Above(all, j)
  <2>1. CASE \E i \in more : Same(i, j)
    BY <2>1 DEF Grows, Same, Above
  <2>2. CASE Above(more, j)
    BY <2>2 DEF Grows, Same, Above
  <2> QED BY <2>1, <2>2 DEF Grows
<1> QED BY <1>1, <1>2 DEF Grows

LEMMA MarkType ==
  ASSUME NEW item \in SongItems
  PROVE  IsBroken(item) \in BOOLEAN
<1>1. item.broken \in BOOLEAN
  BY DEF SongItems
<1>2. CASE item.song = NoSong
  BY <1>1, <1>2 DEF IsBroken
<1>3. CASE item.song # NoSong /\ item.song \in broken
  <2>1. IsBroken(item) = TRUE
    BY <1>3 DEF IsBroken
  <2> QED BY <2>1
<1>4. CASE item.song # NoSong /\ item.song \notin broken
  <2>1. IsBroken(item) = FALSE
    BY <1>4 DEF IsBroken
  <2> QED BY <2>1
<1> QED BY <1>2, <1>3, <1>4

LEMMA SongAdded ==
  ASSUME GoodSongs(songs), NEW s \in SongObjects, AddSong(s)
  PROVE  GoodSongs(songs') /\ Grows(songs, songs') /\ \E i \in songs' : i.title = Title[s]
<1> DEFINE items == IF SongIds(songs, s) = {} THEN AddSongItem(songs, Title[s], FALSE, NoId) ELSE songs
           item == CHOOSE i \in items : i.id = SongId(items, s)
<1>1. songs' = (items \ {item}) \cup {[item EXCEPT !.broken = IsBroken(item), !.song = s]}
  BY DEF AddSong
<1>2. GoodSongs(items) /\ Grows(songs, items) /\ \E i \in items : i.title = Title[s]
  <2>1. CASE SongIds(songs, s) = {}
    BY <2>1, SongItemForNew
  <2>2. CASE SongIds(songs, s) # {}
    <3>1. \E i \in songs : i.title = Title[s]
      BY <2>2 DEF SongIds
    <3>2. Grows(songs, songs)
      BY DEF Grows, Same
    <3> QED BY <2>2, <3>1, <3>2
  <2> QED BY <2>1, <2>2
<1> HIDE DEF items
<1>3. item \in items /\ item.id = SongId(items, s)
  <2>1. \E i \in items : i.id = SongId(items, s)
    BY <1>2, FirstOfTitle DEF GoodSongs
  <2> QED BY <2>1
<1> HIDE DEF item
<1>4. item \in SongItems
  BY <1>2, <1>3 DEF GoodSongs
<1>5. IsBroken(item) \in BOOLEAN
  BY <1>4, MarkType
<1>6. GoodSongs(songs') /\ Grows(items, songs') /\ \E i \in songs' : i.title = Title[s]
  <2>1. PICK mark : mark = IsBroken(item)
    OBVIOUS
  <2>2. PICK link : link = [item EXCEPT !.broken = mark, !.song = s]
    OBVIOUS
  <2>3. link \in SongItems /\ Same(link, item) /\ link.song = s
    BY <1>4, <1>5, <2>1, <2>2 DEF SongItems, Same
  <2>4. songs' = (items \ {item}) \cup {link}
    BY <1>1, <2>1, <2>2
  <2> QED BY <1>2, <1>3, <2>3, <2>4, SongLinked
<1>7. Grows(songs, songs')
  BY <1>2, <1>6, GrowsTwice DEF GoodSongs
<1> QED BY <1>6, <1>7

-----------------------------------------------------------------------------
(* What is loaded from any file, and what is written.                      *)

TypedFile(f) ==
  /\ f.players \in Seq(PlayerEntries \cup {Bad}) /\ f.songs \in Seq(SongEntries \cup {Bad})
  /\ f.hiscores \in Seq(HiscoreEntries \cup {Bad})
Written(f) ==
  /\ OwnFile(f) /\ f.players \in Seq(PlayerEntries) /\ f.songs \in Seq(SongEntries)
  /\ f.hiscores \in Sorted

LEMMA FilesAreTyped ==
  /\ \A f \in Files : TypedFile(f)
  /\ \A f : Written(f) => TypedFile(f)
<1>1. \A f \in Files : TypedFile(f)
  BY RecordsAssumption, Zenon DEF TypedFile
<1>2. \A E, F : E \subseteq F => Seq(E) \subseteq Seq(F)
  BY SeqMonotonic, Zenon
<1>3. /\ PlayerEntries \subseteq PlayerEntries \cup {Bad} /\ SongEntries \subseteq SongEntries \cup {Bad}
      /\ HiscoreEntries \subseteq HiscoreEntries \cup {Bad} /\ Sorted \subseteq Seq(HiscoreEntries)
  BY DEF Sorted
<1>4. /\ Seq(PlayerEntries) \subseteq Seq(PlayerEntries \cup {Bad})
      /\ Seq(SongEntries) \subseteq Seq(SongEntries \cup {Bad})
      /\ Seq(HiscoreEntries) \subseteq Seq(HiscoreEntries \cup {Bad})
  BY <1>2, <1>3, Zenon
<1>5. \A f : Written(f) => TypedFile(f)
  BY <1>3, <1>4, Zenon DEF Written, TypedFile
<1> QED BY <1>1, <1>5

LEMMA OwnFileIsWritten ==
  ASSUME NEW f, TypedFile(f), OwnFile(f)
  PROVE  Written(f)
<1>1. /\ GoodPart(f.players) = f.players /\ GoodPart(f.songs) = f.songs
      /\ GoodPart(f.hiscores) = f.hiscores /\ BestFirst(f.hiscores)
  BY DEF OwnFile, AllGood
<1>2. /\ GoodPart(f.players) \in Seq(PlayerEntries) /\ GoodPart(f.songs) \in Seq(SongEntries)
      /\ GoodPart(f.hiscores) \in Seq(HiscoreEntries)
  BY GoodEntries, NoEntryIsBad DEF TypedFile
<1> QED BY <1>1, <1>2 DEF Written, Sorted

LEMMA PlayersLoaded ==
  ASSUME NEW f, TypedFile(f)
  PROVE  /\ LoadPlayers(f) \subseteq PlayerItems /\ WithIds(LoadPlayers(f))
         /\ GoodPlayers(LoadedPlayers(f)) /\ LoadedPlayers(f).all = LoadPlayers(f)
<1> DEFINE all == LoadPlayers(f)
           list == GoodPart(f.players)
<1>1. list \in Seq(PlayerEntries)
  BY GoodEntries, NoEntryIsBad DEF TypedFile
<1>2. all \subseteq PlayerItems /\ WithIds(all)
  <2>1. PICK g : /\ LoadPlayers(f) = g[Len(GoodPart(f.players))]
                 /\ \A k \in 0 .. Len(GoodPart(f.players)) : g[k] \subseteq PlayerItems /\ WithIds(g[k])
    BY <1>1, PlayersChain
  <2>2. Len(list) \in 0 .. Len(list)
    BY <1>1
  <2> QED BY <2>1, <2>2
<1> DEFINE good == AllGood(f.players)
           dirty == ~good
           sorted == IF good THEN ById(all) ELSE <<>>
<1>3. PICK none : none = ""
  BY Zenon
<1>4. none \in STRING /\ Matching(all, none) = all
  BY <1>3, SearchesMatch, Zenon DEF Searches, Matching
<1>5. LoadedPlayers(f) =
        [all |-> all, filter |-> none, target |-> 0, dirty |-> dirty, filtered |-> sorted]
  BY <1>3, Zenon DEF LoadedPlayers
<1>6. sorted \in Seq(PlayerItems) /\ (good => ToSet(sorted) = all)
  <2>1. ById(all) \in Seq(all) /\ ToSet(ById(all)) = all
    BY <1>2, SortedById
  <2>2. \A E, F : E \subseteq F => Seq(E) \subseteq Seq(F)
    BY SeqMonotonic, Zenon
  <2>3. ById(all) \in Seq(PlayerItems)
    BY <1>2, <2>1, <2>2, Zenon
  <2>4. <<>> \in Seq(PlayerItems)
    OBVIOUS
  <2> QED BY <2>1, <2>3, <2>4, Zenon
<1>7. dirty \in BOOLEAN /\ (~dirty => good)
  <2>1. CASE good
    BY <2>1
  <2>2. CASE ~good
    BY <2>2
  <2> QED BY <2>1, <2>2
<1> HIDE DEF all, sorted, dirty, good
<1> DEFINE p == [all |-> all, filter |-> none, target |-> 0, dirty |-> dirty, filtered |-> sorted]
<1>8. /\ p \in PlayersType /\ p.all = all /\ p.filter = none /\ p.dirty = dirty /\ p.filtered = sorted
  BY <1>2, <1>4, <1>6, <1>7 DEF PlayersType
<1> HIDE DEF p
<1>9. GoodPlayers(p)
  BY <1>2, <1>4, <1>6, <1>7, <1>8 DEF GoodPlayers
<1>10. LoadedPlayers(f) = p
  BY <1>5 DEF p
<1> QED BY <1>2, <1>8, <1>9, <1>10 DEF all

LEMMA SongsLoaded ==
  ASSUME NEW f, TypedFile(f)
  PROVE  GoodSongs(LoadSongs(f))
<1> DEFINE all == LoadSongs(f)
<1>1. all \subseteq UnlinkedItems /\ WithIds(all)
  <2>1. CASE ~AllGood(f.players)
    <3>1. all = {} /\ WithIds({})
      BY <2>1, FS_EmptySet DEF LoadSongs, WithIds
    <3> QED BY <3>1
  <2>2. CASE AllGood(f.players)
    <3>1. GoodPart(f.songs) \in Seq(SongEntries)
      BY GoodEntries, NoEntryIsBad DEF TypedFile
    <3>2. PICK g : /\ LoadSongs(f) = g[Len(GoodPart(f.songs))]
                   /\ \A k \in 0 .. Len(GoodPart(f.songs)) : g[k] \subseteq UnlinkedItems /\ WithIds(g[k])
      BY <2>2, <3>1, SongsChain
    <3>3. Len(GoodPart(f.songs)) \in 0 .. Len(GoodPart(f.songs))
      BY <3>1
    <3> QED BY <3>2, <3>3
  <2> QED BY <2>1, <2>2
<1> HIDE DEF all
<1>2. UnlinkedItems \subseteq SongItems /\ \A i \in UnlinkedItems : i.song = NoSong
  BY DEF UnlinkedItems, SongItems
<1> QED BY <1>1, <1>2 DEF GoodSongs, all

LEMMA HiscoresLoaded ==
  ASSUME NEW f, TypedFile(f), NEW least \in Nat
  PROVE  /\ LoadHiscores(f, least) \in Sorted
         /\ AllGood(f.players) /\ AllGood(f.songs) =>
              ToSet(LoadHiscores(f, least)) \subseteq ToSet(GoodPart(f.hiscores))
         /\ ~(AllGood(f.players) /\ AllGood(f.songs)) => LoadHiscores(f, least) = <<>>
<1>1. <<>> \in Sorted /\ ToSet(<<>>) = {}
  <2>1. DOMAIN <<>> = {} /\ <<>> \in Seq(HiscoreEntries)
    OBVIOUS
  <2> QED BY <2>1 DEF Sorted, BestFirst, ToSet
<1>2. CASE ~(AllGood(f.players) /\ AllGood(f.songs))
  <2>1. LoadHiscores(f, least) = <<>>
    BY <1>2 DEF LoadHiscores
  <2> QED BY <1>1, <1>2, <2>1
<1>3. CASE AllGood(f.players) /\ AllGood(f.songs)
  <2> DEFINE list == GoodPart(f.hiscores)
             n == Len(list)
  <2>1. list \in Seq(HiscoreEntries) /\ n \in Nat /\ DOMAIN list = 1 .. n
    <3>1. list \in Seq(HiscoreEntries)
      BY GoodEntries, NoEntryIsBad DEF TypedFile
    <3> QED BY <3>1
  <2>2. PICK g : /\ g[0] = <<>> /\ LoadHiscores(f, least) = g[Len(GoodPart(f.hiscores))]
                 /\ \A k \in 1 .. Len(GoodPart(f.hiscores)) :
                      g[k] = AddHiscore(g[k - 1], GoodPart(f.hiscores)[k], least)
                 /\ \A k \in 0 .. Len(GoodPart(f.hiscores)) : g[k] \in Sorted
    BY <1>3, <2>1, HiscoresChain
  <2>3. /\ g[0] = <<>> /\ LoadHiscores(f, least) = g[n]
        /\ \A k \in 1 .. n : g[k] = AddHiscore(g[k - 1], list[k], least)
        /\ \A k \in 0 .. n : g[k] \in Sorted
    BY <2>2
  <2>4. \A k \in 1 .. n : list[k] \in HiscoreEntries /\ list[k] \in ToSet(list)
    <3>1. \A k \in 1 .. n : list[k] \in HiscoreEntries
      BY <2>1, Elements
    <3> QED BY <2>1, <3>1 DEF ToSet
  <2> HIDE DEF list, n
  <2> DEFINE P == {k \in Nat : k <= n => ToSet(g[k]) \subseteq ToSet(list)}
  <2>5. 0 \in P
    BY <1>1, <2>3
  <2>6. ASSUME NEW k \in Nat, k \in P PROVE k + 1 \in P
    <3> SUFFICES ASSUME k + 1 <= n PROVE ToSet(g[k + 1]) \subseteq ToSet(list)
      OBVIOUS
    <3>1. k + 1 \in 1 .. n /\ k \in 0 .. n /\ (k + 1) - 1 = k /\ k <= n
      BY <2>1
    <3>2. PICK e : e = list[k + 1]
      OBVIOUS
    <3>3. e \in HiscoreEntries /\ e \in ToSet(list)
      BY <2>4, <3>1, <3>2
    <3>4. PICK c : c = g[k]
      OBVIOUS
    <3>5. c \in Sorted /\ ToSet(c) \subseteq ToSet(list) /\ g[k + 1] = AddHiscore(c, e, least)
      BY <2>3, <2>6, <3>1, <3>2, <3>4
    <3>6. ToSet(AddHiscore(c, e, least)) \subseteq ToSet(c) \cup {e}
      BY <3>3, <3>5, HiscoreAdded
    <3> QED BY <3>3, <3>5, <3>6
  <2>7. \A k \in Nat : k \in P
    <3> HIDE DEF P
    <3> QED BY <2>5, <2>6, Induction
  <2>8. ToSet(g[n]) \subseteq ToSet(list) /\ g[n] \in Sorted
    <3>1. n \in 0 .. n /\ n <= n
      BY <2>1
    <3> QED BY <2>1, <2>3, <2>7, <3>1
  <2> QED BY <1>3, <2>3, <2>8 DEF list
<1> QED BY <1>2, <1>3

LEMMA ContentsWritten ==
  ASSUME GoodPlayers(players), GoodSongs(songs), hiscores \in Sorted
  PROVE  /\ Written(Contents) /\ ToSet(Contents.players) = players.all
         /\ ToSet(Contents.songs) = {SongEntry(i) : i \in songs} /\ Contents.hiscores = hiscores
<1> DEFINE all == players.all
           ps == ById(all)
           is == ById(songs)
           es == [i \in DOMAIN is |-> SongEntry(is[i])]
<1>1. WithIds(all) /\ all \subseteq PlayerItems /\ WithIds(songs) /\ songs \subseteq SongItems
  BY DEF GoodPlayers, PlayersType, GoodSongs
<1> HIDE DEF all
<1>2. /\ ps \in Seq(all) /\ ToSet(ps) = all
      /\ \A x, y \in DOMAIN ps : ps[x].id = ps[y].id => x = y
  BY <1>1, SortedById
<1>3. /\ is \in Seq(songs) /\ ToSet(is) = songs
      /\ \A x, y \in DOMAIN is : is[x].id = is[y].id => x = y
  BY <1>1, SortedById
<1>4. /\ Contents.players = ps /\ Contents.songs = es /\ Contents.hiscores = hiscores
  BY DEF Contents, all
<1> HIDE DEF ps, is
<1>5. \A i \in songs : SongEntry(i) \in SongEntries /\ SongEntry(i).id = i.id
  <2> SUFFICES ASSUME NEW i \in songs PROVE SongEntry(i) \in SongEntries /\ SongEntry(i).id = i.id
    OBVIOUS
  <2>1. i \in SongItems
    BY <1>1
  <2>2. PICK mark : mark = IsBroken(i)
    OBVIOUS
  <2>3. mark \in BOOLEAN /\ i.id \in Nat /\ i.title \in STRING
    BY <2>1, <2>2, MarkType DEF SongItems
  <2>4. SongEntry(i) = [id |-> i.id, title |-> i.title, broken |-> mark]
    BY <2>2 DEF SongEntry
  <2> QED BY <2>3, <2>4 DEF SongEntries
<1>6. /\ es \in Seq(SongEntries) /\ DOMAIN es = DOMAIN is
      /\ \A x \in DOMAIN is : is[x] \in songs /\ es[x] = SongEntry(is[x])
  <2>1. DOMAIN is = 1 .. Len(is) /\ Len(is) \in Nat /\ \A x \in 1 .. Len(is) : is[x] \in songs
    BY <1>3
  <2>2. /\ DOMAIN es = 1 .. Len(is)
        /\ \A x \in 1 .. Len(is) : es[x] = SongEntry(is[x]) /\ es[x] \in SongEntries
    BY <1>5, <2>1
  <2>3. es = [x \in 1 .. Len(is) |-> es[x]]
    BY <2>1
  <2> HIDE DEF es
  <2>4. es \in Seq(SongEntries)
    BY <2>1, <2>2, <2>3
  <2> QED BY <2>1, <2>2, <2>4
<1> HIDE DEF es
<1>7. ToSet(es) = {SongEntry(i) : i \in songs}
  <2>1. \A x : x \in ToSet(is) <=> \E k \in DOMAIN is : x = is[k]
    BY DEF ToSet
  <2>2. \A x : x \in ToSet(es) <=> \E k \in DOMAIN is : x = SongEntry(is[k])
    BY <1>6 DEF ToSet
  <2> QED BY <1>3, <2>1, <2>2
<1>8. EachItsId(es)
  BY <1>3, <1>5, <1>6 DEF EachItsId
<1>9. ps \in Seq(PlayerEntries) /\ EachItsId(ps) /\ \A i \in DOMAIN ps : ps[i].id # NoId
  <2>1. DOMAIN ps = 1 .. Len(ps) /\ Len(ps) \in Nat /\ \A x \in 1 .. Len(ps) : ps[x] \in all
    BY <1>2
  <2>2. \A a \in PlayerItems : a \in PlayerEntries /\ a.id \in Nat /\ a.id # NoId
    BY DEF PlayerItems, PlayerEntries, NoId
  <2>3. \A x \in 1 .. Len(ps) : ps[x] \in PlayerEntries /\ ps[x].id # NoId
    BY <1>1, <2>1, <2>2
  <2>4. ps \in Seq(PlayerEntries)
    BY <1>2, <2>3
  <2> QED BY <1>2, <2>1, <2>3, <2>4 DEF EachItsId
<1>10. hiscores \in Seq(HiscoreEntries) /\ BestFirst(hiscores)
  BY DEF Sorted
<1>11. AllGood(ps) /\ AllGood(es) /\ AllGood(hiscores)
  <2>1. \A E, F : E \subseteq F => Seq(E) \subseteq Seq(F)
    BY SeqMonotonic, Zenon
  <2>2. /\ PlayerEntries \subseteq PlayerEntries \cup {Bad} /\ SongEntries \subseteq SongEntries \cup {Bad}
        /\ HiscoreEntries \subseteq HiscoreEntries \cup {Bad}
    OBVIOUS
  <2>3. /\ ps \in Seq(PlayerEntries \cup {Bad}) /\ es \in Seq(SongEntries \cup {Bad})
        /\ hiscores \in Seq(HiscoreEntries \cup {Bad})
    BY <1>6, <1>9, <1>10, <2>1, <2>2, Zenon
  <2> QED BY <1>6, <1>9, <1>10, <2>3, GoodEntries, NoEntryIsBad
<1>12. OwnFile(Contents)
  BY <1>4, <1>8, <1>9, <1>10, <1>11 DEF OwnFile
<1> QED BY <1>2, <1>4, <1>6, <1>7, <1>9, <1>12 DEF Written, all

-----------------------------------------------------------------------------
(* The database and the screens, whatever stands in the files.             *)

GoodMemory ==
  /\ GoodPlayers(players) /\ GoodSongs(songs) /\ hiscores \in Sorted
  /\ level \in Nat /\ minimum \in Nat
GoodScreen ==
  /\ search \in Searches /\ scores \in Seq([score : Nat, track : STRING])
  /\ shown = "players" =>
       /\ scores # <<>> /\ song \in SongObjects /\ \E i \in songs : i.title = Title[song]
       /\ players.filter = search /\ players.dirty = FALSE
GoodDisk ==
  /\ file = saved /\ (saved \in Files \/ Written(saved))
  /\ savingDb # "no" => Written(besides)
DatabaseInv == GoodMemory /\ GoodScreen /\ GoodDisk

LEMMA SettingsAreNumbers ==
  /\ Levels \subseteq Nat /\ Minimums \subseteq Nat
  /\ Min(Levels) \in Nat /\ Min(Minimums) \in Nat
<1>1. Levels \subseteq Nat /\ Levels # {} /\ Minimums \subseteq Nat /\ Minimums # {}
  BY RecordsAssumption, Zenon
<1> QED BY <1>1, MinOf

LEMMA NothingTyped == "" \in Searches
BY Zenon DEF Searches

LEMMA EmptyIsGood ==
  GoodPlayers(NoPlayers) /\ GoodSongs({}) /\ <<>> \in Sorted
<1>1. WithIds({})
  BY FS_EmptySet DEF WithIds
<1>2. GoodSongs({})
  BY <1>1 DEF GoodSongs
<1>3. DOMAIN <<>> = {} /\ <<>> \in Seq(HiscoreEntries) /\ <<>> \in Seq(PlayerItems)
  OBVIOUS
<1>4. <<>> \in Sorted /\ ToSet(<<>>) = {}
  BY <1>3 DEF Sorted, BestFirst, ToSet
<1>5. PICK none : none = ""
  BY Zenon
<1>6. none \in STRING /\ NoPlayers = [all |-> {}, filtered |-> <<>>, filter |-> none, target |-> 0, dirty |-> FALSE]
  BY <1>5, NothingTyped, SearchesMatch, Zenon DEF NoPlayers
<1>7. Matching({}, none) = {}
  BY DEF Matching
<1>8. NoPlayers \in PlayersType /\ NoPlayers.all = {} /\ NoPlayers.filter = none /\ NoPlayers.filtered = <<>>
  BY <1>3, <1>6 DEF PlayersType
<1>9. GoodPlayers(NoPlayers)
  BY <1>1, <1>4, <1>7, <1>8 DEF GoodPlayers
<1> QED BY <1>2, <1>4, <1>9

LEMMA GoneIsGood ==
  ASSUME Gone
  PROVE  GoodMemory' /\ GoodScreen'
<1>1. /\ players' = NoPlayers /\ songs' = {} /\ hiscores' = <<>>
      /\ level' = Min(Levels) /\ minimum' = Min(Minimums)
  BY Zenon DEF Gone
<1>2. search' = "" /\ scores' = <<>> /\ shown' = "other"
  BY Zenon DEF Gone
<1>3. GoodMemory'
  BY <1>1, EmptyIsGood, SettingsAreNumbers DEF GoodMemory
<1>4. search' \in Searches
  BY <1>2, NothingTyped, Zenon
<1>5. scores' \in Seq([score : Nat, track : STRING]) /\ shown' # "players"
  <2>1. scores' = <<>> /\ shown' = "other"
    BY <1>2, Zenon
  <2> QED BY <2>1
<1>6. GoodScreen'
  BY <1>4, <1>5, Zenon DEF GoodScreen
<1> QED BY <1>3, <1>6

LEMMA DatabaseInit ==
  ASSUME RecordsInit
  PROVE  DatabaseInv
<1>1. /\ players = NoPlayers /\ songs = {} /\ hiscores = <<>>
      /\ level = Min(Levels) /\ minimum = Min(Minimums)
  BY Zenon DEF RecordsInit
<1>2. search = "" /\ scores = <<>> /\ shown = "other" /\ file \in Files /\ saved = file /\ savingDb = "no"
  BY Zenon DEF RecordsInit
<1>3. GoodMemory
  BY <1>1, EmptyIsGood, SettingsAreNumbers DEF GoodMemory
<1>4. search \in Searches
  BY <1>2, NothingTyped, Zenon
<1>5. scores \in Seq([score : Nat, track : STRING]) /\ shown # "players"
  <2>1. scores = <<>> /\ shown = "other"
    BY <1>2, Zenon
  <2> QED BY <2>1
<1>6. GoodScreen
  BY <1>4, <1>5, Zenon DEF GoodScreen
<1>7. GoodDisk
  BY <1>2, Zenon DEF GoodDisk
<1> QED BY <1>3, <1>6, <1>7 DEF DatabaseInv

(* Who has the hiscore when START is pressed, and the list then.           *)
Them == NewPlayer(players)
TheirIds == PlayerIds(Them, Current(Them))
TheirHiscore == Entry(songs, song, Min(TheirIds), Head(scores))
NewList == IF TheirIds = {} THEN hiscores ELSE AddHiscore(hiscores, TheirHiscore, minimum)

LEMMA HiscoreGiven ==
  ASSUME GoodMemory, GoodScreen, shown = "players"
  PROVE  /\ GoodPlayers(Them) /\ Them.dirty = FALSE /\ Them.filter = search
         /\ TheirIds # {} =>
              /\ TheirHiscore \in HiscoreEntries
              /\ \E q \in Them.all : q.id = TheirHiscore.playerid /\ q.name = Current(Them)
              /\ \E i \in songs : /\ i.id = TheirHiscore.songid /\ i.title = Title[song]
                                  /\ IsFirst(songs, i)
         /\ NewList \in Sorted
         /\ ToSet(hiscores) \subseteq ToSet(NewList)
         /\ ToSet(NewList) \subseteq ToSet(hiscores) \cup (IF TheirIds = {} THEN {} ELSE {TheirHiscore})
         /\ NewList # hiscores => TheirIds # {} /\ TheirHiscore \in ToSet(NewList)
<1>1. /\ GoodPlayers(players) /\ GoodSongs(songs) /\ hiscores \in Sorted /\ level \in Nat
      /\ minimum \in Nat
  BY DEF GoodMemory
<1>2. /\ search \in Searches /\ scores \in Seq([score : Nat, track : STRING]) /\ scores # <<>>
      /\ song \in SongObjects /\ (\E i \in songs : i.title = Title[song])
      /\ players.filter = search /\ players.dirty = FALSE
  BY DEF GoodScreen
<1>3. GoodPlayers(Them) /\ Them.dirty = FALSE /\ Them.filter = search
  BY <1>1, <1>2, NewPlayerMade DEF Them
<1>4. Head(scores) \in [score : Nat, track : STRING]
  <2>1. \A E : \A s \in Seq(E) : s # <<>> => Head(s) \in E
    BY HeadTailProperties, Zenon
  <2> QED BY <1>2, <2>1, Zenon
<1>5. PICK i \in songs : i.id = SongId(songs, song) /\ i.title = Title[song] /\ IsFirst(songs, i)
  BY <1>1, <1>2, FirstOfTitle DEF GoodSongs
<1>6. SongId(songs, song) \in Nat
  BY <1>1, <1>2, FirstOfTitle DEF GoodSongs
<1>7. ASSUME TheirIds # {}
      PROVE  /\ TheirHiscore \in HiscoreEntries /\ TheirHiscore.songid = SongId(songs, song)
             /\ \E q \in Them.all : q.id = TheirHiscore.playerid /\ q.name = Current(Them)
  <2>1. \A x : x \in TheirIds <=> \E q \in Them.all : q.name = Current(Them) /\ x = q.id
    BY DEF TheirIds, PlayerIds
  <2>2. TheirIds \in SUBSET Nat
    BY <1>3, <2>1 DEF GoodPlayers, WithIds
  <2>3. Min(TheirIds) \in TheirIds /\ Min(TheirIds) \in Nat
    BY <1>7, <2>2, MinOf
  <2>4. PICK first : first = Head(scores)
    OBVIOUS
  <2>5. PICK id : id = Min(TheirIds)
    OBVIOUS
  <2>6. PICK title : title = SongId(songs, song)
    OBVIOUS
  <2>7. TheirHiscore = [score |-> first.score, playerid |-> id, songid |-> title,
                        level |-> level, track |-> first.track]
    BY <2>4, <2>5, <2>6 DEF TheirHiscore, Entry
  <2>8. TheirHiscore \in HiscoreEntries /\ TheirHiscore.songid = title /\ TheirHiscore.playerid = id
    BY <1>1, <1>4, <1>6, <2>3, <2>4, <2>5, <2>6, <2>7 DEF HiscoreEntries
  <2> QED BY <2>1, <2>3, <2>5, <2>6, <2>8
<1>8. CASE TheirIds = {}
  BY <1>1, <1>3, <1>8 DEF NewList
<1>9. CASE TheirIds # {}
  <2>1. PICK h : h = TheirHiscore
    OBVIOUS
  <2>2. h \in HiscoreEntries /\ NewList = AddHiscore(hiscores, h, minimum)
    BY <1>7, <1>9, <2>1 DEF NewList
  <2>3. /\ NewList \in Sorted /\ ToSet(hiscores) \subseteq ToSet(NewList)
        /\ ToSet(NewList) \subseteq ToSet(hiscores) \cup {h}
        /\ NewList # hiscores => h \in ToSet(NewList)
    BY <1>1, <2>2, HiscoreAdded
  <2>4. \E j \in songs : j.id = TheirHiscore.songid /\ j.title = Title[song] /\ IsFirst(songs, j)
    BY <1>5, <1>7, <1>9
  <2> QED BY <1>3, <1>7, <1>9, <2>1, <2>3, <2>4
<1> QED BY <1>8, <1>9

LEMMA DiskUnchanged ==
  ASSUME GoodDisk, UNCHANGED databaseVars
  PROVE  GoodDisk'
BY DEF GoodDisk, databaseVars

LEMMA LaunchKeepsDatabase ==
  ASSUME DatabaseInv, Launch
  PROVE  DatabaseInv'
<1>1. GoodDisk /\ TypedFile(file)
  BY FilesAreTyped DEF DatabaseInv, GoodDisk
<1>2. /\ level' \in Levels /\ minimum' \in Minimums /\ players' = LoadedPlayers(file)
      /\ songs' = LoadSongs(file) /\ hiscores' = LoadHiscores(file, minimum')
      /\ UNCHANGED databaseVars
  BY Zenon DEF Launch
<1>3. search' = "" /\ scores' = <<>> /\ shown' = "other"
  BY Zenon DEF Launch
<1>4. level' \in Nat /\ minimum' \in Nat
  BY <1>2, SettingsAreNumbers
<1>5. GoodMemory'
  BY <1>1, <1>2, <1>4, PlayersLoaded, SongsLoaded, HiscoresLoaded DEF GoodMemory
<1>6. search' \in Searches
  BY <1>3, NothingTyped, Zenon
<1>7. scores' \in Seq([score : Nat, track : STRING]) /\ shown' # "players"
  <2>1. scores' = <<>> /\ shown' = "other"
    BY <1>3, Zenon
  <2> QED BY <2>1
<1>8. GoodScreen'
  BY <1>6, <1>7, Zenon DEF GoodScreen
<1>9. GoodDisk'
  BY <1>1, <1>2, DiskUnchanged
<1> QED BY <1>5, <1>8, <1>9 DEF DatabaseInv

LEMMA SaveKeepsDatabase ==
  ASSUME DatabaseInv, BeginSave \/ EndSave \/ Crash
  PROVE  DatabaseInv'
<1>1. CASE BeginSave
  <2>1. /\ UNCHANGED <<settingsVars, dbVars, screenVars>> /\ UNCHANGED <<file, saved>>
        /\ besides' = Contents
    BY <1>1, Zenon DEF BeginSave, WriteDatabase
  <2>2. Written(Contents)
    BY ContentsWritten DEF DatabaseInv, GoodMemory
  <2>3. GoodDisk'
    BY <2>1, <2>2 DEF DatabaseInv, GoodDisk
  <2>4. GoodMemory' /\ GoodScreen'
    BY <2>1 DEF DatabaseInv, GoodMemory, GoodScreen, settingsVars, dbVars, screenVars
  <2> QED BY <2>3, <2>4 DEF DatabaseInv
<1>2. CASE EndSave
  <2>1. /\ savingDb # "no" /\ savingDb' = "no"
        /\ \/ file' = besides /\ saved' = besides
           \/ UNCHANGED <<file, saved, besides>>
    BY <1>2, Zenon DEF EndSave
  <2>2. GoodDisk'
    BY <2>1 DEF DatabaseInv, GoodDisk
  <2>3. CASE Gone
    BY <2>2, <2>3, GoneIsGood DEF DatabaseInv
  <2>4. CASE shown' = "other" /\ UNCHANGED <<up, settingsVars, dbVars, scores, song, search, session>>
    <3>1. GoodMemory'
      BY <2>4 DEF DatabaseInv, GoodMemory, settingsVars, dbVars
    <3>2. GoodScreen'
      BY <2>4 DEF DatabaseInv, GoodScreen, dbVars
    <3> QED BY <2>2, <3>1, <3>2 DEF DatabaseInv
  <2> QED BY <1>2, <2>3, <2>4, Zenon DEF EndSave
<1>3. CASE Crash
  <2>1. Gone /\ savingDb' = "no" /\ UNCHANGED <<file, saved>>
    BY <1>3, Zenon DEF Crash
  <2>2. GoodDisk'
    BY <2>1 DEF DatabaseInv, GoodDisk
  <2> QED BY <2>1, <2>2, GoneIsGood DEF DatabaseInv
<1> QED BY <1>1, <1>2, <1>3

LEMMA SongsKeepDatabase ==
  ASSUME DatabaseInv, ChangeSettings \/ FindSong \/ Abort \/ Sing
  PROVE  DatabaseInv'
<1>1. GoodMemory /\ GoodScreen /\ GoodDisk
  BY DEF DatabaseInv
<1>2. CASE ChangeSettings
  <2>1. /\ level' \in Levels /\ minimum' \in Minimums
        /\ UNCHANGED <<dbVars, screenVars, databaseVars>>
    BY <1>2, Zenon DEF ChangeSettings
  <2>2. GoodMemory' /\ GoodScreen'
    BY <1>1, <2>1, SettingsAreNumbers DEF GoodMemory, GoodScreen, dbVars, screenVars
  <2>3. GoodDisk'
    BY <1>1, <2>1, DiskUnchanged
  <2> QED BY <2>2, <2>3 DEF DatabaseInv
<1>3. CASE FindSong
  <2>1. /\ shown = "other" /\ UNCHANGED <<settingsVars, players, hiscores, screenVars, databaseVars>>
    BY <1>3, Zenon DEF FindSong, OnScreen
  <2>2. PICK s \in SongObjects : AddSong(s)
    BY <1>3, Zenon DEF FindSong
  <2>3. GoodSongs(songs')
    BY <1>1, <2>2, SongAdded DEF GoodMemory
  <2>4. GoodMemory' /\ GoodScreen'
    BY <1>1, <2>1, <2>3 DEF GoodMemory, GoodScreen, settingsVars, screenVars
  <2>5. GoodDisk'
    BY <1>1, <2>1, DiskUnchanged
  <2> QED BY <2>4, <2>5 DEF DatabaseInv
<1>4. CASE Abort
  <2>1. UNCHANGED <<settingsVars, players, songs, hiscores, screenVars, databaseVars>>
    BY <1>4, Zenon DEF Abort
  <2>2. GoodMemory' /\ GoodScreen'
    BY <1>1, <2>1 DEF GoodMemory, GoodScreen, settingsVars, screenVars
  <2>3. GoodDisk'
    BY <1>1, <2>1, DiskUnchanged
  <2> QED BY <2>2, <2>3 DEF DatabaseInv
<1>5. CASE Sing
  <2>1. shown = "other" /\ UNCHANGED <<up, settingsVars, hiscores, databaseVars, history>>
    BY <1>5, Zenon DEF Sing, OnScreen
  <2>2. PICK s \in SongObjects, list \in ScoreLists :
          /\ AddSong(s) /\ scores' = list
          /\ \/ /\ list # <<>> /\ shown' = "players" /\ song' = s /\ search' = ""
                /\ players' = Update(SetFilter(players, ""))
             \/ UNCHANGED <<shown, song, search, players>>
    BY <1>5, Zenon DEF Sing
  <2>3. GoodSongs(songs') /\ \E i \in songs' : i.title = Title[s]
    BY <1>1, <2>2, SongAdded DEF GoodMemory
  <2>4. scores' \in Seq([score : Nat, track : STRING])
    BY <2>2, RecordsAssumption, Zenon
  <2>5. CASE UNCHANGED <<shown, song, search, players>>
    <3>1. GoodMemory' /\ GoodScreen'
      BY <1>1, <2>1, <2>3, <2>4, <2>5 DEF GoodMemory, GoodScreen, settingsVars
    <3>2. GoodDisk'
      BY <1>1, <2>1, DiskUnchanged
    <3> QED BY <3>1, <3>2 DEF DatabaseInv
  <2>6. CASE /\ list # <<>> /\ shown' = "players" /\ song' = s /\ search' = ""
             /\ players' = Update(SetFilter(players, ""))
    <3>1. PICK none : none = ""
      BY Zenon
    <3>2. none \in Searches /\ none \in STRING
      BY <3>1, NothingTyped, SearchesMatch, Zenon
    <3>3. /\ scores' # <<>> /\ shown' = "players" /\ song' \in SongObjects /\ search' = none
          /\ players' = Update(SetFilter(players, none))
      BY <2>2, <2>6, <3>1, Zenon
    <3>4. GoodPlayers(SetFilter(players, none)) /\ SetFilter(players, none).filter = none
      BY <1>1, <3>2, FilterSet DEF GoodMemory
    <3>5. GoodPlayers(players') /\ players'.filter = none /\ players'.dirty = FALSE
      BY <3>3, <3>4, Updated
    <3>6. GoodMemory'
      BY <1>1, <2>1, <2>3, <3>5 DEF GoodMemory, settingsVars
    <3>7. \E i \in songs' : i.title = Title[song']
      BY <2>3, <2>6, Zenon
    <3>8. GoodScreen'
      BY <2>4, <3>2, <3>3, <3>5, <3>7 DEF GoodScreen
    <3>9. GoodDisk'
      BY <1>1, <2>1, DiskUnchanged
    <3> QED BY <3>6, <3>8, <3>9 DEF DatabaseInv
  <2> QED BY <2>2, <2>5, <2>6, Zenon
<1> QED BY <1>2, <1>3, <1>4, <1>5

LEMMA ScreenKeepsDatabase ==
  ASSUME DatabaseInv, Type \/ Advance \/ LeavePlayers
  PROVE  DatabaseInv'
<1>1. GoodMemory /\ GoodScreen /\ GoodDisk
  BY DEF DatabaseInv
<1>2. CASE Type
  <2>1. /\ shown = "players" /\ UNCHANGED <<up, settingsVars, songs, broken, databaseVars>>
        /\ UNCHANGED <<hiscores, scores, song, shown>>
    BY <1>2, Zenon DEF Type, OnScreen, Unchanged
  <2>2. PICK text \in Names : search' = text /\ players' = SetFilter(players, text)
    BY <1>2, Zenon DEF Type
  <2>3. text \in Searches /\ text \in STRING
    BY SearchesMatch, Zenon DEF Searches
  <2>4. players.dirty = FALSE
    BY <1>1, <2>1 DEF GoodScreen
  <2>5. GoodPlayers(players') /\ players'.filter = text /\ players'.dirty = FALSE
    BY <1>1, <2>2, <2>3, <2>4, FilterSet DEF GoodMemory
  <2>6. GoodMemory' /\ GoodScreen'
    BY <1>1, <2>1, <2>2, <2>3, <2>5 DEF GoodMemory, GoodScreen, settingsVars
  <2>7. GoodDisk'
    BY <1>1, <2>1, DiskUnchanged
  <2> QED BY <2>6, <2>7 DEF DatabaseInv
<1>3. CASE Advance
  <2>1. /\ UNCHANGED <<up, settingsVars, songs, broken, databaseVars>> /\ UNCHANGED <<hiscores, screenVars>>
        /\ players.filtered # <<>>
        /\ players' = [players EXCEPT !.target = (@ + 1) % Len(players.filtered)]
    BY <1>3, Zenon DEF Advance, Unchanged
  <2>2. players \in PlayersType /\ players.filtered \in Seq(PlayerItems) /\ players.target \in Nat
    BY <1>1 DEF GoodMemory, GoodPlayers, PlayersType
  <2>3. PICK place : place = (players.target + 1) % Len(players.filtered)
    OBVIOUS
  <2>4. place \in Nat
    <3>1. PICK n : n = Len(players.filtered)
      OBVIOUS
    <3>2. n \in Nat \ {0}
      BY <2>1, <2>2, <3>1
    <3>3. PICK t : t = players.target + 1
      OBVIOUS
    <3>4. t \in Nat
      BY <2>2, <3>3
    <3>5. t % n \in Nat
      BY <3>2, <3>4
    <3> QED BY <2>3, <3>1, <3>3, <3>5
  <2>5. /\ players' \in PlayersType /\ players'.all = players.all /\ players'.dirty = players.dirty
        /\ players'.filtered = players.filtered /\ players'.filter = players.filter
    BY <2>1, <2>2, <2>3, <2>4 DEF PlayersType
  <2>6. GoodPlayers(players')
    BY <1>1, <2>5 DEF GoodMemory, GoodPlayers
  <2>7. GoodMemory' /\ GoodScreen'
    BY <1>1, <2>1, <2>5, <2>6 DEF GoodMemory, GoodScreen, settingsVars, screenVars
  <2>8. GoodDisk'
    BY <1>1, <2>1, DiskUnchanged
  <2> QED BY <2>7, <2>8 DEF DatabaseInv
<1>4. CASE LeavePlayers
  <2>1. /\ UNCHANGED <<up, settingsVars, songs, broken, databaseVars>> /\ shown' = "left"
        /\ UNCHANGED <<players, hiscores, scores, song, search>>
    BY <1>4, Zenon DEF LeavePlayers, Unchanged
  <2>2. GoodMemory' /\ GoodScreen'
    BY <1>1, <2>1 DEF GoodMemory, GoodScreen, settingsVars
  <2>3. GoodDisk'
    BY <1>1, <2>1, DiskUnchanged
  <2> QED BY <2>2, <2>3 DEF DatabaseInv
<1> QED BY <1>2, <1>3, <1>4

LEMMA StartKeepsDatabase ==
  ASSUME DatabaseInv, PressStart
  PROVE  DatabaseInv'
<1>1. GoodMemory /\ GoodScreen /\ GoodDisk
  BY DEF DatabaseInv
<1>2. /\ shown = "players" /\ UNCHANGED <<up, settingsVars, songs, broken, databaseVars>>
      /\ scores' = Tail(scores) /\ UNCHANGED song
  BY Zenon DEF PressStart, OnScreen, Unchanged
<1>3. PICK none : none = ""
  BY Zenon
<1>4. none \in Searches /\ none \in STRING
  BY <1>3, NothingTyped, SearchesMatch, Zenon
<1>5. /\ hiscores' = NewList
      /\ \/ /\ Tail(scores) # <<>> /\ players' = SetFilter(Them, none) /\ search' = none
            /\ shown' = shown
         \/ players' = Them /\ search' = search /\ shown' = "left"
  BY <1>3, Zenon DEF PressStart, NewList, TheirHiscore, TheirIds, Them
<1>6. GoodPlayers(Them) /\ Them.dirty = FALSE /\ Them.filter = search /\ NewList \in Sorted
  BY <1>1, <1>2, HiscoreGiven
<1>7. scores' \in Seq([score : Nat, track : STRING])
  BY <1>1, <1>2 DEF GoodScreen
<1>8. GoodDisk'
  BY <1>1, <1>2, DiskUnchanged
<1>9. CASE /\ Tail(scores) # <<>> /\ players' = SetFilter(Them, none) /\ search' = none
           /\ shown' = shown
  <2>1. GoodPlayers(players') /\ players'.filter = none /\ players'.dirty = FALSE
    BY <1>4, <1>6, <1>9, FilterSet
  <2>2. GoodMemory' /\ GoodScreen'
    BY <1>1, <1>2, <1>4, <1>5, <1>6, <1>7, <1>9, <2>1 DEF GoodMemory, GoodScreen, settingsVars
  <2> QED BY <1>8, <2>2 DEF DatabaseInv
<1>10. CASE players' = Them /\ search' = search /\ shown' = "left"
  <2>1. GoodMemory' /\ GoodScreen'
    BY <1>1, <1>2, <1>5, <1>6, <1>7, <1>10 DEF GoodMemory, GoodScreen, settingsVars
  <2> QED BY <1>8, <2>1 DEF DatabaseInv
<1> QED BY <1>5, <1>9, <1>10

LEMMA DatabaseStep ==
  ASSUME DatabaseInv, [RecordsNext]_recordsVars
  PROVE  DatabaseInv'
<1>1. CASE Launch
  BY <1>1, LaunchKeepsDatabase
<1>2. CASE BeginSave \/ EndSave \/ Crash
  BY <1>2, SaveKeepsDatabase
<1>3. CASE ChangeSettings \/ FindSong \/ Abort \/ Sing
  BY <1>3, SongsKeepDatabase
<1>4. CASE Type \/ Advance \/ LeavePlayers
  BY <1>4, ScreenKeepsDatabase
<1>5. CASE PressStart
  BY <1>5, StartKeepsDatabase
<1>6. CASE UNCHANGED recordsVars
  <2>1. GoodMemory' /\ GoodScreen'
    BY <1>6 DEF DatabaseInv, GoodMemory, GoodScreen, recordsVars, settingsVars, dbVars, screenVars
  <2>2. UNCHANGED databaseVars
    BY <1>6 DEF recordsVars
  <2> QED BY <2>1, <2>2, DiskUnchanged DEF DatabaseInv
<1> QED BY <1>1, <1>2, <1>3, <1>4, <1>5, <1>6, Zenon DEF RecordsNext

(* Only Launch brings the game up, and it loads the file as it stands.     *)
LEMMA LaunchLoadsFile ==
  ASSUME DatabaseInv, [RecordsNext]_recordsVars
  PROVE  LaunchLoads
<1> SUFFICES ASSUME ~up, up', saved \in Files => OwnFile(saved)
             PROVE  IsLoaded(saved)'
  BY DEF LaunchLoads
<1>1. Launch
  <2>1. ~UNCHANGED up
    OBVIOUS
  <2> QED BY <2>1, Zenon DEF RecordsNext, recordsVars, BeginSave, EndSave, Crash, ChangeSettings, FindSong,
                       Abort, Sing, Type, Advance, PressStart, LeavePlayers, OnScreen
<1>2. /\ minimum' \in Minimums /\ players' = LoadedPlayers(file) /\ songs' = LoadSongs(file)
      /\ hiscores' = LoadHiscores(file, minimum') /\ saved' = saved
  BY <1>1, Zenon DEF Launch, databaseVars
<1>3. file = saved /\ TypedFile(saved) /\ OwnFile(saved)
  BY FilesAreTyped DEF DatabaseInv, GoodDisk, Written
<1>4. PICK f : f = saved
  OBVIOUS
<1>5. Written(f) /\ TypedFile(f)
  BY <1>3, <1>4, OwnFileIsWritten
<1>6. /\ AllGood(f.players) /\ AllGood(f.songs) /\ EachItsId(f.players) /\ EachItsId(f.songs)
      /\ \A i \in DOMAIN f.players : f.players[i].id # NoId
      /\ f.players \in Seq(PlayerEntries) /\ f.songs \in Seq(SongEntries) /\ f.hiscores \in Sorted
  BY <1>5 DEF Written, OwnFile
<1>7. LoadedPlayers(f).all = ToSet(f.players)
  BY <1>5, <1>6, PlayersLoaded, PlayersAsWritten
<1>8. Keys(LoadSongs(f)) = ToSet(f.songs)
  BY <1>6, SongsAsWritten
<1>9. minimum' \in Nat
  BY <1>2, SettingsAreNumbers
<1>10. LoadHiscores(f, minimum') = BestOf(f.hiscores, minimum')
  BY <1>6, <1>9, BestAsLoaded
<1>11. players'.all = ToSet(saved'.players) /\ hiscores' = BestOf(saved'.hiscores, minimum')
  BY <1>2, <1>3, <1>4, <1>7, <1>10
<1>12. Keys(songs') = ToSet(saved'.songs)
  BY <1>2, <1>3, <1>4, <1>8
<1> QED BY <1>11, <1>12 DEF IsLoaded, Keys, Key

(* What a completed save has written, or any file the program could have   *)
(* written, is what the next start loads (Database::save and load): all    *)
(* players, all songs with their marks, and the best hiscores of each list *)
(* that are not below the minimum, wherever the program was killed since.  *)
THEOREM TheLastSaveIsLoaded == RecordsSpec => LoadsWhatWasSaved
<1>1. RecordsInit => DatabaseInv
  BY DatabaseInit
<1>2. DatabaseInv /\ [RecordsNext]_recordsVars => DatabaseInv'
  BY DatabaseStep
<1>3. DatabaseInv /\ [RecordsNext]_recordsVars => [LaunchLoads]_recordsVars
  BY LaunchLoadsFile
<1> QED BY <1>1, <1>2, <1>3, PTL DEF RecordsSpec, LoadsWhatWasSaved


-----------------------------------------------------------------------------
(* Hiscores are read as they were given.                                   *)

(* An id that is not above all ids there are is not assigned any more.     *)
Under(id, all) == \E a \in all : id <= a.id
Held(h, all, items) == Under(h.playerid, all) /\ Under(h.songid, items)
ReadIn(H, all, items, G) == \A h \in H : Held(h, all, items) /\ Read(h, all, items) \in G
FileReads(f, G) ==
  AllGood(f.players) /\ AllGood(f.songs) =>
    ReadIn(ToSet(GoodPart(f.hiscores)), LoadPlayers(f), LoadSongs(f), G)
ShownIn(g, H, all, items) ==
  \E h \in H, i \in items :
    h.songid = i.id /\ i.title = g.title /\ IsFirst(items, i) /\ Read(h, all, items) = g

HiscoresInv ==
  /\ ReadIn(ToSet(hiscores), players.all, songs, given)
  /\ \A g \in session : ShownIn(g, ToSet(hiscores), players.all, songs)
  /\ FileReads(file, given)
  /\ savingDb # "no" => FileReads(besides, given)

(* No hiscore of a file names an id above all of its players, or songs.    *)
(* The files the program has written are like that.                        *)
NothingDangles ==
  \A f \in Files : AllGood(f.players) /\ AllGood(f.songs) =>
    \A h \in ToSet(GoodPart(f.hiscores)) : Held(h, LoadPlayers(f), LoadSongs(f))

NameOf(all, id) == IF HasId(all, id) THEN (CHOOSE p \in all : p.id = id).name ELSE "unknown"
TitleOf(items, id) == IF HasId(items, id) THEN (CHOOSE i \in items : i.id = id).title ELSE "unknown"

LEMMA ReadOf ==
  ASSUME NEW h, NEW all, NEW items
  PROVE  Read(h, all, items) =
           [name |-> NameOf(all, h.playerid), title |-> TitleOf(items, h.songid),
            score |-> h.score, level |-> h.level]
BY DEF Read, NameOf, TitleOf

LEMMA NameOfPlayer ==
  ASSUME NEW all, WithIds(all), NEW p \in all
  PROVE  NameOf(all, p.id) = p.name /\ Under(p.id, all)
<1>1. HasId(all, p.id)
  BY DEF HasId
<1>2. (CHOOSE q \in all : q.id = p.id) = p
  BY DEF WithIds
<1>3. Under(p.id, all)
  BY DEF Under, WithIds
<1> QED BY <1>1, <1>2, <1>3 DEF NameOf

LEMMA TitleOfItem ==
  ASSUME NEW items, WithIds(items), NEW i \in items
  PROVE  TitleOf(items, i.id) = i.title /\ Under(i.id, items)
<1>1. HasId(items, i.id)
  BY DEF HasId
<1>2. (CHOOSE j \in items : j.id = i.id) = i
  BY DEF WithIds
<1>3. Under(i.id, items)
  BY DEF Under, WithIds
<1> QED BY <1>1, <1>2, <1>3 DEF TitleOf

(* Nobody new gets an id that is not above those there are.                *)
LEMMA NameStays ==
  ASSUME NEW all, WithIds(all), NEW new, WithIds(new), all \subseteq new,
         \A p \in new \ all : Above(all, p), NEW id \in Nat, Under(id, all)
  PROVE  NameOf(new, id) = NameOf(all, id) /\ Under(id, new)
<1>1. Under(id, new)
  BY DEF Under
<1>2. CASE HasId(all, id)
  <2>1. PICK p \in all : p.id = id
    BY <1>2 DEF HasId
  <2>2. NameOf(all, p.id) = p.name /\ NameOf(new, p.id) = p.name
    BY <2>1, NameOfPlayer
  <2> QED BY <1>1, <2>1, <2>2
<1>3. CASE ~HasId(all, id)
  <2>1. ~HasId(new, id)
    <3> SUFFICES ASSUME NEW p \in new, p.id = id PROVE FALSE
      BY DEF HasId
    <3>1. Above(all, p)
      BY <1>3 DEF HasId
    <3>2. PICK a \in all : id <= a.id
      BY DEF Under
    <3>3. a.id < p.id /\ a.id \in Nat
      BY <3>1 DEF Above, WithIds
    <3> QED BY <3>2, <3>3
  <2> QED BY <1>1, <1>3, <2>1 DEF NameOf
<1> QED BY <1>2, <1>3

LEMMA TitleStays ==
  ASSUME NEW items, WithIds(items), NEW new, WithIds(new), Grows(items, new),
         NEW id \in Nat, Under(id, items)
  PROVE  TitleOf(new, id) = TitleOf(items, id) /\ Under(id, new)
<1>1. Under(id, new)
  BY DEF Under, Grows, Same
<1>2. CASE HasId(items, id)
  <2>1. PICK i \in items : i.id = id
    BY <1>2 DEF HasId
  <2>2. PICK j \in new : j.id = id /\ j.title = i.title
    BY <2>1 DEF Grows, Same
  <2>3. TitleOf(items, i.id) = i.title /\ TitleOf(new, j.id) = j.title
    BY <2>1, <2>2, TitleOfItem
  <2> QED BY <1>1, <2>1, <2>2, <2>3
<1>3. CASE ~HasId(items, id)
  <2>1. ~HasId(new, id)
    <3> SUFFICES ASSUME NEW j \in new, j.id = id PROVE FALSE
      BY DEF HasId
    <3>1. Above(items, j)
      BY <1>3 DEF HasId, Grows, Same
    <3>2. PICK a \in items : id <= a.id
      BY DEF Under
    <3>3. a.id < j.id /\ a.id \in Nat
      BY <3>1 DEF Above, WithIds
    <3> QED BY <3>2, <3>3
  <2> QED BY <1>1, <1>3, <2>1 DEF TitleOf
<1> QED BY <1>2, <1>3

LEMMA ReadStays ==
  ASSUME NEW all, WithIds(all), NEW more, WithIds(more), all \subseteq more,
         \A p \in more \ all : Above(all, p),
         NEW items, WithIds(items), NEW new, WithIds(new), Grows(items, new),
         NEW h \in HiscoreEntries, Held(h, all, items)
  PROVE  Read(h, more, new) = Read(h, all, items) /\ Held(h, more, new)
<1>1. h.playerid \in Nat /\ h.songid \in Nat
  BY DEF HiscoreEntries
<1>2. NameOf(more, h.playerid) = NameOf(all, h.playerid) /\ Under(h.playerid, more)
  BY <1>1, NameStays DEF Held
<1>3. TitleOf(new, h.songid) = TitleOf(items, h.songid) /\ Under(h.songid, new)
  BY <1>1, TitleStays DEF Held
<1> QED BY <1>2, <1>3, ReadOf DEF Held

(* Players and songs may be added, hiscores too.                           *)
LEMMA AllReadsStay ==
  ASSUME NEW all, WithIds(all), NEW more, WithIds(more), all \subseteq more,
         \A p \in more \ all : Above(all, p),
         NEW items, WithIds(items), NEW new, WithIds(new), Grows(items, new),
         NEW H \in SUBSET HiscoreEntries, NEW G, ReadIn(H, all, items, G)
  PROVE  /\ ReadIn(H, more, new, G)
         /\ \A g, K : ShownIn(g, H, all, items) /\ H \subseteq K => ShownIn(g, K, more, new)
<1>1. \A h \in H : Held(h, all, items) /\ Read(h, all, items) \in G
  BY DEF ReadIn
<1>2. \A h \in H : Read(h, more, new) = Read(h, all, items) /\ Held(h, more, new)
  BY <1>1, ReadStays
<1>3. ASSUME NEW g, NEW K, ShownIn(g, H, all, items), H \subseteq K PROVE ShownIn(g, K, more, new)
  <2>1. PICK h \in H, i \in items :
          h.songid = i.id /\ i.title = g.title /\ IsFirst(items, i) /\ Read(h, all, items) = g
    BY <1>3, Zenon DEF ShownIn
  <2>2. PICK j \in new : Same(i, j)
    BY DEF Grows
  <2>3. IsFirst(new, j)
    BY <2>1, <2>2, FirstStays
  <2>4. h \in K /\ h.songid = j.id /\ j.title = g.title /\ Read(h, more, new) = g
    BY <1>2, <1>3, <2>1, <2>2 DEF Same
  <2> QED BY <2>3, <2>4, Zenon DEF ShownIn
<1>4. ReadIn(H, more, new, G)
  BY <1>1, <1>2 DEF ReadIn
<1> QED BY <1>3, <1>4

LEMMA ContentsRead ==
  ASSUME GoodPlayers(players), GoodSongs(songs), hiscores \in Sorted, NEW G,
         ReadIn(ToSet(hiscores), players.all, songs, G)
  PROVE  FileReads(Contents, G)
<1> DEFINE f == Contents
           items == LoadSongs(f)
<1>1. /\ Written(f) /\ ToSet(f.players) = players.all /\ f.hiscores = hiscores
      /\ ToSet(f.songs) = {SongEntry(i) : i \in songs}
  BY ContentsWritten
<1> HIDE DEF f
<1>2. /\ AllGood(f.players) /\ AllGood(f.songs) /\ AllGood(f.hiscores)
      /\ EachItsId(f.players) /\ EachItsId(f.songs)
      /\ \A i \in DOMAIN f.players : f.players[i].id # NoId
      /\ f.players \in Seq(PlayerEntries) /\ f.songs \in Seq(SongEntries) /\ TypedFile(f)
  BY <1>1, FilesAreTyped DEF Written, OwnFile
<1>3. LoadPlayers(f) = players.all
  BY <1>1, <1>2, PlayersAsWritten
<1>4. Keys(items) = {SongEntry(i) : i \in songs}
  BY <1>1, <1>2, SongsAsWritten
<1>5. GoodSongs(items) /\ WithIds(items) /\ WithIds(songs) /\ WithIds(players.all)
  BY <1>2, SongsLoaded DEF GoodSongs, GoodPlayers
<1> HIDE DEF items
<1>6. Grows(songs, items)
  <2>1. \A x : (\E j \in items : x = Key(j)) <=> (\E i \in songs : x = SongEntry(i))
    BY <1>4 DEF Keys
  <2>2. \A i, j : Key(j) = SongEntry(i) => Same(i, j)
    BY DEF Key, SongEntry, Same
  <2>3. \A i \in songs : \E j \in items : Same(i, j)
    BY <2>1, <2>2
  <2>4. \A j \in items : \E i \in songs : Same(i, j)
    BY <2>1, <2>2
  <2> QED BY <2>3, <2>4 DEF Grows
<1>7. ToSet(hiscores) \in SUBSET HiscoreEntries
  BY DEF Sorted, ToSet
<1>8. ReadIn(ToSet(hiscores), players.all, items, G)
  BY <1>5, <1>6, <1>7, AllReadsStay
<1>9. GoodPart(f.hiscores) = hiscores
  BY <1>1, <1>2 DEF AllGood
<1> QED BY <1>3, <1>8, <1>9 DEF FileReads, items, f


LEMMA ReadsStayGiven ==
  ASSUME NEW G, NEW more, G \subseteq more
  PROVE  /\ \A H, all, items : ReadIn(H, all, items, G) => ReadIn(H, all, items, more)
         /\ \A f : FileReads(f, G) => FileReads(f, more)
<1>1. \A H, all, items : ReadIn(H, all, items, G) => ReadIn(H, all, items, more)
  BY DEF ReadIn
<1> QED BY <1>1, Zenon DEF FileReads

LEMMA HiscoresInit ==
  ASSUME RecordsInit, NothingDangles
  PROVE  HiscoresInv
<1>1. /\ hiscores = <<>> /\ session = {} /\ file \in Files
      /\ given = {Read(h, LoadPlayers(file), LoadSongs(file)) : h \in ToSet(GoodPart(file.hiscores))}
  BY Zenon DEF RecordsInit
<1>2. savingDb = "no"
  BY Zenon DEF RecordsInit
<1>3. ToSet(hiscores) = {}
  BY <1>1 DEF ToSet
<1>4. ReadIn(ToSet(hiscores), players.all, songs, given)
  BY <1>3 DEF ReadIn
<1>5. FileReads(file, given)
  <2> SUFFICES ASSUME AllGood(file.players), AllGood(file.songs)
               PROVE  ReadIn(ToSet(GoodPart(file.hiscores)), LoadPlayers(file), LoadSongs(file), given)
    BY DEF FileReads
  <2>1. \A h \in ToSet(GoodPart(file.hiscores)) : Held(h, LoadPlayers(file), LoadSongs(file))
    BY <1>1 DEF NothingDangles
  <2> QED BY <1>1, <2>1 DEF ReadIn
<1>6. \A g \in session : ShownIn(g, ToSet(hiscores), players.all, songs)
  BY <1>1
<1> QED BY <1>2, <1>4, <1>5, <1>6, Zenon DEF HiscoresInv

(* What is in memory stays as it reads while players and songs are added.  *)
LEMMA MemoryReadsStay ==
  ASSUME GoodMemory, GoodMemory', HiscoresInv, players.all \subseteq players'.all,
         \A p \in players'.all \ players.all : Above(players.all, p), Grows(songs, songs')
  PROVE  /\ ReadIn(ToSet(hiscores), players'.all, songs', given)
         /\ \A g \in session : \A K : ToSet(hiscores) \subseteq K => ShownIn(g, K, players'.all, songs')
<1>1. /\ WithIds(players.all) /\ WithIds(players'.all) /\ WithIds(songs) /\ WithIds(songs')
      /\ ToSet(hiscores) \in SUBSET HiscoreEntries
  <2>1. hiscores \in Seq(HiscoreEntries)
    BY DEF GoodMemory, Sorted
  <2>2. ToSet(hiscores) \in SUBSET HiscoreEntries
    BY <2>1 DEF ToSet
  <2> QED BY <2>2 DEF GoodMemory, GoodPlayers, GoodSongs
<1>2. /\ ReadIn(ToSet(hiscores), players.all, songs, given)
      /\ \A g \in session : ShownIn(g, ToSet(hiscores), players.all, songs)
  BY Zenon DEF HiscoresInv
<1>3. PICK H, all, items, more, new :
        H = ToSet(hiscores) /\ all = players.all /\ items = songs /\ more = players'.all /\ new = songs'
  OBVIOUS
<1>4. /\ ReadIn(H, more, new, given)
      /\ \A g, K : ShownIn(g, H, all, items) /\ H \subseteq K => ShownIn(g, K, more, new)
  <2>1. /\ WithIds(all) /\ WithIds(more) /\ all \subseteq more /\ \A p \in more \ all : Above(all, p)
        /\ WithIds(items) /\ WithIds(new) /\ Grows(items, new)
        /\ H \in SUBSET HiscoreEntries /\ ReadIn(H, all, items, given)
    BY <1>1, <1>2, <1>3
  <2> QED BY <2>1, AllReadsStay
<1> QED BY <1>2, <1>3, <1>4

LEMMA OnlyMemoryGrows ==
  ASSUME GoodMemory, GoodMemory', HiscoresInv, players'.all = players.all, Grows(songs, songs'),
         hiscores' = hiscores, UNCHANGED <<databaseVars, history>>
  PROVE  HiscoresInv'
<1>1. /\ ReadIn(ToSet(hiscores), players'.all, songs', given)
      /\ \A g \in session : ShownIn(g, ToSet(hiscores), players'.all, songs')
  BY MemoryReadsStay
<1>2. /\ file' = file /\ besides' = besides /\ savingDb' = savingDb
      /\ given' = given /\ session' = session
  BY DEF databaseVars, history
<1>3. FileReads(file, given) /\ (savingDb # "no" => FileReads(besides, given))
  BY Zenon DEF HiscoresInv
<1> QED BY <1>1, <1>2, <1>3 DEF HiscoresInv

LEMMA SongsStay == Grows(songs, songs)
BY DEF Grows, Same


LEMMA LaunchKeepsHiscores ==
  ASSUME DatabaseInv, HiscoresInv, Launch
  PROVE  HiscoresInv'
<1>1. /\ minimum' \in Minimums /\ players' = LoadedPlayers(file)
      /\ songs' = LoadSongs(file) /\ hiscores' = LoadHiscores(file, minimum')
      /\ session' = {} /\ UNCHANGED <<databaseVars, given>>
  BY Zenon DEF Launch
<1>2. TypedFile(file) /\ minimum' \in Nat
  BY <1>1, FilesAreTyped, SettingsAreNumbers DEF DatabaseInv, GoodDisk
<1>3. players'.all = LoadPlayers(file)
  BY <1>1, <1>2, PlayersLoaded
<1>4. FileReads(file, given) /\ (savingDb # "no" => FileReads(besides, given))
  BY Zenon DEF HiscoresInv
<1>5. ReadIn(ToSet(hiscores'), LoadPlayers(file), LoadSongs(file), given)
  <2>1. CASE AllGood(file.players) /\ AllGood(file.songs)
    <3>1. ToSet(hiscores') \subseteq ToSet(GoodPart(file.hiscores))
      BY <1>1, <1>2, <2>1, HiscoresLoaded
    <3>2. ReadIn(ToSet(GoodPart(file.hiscores)), LoadPlayers(file), LoadSongs(file), given)
      BY <1>4, <2>1 DEF FileReads
    <3> QED BY <3>1, <3>2 DEF ReadIn
  <2>2. CASE ~(AllGood(file.players) /\ AllGood(file.songs))
    <3>1. hiscores' = <<>>
      BY <1>1, <1>2, <2>2, HiscoresLoaded
    <3>2. ToSet(hiscores') = {}
      BY <3>1 DEF ToSet
    <3> QED BY <3>2 DEF ReadIn
  <2> QED BY <2>1, <2>2
<1>6. /\ given' = given /\ file' = file /\ besides' = besides /\ savingDb' = savingDb
      /\ \A g \in session' : FALSE
  BY <1>1 DEF databaseVars
<1>7. ReadIn(ToSet(hiscores'), players'.all, songs', given')
  BY <1>1, <1>3, <1>5, <1>6, Zenon
<1> QED BY <1>4, <1>6, <1>7 DEF HiscoresInv

LEMMA GoneKeepsHiscores ==
  ASSUME Gone, given' = given
  PROVE  /\ ReadIn(ToSet(hiscores'), players'.all, songs', given')
         /\ \A g \in session' : ShownIn(g, ToSet(hiscores'), players'.all, songs')
<1>1. hiscores' = <<>> /\ session' = {}
  BY Zenon DEF Gone
<1>2. ToSet(hiscores') = {}
  BY <1>1 DEF ToSet
<1> QED BY <1>1, <1>2 DEF ReadIn

LEMMA SaveKeepsHiscores ==
  ASSUME DatabaseInv, HiscoresInv, BeginSave \/ EndSave \/ Crash
  PROVE  HiscoresInv'
<1>1. /\ ReadIn(ToSet(hiscores), players.all, songs, given)
      /\ \A g \in session : ShownIn(g, ToSet(hiscores), players.all, songs)
      /\ FileReads(file, given) /\ (savingDb # "no" => FileReads(besides, given))
  BY Zenon DEF HiscoresInv
<1>2. CASE BeginSave
  <2>1. UNCHANGED <<dbVars, history>> /\ UNCHANGED <<file, saved>> /\ besides' = Contents
    BY <1>2, Zenon DEF BeginSave, WriteDatabase
  <2>2. FileReads(Contents, given)
    BY <1>1, ContentsRead DEF DatabaseInv, GoodMemory
  <2> QED BY <1>1, <2>1, <2>2 DEF HiscoresInv, dbVars, history
<1>3. CASE EndSave
  <2>1. /\ savingDb # "no" /\ savingDb' = "no" /\ given' = given
        /\ \/ file' = besides /\ saved' = besides
           \/ UNCHANGED <<file, saved, besides>>
    BY <1>3, Zenon DEF EndSave
  <2>2. FileReads(file', given') /\ savingDb' = "no"
    BY <1>1, <2>1
  <2>3. CASE Gone
    BY <2>1, <2>2, <2>3, GoneKeepsHiscores DEF HiscoresInv
  <2>4. CASE shown' = "other" /\ UNCHANGED <<up, settingsVars, dbVars, scores, song, search, session>>
    BY <1>1, <2>1, <2>2, <2>4 DEF HiscoresInv, dbVars
  <2> QED BY <1>3, <2>3, <2>4, Zenon DEF EndSave
<1>4. CASE Crash
  <2>1. Gone /\ savingDb' = "no" /\ UNCHANGED <<file, besides, saved, changes, given>>
    BY <1>4, Zenon DEF Crash
  <2> QED BY <1>1, <2>1, GoneKeepsHiscores DEF HiscoresInv
<1> QED BY <1>2, <1>3, <1>4

LEMMA SongsKeepHiscores ==
  ASSUME DatabaseInv, DatabaseInv', HiscoresInv, ChangeSettings \/ FindSong \/ Abort \/ Sing
  PROVE  HiscoresInv'
<1>1. GoodMemory /\ GoodMemory' /\ GoodPlayers(players) /\ GoodSongs(songs)
  BY DEF DatabaseInv, GoodMemory
<1>2. CASE ChangeSettings
  <2>1. UNCHANGED <<dbVars, databaseVars, history>>
    BY <1>2, Zenon DEF ChangeSettings
  <2> QED BY <1>1, <2>1, SongsStay, OnlyMemoryGrows DEF dbVars
<1>3. CASE FindSong
  <2>1. UNCHANGED <<players, hiscores, databaseVars, history>> /\ \E s \in SongObjects : AddSong(s)
    BY <1>3, Zenon DEF FindSong
  <2>2. Grows(songs, songs')
    BY <1>1, <2>1, SongAdded
  <2> QED BY <1>1, <2>1, <2>2, OnlyMemoryGrows
<1>4. CASE Abort
  <2>1. UNCHANGED <<players, songs, hiscores, databaseVars, history>>
    BY <1>4, Zenon DEF Abort
  <2> QED BY <1>1, <2>1, SongsStay, OnlyMemoryGrows
<1>5. CASE Sing
  <2>1. UNCHANGED <<hiscores, databaseVars, history>> /\ \E s \in SongObjects : AddSong(s)
    BY <1>5, Zenon DEF Sing
  <2>2. Grows(songs, songs')
    BY <1>1, <2>1, SongAdded
  <2>3. players' = players \/ players' = Update(SetFilter(players, ""))
    BY <1>5, Zenon DEF Sing
  <2>4. PICK none : none = ""
    BY Zenon
  <2>5. none \in STRING /\ (players' = players \/ players' = Update(SetFilter(players, none)))
    BY <2>3, <2>4, NothingTyped, SearchesMatch, Zenon
  <2>6. GoodPlayers(SetFilter(players, none)) /\ SetFilter(players, none).all = players.all
    BY <1>1, <2>5, FilterSet
  <2>7. players'.all = players.all
    BY <2>5, <2>6, Updated
  <2> QED BY <1>1, <2>1, <2>2, <2>7, OnlyMemoryGrows
<1> QED BY <1>2, <1>3, <1>4, <1>5

LEMMA ScreenKeepsHiscores ==
  ASSUME DatabaseInv, DatabaseInv', HiscoresInv, Type \/ Advance \/ LeavePlayers
  PROVE  HiscoresInv'
<1>1. GoodMemory /\ GoodMemory' /\ GoodPlayers(players)
  BY DEF DatabaseInv, GoodMemory
<1>2. UNCHANGED <<songs, hiscores, databaseVars, history>>
  BY Zenon DEF Type, Advance, LeavePlayers, Unchanged
<1>3. CASE Type
  <2>1. PICK text \in Names : players' = SetFilter(players, text)
    BY <1>3, Zenon DEF Type
  <2>2. text \in STRING
    BY SearchesMatch, Zenon DEF Searches
  <2>3. players'.all = players.all
    BY <1>1, <2>1, <2>2, FilterSet
  <2> QED BY <1>1, <1>2, <2>3, SongsStay, OnlyMemoryGrows
<1>4. CASE Advance
  <2>1. PICK place : players' = [players EXCEPT !.target = place]
    BY <1>4, Zenon DEF Advance
  <2>2. players'.all = players.all
    BY <1>1, <2>1 DEF GoodPlayers, PlayersType
  <2> QED BY <1>1, <1>2, <2>2, SongsStay, OnlyMemoryGrows
<1>5. CASE LeavePlayers
  <2>1. players' = players
    BY <1>5, Zenon DEF LeavePlayers
  <2> QED BY <1>1, <1>2, <2>1, SongsStay, OnlyMemoryGrows
<1> QED BY <1>3, <1>4, <1>5


(* The new hiscore reads as it was given: its player is the one meant.     *)
LEMMA NewHiscoreReads ==
  ASSUME GoodMemory, GoodScreen, shown = "players", TheirIds # {}, NEW g,
         g = [name |-> Meant(Them), title |-> Title[song], score |-> TheirHiscore.score, level |-> level]
  PROVE  /\ Held(TheirHiscore, Them.all, songs) /\ Read(TheirHiscore, Them.all, songs) = g
         /\ \A H : TheirHiscore \in H => ShownIn(g, H, Them.all, songs)
<1>1. PICK h : h = TheirHiscore
  OBVIOUS
<1>2. PICK all : all = Them.all
  OBVIOUS
<1>3. GoodPlayers(Them)
  BY HiscoreGiven
<1>4. WithIds(all) /\ WithIds(songs)
  BY <1>2, <1>3 DEF GoodMemory, GoodPlayers, GoodSongs
<1>5. PICK q \in all : q.id = h.playerid /\ q.name = Current(Them)
  BY <1>1, <1>2, HiscoreGiven
<1>6. PICK i \in songs : i.id = h.songid /\ i.title = Title[song] /\ IsFirst(songs, i)
  BY <1>1, HiscoreGiven
<1>7. Meant(Them) = Current(Them)
  <2>1. players.filtered = <<>> /\ PlayerIds(Them, search) # {} => Current(Them) = search
    BY NewPlayerMade DEF Them, GoodMemory, GoodScreen
  <2> QED BY <2>1 DEF Meant
<1>8. h.level = level
  BY <1>1 DEF TheirHiscore, Entry
<1>9. NameOf(all, h.playerid) = Current(Them) /\ Under(h.playerid, all)
  BY <1>4, <1>5, NameOfPlayer
<1>10. TitleOf(songs, h.songid) = Title[song] /\ Under(h.songid, songs)
  BY <1>4, <1>6, TitleOfItem
<1>11. g = [name |-> Current(Them), title |-> Title[song], score |-> h.score, level |-> level]
  BY <1>1, <1>7
<1>12. Read(h, all, songs) = g
  BY <1>8, <1>9, <1>10, <1>11, ReadOf
<1>13. Held(h, all, songs)
  BY <1>9, <1>10 DEF Held
<1>14. ASSUME NEW H, h \in H PROVE ShownIn(g, H, all, songs)
  <2>1. g.title = Title[song]
    BY <1>11
  <2>2. h.songid = i.id /\ i.title = g.title
    BY <1>6, <2>1
  <2> QED BY <1>6, <1>12, <1>14, <2>2, Zenon DEF ShownIn
<1> QED BY <1>1, <1>2, <1>12, <1>13, <1>14

LEMMA StartKeepsHiscores ==
  ASSUME DatabaseInv, DatabaseInv', HiscoresInv, PressStart
  PROVE  HiscoresInv'
<1> DEFINE g == [name |-> Meant(Them), title |-> Title[song], score |-> TheirHiscore.score,
                 level |-> level]
           theirs == IF NewList = hiscores THEN {} ELSE {g}
<1>1. GoodMemory /\ GoodMemory' /\ GoodScreen /\ GoodPlayers(players)
  BY DEF DatabaseInv, GoodMemory
<1>2. shown = "players" /\ UNCHANGED <<songs, databaseVars>> /\ hiscores' = NewList
  BY Zenon DEF PressStart, OnScreen, Unchanged, NewList, TheirHiscore, TheirIds, Them
<1>3. given' = given \cup theirs /\ session' = session \cup theirs
  BY Zenon DEF PressStart, NewList, TheirHiscore, TheirIds, Them
<1>4. players'.all = Them.all
  <2>1. PICK none : none = ""
    BY Zenon
  <2>2. players' = Them \/ players' = SetFilter(Them, "")
    BY Zenon DEF PressStart, Them
  <2>3. none \in STRING /\ (players' = Them \/ players' = SetFilter(Them, none))
    BY <2>1, <2>2, NothingTyped, SearchesMatch, Zenon
  <2>4. GoodPlayers(Them)
    BY <1>1, <1>2, HiscoreGiven
  <2>5. SetFilter(Them, none).all = Them.all
    BY <2>3, <2>4, FilterSet
  <2> QED BY <2>3, <2>5, Zenon
<1>5. /\ players.all \subseteq players'.all
      /\ \A q \in players'.all \ players.all : Above(players.all, q)
  BY <1>1, <1>2, <1>4, NewPlayerMade DEF Them, GoodScreen
<1>6. Grows(songs, songs')
  BY <1>2, SongsStay
<1>7. /\ ReadIn(ToSet(hiscores), players'.all, songs', given)
      /\ \A s \in session : \A K : ToSet(hiscores) \subseteq K => ShownIn(s, K, players'.all, songs')
  BY <1>1, <1>5, <1>6, MemoryReadsStay
<1>8. ToSet(hiscores) \subseteq ToSet(NewList)
  BY <1>1, <1>2, HiscoreGiven
<1>9. ReadIn(ToSet(hiscores), players'.all, songs', given')
  BY <1>3, <1>7, ReadsStayGiven
<1>10. /\ ReadIn(ToSet(hiscores'), players'.all, songs', given')
       /\ \A s \in session' : ShownIn(s, ToSet(hiscores'), players'.all, songs')
  <2>1. CASE NewList = hiscores
    BY <1>2, <1>3, <1>7, <1>9, <2>1
  <2>2. CASE NewList # hiscores
    <3>1. /\ TheirIds # {} /\ TheirHiscore \in ToSet(NewList)
          /\ ToSet(NewList) \subseteq ToSet(hiscores) \cup {TheirHiscore}
      BY <1>1, <1>2, <2>2, HiscoreGiven
    <3>2. /\ Held(TheirHiscore, Them.all, songs) /\ Read(TheirHiscore, Them.all, songs) = g
          /\ \A H : TheirHiscore \in H => ShownIn(g, H, Them.all, songs)
      BY <1>1, <1>2, <3>1, NewHiscoreReads
    <3>3. g \in given' /\ \A s \in session' : s \in session \/ s = g
      BY <1>3, <2>2
    <3> HIDE DEF g
    <3>4. Held(TheirHiscore, players'.all, songs') /\ Read(TheirHiscore, players'.all, songs') \in given'
      BY <1>2, <1>4, <3>2, <3>3
    <3>5. ReadIn(ToSet(hiscores'), players'.all, songs', given')
      BY <1>2, <1>9, <3>1, <3>4 DEF ReadIn
    <3>6. ShownIn(g, ToSet(hiscores'), players'.all, songs')
      BY <1>2, <1>4, <3>1, <3>2
    <3>7. \A s \in session : ShownIn(s, ToSet(hiscores'), players'.all, songs')
      BY <1>2, <1>7, <1>8
    <3> QED BY <3>3, <3>5, <3>6, <3>7
  <2> QED BY <2>1, <2>2
<1>11. FileReads(file, given') /\ (savingDb # "no" => FileReads(besides, given'))
  <2>1. FileReads(file, given) /\ (savingDb # "no" => FileReads(besides, given))
    BY Zenon DEF HiscoresInv
  <2>2. given \subseteq given'
    BY <1>3
  <2> QED BY <2>1, <2>2, ReadsStayGiven
<1>12. file' = file /\ besides' = besides /\ savingDb' = savingDb
  BY <1>2 DEF databaseVars
<1> QED BY <1>10, <1>11, <1>12 DEF HiscoresInv

LEMMA HiscoresStep ==
  ASSUME DatabaseInv, DatabaseInv', HiscoresInv, [RecordsNext]_recordsVars
  PROVE  HiscoresInv'
<1>1. CASE Launch
  BY <1>1, LaunchKeepsHiscores
<1>2. CASE BeginSave \/ EndSave \/ Crash
  BY <1>2, SaveKeepsHiscores
<1>3. CASE ChangeSettings \/ FindSong \/ Abort \/ Sing
  BY <1>3, SongsKeepHiscores
<1>4. CASE Type \/ Advance \/ LeavePlayers
  BY <1>4, ScreenKeepsHiscores
<1>5. CASE PressStart
  BY <1>5, StartKeepsHiscores
<1>6. CASE UNCHANGED recordsVars
  <2>1. UNCHANGED <<dbVars, databaseVars, history>>
    BY <1>6 DEF recordsVars
  <2> QED BY <2>1, SongsStay, OnlyMemoryGrows DEF dbVars, DatabaseInv
<1> QED BY <1>1, <1>2, <1>3, <1>4, <1>5, <1>6, Zenon DEF RecordsNext

(* At the level that is set, a hiscore of this game is among those of its  *)
(* song, the best of which is at least as high.                            *)
LEMMA HiscoresInvImplies ==
  ASSUME DatabaseInv, HiscoresInv
  PROVE  HiscoresKept
<1>1. GoodSongs(songs) /\ WithIds(songs) /\ hiscores \in Seq(HiscoreEntries) /\ BestFirst(hiscores)
  BY DEF DatabaseInv, GoodMemory, GoodSongs, Sorted
<1>2. /\ ReadIn(ToSet(hiscores), players.all, songs, given)
      /\ \A g \in session : ShownIn(g, ToSet(hiscores), players.all, songs)
  BY Zenon DEF HiscoresInv
<1>3. HiscoresAreTheirs
  <2>1. \A k \in DOMAIN hiscores : hiscores[k] \in ToSet(hiscores)
    BY DEF ToSet
  <2> QED BY <1>2, <2>1 DEF HiscoresAreTheirs, ReadIn
<1>4. ASSUME NEW g \in session, g.level = level
      PROVE  \E i \in songs :
               /\ i.title = g.title
               /\ \E k \in QueryHiscore(i.id) : Read(hiscores[k], players.all, songs) = g
               /\ i.song # NoSong => GetHiscore(i.song) >= g.score
  <2>1. PICK h \in ToSet(hiscores), i \in songs :
          /\ h.songid = i.id /\ i.title = g.title /\ IsFirst(songs, i)
          /\ Read(h, players.all, songs) = g
    BY <1>2, Zenon DEF ShownIn
  <2>2. PICK k \in DOMAIN hiscores : h = hiscores[k]
    BY DEF ToSet
  <2>3. g.level = h.level /\ g.score = h.score
    BY <2>1, ReadOf
  <2>4. k \in QueryHiscore(i.id)
    BY <1>4, <2>1, <2>2, <2>3 DEF QueryHiscore
  <2>5. ASSUME i.song # NoSong PROVE GetHiscore(i.song) >= g.score
    <3> DEFINE own == QueryHiscore(i.id)
               linked == {j \in songs : j.song = i.song}
    <3>1. linked = {i}
      <4>1. ASSUME NEW j \in songs, j.song = i.song PROVE j = i
        <5>1. j.title = Title[i.song] /\ i.title = Title[i.song] /\ IsFirst(songs, i) /\ IsFirst(songs, j)
          BY <1>1, <2>5, <4>1 DEF GoodSongs
        <5>2. i.id <= j.id /\ j.id <= i.id /\ i.id \in Nat /\ j.id \in Nat
          BY <1>1, <5>1 DEF IsFirst, WithIds
        <5>3. i.id = j.id
          BY <5>2
        <5> QED BY <1>1, <5>3 DEF WithIds
      <4> QED BY <4>1
    <3>2. (CHOOSE j \in linked : TRUE) = i
      BY <3>1
    <3>3. linked # {} /\ own # {} /\ own \subseteq DOMAIN hiscores
      BY <2>4, <3>1 DEF QueryHiscore
    <3>4. GetHiscore(i.song) = hiscores[Min(own)].score
      BY <3>2, <3>3 DEF GetHiscore
    <3>5. own \in SUBSET Nat
      BY <1>1, <3>3
    <3> HIDE DEF own
    <3>6. Min(own) \in own /\ Min(own) <= k
      BY <2>4, <3>3, <3>5, MinOf DEF own
    <3>7. PICK m : m = Min(own)
      OBVIOUS
    <3>8. m \in DOMAIN hiscores /\ m <= k /\ m \in Nat /\ k \in Nat
      BY <1>1, <3>3, <3>6, <3>7
    <3>9. hiscores[m].score >= hiscores[k].score
      <4>1. hiscores[k] \in HiscoreEntries
        BY <1>1, Elements
      <4>2. CASE m = k
        BY <4>1, <4>2 DEF HiscoreEntries
      <4>3. CASE m < k
        BY <1>1, <3>8, <4>3 DEF BestFirst
      <4> QED BY <3>8, <4>2, <4>3
    <3> QED BY <2>2, <2>3, <3>4, <3>7, <3>9
  <2> QED BY <2>1, <2>2, <2>4, <2>5
<1> QED BY <1>3, <1>4 DEF HiscoresKept, HiscoresAreShown

(* Every hiscore reads as it was given, to its singer for its song, and    *)
(* one of this game is found again with its song (addHiscore,              *)
(* queryHiscore), after any filtering, saves, crashes and restarts.  The   *)
(* files there are at first may be cut short and have an id twice, but no  *)
(* hiscore names an id that the next new player, or song, may be given.    *)
THEOREM HiscoresStayTheirs ==
  ASSUME NothingDangles
  PROVE  RecordsSpec => []HiscoresKept
<1>1. RecordsInit => DatabaseInv /\ HiscoresInv
  BY DatabaseInit, HiscoresInit
<1>2. DatabaseInv /\ HiscoresInv /\ [RecordsNext]_recordsVars => (DatabaseInv /\ HiscoresInv)'
  BY DatabaseStep, HiscoresStep
<1>3. DatabaseInv /\ HiscoresInv => HiscoresKept
  BY HiscoresInvImplies
<1> QED BY <1>1, <1>2, <1>3, PTL DEF RecordsSpec

=============================================================================
