----------------------------- MODULE FoldLemmas -----------------------------
(***************************************************************************)
(* What the proofs need of numbers, of the sum of a function over a finite *)
(* set and of the fold of a sequence, with nothing of the program in it.   *)
(* Sums and folds are those of FiniteSetsExt and SequencesExt, whose       *)
(* definitions by CHOOSE say nothing until a function is shown to exist.   *)
(***************************************************************************)
EXTENDS Integers, Sequences, FiniteSets, FiniteSetsExt, SequencesExt,
        FiniteSetTheorems, WellFoundedInduction, TLAPS

(* Among numbers there is a least one, and among a few a greatest.         *)
LEMMA LeastNumber ==
  ASSUME NEW T \in SUBSET Nat, T # {}
  PROVE  \E n \in T : \A m \in T : n <= m
<1> DEFINE R == OpToRel(<, Nat)
<1>1. IsWellFoundedOn(R, Nat)
  BY NatLessThanWellFounded
<1>2. ASSUME NEW n \in Nat, NEW m \in Nat, m < n PROVE <<m, n>> \in R
  BY <1>2 DEF OpToRel
<1> HIDE DEF R
<1>3. PICK n \in T : \A m \in T : <<m, n>> \notin R
  BY <1>1, WFMin, Zenon
<1>4. ASSUME NEW m \in T PROVE n <= m
  <2>1. ~ (m < n)
    BY <1>2, <1>3
  <2> QED BY <2>1
<1> QED BY <1>4

LEMMA MinOf ==
  ASSUME NEW S \in SUBSET Nat, S # {}
  PROVE  Min(S) \in S /\ \A x \in S : Min(S) <= x
<1>1. \E n \in S : \A m \in S : n <= m
  BY LeastNumber
<1>2. Min(S) \in S /\ \A x \in S : Min(S) <= x
  BY <1>1 DEF Min
<1> QED BY <1>2

LEMMA MinOfTwo ==
  ASSUME NEW x \in Int, NEW y \in Int
  PROVE  Min({x, y}) = IF x <= y THEN x ELSE y
<1>1. \E n \in {x, y} : \A m \in {x, y} : n <= m
  OBVIOUS
<1>2. Min({x, y}) \in {x, y} /\ \A m \in {x, y} : Min({x, y}) <= m
  BY <1>1 DEF Min
<1> QED BY <1>2

LEMMA GreatestOf ==
  ASSUME NEW n \in Nat, NEW S \in SUBSET (0 .. n), S # {}
  PROVE  Max(S) \in S /\ \A x \in S : x <= Max(S)
<1> DEFINE T == {n - x : x \in S}
<1>1. T \in SUBSET Nat /\ T # {}
  <2>1. \A x \in S : x \in 0 .. n /\ n - x \in Nat
    OBVIOUS
  <2>2. PICK x \in S : TRUE
    OBVIOUS
  <2> QED BY <2>1, <2>2
<1>2. PICK t \in T : \A u \in T : t <= u
  BY <1>1, LeastNumber
<1>3. PICK m \in S : t = n - m
  BY <1>2
<1>4. \A x \in S : m >= x
  <2> SUFFICES ASSUME NEW x \in S PROVE m >= x
    OBVIOUS
  <2>1. n - m <= n - x
    BY <1>2, <1>3
  <2> QED BY <2>1
<1>5. Max(S) \in S /\ \A x \in S : Max(S) >= x
  BY <1>4 DEF Max
<1>6. \A x \in S : x \in Int
  OBVIOUS
<1> QED BY <1>5, <1>6

(* An interval is finite.                                                  *)
LEMMA Intervals ==
  ASSUME NEW i \in Int, NEW j \in Int
  PROVE  IsFiniteSet(i .. j)
BY FS_Interval

(* Induction over the numbers, and over the subsets of a finite set.       *)
LEMMA Induction ==
  ASSUME NEW P, 0 \in P, \A n \in Nat : n \in P => n + 1 \in P
  PROVE  \A n \in Nat : n \in P
<1> DEFINE T == {n \in Nat : n \notin P}
<1> SUFFICES ASSUME T # {} PROVE FALSE
  OBVIOUS
<1>1. PICK n \in T : \A m \in T : n <= m
  BY LeastNumber, T \in SUBSET Nat
<1>2. n # 0 /\ n - 1 \in Nat /\ n - 1 \notin T /\ (n - 1) + 1 = n
  BY <1>1
<1> QED BY <1>1, <1>2

(* Two sets that share nothing have the elements of both.                  *)
LEMMA DisjointUnion ==
  ASSUME NEW S, IsFiniteSet(S), NEW T, IsFiniteSet(T), S \cap T = {}
  PROVE  Cardinality(S \cup T) = Cardinality(S) + Cardinality(T)
<1>1. Cardinality(S \cup T) = Cardinality(S) + Cardinality(T) - Cardinality(S \cap T)
  BY FS_Union, SMT
<1>2. Cardinality(S \cap T) = 0
  BY FS_EmptySet, Zenon
<1>3. Cardinality(S) \in Nat /\ Cardinality(T) \in Nat
  BY FS_CardinalityType
<1> DEFINE u == Cardinality(S \cup T)
           i == Cardinality(S \cap T)
<1>4. u = Cardinality(S) + Cardinality(T) - i /\ i = 0
  BY <1>1, <1>2
<1> HIDE DEF u, i
<1>5. u = Cardinality(S) + Cardinality(T)
  BY <1>3, <1>4
<1> QED BY <1>5 DEF u

(* A set of n + 1 elements has n without any one of them.                  *)
LEMMA OneLess ==
  ASSUME NEW s, IsFiniteSet(s), NEW n \in Nat, Cardinality(s) = n + 1
  PROVE  s # {} /\ \A x \in s : Cardinality(s \ {x}) = n
<1>1. s # {}
  BY FS_EmptySet
<1>2. ASSUME NEW x \in s PROVE Cardinality(s \ {x}) = n
  <2>1. Cardinality(s \ {x}) = Cardinality(s) - 1
    BY FS_RemoveElement
  <2> QED BY <2>1
<1> QED BY <1>1, <1>2

(* What the empty set is, and one element does not change, the whole is.   *)
LEMMA SetInduction ==
  ASSUME NEW S, IsFiniteSet(S), NEW P, {} \in P,
         \A s \in SUBSET S, x \in S : s \in P /\ x \notin s => s \cup {x} \in P
  PROVE  S \in P
<1> DEFINE N == {n \in Nat : \A s \in SUBSET S : Cardinality(s) = n => s \in P}
<1>1. 0 \in N
  BY FS_Subset, FS_EmptySet
<1>2. ASSUME NEW n \in Nat, n \in N PROVE n + 1 \in N
  <2> SUFFICES ASSUME NEW s \in SUBSET S, Cardinality(s) = n + 1 PROVE s \in P
    OBVIOUS
  <2>1. IsFiniteSet(s) /\ s # {}
    BY FS_Subset, OneLess
  <2>2. PICK x \in s : TRUE
    BY <2>1
  <2>3. Cardinality(s \ {x}) = n
    BY <2>1, OneLess
  <2>4. s \ {x} \in P
    BY <2>3, <1>2
  <2>5. s = (s \ {x}) \cup {x} /\ x \in S /\ s \ {x} \in SUBSET S
    OBVIOUS
  <2> QED BY <2>4, <2>5
<1>3. Cardinality(S) \in N
  <2> HIDE DEF N
  <2> QED BY <1>1, <1>2, Induction, FS_CardinalityType
<1> QED BY <1>3

-----------------------------------------------------------------------------
(* Sums.                                                                   *)

AnyOf(s) == CHOOSE x \in s : TRUE
SumsUp(h, f, S) ==
  h = [s \in SUBSET S |-> IF s = {} THEN 0 ELSE f[AnyOf(s)] + h[s \ {AnyOf(s)}]]

(* The sum goes through the elements as they are chosen, and so does any   *)
(* fold of a function over a set: what was got from the others and the     *)
(* element chosen first give the next value.  Such a function exists.      *)
FoldsTo(h, F, base, choice, S) ==
  h = [s \in SUBSET S |-> IF s = {} THEN base ELSE F[<<h[s \ {choice[s]}], choice[s]>>]]

LEMMA FoldExists ==
  ASSUME NEW S, IsFiniteSet(S), NEW F, NEW base, NEW choice,
         \A s \in SUBSET S : s # {} => choice[s] \in s
  PROVE  \E h : FoldsTo(h, F, base, choice, S)
<1> DEFINE Next1(h) == [s \in SUBSET S |->
                          IF s = {} THEN base ELSE F[<<h[s \ {choice[s]}], choice[s]>>]]
           Good(h, n) == /\ h = [s \in SUBSET S |-> h[s]]
                         /\ \A s \in SUBSET S : Cardinality(s) < n => h[s] = Next1(h)[s]
           Failing == {n \in Nat : ~ \E h : Good(h, n)}
<1>1. ASSUME NEW n \in Nat, NEW h, Good(h, n) PROVE Good(Next1(h), n + 1)
  <2> DEFINE g == Next1(h)
  <2>1. ASSUME NEW s \in SUBSET S, Cardinality(s) < n + 1 PROVE g[s] = Next1(g)[s]
    <3>1. CASE s = {}
      BY <3>1
    <3>2. CASE s # {}
      <4>1. choice[s] \in s
        BY <3>2
      <4>2. s \ {choice[s]} \in SUBSET S /\ Cardinality(s \ {choice[s]}) < n
        <5>1. IsFiniteSet(s) /\ Cardinality(s) \in Nat
          BY FS_Subset, FS_CardinalityType
        <5>2. Cardinality(s \ {choice[s]}) = Cardinality(s) - 1
          BY <5>1, <4>1, FS_RemoveElement
        <5> QED BY <5>1, <5>2, <2>1
      <4>3. h[s \ {choice[s]}] = g[s \ {choice[s]}]
        BY <4>2, <1>1
      <4> QED BY <4>3, <3>2
    <3> QED BY <3>1, <3>2
  <2> HIDE DEF Next1
  <2>2. g = [s \in SUBSET S |-> g[s]]
    BY DEF Next1
  <2> QED BY <2>1, <2>2
<1>2. Failing = {}
  <2> SUFFICES ASSUME Failing # {} PROVE FALSE
    OBVIOUS
  <2> HIDE DEF Next1
  <2>1. PICK n \in Failing : \A m \in Failing : n <= m
    BY LeastNumber, Failing \in SUBSET Nat
  <2>2. n # 0
    <3>1. Good([s \in SUBSET S |-> 0], 0)
      <4>1. ASSUME NEW s \in SUBSET S PROVE ~ (Cardinality(s) < 0)
        BY FS_Subset, FS_CardinalityType
      <4> QED BY <4>1
    <3> HIDE DEF Good
    <3>2. CASE n = 0
      <4>1. ~ \E h : Good(h, 0)
        BY <2>1, <3>2
      <4> QED BY <3>1, <4>1
    <3> QED BY <3>2
  <2>3. n - 1 \in Nat /\ (n - 1) + 1 = n /\ ~ (n <= n - 1)
    BY <2>1, <2>2
  <2> HIDE DEF Good
  <2>4. PICK h : Good(h, n - 1)
    BY <2>1, <2>3
  <2>5. Good(Next1(h), n)
    BY <2>3, <2>4, <1>1
  <2> QED BY <2>1, <2>5
<1>3. PICK h : Good(h, Cardinality(S) + 1)
  <2>1. Cardinality(S) + 1 \in Nat
    BY FS_CardinalityType
  <2> HIDE DEF Good
  <2> QED BY <2>1, <1>2
<1>4. ASSUME NEW s \in SUBSET S PROVE h[s] = Next1(h)[s]
  <2>1. Cardinality(s) < Cardinality(S) + 1
    BY FS_Subset, FS_CardinalityType
  <2> QED BY <2>1, <1>3
<1>5. h = Next1(h)
  BY <1>3, <1>4
<1> QED BY <1>5 DEF FoldsTo

(* Its values are of the kind that each step keeps.                        *)
LEMMA FoldType ==
  ASSUME NEW S, IsFiniteSet(S), NEW F, NEW choice, NEW T, NEW base \in T,
         \A s \in SUBSET S : s # {} => choice[s] \in s,
         \A t \in T, x \in S : F[<<t, x>>] \in T,
         NEW h, FoldsTo(h, F, base, choice, S)
  PROVE  \A s \in SUBSET S : h[s] \in T
<1> DEFINE N == {n \in Nat : \A s \in SUBSET S : Cardinality(s) = n => h[s] \in T}
<1>0. ASSUME NEW s \in SUBSET S
      PROVE  h[s] = IF s = {} THEN base ELSE F[<<h[s \ {choice[s]}], choice[s]>>]
  BY DEF FoldsTo
<1>1. 0 \in N
  <2> SUFFICES ASSUME NEW s \in SUBSET S, Cardinality(s) = 0 PROVE h[s] \in T
    OBVIOUS
  <2>1. s = {}
    BY FS_Subset, FS_EmptySet
  <2> QED BY <2>1, <1>0
<1>2. ASSUME NEW n \in Nat, n \in N PROVE n + 1 \in N
  <2> SUFFICES ASSUME NEW s \in SUBSET S, Cardinality(s) = n + 1 PROVE h[s] \in T
    OBVIOUS
  <2>1. IsFiniteSet(s) /\ s # {}
    BY FS_Subset, OneLess
  <2>2. choice[s] \in s /\ s \ {choice[s]} \in SUBSET S
    BY <2>1
  <2>3. Cardinality(s \ {choice[s]}) = n
    BY <2>1, <2>2, OneLess
  <2>4. h[s \ {choice[s]}] \in T
    BY <2>2, <2>3, <1>2
  <2> QED BY <2>1, <2>2, <2>4, <1>0
<1>3. \A n \in Nat : n \in N
  <2> HIDE DEF N
  <2> QED BY <1>1, <1>2, Induction
<1>4. ASSUME NEW s \in SUBSET S PROVE h[s] \in T
  <2>1. Cardinality(s) \in N
    BY <1>3, FS_CardinalityType, FS_Subset
  <2> QED BY <2>1
<1> QED BY <1>4

(* The fold of a sequence, of which the last element is taken first, is    *)
(* that of a function, if what it folds with is F on the values in T, and  *)
(* goes from element to element.                                           *)
FoldsSequence(h, F, base, n) ==
  h = [s \in SUBSET (1 .. n) |-> IF s = {} THEN base ELSE F[<<h[s \ {Max(s)}], Max(s)>>]]

LEMMA GreatestOfPart ==
  ASSUME NEW n \in Nat
  PROVE  \A s \in SUBSET (1 .. n) : s # {} => Max(s) \in s
<1>1. \A s \in SUBSET (1 .. n) : s \in SUBSET (0 .. n)
  OBVIOUS
<1> QED BY <1>1, GreatestOf

StaysWithin(F, T, n) == \A t \in T, x \in 1 .. n : F[<<t, x>>] \in T

LEMMA SequenceFoldExists ==
  ASSUME NEW n \in Nat, NEW T, NEW base \in T, NEW F, StaysWithin(F, T, n)
  PROVE  \E h : FoldsSequence(h, F, base, n) /\ \A s \in SUBSET (1 .. n) : h[s] \in T
<1> DEFINE S == 1 .. n
           choice == [s \in SUBSET S |-> Max(s)]
<1>1. IsFiniteSet(S)
  BY Intervals
<1>2. \A s \in SUBSET S : choice[s] = Max(s) /\ (s # {} => choice[s] \in s)
  BY GreatestOfPart
<1>3. \A t \in T, x \in S : F[<<t, x>>] \in T
  BY DEF StaysWithin
<1> HIDE DEF choice, S
<1>4. PICK h : FoldsTo(h, F, base, choice, S)
  BY <1>1, <1>2, FoldExists
<1>5. \A s \in SUBSET S : h[s] \in T
  BY <1>1, <1>2, <1>3, <1>4, FoldType
<1>6. FoldsSequence(h, F, base, n)
  <2>1. h = [s \in SUBSET S |-> IF s = {} THEN base ELSE F[<<h[s \ {choice[s]}], choice[s]>>]]
    BY <1>4 DEF FoldsTo
  <2>2. h = [s \in SUBSET S |-> IF s = {} THEN base ELSE F[<<h[s \ {Max(s)}], Max(s)>>]]
    BY <2>1, <1>2
  <2> QED BY <2>2 DEF S, FoldsSequence
<1> QED BY <1>5, <1>6 DEF S

FoldsWithin(X, F, base, n, T) ==
  /\ X[{}] = base
  /\ \A s \in SUBSET (1 .. n) : s # {} /\ X[s \ {Max(s)}] \in T =>
       X[s] = F[<<X[s \ {Max(s)}], Max(s)>>]
Chains(g, F, base, n) == g[0] = base /\ \A k \in 1 .. n : g[k] = F[<<g[k - 1], k>>]

LEMMA SequenceFoldChain ==
  ASSUME NEW n \in Nat, NEW T, NEW base \in T, NEW F, StaysWithin(F, T, n),
         NEW X, FoldsWithin(X, F, base, n, T)
  PROVE  \E g : Chains(g, F, base, n) /\ g[n] = X[1 .. n] /\ \A k \in 0 .. n : g[k] \in T
<1> DEFINE g == [k \in 0 .. n |-> X[1 .. k]]
           N == {k \in Nat : k <= n => X[1 .. k] \in T}
<1>1. ASSUME NEW k \in 1 .. n, X[1 .. k - 1] \in T
      PROVE  X[1 .. k] = F[<<X[1 .. k - 1], k>>] /\ X[1 .. k] \in T
  <2>1. /\ 1 .. k \in SUBSET (1 .. n) /\ 1 .. k # {} /\ 1 .. k \in SUBSET (0 .. n)
        /\ k \in 1 .. k /\ (1 .. k) \ {k} = 1 .. k - 1
    OBVIOUS
  <2>2. Max(1 .. k) \in 1 .. k /\ k <= Max(1 .. k)
    BY <2>1, GreatestOf
  <2>3. Max(1 .. k) = k
    BY <2>2
  <2>4. X[1 .. k] = F[<<X[1 .. k - 1], k>>]
    BY <1>1, <2>1, <2>3 DEF FoldsWithin
  <2> QED BY <1>1, <2>4 DEF StaysWithin
<1>2. 0 \in N
  <2>1. 1 .. 0 = {}
    OBVIOUS
  <2> QED BY <2>1 DEF FoldsWithin
<1>3. ASSUME NEW k \in Nat, k \in N PROVE k + 1 \in N
  <2> SUFFICES ASSUME k + 1 <= n PROVE X[1 .. k + 1] \in T
    OBVIOUS
  <2>1. k + 1 \in 1 .. n /\ (k + 1) - 1 = k /\ k <= n
    OBVIOUS
  <2>2. X[1 .. (k + 1) - 1] \in T
    BY <1>3, <2>1
  <2> QED BY <2>1, <2>2, <1>1
<1>4. \A k \in Nat : k \in N
  <2> HIDE DEF N
  <2> QED BY <1>2, <1>3, Induction
<1>5. \A k \in 0 .. n : g[k] = X[1 .. k] /\ g[k] \in T
  BY <1>4
<1>6. g[0] = base
  <2>1. 1 .. 0 = {} /\ g[0] = X[1 .. 0]
    OBVIOUS
  <2> QED BY <2>1 DEF FoldsWithin
<1>7. ASSUME NEW k \in 1 .. n PROVE g[k] = F[<<g[k - 1], k>>]
  <2>1. k \in 0 .. n /\ k - 1 \in 0 .. n
    OBVIOUS
  <2>2. g[k] = X[1 .. k] /\ g[k - 1] = X[1 .. k - 1] /\ X[1 .. k - 1] \in T
    BY <1>5, <2>1
  <2> HIDE DEF g
  <2> QED BY <2>2, <1>1
<1>8. g[n] = X[1 .. n]
  OBVIOUS
<1> HIDE DEF g
<1> QED BY <1>5, <1>6, <1>7, <1>8 DEF Chains

(* The function that FoldFunctionOnSet chooses exists.                     *)
LEMMA SumExists ==
  ASSUME NEW S, IsFiniteSet(S), NEW f, \A x \in S : f[x] \in Int
  PROVE  \E h : SumsUp(h, f, S) /\ \A s \in SUBSET S : h[s] \in Int
<1> DEFINE F == [p \in Int \X S |-> f[p[2]] + p[1]]
           choice == [s \in SUBSET S |-> AnyOf(s)]
<1>1. \A s \in SUBSET S : choice[s] = AnyOf(s) /\ (s # {} => choice[s] \in s)
  BY DEF AnyOf
<1>2. \A t \in Int, x \in S : F[<<t, x>>] = f[x] + t /\ F[<<t, x>>] \in Int
  OBVIOUS
<1> HIDE DEF F, choice
<1>3. PICK h : FoldsTo(h, F, 0, choice, S)
  BY <1>1, FoldExists
<1>4. \A s \in SUBSET S : h[s] \in Int
  BY <1>1, <1>2, <1>3, FoldType, 0 \in Int
<1>5. ASSUME NEW s \in SUBSET S
      PROVE  h[s] = IF s = {} THEN 0 ELSE f[AnyOf(s)] + h[s \ {AnyOf(s)}]
  <2>1. h[s] = IF s = {} THEN 0 ELSE F[<<h[s \ {choice[s]}], choice[s]>>]
    BY <1>3 DEF FoldsTo
  <2>2. CASE s # {}
    <3>1. choice[s] \in S /\ s \ {choice[s]} \in SUBSET S
      BY <1>1, <2>2
    <3>2. F[<<h[s \ {choice[s]}], choice[s]>>] = f[choice[s]] + h[s \ {choice[s]}]
      BY <1>2, <1>4, <3>1
    <3> QED BY <1>1, <2>1, <2>2, <3>2
  <2>3. CASE s = {}
    BY <2>1, <2>3
  <2> QED BY <2>2, <2>3
<1>6. h = [s \in SUBSET S |-> h[s]]
  BY <1>3 DEF FoldsTo
<1>7. SumsUp(h, f, S)
  BY <1>5, <1>6 DEF SumsUp
<1> QED BY <1>4, <1>7

(* Thus the sum is its value.                                              *)
LEMMA SumOfFunction ==
  ASSUME NEW S, IsFiniteSet(S), NEW f, \A x \in S : f[x] \in Int
  PROVE  \E h : SumsUp(h, f, S) /\ SumFunctionOnSet(f, S) = h[S]
<1> DEFINE Eq(h) == h = [s \in SUBSET S |-> IF s = {} THEN 0
                     ELSE f[CHOOSE x \in s : TRUE] + h[s \ {CHOOSE x \in s : TRUE}]]
           X == CHOOSE h : Eq(h)
<1>1. \E h : Eq(h)
  <2>1. PICK h : SumsUp(h, f, S)
    BY SumExists
  <2>2. Eq(h)
    BY <2>1 DEF SumsUp, AnyOf
  <2> HIDE DEF Eq
  <2> QED BY <2>2
<1>2. SumFunctionOnSet(f, S) = X[S]
  BY DEF SumFunctionOnSet, FoldFunctionOnSet, MapThenFoldSet
<1>3. Eq(X)
  <2> HIDE DEF Eq
  <2> QED BY <1>1
<1>4. SumsUp(X, f, S)
  BY <1>3 DEF SumsUp, AnyOf
<1> HIDE DEF X
<1> QED BY <1>2, <1>4

(* Nothing adds up to nothing.                                             *)
LEMMA SumOfNone == ASSUME NEW f PROVE SumFunctionOnSet(f, {}) = 0
<1>1. PICK h : SumsUp(h, f, {}) /\ SumFunctionOnSet(f, {}) = h[{}]
  BY SumOfFunction, FS_EmptySet
<1> QED BY <1>1 DEF SumsUp

(* Sums of integers are integers, and do not depend on the order in which  *)
(* the elements are chosen.                                                *)
LEMMA SumsUpType ==
  ASSUME NEW S, IsFiniteSet(S), NEW f, \A x \in S : f[x] \in Int, NEW h, SumsUp(h, f, S)
  PROVE  \A s \in SUBSET S : h[s] \in Int
<1> DEFINE N == {n \in Nat : \A s \in SUBSET S : Cardinality(s) = n => h[s] \in Int}
<1>0. ASSUME NEW s \in SUBSET S
      PROVE  h[s] = IF s = {} THEN 0 ELSE f[AnyOf(s)] + h[s \ {AnyOf(s)}]
  BY DEF SumsUp
<1>1. 0 \in N
  <2> SUFFICES ASSUME NEW s \in SUBSET S, Cardinality(s) = 0 PROVE h[s] \in Int
    OBVIOUS
  <2>1. s = {}
    BY FS_Subset, FS_EmptySet
  <2>2. h[s] = 0
    BY <2>1, <1>0
  <2> QED BY <2>2
<1>2. ASSUME NEW n \in Nat, n \in N PROVE n + 1 \in N
  <2> SUFFICES ASSUME NEW s \in SUBSET S, Cardinality(s) = n + 1 PROVE h[s] \in Int
    OBVIOUS
  <2>1. IsFiniteSet(s) /\ s # {}
    BY FS_Subset, OneLess
  <2>2. AnyOf(s) \in s
    BY <2>1 DEF AnyOf
  <2>3. Cardinality(s \ {AnyOf(s)}) = n
    BY <2>1, <2>2, OneLess
  <2>4. s \ {AnyOf(s)} \in SUBSET S /\ AnyOf(s) \in S
    BY <2>2
  <2>5. h[s \ {AnyOf(s)}] \in Int /\ f[AnyOf(s)] \in Int
    BY <2>3, <2>4, <1>2
  <2> QED BY <1>0, <2>1, <2>5
<1>3. ASSUME NEW s \in SUBSET S PROVE h[s] \in Int
  <2>1. Cardinality(s) \in N
    <3>1. \A n \in Nat : n \in N
      <4> HIDE DEF N
      <4> QED BY <1>1, <1>2, Induction
    <3> QED BY <3>1, FS_CardinalityType, FS_Subset
  <2> QED BY <2>1
<1> QED BY <1>3

(* Any element may be the one added last.                                  *)
LEMMA SumsUpAnyOrder ==
  ASSUME NEW S, IsFiniteSet(S), NEW f, \A x \in S : f[x] \in Int, NEW h, SumsUp(h, f, S)
  PROVE  \A s \in SUBSET S : \A x \in s : h[s] = f[x] + h[s \ {x}]
<1> DEFINE N == {n \in Nat : \A s \in SUBSET S :
                  Cardinality(s) = n => \A x \in s : h[s] = f[x] + h[s \ {x}]}
<1>0. ASSUME NEW s \in SUBSET S
      PROVE  h[s] = (IF s = {} THEN 0 ELSE f[AnyOf(s)] + h[s \ {AnyOf(s)}]) /\ h[s] \in Int
  BY SumsUpType DEF SumsUp
<1>1. 0 \in N
  BY FS_Subset, FS_EmptySet
<1>2. ASSUME NEW n \in Nat, n \in N PROVE n + 1 \in N
  <2> SUFFICES ASSUME NEW s \in SUBSET S, Cardinality(s) = n + 1, NEW x \in s
               PROVE  h[s] = f[x] + h[s \ {x}]
    OBVIOUS
  <2> DEFINE y == AnyOf(s)
  <2>1. IsFiniteSet(s) /\ y \in s
    BY FS_Subset DEF AnyOf
  <2> HIDE DEF y
  <2>2. h[s] = f[y] + h[s \ {y}]
    BY <1>0 DEF y
  <2>3. CASE x = y
    BY <2>2, <2>3
  <2>4. CASE x # y
    <3>1. Cardinality(s \ {x}) = n /\ Cardinality(s \ {y}) = n
      BY <2>1, OneLess
    <3>2. s \ {x} \in SUBSET S /\ s \ {y} \in SUBSET S
      OBVIOUS
    <3>3. h[s \ {x}] = f[y] + h[(s \ {x}) \ {y}]
      BY <3>1, <3>2, <1>2, <2>1, <2>4
    <3>4. h[s \ {y}] = f[x] + h[(s \ {y}) \ {x}]
      BY <3>1, <3>2, <1>2, <2>1, <2>4
    <3>5. (s \ {x}) \ {y} = (s \ {y}) \ {x} /\ (s \ {y}) \ {x} \in SUBSET S
      OBVIOUS
    <3> DEFINE r == h[(s \ {y}) \ {x}]
    <3>6. r \in Int /\ f[x] \in Int /\ f[y] \in Int
      BY <3>5, <1>0, <2>1
    <3>7. h[s] = f[y] + (f[x] + r) /\ h[s \ {x}] = f[y] + r
      BY <2>2, <3>3, <3>4, <3>5
    <3> HIDE DEF r
    <3> QED BY <3>6, <3>7
  <2> QED BY <2>3, <2>4
<1>3. \A n \in Nat : n \in N
  <2> HIDE DEF N
  <2> QED BY <1>1, <1>2, Induction
<1>4. ASSUME NEW s \in SUBSET S, NEW x \in s PROVE h[s] = f[x] + h[s \ {x}]
  <2>1. Cardinality(s) \in N
    BY <1>3, FS_CardinalityType, FS_Subset
  <2> QED BY <2>1
<1> QED BY <1>4

(* Adding up fewer elements, or with another function that agrees.         *)
LEMMA SumsAgree ==
  ASSUME NEW S, IsFiniteSet(S), NEW T \in SUBSET S, NEW f, NEW g, \A x \in T : f[x] = g[x],
         NEW h, SumsUp(h, f, S), NEW k, SumsUp(k, g, T)
  PROVE  h[T] = k[T]
<1> DEFINE N == {n \in Nat : \A s \in SUBSET T : Cardinality(s) = n => h[s] = k[s]}
<1>0. ASSUME NEW s \in SUBSET T
      PROVE  /\ h[s] = IF s = {} THEN 0 ELSE f[AnyOf(s)] + h[s \ {AnyOf(s)}]
             /\ k[s] = IF s = {} THEN 0 ELSE g[AnyOf(s)] + k[s \ {AnyOf(s)}]
  BY DEF SumsUp
<1>1. 0 \in N
  <2> SUFFICES ASSUME NEW s \in SUBSET T, Cardinality(s) = 0 PROVE h[s] = k[s]
    OBVIOUS
  <2>1. s = {}
    BY FS_Subset, FS_EmptySet
  <2> QED BY <2>1, <1>0
<1>2. ASSUME NEW n \in Nat, n \in N PROVE n + 1 \in N
  <2> SUFFICES ASSUME NEW s \in SUBSET T, Cardinality(s) = n + 1 PROVE h[s] = k[s]
    OBVIOUS
  <2>1. IsFiniteSet(s) /\ s # {}
    BY FS_Subset, OneLess
  <2>2. AnyOf(s) \in s
    BY <2>1 DEF AnyOf
  <2>3. Cardinality(s \ {AnyOf(s)}) = n
    BY <2>1, <2>2, OneLess
  <2>4. s \ {AnyOf(s)} \in SUBSET T /\ f[AnyOf(s)] = g[AnyOf(s)]
    BY <2>2
  <2>5. h[s \ {AnyOf(s)}] = k[s \ {AnyOf(s)}]
    BY <2>3, <2>4, <1>2
  <2> QED BY <1>0, <2>1, <2>4, <2>5
<1>3. \A n \in Nat : n \in N
  <2> HIDE DEF N
  <2> QED BY <1>1, <1>2, Induction
<1>4. Cardinality(T) \in N
  BY <1>3, FS_CardinalityType, FS_Subset
<1> QED BY <1>4

(* A sum is an element and the sum of the others.                          *)
LEMMA SumInsert ==
  ASSUME NEW S, IsFiniteSet(S), NEW f, \A y \in S : f[y] \in Int, NEW x \in S
  PROVE  /\ SumFunctionOnSet(f, S) = f[x] + SumFunctionOnSet(f, S \ {x})
         /\ SumFunctionOnSet(f, S) \in Int
<1>1. IsFiniteSet(S \ {x}) /\ S \ {x} \in SUBSET S
  BY FS_Subset
<1>2. PICK h : SumsUp(h, f, S) /\ SumFunctionOnSet(f, S) = h[S]
  BY SumOfFunction
<1>3. PICK k : SumsUp(k, f, S \ {x}) /\ SumFunctionOnSet(f, S \ {x}) = k[S \ {x}]
  BY SumOfFunction, <1>1
<1>4. h[S \ {x}] = k[S \ {x}]
  BY <1>1, <1>2, <1>3, SumsAgree
<1>5. \A s \in SUBSET S : h[s] \in Int /\ \A y \in s : h[s] = f[y] + h[s \ {y}]
  BY <1>2, SumsUpAnyOrder, SumsUpType
<1>6. h[S] = f[x] + h[S \ {x}] /\ h[S] \in Int
  BY <1>5
<1> QED BY <1>2, <1>3, <1>4, <1>6

(* A sum of integers is an integer.                                        *)
LEMMA SumType ==
  ASSUME NEW S, IsFiniteSet(S), NEW f, \A x \in S : f[x] \in Int
  PROVE  SumFunctionOnSet(f, S) \in Int
<1>1. CASE S = {}
  BY <1>1, SumOfNone
<1>2. CASE S # {}
  <2>1. PICK x \in S : TRUE
    BY <1>2
  <2> QED BY <2>1, SumInsert
<1> QED BY <1>1, <1>2

(* A sum grows with its elements.                                          *)
LEMMA SumMonotone ==
  ASSUME NEW S, IsFiniteSet(S), NEW f, NEW g,
         \A x \in S : f[x] \in Int /\ g[x] \in Int /\ f[x] <= g[x]
  PROVE  SumFunctionOnSet(f, S) <= SumFunctionOnSet(g, S)
<1> DEFINE P == {s \in SUBSET S : SumFunctionOnSet(f, s) <= SumFunctionOnSet(g, s)}
<1>1. {} \in P
  BY SumOfNone
<1>2. ASSUME NEW s \in SUBSET S, NEW x \in S, s \in P, x \notin s PROVE s \cup {x} \in P
  <2>1. (s \cup {x}) \ {x} = s /\ IsFiniteSet(s \cup {x}) /\ IsFiniteSet(s)
    BY <1>2, FS_Subset, s \cup {x} \in SUBSET S
  <2>2. /\ SumFunctionOnSet(f, s \cup {x}) = f[x] + SumFunctionOnSet(f, s)
        /\ SumFunctionOnSet(g, s \cup {x}) = g[x] + SumFunctionOnSet(g, s)
    BY <2>1, SumInsert, x \in s \cup {x}
  <2> DEFINE a == SumFunctionOnSet(f, s)
             b == SumFunctionOnSet(g, s)
  <2>3. a \in Int /\ b \in Int /\ a <= b
    BY <2>1, <1>2, SumType
  <2> HIDE DEF a, b
  <2>4. f[x] + a <= g[x] + b
    BY <2>3
  <2> QED BY <2>2, <2>4 DEF a, b
<1>3. S \in P
  <2> HIDE DEF P
  <2> QED BY <1>1, <1>2, SetInduction
<1> QED BY <1>3

(* A sum is that of a part and that of the rest.                           *)
LEMMA SumSplit ==
  ASSUME NEW S, IsFiniteSet(S), NEW f, \A x \in S : f[x] \in Int, NEW T \in SUBSET S
  PROVE  SumFunctionOnSet(f, S) = SumFunctionOnSet(f, T) + SumFunctionOnSet(f, S \ T)
<1> DEFINE P == {s \in SUBSET T : SumFunctionOnSet(f, S)
                                    = SumFunctionOnSet(f, s) + SumFunctionOnSet(f, S \ s)}
<1>1. {} \in P
  <2>1. S \ {} = S /\ SumFunctionOnSet(f, S) \in Int
    BY SumType
  <2> QED BY <2>1, SumOfNone
<1>2. ASSUME NEW s \in SUBSET T, NEW x \in T, s \in P, x \notin s PROVE s \cup {x} \in P
  <2> DEFINE u == S \ (s \cup {x})
  <2>1. /\ (s \cup {x}) \ {x} = s /\ IsFiniteSet(s \cup {x}) /\ s \cup {x} \in SUBSET S
        /\ (S \ s) \ {x} = u /\ IsFiniteSet(S \ s) /\ x \in S \ s /\ S \ s \in SUBSET S
        /\ IsFiniteSet(s) /\ IsFiniteSet(u)
    BY <1>2, FS_Subset, s \cup {x} \in SUBSET S
  <2>2. SumFunctionOnSet(f, s \cup {x}) = f[x] + SumFunctionOnSet(f, s)
    BY <2>1, SumInsert, x \in s \cup {x}
  <2>3. SumFunctionOnSet(f, S \ s) = f[x] + SumFunctionOnSet(f, u)
    BY <2>1, SumInsert
  <2> DEFINE a == SumFunctionOnSet(f, s)
             b == SumFunctionOnSet(f, u)
  <2>4. a \in Int /\ b \in Int /\ f[x] \in Int
    BY <2>1, SumType, x \in S
  <2>5. SumFunctionOnSet(f, S) = a + (f[x] + b)
    BY <1>2, <2>3
  <2> HIDE DEF a, b
  <2>6. a + (f[x] + b) = (f[x] + a) + b
    BY <2>4
  <2> QED BY <2>2, <2>5, <2>6 DEF a, b
<1>3. T \in P
  <2>1. IsFiniteSet(T)
    BY FS_Subset
  <2> HIDE DEF P
  <2> QED BY <2>1, <1>1, <1>2, SetInduction
<1> QED BY <1>3

(* Zeros add up to zero.                                                   *)
LEMMA SumOfZeros ==
  ASSUME NEW S, IsFiniteSet(S), NEW f, \A x \in S : f[x] = 0
  PROVE  SumFunctionOnSet(f, S) = 0
<1> DEFINE P == {s \in SUBSET S : SumFunctionOnSet(f, s) = 0}
<1>1. {} \in P
  BY SumOfNone
<1>2. ASSUME NEW s \in SUBSET S, NEW x \in S, s \in P, x \notin s PROVE s \cup {x} \in P
  <2>1. (s \cup {x}) \ {x} = s /\ IsFiniteSet(s \cup {x})
    BY <1>2, FS_Subset, s \cup {x} \in SUBSET S
  <2>2. \A y \in s \cup {x} : f[y] \in Int
    OBVIOUS
  <2>3. SumFunctionOnSet(f, s \cup {x}) = f[x] + SumFunctionOnSet(f, s)
    BY <2>1, <2>2, SumInsert, x \in s \cup {x}
  <2> QED BY <2>3, <1>2
<1>3. S \in P
  <2> HIDE DEF P
  <2> QED BY <1>1, <1>2, SetInduction
<1> QED BY <1>3

(* Adding up functions that agree.                                         *)
LEMMA SumEqual ==
  ASSUME NEW S, IsFiniteSet(S), NEW f, NEW g, \A x \in S : f[x] \in Int /\ f[x] = g[x]
  PROVE  SumFunctionOnSet(f, S) = SumFunctionOnSet(g, S)
<1>1. \A x \in S : f[x] \in Int /\ g[x] \in Int /\ f[x] <= g[x] /\ g[x] <= f[x]
  OBVIOUS
<1>2. /\ SumFunctionOnSet(f, S) <= SumFunctionOnSet(g, S)
      /\ SumFunctionOnSet(g, S) <= SumFunctionOnSet(f, S)
  BY <1>1, SumMonotone
<1>3. SumFunctionOnSet(f, S) \in Int /\ SumFunctionOnSet(g, S) \in Int
  BY <1>1, SumType
<1> QED BY <1>2, <1>3

(* Sums of natural numbers are natural, and a part is not more than all.   *)
LEMMA NaturalSum ==
  ASSUME NEW S, IsFiniteSet(S), NEW f, \A x \in S : f[x] \in Nat, NEW T \in SUBSET S
  PROVE  /\ SumFunctionOnSet(f, S) \in Nat /\ SumFunctionOnSet(f, T) \in Nat
         /\ SumFunctionOnSet(f, T) <= SumFunctionOnSet(f, S)
<1>1. ASSUME NEW U \in SUBSET S PROVE SumFunctionOnSet(f, U) \in Nat
  <2> DEFINE z == [x \in U |-> 0]
  <2>1. IsFiniteSet(U) /\ \A x \in U : f[x] \in Int /\ z[x] \in Int /\ z[x] <= f[x] /\ z[x] = 0
    BY FS_Subset
  <2> HIDE DEF z
  <2>2. SumFunctionOnSet(z, U) = 0 /\ SumFunctionOnSet(f, U) \in Int
    BY <2>1, SumOfZeros, SumType
  <2>3. SumFunctionOnSet(z, U) <= SumFunctionOnSet(f, U)
    BY <2>1, SumMonotone
  <2> QED BY <2>2, <2>3
<1>2. SumFunctionOnSet(f, S) = SumFunctionOnSet(f, T) + SumFunctionOnSet(f, S \ T)
  BY SumSplit
<1>3. S \in SUBSET S /\ S \ T \in SUBSET S
  OBVIOUS
<1>4. /\ SumFunctionOnSet(f, S) \in Nat /\ SumFunctionOnSet(f, T) \in Nat
      /\ SumFunctionOnSet(f, S \ T) \in Nat
  BY <1>1, <1>3
<1> QED BY <1>2, <1>4

(* Sums add up.                                                            *)
LEMMA SumOfSums ==
  ASSUME NEW S, IsFiniteSet(S), NEW f, NEW g, NEW h,
         \A x \in S : g[x] \in Int /\ h[x] \in Int /\ f[x] = g[x] + h[x]
  PROVE  SumFunctionOnSet(f, S) = SumFunctionOnSet(g, S) + SumFunctionOnSet(h, S)
<1> DEFINE P == {s \in SUBSET S :
                   SumFunctionOnSet(f, s) = SumFunctionOnSet(g, s) + SumFunctionOnSet(h, s)}
<1>1. {} \in P
  BY SumOfNone
<1>2. ASSUME NEW s \in SUBSET S, NEW x \in S, s \in P, x \notin s PROVE s \cup {x} \in P
  <2> DEFINE T == s \cup {x}
  <2>1. T \ {x} = s /\ IsFiniteSet(T) /\ IsFiniteSet(s) /\ x \in T /\ T \in SUBSET S
    BY <1>2, FS_Subset
  <2>2. \A y \in T : f[y] \in Int /\ g[y] \in Int /\ h[y] \in Int
    OBVIOUS
  <2> HIDE DEF T
  <2>3. /\ SumFunctionOnSet(f, T) = f[x] + SumFunctionOnSet(f, s)
        /\ SumFunctionOnSet(g, T) = g[x] + SumFunctionOnSet(g, s)
        /\ SumFunctionOnSet(h, T) = h[x] + SumFunctionOnSet(h, s)
    BY <2>1, <2>2, SumInsert
  <2>4. /\ SumFunctionOnSet(f, s) \in Int /\ SumFunctionOnSet(g, s) \in Int
        /\ SumFunctionOnSet(h, s) \in Int
    BY <2>1, SumType
  <2>5. SumFunctionOnSet(f, s) = SumFunctionOnSet(g, s) + SumFunctionOnSet(h, s)
    BY <1>2
  <2> DEFINE a == SumFunctionOnSet(f, s)
             b == SumFunctionOnSet(g, s)
             c == SumFunctionOnSet(h, s)
  <2>6. a \in Int /\ b \in Int /\ c \in Int /\ a = b + c
    BY <2>4, <2>5
  <2>7. SumFunctionOnSet(f, T) = f[x] + a /\ SumFunctionOnSet(g, T) = g[x] + b
        /\ SumFunctionOnSet(h, T) = h[x] + c
    BY <2>3
  <2> HIDE DEF a, b, c
  <2>8. SumFunctionOnSet(f, T) = SumFunctionOnSet(g, T) + SumFunctionOnSet(h, T)
    BY <2>6, <2>7
  <2> QED BY <2>1, <2>8 DEF T
<1>3. S \in P
  <2> HIDE DEF P
  <2> QED BY <1>1, <1>2, SetInduction
<1> QED BY <1>3

(* A sum of which one part changes.                                        *)
LEMMA SumChanges ==
  ASSUME NEW S, IsFiniteSet(S), NEW f, NEW g, NEW x \in S,
         \A y \in S : f[y] \in Int /\ g[y] \in Int /\ (y # x => f[y] = g[y])
  PROVE  SumFunctionOnSet(g, S) = SumFunctionOnSet(f, S) - f[x] + g[x]
<1>1. /\ SumFunctionOnSet(f, S) = f[x] + SumFunctionOnSet(f, S \ {x})
      /\ SumFunctionOnSet(g, S) = g[x] + SumFunctionOnSet(g, S \ {x})
  BY SumInsert
<1>2. IsFiniteSet(S \ {x}) /\ \A y \in S \ {x} : f[y] \in Int /\ f[y] = g[y]
  BY FS_Subset, S \ {x} \in SUBSET S
<1>3. SumFunctionOnSet(f, S \ {x}) = SumFunctionOnSet(g, S \ {x})
  BY <1>2, SumEqual
<1>4. SumFunctionOnSet(f, S \ {x}) \in Int /\ f[x] \in Int /\ g[x] \in Int
  BY <1>2, SumType
<1> QED BY <1>1, <1>3, <1>4

(* The first numbers of an interval.                                       *)
LEMMA FirstPart ==
  ASSUME NEW a \in Nat, NEW b \in Nat, a <= b + 1, NEW S \in SUBSET (a .. b),
         \A i \in S : \A j \in a .. i : j \in S
  PROVE  /\ Cardinality(S) \in Nat /\ a + Cardinality(S) <= b + 1
         /\ S = a .. a + Cardinality(S) - 1
<1> DEFINE n == Cardinality(S)
<1>1. CASE S = {}
  <2>1. n = 0 /\ a .. a + 0 - 1 = {}
    BY <1>1, FS_EmptySet
  <2> HIDE DEF n
  <2>2. n \in Nat /\ a + n <= b + 1 /\ S = a .. a + n - 1
    BY <1>1, <2>1
  <2> QED BY <2>2 DEF n
<1>2. CASE S # {}
  <2> DEFINE m == Max(S)
  <2>1. S \in SUBSET (0 .. b)
    OBVIOUS
  <2>2. m \in S /\ \A i \in S : i <= m
    BY <1>2, <2>1, GreatestOf
  <2> HIDE DEF m
  <2>3. m \in a .. b /\ S = a .. m
    <3>1. m \in a .. b /\ \A i \in S : i \in a .. b /\ i <= m
      BY <2>2
    <3>2. \A j \in a .. m : j \in S
      BY <2>2
    <3>3. \A i \in S : i \in a .. m
      BY <3>1
    <3> QED BY <3>1, <3>2, <3>3
  <2>4. Cardinality(a .. m) = IF a > m THEN 0 ELSE m - a + 1
    BY <2>3, FS_Interval
  <2>5. n = m - a + 1
    BY <2>3, <2>4
  <2> HIDE DEF n
  <2>6. n \in Nat /\ a + n <= b + 1 /\ S = a .. a + n - 1
    BY <2>3, <2>5
  <2> QED BY <2>6 DEF n
<1> QED BY <1>1, <1>2

(* The greater of two numbers.                                            *)
LEMMA MaxOfTwo ==
  ASSUME NEW x \in Int, NEW y \in Int
  PROVE  Max({x, y}) = IF y >= x THEN y ELSE x
<1>1. \E n \in {x, y} : \A m \in {x, y} : n >= m
  OBVIOUS
<1>2. Max({x, y}) \in {x, y} /\ \A m \in {x, y} : Max({x, y}) >= m
  BY <1>1 DEF Max
<1> QED BY <1>2

=============================================================================
