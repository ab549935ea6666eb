-------------------------- MODULE ProfileModelProofs --------------------------
(***************************************************************************)
(* The profiles stay distinct, the settings hold what is shown and the     *)
(* current profile is the user's, for any number of profiles, any names    *)
(* and any files, whatever the user does.                                  *)
(*                                                                         *)
(* The second half is about what a profile holds: the parser of options    *)
(* reads any map the program writes, and the parser of schemes expands     *)
(* any pattern of pieces, for any texts, names, literals and parameters.   *)
(* "Leads" says that reading a text takes a parser from one state to       *)
(* another; the lemmas follow a text piece by piece.                       *)
(***************************************************************************)
EXTENDS ProfileTexts, SequenceTheorems, FiniteSetTheorems, NaturalsInduction,
        WellFoundedInduction, TLAPS

-----------------------------------------------------------------------------
(* Least elements, which stand for induction below.                        *)
LEMMA LeastNatural ==
  ASSUME NEW S, S \subseteq Nat, S # {}
  PROVE  \E x \in S : \A y \in S : x <= y
<1> DEFINE R == OpToRel(<, Nat)
<1>1. IsWellFoundedOn(R, Nat)
  BY NatLessThanWellFounded
<1>2. \A x, y \in Nat : x < y => <<x, y>> \in R
  BY DEF OpToRel
<1> HIDE DEF R
<1>3. PICK x \in S : \A y \in S : ~(<<y, x>> \in R)
  BY <1>1, WFMin, Zenon
<1>4. ASSUME NEW y \in S PROVE x <= y
  <2>1. x \in Nat /\ y \in Nat /\ ~(<<y, x>> \in R)
    BY <1>3
  <2>2. ~(y < x)
    BY <1>2, <2>1, Zenon
  <2> QED
    BY <2>1, <2>2
<1> QED
  BY <1>4

(* A set of naturals without 0 and closed under predecessors is empty.     *)
LEMMA NoLeast ==
  ASSUME NEW S, S \subseteq Nat, 0 \notin S,
         \A n \in Nat : n + 1 \in S => n \in S
  PROVE  S = {}
<1> SUFFICES ASSUME S # {}
             PROVE  FALSE
  OBVIOUS
<1>1. PICK x \in S : \A y \in S : x <= y
  BY LeastNatural
<1>2. x \in Nat /\ x # 0
  BY <1>1
<1>3. x - 1 \in Nat /\ x = (x - 1) + 1
  BY <1>2
<1>4. x - 1 \in S
  BY <1>1, <1>3
<1> QED
  BY <1>1, <1>2, <1>4

-----------------------------------------------------------------------------
(* What is free, and what is first free.                                   *)

OneToOne(n, g) == \A i, j \in 0..n : g[i] = g[j] => i = j

(* Of n + 1 different values, n rows cannot have them all.                 *)
LEMMA SomeIsFree ==
  ASSUME NEW n \in Nat, NEW f, NEW g, OneToOne(n, g)
  PROVE  \E i \in 0..n : \A k \in 1..n : f[k] # g[i]
<1> SUFFICES ASSUME \A i \in 0..n : \E k \in 1..n : f[k] = g[i]
             PROVE  FALSE
  OBVIOUS
<1>0. PICK S, T : S = 0..n /\ T = 1..n
  OBVIOUS
<1>1. PICK h \in [S -> T] : \A i \in 0..n : f[h[i]] = g[i]
  <2>1. [i \in S |-> CHOOSE k \in 1..n : f[k] = g[i]] \in [S -> T]
    BY <1>0
  <2> QED
    BY <1>0, <2>1
<1>2. IsFiniteSet(S) /\ IsFiniteSet(T) /\ Cardinality(T) < Cardinality(S)
  BY <1>0, FS_Interval
<1>3. \E x, y \in S : x # y /\ h[x] = h[y]
  BY <1>1, <1>2, FS_PigeonHole
<1>4. PICK x \in S, y \in S : x # y /\ h[x] = h[y]
  BY <1>3
<1>5. x \in 0..n /\ y \in 0..n
  BY <1>0
<1>6. g[x] = g[y]
  BY <1>1, <1>4, <1>5
<1> QED
  BY <1>4, <1>5, <1>6 DEF OneToOne

IsFirstFree(i, n, f, g) ==
  /\ \A k \in 1..n : f[k] # g[i]
  /\ \A j \in 0..(i - 1) : \E k \in 1..n : f[k] = g[j]

LEMMA FirstFree ==
  ASSUME NEW n \in Nat, NEW f, NEW g, OneToOne(n, g)
  PROVE  \E i \in 0..n : IsFirstFree(i, n, f, g)
<1> DEFINE S == {i \in 0..n : \A k \in 1..n : f[k] # g[i]}
<1>1. S \subseteq Nat /\ S # {}
  BY SomeIsFree
<1>2. PICK i \in S : \A j \in S : i <= j
  <2> HIDE DEF S
  <2> QED
    BY <1>1, LeastNatural
<1>3. \A j \in 0..(i - 1) : j \in 0..n /\ j \notin S
  BY <1>2
<1> QED
  BY <1>2, <1>3 DEF IsFirstFree

-----------------------------------------------------------------------------
(* The helpers of the model.  Profiles may have any index here: a list     *)
(* under construction is not yet bounded.                                  *)

AnyName == [base : Nat, copies : Nat]
AnyProfile == [index : Nat, name : AnyName, scheme : Schemes]

LEMMA ProfilesAreAny == Profiles \subseteq AnyProfile
<1>1. 0..(MaxProfiles - 1) \subseteq Nat /\ 0..MaxCopies \subseteq Nat /\ Bases \subseteq Nat
  BY BoundsAssumption, NamesAssumption
<1>2. Names \subseteq AnyName
  BY <1>1 DEF Names, AnyName
<1> QED
  BY <1>1, <1>2, Zenon DEF Profiles, AnyProfile

LEMMA NewIndexIsFree ==
  ASSUME NEW list \in Seq(AnyProfile)
  PROVE  NewIndex(list) \in 0..Len(list) /\ NewIndex(list) \notin IndexesIn(list)
<1>1. PICK n \in Nat : n = Len(list) /\ DOMAIN list = 1..n
  BY LenProperties
<1>a. PICK f, g : f = [k \in 1..n |-> list[k].index] /\ g = [i \in 0..n |-> i]
  OBVIOUS
<1>2. PICK i \in 0..n : IsFirstFree(i, n, f, g)
  <2>1. OneToOne(n, g)
    BY <1>a DEF OneToOne
  <2> QED
    BY <1>1, <2>1, FirstFree
<1>3. /\ i \notin IndexesIn(list)
      /\ \A j \in 0..(i - 1) : j \in IndexesIn(list)
  <2>1. \A k \in 1..n : f[k] = list[k].index
    BY <1>a
  <2>2. \A j \in 0..i : j \in 0..n /\ g[j] = j
    BY <1>1, <1>2, <1>a
  <2>3. i \in 0..i /\ \A j \in 0..(i - 1) : j \in 0..i
    BY <1>1, <1>2
  <2> QED
    BY <1>1, <1>2, <2>1, <2>2, <2>3 DEF IndexesIn, IsFirstFree
<1> QED
  BY <1>1, <1>3 DEF NewIndex

LEMMA CopyNameIsFree ==
  ASSUME NEW list \in Seq(AnyProfile), NEW name \in AnyName
  PROVE  /\ CopyName(list, name) \in AnyName /\ CopyName(list, name).base = name.base
         /\ CopyName(list, name) \notin NamesIn(list)
<1>1. PICK n \in Nat : n = Len(list) /\ DOMAIN list = 1..n
  BY LenProperties
<1> DEFINE P(i) == [name EXCEPT !.copies = @ + i]
<1>a. PICK f, g : f = [k \in 1..n |-> list[k].name] /\ g = [i \in 0..n |-> P(i)]
  OBVIOUS
<1>2. \A i \in Nat : P(i) \in AnyName /\ P(i).base = name.base /\ P(i).copies = name.copies + i
  BY DEF AnyName
<1>3. PICK i \in 0..n : IsFirstFree(i, n, f, g)
  <2>1. name.copies \in Nat
    BY DEF AnyName
  <2>2. \A i, j \in 0..n : P(i) = P(j) => i = j
    <3> HIDE DEF P
    <3>1. ASSUME NEW i \in 0..n, NEW j \in 0..n, P(i) = P(j) PROVE i = j
      <4>1. name.copies + i = name.copies + j
        BY <1>1, <1>2, <3>1
      <4> QED
        BY <1>1, <2>1, <4>1
    <3> QED
      BY <3>1, Zenon
  <2>3. OneToOne(n, g)
    <3> HIDE DEF P
    <3> QED
      BY <1>a, <2>2 DEF OneToOne
  <2> HIDE DEF P
  <2> QED
    BY <1>1, <2>3, FirstFree
<1>4. /\ P(i) \notin NamesIn(list)
      /\ \A j \in 0..(i - 1) : P(j) \in NamesIn(list)
  <2> HIDE DEF P
  <2>1. \A k \in 1..n : f[k] = list[k].name
    BY <1>a
  <2>2. \A j \in 0..i : g[j] = P(j)
    BY <1>1, <1>3, <1>a
  <2>3. i \in 0..i /\ \A j \in 0..(i - 1) : j \in 0..i
    BY <1>1, <1>3
  <2> QED
    BY <1>1, <1>3, <2>1, <2>2, <2>3 DEF NamesIn, IsFirstFree
<1>5. \E c \in 0..n : CopyName(list, name) = P(c) /\ P(c) \notin NamesIn(list)
  <2> DEFINE Free(c) == P(c) \notin NamesIn(list) /\ \A j \in 0..(c - 1) : P(j) \in NamesIn(list)
  <2>1. CopyName(list, name) = P(CHOOSE c \in 0..n : Free(c))
    BY <1>1 DEF CopyName
  <2>2. PICK c \in 0..n : c = (CHOOSE d \in 0..n : Free(d)) /\ Free(c)
    <3>1. Free(i)
      BY <1>4
    <3> HIDE DEF Free
    <3> QED
      BY <3>1
  <2> QED
    BY <2>1, <2>2
<1>6. \A c \in 0..n : c \in Nat
  BY <1>1
<1> HIDE DEF P
<1> QED
  BY <1>2, <1>5, <1>6, Zenon

-----------------------------------------------------------------------------
(* Sorting.                                                                *)

LEMMA PrecedesIsAnOrder ==
  ASSUME NEW list \in Seq(AnyProfile)
  PROVE  \A i, j, k \in DOMAIN list :
           /\ ~Precedes(list, i, i)
           /\ i # j => Precedes(list, i, j) \/ Precedes(list, j, i)
           /\ Precedes(list, i, j) /\ Precedes(list, j, k) => Precedes(list, i, k)
<1>1. PICK n \in Nat : n = Len(list) /\ DOMAIN list = 1..n /\ \A i \in 1..n : list[i] \in AnyProfile
  BY LenProperties, ElementOfSeq
<1> SUFFICES ASSUME NEW i \in 1..n, NEW j \in 1..n, NEW k \in 1..n
             PROVE  /\ ~Precedes(list, i, i)
                    /\ i # j => Precedes(list, i, j) \/ Precedes(list, j, i)
                    /\ Precedes(list, i, j) /\ Precedes(list, j, k) => Precedes(list, i, k)
  BY <1>1
<1> DEFINE name(r) == list[r].name
<1>2. \A r \in 1..n : name(r) \in AnyName
  BY <1>1 DEF AnyProfile
<1>3. \A r \in 1..n : name(r).base \in Nat /\ name(r).copies \in Nat
  BY <1>2 DEF AnyName
<1>4. \A r, q \in 1..n : name(r).base = name(q).base /\ name(r).copies = name(q).copies
                         => name(r) = name(q)
  BY <1>2 DEF AnyName
<1>5. \A r, q : Precedes(list, r, q) <=>
                \/ name(r).base < name(q).base
                \/ name(r).base = name(q).base /\ name(r).copies > name(q).copies
                \/ name(r) = name(q) /\ r < q
  BY DEF Precedes
<1> HIDE DEF name
<1>6. ~Precedes(list, i, i)
  BY <1>3, <1>5
<1>7. i # j => Precedes(list, i, j) \/ Precedes(list, j, i)
  BY <1>1, <1>3, <1>4, <1>5
<1>8. Precedes(list, i, j) /\ Precedes(list, j, k) => Precedes(list, i, k)
  BY <1>1, <1>3, <1>5
<1> QED
  BY <1>6, <1>7, <1>8

LEMMA RankIs ==
  ASSUME NEW list \in Seq(AnyProfile)
  PROVE  /\ \A i \in DOMAIN list : Rank(list, i) \in DOMAIN list
         /\ \A i, j \in DOMAIN list : Rank(list, i) = Rank(list, j) => i = j
<1>1. PICK n \in Nat : n = Len(list) /\ DOMAIN list = 1..n
  BY LenProperties
<1> DEFINE B(i) == {j \in 1..n : Precedes(list, j, i)}
<1>2. IsFiniteSet(1..n) /\ Cardinality(1..n) = n
  <2>1. n \in Nat /\ 1 \in Int /\ n \in Int
    BY <1>1
  <2> QED
    BY <2>1, FS_Interval
<1>3. \A i : IsFiniteSet(B(i)) /\ Cardinality(B(i)) \in Nat
  BY <1>2, FS_Subset, FS_CardinalityType
<1>4. \A i : Rank(list, i) = 1 + Cardinality(B(i))
  BY <1>1 DEF Rank
<1>5. ASSUME NEW i \in 1..n
      PROVE  Rank(list, i) \in 1..n
  <2>1. i \notin B(i) /\ B(i) \in SUBSET (1..n)
    BY <1>1, PrecedesIsAnOrder
  <2>2. Cardinality(B(i)) <= n /\ Cardinality(B(i)) # n
    <3> HIDE DEF B
    <3> QED
      BY <1>2, <1>5, <2>1, FS_Subset
  <2> HIDE DEF B
  <2>3. Rank(list, i) = 1 + Cardinality(B(i)) /\ Cardinality(B(i)) \in Nat
    BY <1>3, <1>4
  <2> QED
    BY <1>1, <2>2, <2>3
<1>6. ASSUME NEW i \in 1..n, NEW j \in 1..n, Precedes(list, i, j)
      PROVE  Rank(list, i) # Rank(list, j)
  <2>1. i \in B(j) /\ i \notin B(i) /\ B(i) \in SUBSET B(j)
    BY <1>1, <1>6, PrecedesIsAnOrder
  <2>2. Cardinality(B(i)) # Cardinality(B(j))
    <3> HIDE DEF B
    <3> QED
      BY <1>3, <2>1, FS_Subset
  <2> HIDE DEF B
  <2>3. /\ Rank(list, i) = 1 + Cardinality(B(i)) /\ Cardinality(B(i)) \in Nat
        /\ Rank(list, j) = 1 + Cardinality(B(j)) /\ Cardinality(B(j)) \in Nat
    BY <1>3, <1>4
  <2> QED
    BY <2>2, <2>3
<1> QED
  BY <1>1, <1>5, <1>6, PrecedesIsAnOrder

(* Sorting permutes the rows.                                              *)
LEMMA SortedPermutes ==
  ASSUME NEW list \in Seq(AnyProfile)
  PROVE  \E p \in [DOMAIN list -> DOMAIN list] :
           /\ Sorted(list) = [k \in DOMAIN list |-> list[p[k]]]
           /\ \A i, j \in DOMAIN list : p[i] = p[j] => i = j
           /\ \A i \in DOMAIN list : \E k \in DOMAIN list : p[k] = i
<1>1. PICK n \in Nat : n = Len(list) /\ DOMAIN list = 1..n
  BY LenProperties
<1>2. /\ \A i \in DOMAIN list : Rank(list, i) \in DOMAIN list
      /\ \A i, j \in DOMAIN list : Rank(list, i) = Rank(list, j) => i = j
  BY RankIs
<1>3. IsFiniteSet(DOMAIN list)
  BY <1>1, FS_Interval
<1>4. ASSUME NEW k \in DOMAIN list
      PROVE  \E i \in DOMAIN list : Rank(list, i) = k
  <2> SUFFICES ASSUME \A i \in DOMAIN list : Rank(list, i) # k
               PROVE  FALSE
    OBVIOUS
  <2>1. PICK T : T = (DOMAIN list) \ {k}
    OBVIOUS
  <2>2. PICK r \in [DOMAIN list -> T] : \A i \in DOMAIN list : r[i] = Rank(list, i)
    <3>1. [i \in DOMAIN list |-> Rank(list, i)] \in [DOMAIN list -> T]
      BY <1>2, <2>1
    <3> QED
      BY <3>1
  <2>3. IsFiniteSet(T) /\ Cardinality(T) < Cardinality(DOMAIN list)
    <3>1. IsFiniteSet(T) /\ Cardinality(T) = Cardinality(DOMAIN list) - 1
      BY <1>3, <1>4, <2>1, FS_RemoveElement
    <3>2. Cardinality(DOMAIN list) \in Nat
      BY <1>3, FS_CardinalityType
    <3> QED
      BY <3>1, <3>2
  <2>4. \E x, y \in DOMAIN list : x # y /\ r[x] = r[y]
    BY <1>3, <2>2, <2>3, FS_PigeonHole
  <2> QED
    BY <1>2, <2>2, <2>4
<1>5. PICK p \in [DOMAIN list -> DOMAIN list] : \A k \in DOMAIN list : p[k] = (CHOOSE i \in DOMAIN list : Rank(list, i) = k)
                                         /\ Rank(list, p[k]) = k
  <2>1. [k \in DOMAIN list |-> CHOOSE i \in DOMAIN list : Rank(list, i) = k] \in [DOMAIN list -> DOMAIN list]
    BY <1>4
  <2> QED
    BY <1>4, <2>1
<1>6. Sorted(list) = [k \in DOMAIN list |-> list[p[k]]]
  <2>1. \A k \in DOMAIN list : list[CHOOSE i \in DOMAIN list : Rank(list, i) = k] = list[p[k]]
    BY <1>5
  <2>2. Sorted(list) = [k \in DOMAIN list |-> list[CHOOSE i \in DOMAIN list : Rank(list, i) = k]]
    BY DEF Sorted
  <2> QED
    BY <2>1, <2>2, Zenon
<1>7. \A i, j \in DOMAIN list : p[i] = p[j] => i = j
  BY <1>5
<1>8. \A i \in DOMAIN list : \E k \in DOMAIN list : p[k] = i
  BY <1>2, <1>5
<1> QED
  BY <1>5, <1>6, <1>7, <1>8

(* Hence what is said of the profiles of a list is said of the sorted one. *)
LEMMA SortedKeeps ==
  ASSUME NEW list \in Seq(AnyProfile)
  PROVE  /\ \A S : list \in Seq(S) => Sorted(list) \in Seq(S)
         /\ Len(Sorted(list)) = Len(list)
         /\ ToSet(Sorted(list)) = ToSet(list)
         /\ Distinct(list) => Distinct(Sorted(list))
<1>1. PICK n \in Nat : n = Len(list) /\ DOMAIN list = 1..n /\ list \in [1..n -> AnyProfile]
  BY LenProperties
<1>2. PICK p \in [1..n -> 1..n] :
           /\ Sorted(list) = [k \in 1..n |-> list[p[k]]]
           /\ \A i, j \in 1..n : p[i] = p[j] => i = j
           /\ \A i \in 1..n : \E k \in 1..n : p[k] = i
  <2>1. \E p \in [DOMAIN list -> DOMAIN list] :
           /\ Sorted(list) = [k \in DOMAIN list |-> list[p[k]]]
           /\ \A i, j \in DOMAIN list : p[i] = p[j] => i = j
           /\ \A i \in DOMAIN list : \E k \in DOMAIN list : p[k] = i
    BY SortedPermutes
  <2>2. DOMAIN list = 1..n
    BY <1>1
  <2> QED
    BY <2>1, <2>2, Zenon
<1>3. PICK s : s = Sorted(list)
  OBVIOUS
<1>4. DOMAIN s = 1..n /\ \A k \in 1..n : s[k] = list[p[k]] /\ p[k] \in 1..n
  BY <1>2, <1>3
<1>5. ASSUME NEW S, list \in Seq(S)
      PROVE  s \in Seq(S)
  <2>1. \A k \in 1..n : list[p[k]] \in S
    BY <1>1, <1>2, <1>5, ElementOfSeq
  <2>2. s \in [1..n -> S]
    BY <1>2, <1>3, <2>1
  <2> QED
    BY <1>1, <2>2, SeqDef
<1>6. Len(s) = n
  <2>1. s \in Seq(AnyProfile)
    BY <1>5
  <2>2. Len(s) \in Nat /\ DOMAIN s = 1..Len(s)
    BY <2>1, LenProperties
  <2> QED
    BY <1>1, <1>4, <2>2
<1>7. ToSet(s) = ToSet(list)
  BY <1>1, <1>2, <1>4 DEF ToSet
<1>8. Distinct(list) => Distinct(s)
  <2> SUFFICES ASSUME Distinct(list), NEW i \in 1..n, NEW j \in 1..n,
                      s[i].index = s[j].index \/ s[i].name = s[j].name
               PROVE  i = j
    BY <1>4 DEF Distinct
  <2>1. p[i] = p[j]
    BY <1>1, <1>4 DEF Distinct
  <2> QED
    BY <1>2, <2>1
<1> QED
  BY <1>1, <1>3, <1>5, <1>6, <1>7, <1>8, Zenon

-----------------------------------------------------------------------------
(* Detecting encoders.                                                     *)

(* The equation of the fold in WithDetected.                               *)
Detects(g, list) ==
  g = [s \in SUBSET DOMAIN Detected |->
         IF s = {} THEN list ELSE WithProfileFor(g[s \ {Max(s)}], Detected[Max(s)])]

LEMMA WithDetectedIs ==
  ASSUME NEW list
  PROVE  WithDetected(list) = (CHOOSE g : Detects(g, list))[DOMAIN Detected]
BY DEF WithDetected, FoldLeft, MapThenFoldSet, Detects

LEMMA MaxIsThere ==
  ASSUME NEW m \in Nat, NEW s, s \subseteq 1..m, s # {}
  PROVE  Max(s) \in s /\ \A x \in s : Max(s) >= x
<1> DEFINE R == {m - x : x \in s}
<1>1. R \subseteq Nat /\ R # {}
  <2>1. \A x \in s : m - x \in Nat
    OBVIOUS
  <2> QED
    BY <2>1
<1>2. PICK r \in R : \A q \in R : r <= q
  <2> HIDE DEF R
  <2> QED
    BY <1>1, LeastNatural
<1>3. PICK x \in s : r = m - x
  BY <1>2
<1>4. \A y \in s : x >= y
  BY <1>2, <1>3
<1> QED
  BY <1>4 DEF Max

LEMMA MaxOfInterval ==
  ASSUME NEW k \in Nat, k # 0
  PROVE  Max(1..k) = k
<1>0. PICK s : s = 1..k
  OBVIOUS
<1>1. Max(1..k) \in 1..k /\ \A x \in 1..k : Max(1..k) >= x
  <2>1. s \subseteq 1..k /\ s # {}
    BY <1>0
  <2> QED
    BY <1>0, <2>1, MaxIsThere
<1>2. k \in 1..k
  OBVIOUS
<1>3. Max(1..k) >= k /\ Max(1..k) <= k
  BY <1>1, <1>2
<1> QED
  BY <1>1, <1>3

(* It has a solution: one for the sets of n rows gives one for n + 1.      *)
LEMMA DetectsExists ==
  ASSUME NEW list
  PROVE  \E g : Detects(g, list)
<1>0. PICK D : D = DOMAIN Detected
  OBVIOUS
<1> DEFINE Small(n)  == {s \in SUBSET D : Cardinality(s) <= n}
           Solves(h, n) == h = [s \in Small(n) |->
              IF s = {} THEN list ELSE WithProfileFor(h[s \ {Max(s)}], Detected[Max(s)])]
           Bad == {n \in Nat : ~\E h : Solves(h, n)}
<1>a. PICK m \in Nat : D = 1..m
  BY <1>0, NamesAssumption, LenProperties
<1>b. IsFiniteSet(D)
  BY <1>a, FS_Interval
<1>1. \A s \in SUBSET D : /\ IsFiniteSet(s) /\ Cardinality(s) \in Nat
                          /\ Cardinality(s) <= Cardinality(D)
                          /\ Cardinality(s) = 0 <=> s = {}
  BY <1>b, FS_Subset, FS_CardinalityType, FS_EmptySet
<1>2. 0 \notin Bad
  <2> DEFINE h == [s \in Small(0) |-> list]
  <2>1. Small(0) = {{}}
    BY <1>1, FS_EmptySet
  <2>2. Solves(h, 0)
    BY <2>1
  <2> QED
    BY <2>2
<1>3. ASSUME NEW n \in Nat, n \notin Bad
      PROVE  n + 1 \notin Bad
  <2>1. PICK h : Solves(h, n)
    BY <1>3
  <2> DEFINE k == [s \in Small(n + 1) |->
                     IF s = {} THEN list ELSE WithProfileFor(h[s \ {Max(s)}], Detected[Max(s)])]
  <2>2. Small(n) \subseteq Small(n + 1)
    BY <1>1, <1>3
  <2>3. \A s \in Small(n) : k[s] = h[s]
    BY <2>1, <2>2
  <2>4. \A s \in Small(n + 1) : s # {} => s \ {Max(s)} \in Small(n)
    <3> SUFFICES ASSUME NEW s \in Small(n + 1), s # {}
                 PROVE  s \ {Max(s)} \in Small(n)
      OBVIOUS
    <3>1. Max(s) \in s
      BY <1>a, MaxIsThere
    <3>2. Cardinality(s \ {Max(s)}) = Cardinality(s) - 1
      BY <1>1, <3>1, FS_RemoveElement
    <3> QED
      BY <1>1, <1>3, <3>2
  <2>5. Solves(k, n + 1)
    <3> HIDE DEF Small
    <3>1. \A s \in Small(n + 1) : s # {} => k[s \ {Max(s)}] = h[s \ {Max(s)}]
      BY <2>3, <2>4
    <3> QED
      BY <3>1, Zenon
  <2> QED
    BY <2>5
<1>4. Bad = {}
  <2> HIDE DEF Solves
  <2>1. Bad \subseteq Nat /\ \A n \in Nat : n + 1 \in Bad => n \in Bad
    BY <1>3
  <2> HIDE DEF Bad
  <2> QED
    BY <1>2, <2>1, NoLeast
<1>5. PICK h : Solves(h, Cardinality(D))
  BY <1>1, <1>4
<1>6. Small(Cardinality(D)) = SUBSET D
  BY <1>1
<1> QED
  BY <1>0, <1>5, <1>6 DEF Detects

(* What detection leaves alone and what it adds.                           *)
Grown(list, l, k) ==
  /\ l \in Seq(AnyProfile) /\ Distinct(l)
  /\ Len(list) <= Len(l) /\ Len(l) <= Len(list) + k
  /\ \A i \in 1..Len(list) : l[i] = list[i]
  /\ \A i \in (Len(list) + 1)..Len(l) : l[i].index < Len(l) /\ l[i].name \in Names

LEMMA AppendKeeps ==
  ASSUME NEW list \in Seq(AnyProfile), Distinct(list), NEW p \in AnyProfile,
         p.index \notin IndexesIn(list), p.name \notin NamesIn(list)
  PROVE  /\ Append(list, p) \in Seq(AnyProfile) /\ Len(Append(list, p)) = Len(list) + 1
         /\ Distinct(Append(list, p))
         /\ ToSet(Append(list, p)) = ToSet(list) \cup {p}
<1>1. PICK n \in Nat : n = Len(list) /\ DOMAIN list = 1..n
  BY LenProperties
<1>2. PICK l : l = Append(list, p)
  OBVIOUS
<1>3. /\ l \in Seq(AnyProfile) /\ Len(l) = n + 1 /\ l[n + 1] = p
      /\ \A i \in 1..n : l[i] = list[i]
  BY <1>1, <1>2, AppendProperties
<1>4. DOMAIN l = 1..(n + 1)
  BY <1>3, LenProperties
<1>5. Distinct(l)
  <2> SUFFICES ASSUME NEW i \in 1..(n + 1), NEW j \in 1..(n + 1), i # j
               PROVE  l[i].index # l[j].index /\ l[i].name # l[j].name
    BY <1>4 DEF Distinct
  <2>1. CASE i \in 1..n /\ j \in 1..n
    BY <1>1, <1>3, <2>1 DEF Distinct
  <2>2. CASE i \in 1..n /\ j = n + 1
    BY <1>1, <1>3, <2>2 DEF IndexesIn, NamesIn
  <2>3. CASE i = n + 1 /\ j \in 1..n
    BY <1>1, <1>3, <2>3 DEF IndexesIn, NamesIn
  <2> QED
    BY <1>1, <2>1, <2>2, <2>3
<1>6. ToSet(l) = ToSet(list) \cup {p}
  <2>1. 1..(n + 1) = 1..n \cup {n + 1}
    BY <1>1
  <2> QED
    BY <1>1, <1>3, <1>4, <2>1 DEF ToSet
<1> QED
  BY <1>1, <1>2, <1>3, <1>5, <1>6

LEMMA ProfileForGrows ==
  ASSUME NEW list \in Seq(AnyProfile), NEW l, NEW k \in Nat, Grown(list, l, k),
         NEW base \in Bases
  PROVE  Grown(list, WithProfileFor(l, base), k + 1)
<1> DEFINE name == [base |-> base, copies |-> 0]
           p == [index |-> NewIndex(l), name |-> name, scheme |-> DefaultScheme]
<1>1. Len(list) \in Nat /\ Len(l) \in Nat /\ l \in Seq(AnyProfile)
  BY LenProperties DEF Grown
<1>2. CASE name \in NamesIn(l)
  <2>1. WithProfileFor(l, base) = l
    BY <1>2 DEF WithProfileFor
  <2> QED
    BY <1>1, <2>1 DEF Grown
<1>3. CASE name \notin NamesIn(l)
  <2>1. WithProfileFor(l, base) = Append(l, p)
    BY <1>3 DEF WithProfileFor
  <2>2. NewIndex(l) \in 0..Len(l) /\ NewIndex(l) \notin IndexesIn(l)
    BY <1>1, NewIndexIsFree
  <2>3. name \in Names /\ name \in AnyName
    BY BoundsAssumption, NamesAssumption DEF Names, AnyName
  <2>4. p \in AnyProfile /\ p.index = NewIndex(l) /\ p.name = name
    <3>1. NewIndex(l) \in Nat
      BY <1>1, <2>2
    <3> QED
      BY <2>3, <3>1, SchemesAssumption DEF AnyProfile
  <2> HIDE DEF p, name
  <2>5. PICK r : r = Append(l, p)
    OBVIOUS
  <2>6. r \in Seq(AnyProfile) /\ Len(r) = Len(l) + 1 /\ Distinct(r)
    BY <1>1, <1>3, <2>2, <2>4, <2>5, AppendKeeps DEF Grown
  <2>7. (\A i \in 1..Len(l) : r[i] = l[i]) /\ r[Len(l) + 1] = p
    BY <1>1, <2>4, <2>5, AppendProperties
  <2>8. Len(list) <= Len(l) /\ Len(l) <= Len(list) + k
    BY DEF Grown
  <2>9. \A i \in 1..Len(list) : r[i] = list[i]
    BY <1>1, <2>7, <2>8 DEF Grown
  <2>10. \A i \in (Len(list) + 1)..Len(r) : r[i].index < Len(r) /\ r[i].name \in Names
    <3> SUFFICES ASSUME NEW i \in (Len(list) + 1)..Len(r)
                 PROVE  r[i].index < Len(r) /\ r[i].name \in Names
      OBVIOUS
    <3>1. CASE i = Len(l) + 1
      BY <1>1, <2>2, <2>3, <2>4, <2>6, <2>7, <3>1
    <3>2. CASE i # Len(l) + 1
      <4>1. i \in (Len(list) + 1)..Len(l) /\ i \in 1..Len(l)
        BY <1>1, <2>6, <3>2
      <4>2. l[i].index < Len(l) /\ l[i].name \in Names /\ r[i] = l[i] /\ l[i] \in AnyProfile
        BY <1>1, <2>7, <4>1, ElementOfSeq DEF Grown
      <4>3. l[i].index \in Nat
        BY <4>2 DEF AnyProfile
      <4> QED
        BY <1>1, <2>6, <4>2, <4>3
    <3> QED
      BY <3>1, <3>2
  <2> QED
    BY <1>1, <2>1, <2>5, <2>6, <2>8, <2>9, <2>10 DEF Grown
<1> QED
  BY <1>2, <1>3

LEMMA DetectedGrows ==
  ASSUME NEW list \in Seq(AnyProfile), Distinct(list)
  PROVE  Grown(list, WithDetected(list), Len(Detected))
<1>1. PICK g : Detects(g, list) /\ WithDetected(list) = g[DOMAIN Detected]
  <2>1. Detects(CHOOSE g : Detects(g, list), list)
    BY DetectsExists, Zenon
  <2> QED
    BY <2>1, WithDetectedIs, Zenon
<1>2. PICK m \in Nat : m = Len(Detected) /\ DOMAIN Detected = 1..m
  BY NamesAssumption, LenProperties
<1> DEFINE Bad == {k \in Nat : k <= m /\ ~Grown(list, g[1..k], k)}
<1>3. 0 \notin Bad
  <2>1. 1..0 = {} /\ g[{}] = list
    BY <1>1 DEF Detects
  <2>2. Grown(list, list, 0)
    BY LenProperties DEF Grown
  <2> QED
    BY <2>1, <2>2
<1>4. ASSUME NEW k \in Nat, k + 1 \in Bad
      PROVE  k \in Bad
  <2>1. PICK s : s = 1..(k + 1)
    OBVIOUS
  <2>2. s \in SUBSET DOMAIN Detected /\ s # {} /\ k + 1 \in DOMAIN Detected
    <3>1. k + 1 <= m
      BY <1>4
    <3> HIDE DEF Bad
    <3>2. 1 \in s /\ k + 1 \in 1..m /\ s \subseteq 1..m
      BY <1>2, <2>1, <3>1
    <3> QED
      BY <1>2, <3>2
  <2>3. Max(s) = k + 1 /\ s \ {k + 1} = 1..k
    BY <1>4, <2>1, MaxOfInterval
  <2>4. g[s] = WithProfileFor(g[1..k], Detected[k + 1])
    BY <1>1, <2>2, <2>3 DEF Detects
  <2>5. Detected[k + 1] \in Bases
    BY <1>2, <2>2, NamesAssumption, ElementOfSeq
  <2>6. ~Grown(list, g[1..k], k)
    BY <1>4, <2>1, <2>4, <2>5, ProfileForGrows
  <2> QED
    BY <1>2, <1>4, <2>6
<1>5. Bad = {}
  <2>1. Bad \subseteq Nat /\ \A k \in Nat : k + 1 \in Bad => k \in Bad
    BY <1>4
  <2> HIDE DEF Bad
  <2> QED
    BY <1>3, <2>1, NoLeast
<1>6. Grown(list, g[1..m], m)
  BY <1>2, <1>5
<1> QED
  BY <1>1, <1>2, <1>6

-----------------------------------------------------------------------------
(* The invariant.  A list that the page may show or the settings may hold  *)
(* is proper; the current profile is one of the list, if there is any; and *)
(* the settings know it.  Until an edit fails in its middle both lists     *)
(* have the same profiles, and even then the same indexes.                 *)

Proper(list) == list \in Seq(Profiles) /\ Len(list) <= MaxProfiles /\ Distinct(list)

IndexesOf(S) == {p.index : p \in S}
OfIndex(S, c) == {p \in S : p.index = c}

Known(list, c) == IF ToSet(list) = {} THEN c = -1 ELSE c \in IndexesOf(ToSet(list))

Agree(saved, list, half) ==
  /\ IndexesOf(ToSet(saved)) = IndexesOf(ToSet(list))
  /\ ~half => ToSet(saved) = ToSet(list)

ModelInv ==
  /\ Proper(cache) /\ Known(cache, current) /\ halfEdited \in BOOLEAN
  /\ \E saved : /\ Proper(saved) /\ Agree(saved, cache, halfEdited)
                /\ settings = [standard |-> current, list |-> saved]

LEMMA IndexesAre ==
  ASSUME NEW list
  PROVE  IndexesIn(list) = IndexesOf(ToSet(list))
BY DEF IndexesIn, IndexesOf, ToSet

LEMMA EmptyList ==
  ASSUME NEW S, NEW list \in Seq(S)
  PROVE  list = <<>> <=> ToSet(list) = {}
<1>1. PICK n \in Nat : n = Len(list) /\ DOMAIN list = 1..n
  BY LenProperties
<1>2. list = <<>> <=> n = 0
  BY <1>1, EmptySeq
<1>3. n = 0 <=> 1..n = {}
  BY <1>1
<1> QED
  BY <1>1, <1>2, <1>3 DEF ToSet

LEMMA ProperList ==
  ASSUME NEW list, Proper(list)
  PROVE  /\ list \in Seq(AnyProfile) /\ Len(list) \in Nat /\ DOMAIN list = 1..Len(list)
         /\ \A i \in 1..Len(list) : list[i] \in Profiles
         /\ ToSet(list) \subseteq Profiles
         /\ list = <<>> <=> ToSet(list) = {}
<1>1. list \in Seq(Profiles)
  BY DEF Proper
<1>2. list \in Seq(AnyProfile)
  BY <1>1, ProfilesAreAny, SeqMonotonic
<1>3. Len(list) \in Nat /\ DOMAIN list = 1..Len(list)
  BY <1>1, LenProperties
<1>4. \A i \in 1..Len(list) : list[i] \in Profiles
  BY <1>1, ElementOfSeq
<1>5. ToSet(list) \subseteq Profiles
  BY <1>3, <1>4 DEF ToSet
<1>6. list = <<>> <=> ToSet(list) = {}
  BY <1>1, EmptyList
<1> QED
  BY <1>2, <1>3, <1>4, <1>5, <1>6

LEMMA KnownRange ==
  ASSUME NEW list, Proper(list), NEW c, Known(list, c)
  PROVE  c \in -1..(MaxProfiles - 1)
<1>1. ToSet(list) \subseteq Profiles
  BY ProperList
<1>2. \A p \in Profiles : p.index \in 0..(MaxProfiles - 1)
  BY DEF Profiles
<1> QED
  BY <1>1, <1>2, BoundsAssumption DEF Known, IndexesOf

LEMMA ModelInvImplies ==
  ASSUME ModelInv
  PROVE  TypeOK /\ ProfilesAreDistinct /\ SavedIsShown
<1>1. PICK saved : /\ Proper(saved) /\ Agree(saved, cache, halfEdited)
                   /\ settings = [standard |-> current, list |-> saved]
  BY DEF ModelInv
<1>2. Proper(cache) /\ Known(cache, current)
  BY DEF ModelInv
<1>3. current \in -1..(MaxProfiles - 1)
  BY <1>2, KnownRange
<1>4. saved \in Seq(Profiles) /\ settings.list = saved /\ settings.standard = current
  BY <1>1 DEF Proper
<1>5. TypeOK
  BY <1>1, <1>2, <1>3, <1>4 DEF TypeOK, Proper, ModelInv
<1>6. SavedIsShown
  BY <1>1, <1>4, IndexesAre DEF SavedIsShown, Agree
<1> QED
  BY <1>2, <1>5, <1>6 DEF ProfilesAreDistinct, Proper

(* A commit of one list, while another of the same profiles is shown.      *)
LEMMA CommitKeepsInv ==
  ASSUME NEW list, NEW shown, NEW c, Proper(list), Proper(shown),
         ToSet(shown) = ToSet(list), Known(list, c),
         cache' = shown, current' = c, settings' = [standard |-> c, list |-> list],
         halfEdited' = FALSE
  PROVE  ModelInv'
<1>1. Known(shown, c)
  BY DEF Known
<1>2. Agree(list, shown, FALSE)
  BY DEF Agree
<1>3. Proper(cache') /\ Known(cache', current') /\ halfEdited' \in BOOLEAN
  BY <1>1
<1>4. \E saved : /\ Proper(saved) /\ Agree(saved, cache', halfEdited')
                /\ settings' = [standard |-> current', list |-> saved]
  BY <1>2
<1> QED
  BY <1>3, <1>4 DEF ModelInv

LEMMA SortedIsProper ==
  ASSUME NEW list, Proper(list)
  PROVE  Proper(Sorted(list)) /\ ToSet(Sorted(list)) = ToSet(list)
<1>1. list \in Seq(AnyProfile)
  BY ProperList
<1> QED
  BY <1>1, SortedKeeps DEF Proper

-----------------------------------------------------------------------------
(* The calls the operations are made of, on states in which the settings   *)
(* know the current profile.                                               *)
St(list, c, saved) ==
  [list |-> list, current |-> c, settings |-> [standard |-> c, list |-> saved]]

CurrentFor(list, i) ==
  IF list = <<>> THEN -1 ELSE IF i \in IndexesIn(list) THEN i ELSE list[1].index

LEMMA SetCurrentIs ==
  ASSUME NEW list, NEW c, NEW saved, NEW i
  PROVE  SetCurrent(St(list, c, saved), i) = St(list, CurrentFor(list, i), saved)
<1> DEFINE s == St(list, c, saved)
           d == CurrentFor(list, i)
<1>1. s.list = list /\ s.current = c
  BY DEF St
<1>2. SetCurrent(s, i) = IF d = s.current THEN s
                         ELSE [s EXCEPT !.current = d, !.settings.standard = d]
  BY <1>1 DEF SetCurrent, CurrentFor
<1> HIDE DEF d
<1>3. [s EXCEPT !.current = d, !.settings.standard = d] = St(list, d, saved)
  <2>1. PICK set : set = [standard |-> c, list |-> saved]
    OBVIOUS
  <2>2. s = [list |-> list, current |-> c, settings |-> set]
    BY <2>1 DEF St
  <2>3. [s EXCEPT !.current = d, !.settings.standard = d]
          = [list |-> list, current |-> d, settings |-> [set EXCEPT !.standard = d]]
    <3> HIDE DEF s, d
    <3>1. PICK t : t = [list |-> list, current |-> d, settings |-> set]
      OBVIOUS
    <3>2. t = [s EXCEPT !.current = d]
      BY <2>2, <3>1
    <3>3. [t EXCEPT !.settings.standard = d]
            = [list |-> list, current |-> d, settings |-> [set EXCEPT !.standard = d]]
      BY <3>1
    <3>4. [s EXCEPT !.current = d, !.settings.standard = d] = [t EXCEPT !.settings.standard = d]
      BY <3>2
    <3> QED
      BY <3>3, <3>4
  <2>4. [set EXCEPT !.standard = d] = [standard |-> d, list |-> saved]
    BY <2>1
  <2> HIDE DEF s
  <2> QED
    BY <2>3, <2>4 DEF St
<1>4. CASE d = c
  BY <1>1, <1>2, <1>4 DEF d
<1>5. CASE d # c
  <2> HIDE DEF s
  <2>1. SetCurrent(s, i) = St(list, d, saved)
    BY <1>1, <1>2, <1>3, <1>5
  <2> QED
    BY <2>1 DEF d, s
<1> QED
  BY <1>4, <1>5

LEMMA CommitIs ==
  ASSUME NEW list, NEW c, NEW saved
  PROVE  Commit(St(list, c, saved)) = St(list, c, list)
BY DEF Commit, St

LEMMA BecomeIs ==
  ASSUME NEW list, NEW c, NEW saved, Become(St(list, c, saved))
  PROVE  cache' = list /\ current' = c /\ settings' = [standard |-> c, list |-> saved]
BY DEF Become, St

LEMMA StateIs ==
  ASSUME ModelInv
  PROVE  \E saved : /\ Proper(saved) /\ Agree(saved, cache, halfEdited)
                   /\ settings = [standard |-> current, list |-> saved]
                   /\ State = St(cache, current, saved)
BY DEF ModelInv, State, St

LEMMA CurrentForIsKnown ==
  ASSUME NEW list, Proper(list), NEW i
  PROVE  /\ Known(list, CurrentFor(list, i))
         /\ Known(list, i) => CurrentFor(list, i) = i
<1>1. list = <<>> <=> ToSet(list) = {}
  BY ProperList
<1>2. IndexesIn(list) = IndexesOf(ToSet(list))
  BY IndexesAre
<1>3. list # <<>> => list[1].index \in IndexesIn(list)
  <2>1. list # <<>> => 1 \in DOMAIN list
    BY ProperList, EmptySeq DEF Proper
  <2> QED
    BY <2>1 DEF IndexesIn
<1> QED
  BY <1>1, <1>2, <1>3 DEF Known, CurrentFor

LEMMA ChosenIs ==
  /\ Chosen = OfIndex(ToSet(cache), current)
  /\ Chosen' = OfIndex(ToSet(cache'), current')
BY DEF Chosen, OfIndex, ToSet, IndexesIn, Rows

LEMMA InsertRowIs ==
  ASSUME NEW list, Proper(list), NEW c, NEW saved, NEW p \in AnyProfile
  PROVE  InsertRow(St(list, c, saved), p)
           = St(Append(list, p), IF list = <<>> THEN p.index ELSE c, saved)
<1> DEFINE s == St(list, c, saved)
<1>1. s.list = list
  BY DEF St
<1>2. [s EXCEPT !.list = Append(@, p)] = St(Append(list, p), c, saved)
  <2>1. PICK l : l = Append(list, p)
    OBVIOUS
  <2>2. [s EXCEPT !.list = l] = St(l, c, saved)
    BY DEF St
  <2>3. Append(s.list, p) = l
    BY <1>1, <2>1
  <2> HIDE DEF s
  <2> QED
    BY <2>1, <2>2, <2>3
<1>3. InsertRow(s, p) = IF list = <<>> THEN SetCurrent(St(Append(list, p), c, saved), p.index)
                        ELSE St(Append(list, p), c, saved)
  <2> HIDE DEF s
  <2> QED
    BY <1>1, <1>2 DEF InsertRow
<1>4. CASE list # <<>>
  BY <1>3, <1>4
<1>5. CASE list = <<>>
  <2>1. CurrentFor(Append(list, p), p.index) = p.index
    <3>1. PICK l : l = Append(list, p)
      OBVIOUS
    <3>2. l \in Seq(AnyProfile) /\ Len(l) = 1 /\ l[1] = p /\ l # <<>>
      BY <1>5, <3>1, EmptySeq, AppendProperties, ProperList
    <3>3. p.index \in IndexesIn(l)
      <4>1. DOMAIN l = 1..1
        BY <3>2, LenProperties
      <4>2. 1 \in DOMAIN l
        BY <4>1
      <4> QED
        BY <3>2, <4>2 DEF IndexesIn
    <3> QED
      BY <3>1, <3>2, <3>3 DEF CurrentFor
  <2> QED
    BY <1>3, <1>5, <2>1, SetCurrentIs
<1> QED
  BY <1>4, <1>5

LEMMA RemoveRowIs ==
  ASSUME NEW list, NEW c, NEW saved, NEW row
  PROVE  RemoveRow(St(list, c, saved), row)
           = St(RemoveAt(list, row), CurrentFor(RemoveAt(list, row), c), saved)
<1> DEFINE s == St(list, c, saved)
<1>1. s.list = list /\ s.current = c
  BY DEF St
<1>2. [s EXCEPT !.list = RemoveAt(@, row)] = St(RemoveAt(list, row), c, saved)
  BY DEF St
<1>3. RemoveRow(s, row) = SetCurrent(St(RemoveAt(list, row), c, saved), c)
  <2> HIDE DEF s
  <2> QED
    BY <1>1, <1>2 DEF RemoveRow
<1> QED
  BY <1>3, SetCurrentIs

LEMMA RemoveAtIs ==
  ASSUME NEW S, NEW list \in Seq(S), NEW row \in DOMAIN list
  PROVE  /\ RemoveAt(list, row) \in Seq(S)
         /\ Len(RemoveAt(list, row)) = Len(list) - 1
         /\ \A i \in 1..(Len(list) - 1) :
              RemoveAt(list, row)[i] = list[IF i < row THEN i ELSE i + 1]
<1>1. PICK n \in Nat : n = Len(list) /\ DOMAIN list = 1..n /\ row \in 1..n
  BY LenProperties
<1>2. PICK a : a = SubSeq(list, 1, row - 1)
  OBVIOUS
<1>3. PICK b : b = SubSeq(list, row + 1, n)
  OBVIOUS
<1>4. RemoveAt(list, row) = a \o b
  BY <1>1, <1>2, <1>3 DEF RemoveAt
<1>5. \A i \in 1..n : list[i] \in S
  BY <1>1, ElementOfSeq
<1>6. a \in Seq(S) /\ Len(a) = row - 1 /\ \A i \in 1..(row - 1) : a[i] = list[i]
  <2>1. \A i \in 1..(row - 1) : list[i] \in S
    BY <1>1, <1>5
  <2>2. row - 1 \in Int /\ 1 \in Int /\ (row - 1) - 1 + 1 = row - 1 /\ row - 1 >= 0
    BY <1>1
  <2>3. PICK m \in Int : m = row - 1
    BY <2>2
  <2>4. /\ SubSeq(list, 1, m) \in Seq(S)
        /\ Len(SubSeq(list, 1, m)) = IF 1 <= m THEN m - 1 + 1 ELSE 0
        /\ \A i \in 1..(m - 1 + 1) : SubSeq(list, 1, m)[i] = list[1 + i - 1]
    BY <2>1, <2>3, SubSeqProperties
  <2> QED
    BY <1>1, <1>2, <2>2, <2>3, <2>4
<1>7. b \in Seq(S) /\ Len(b) = n - row /\ \A i \in 1..(n - row) : b[i] = list[row + i]
  <2>1. \A i \in (row + 1)..n : list[i] \in S
    BY <1>1, <1>5
  <2>3. PICK m \in Int : m = row + 1
    BY <1>1
  <2>4. /\ SubSeq(list, m, n) \in Seq(S)
        /\ Len(SubSeq(list, m, n)) = IF m <= n THEN n - m + 1 ELSE 0
        /\ \A i \in 1..(n - m + 1) : SubSeq(list, m, n)[i] = list[m + i - 1]
    BY <1>1, <2>1, <2>3, SubSeqProperties
  <2> QED
    BY <1>1, <1>3, <2>3, <2>4
<1>8. /\ a \o b \in Seq(S) /\ Len(a \o b) = Len(a) + Len(b)
      /\ \A i \in 1..(Len(a) + Len(b)) : (a \o b)[i] = IF i <= Len(a) THEN a[i] ELSE b[i - Len(a)]
  BY <1>6, <1>7, ConcatProperties
<1>9. PICK r : r = a \o b
  OBVIOUS
<1>10. \A i \in 1..(n - 1) : r[i] = list[IF i < row THEN i ELSE i + 1]
  <2> SUFFICES ASSUME NEW i \in 1..(n - 1)
               PROVE  r[i] = list[IF i < row THEN i ELSE i + 1]
    OBVIOUS
  <2>1. r[i] = IF i <= row - 1 THEN a[i] ELSE b[i - (row - 1)]
    BY <1>1, <1>6, <1>7, <1>8, <1>9
  <2>2. CASE i < row
    BY <1>1, <1>6, <2>1, <2>2
  <2>3. CASE ~(i < row)
    <3>1. i - (row - 1) \in 1..(n - row) /\ row + (i - (row - 1)) = i + 1
      BY <1>1, <2>3
    <3>2. b[i - (row - 1)] = list[row + (i - (row - 1))]
      BY <1>7, <3>1
    <3>3. b[i - (row - 1)] = list[i + 1]
      BY <3>1, <3>2
    <3> QED
      BY <1>1, <2>1, <2>3, <3>3
  <2> QED
    BY <2>2, <2>3
<1>11. r \in Seq(S) /\ Len(r) = n - 1 /\ r = RemoveAt(list, row)
  BY <1>1, <1>4, <1>6, <1>7, <1>8, <1>9
<1> QED
  BY <1>1, <1>10, <1>11, Zenon

LEMMA RemoveAtKeeps ==
  ASSUME NEW list, Proper(list), NEW row \in DOMAIN list
  PROVE  /\ Proper(RemoveAt(list, row))
         /\ ToSet(RemoveAt(list, row)) = ToSet(list) \ {list[row]}
<1>1. PICK n \in Nat : /\ n = Len(list) /\ DOMAIN list = 1..n /\ row \in 1..n
                      /\ list \in Seq(Profiles) /\ n <= MaxProfiles
  BY ProperList DEF Proper
<1>2. PICK r : r = RemoveAt(list, row)
  OBVIOUS
<1>3. /\ r \in Seq(Profiles) /\ Len(r) = n - 1
      /\ \A i \in 1..(n - 1) : r[i] = list[IF i < row THEN i ELSE i + 1]
  BY <1>1, <1>2, RemoveAtIs
<1>4. DOMAIN r = 1..(n - 1)
  BY <1>3, LenProperties
<1> DEFINE at(i) == IF i < row THEN i ELSE i + 1
<1>5. \A i \in 1..(n - 1) : at(i) \in 1..n /\ at(i) # row
  BY <1>1
<1>6. \A i, j \in 1..(n - 1) : at(i) = at(j) => i = j
  BY <1>1
<1>7. \A k \in 1..n : k # row => \E i \in 1..(n - 1) : at(i) = k
  <2> SUFFICES ASSUME NEW k \in 1..n, k # row
               PROVE  \E i \in 1..(n - 1) : at(i) = k
    OBVIOUS
  <2>1. CASE k < row
    BY <1>1, <2>1
  <2>2. CASE k > row
    <3>1. k - 1 \in 1..(n - 1) /\ at(k - 1) = k
      BY <1>1, <2>2
    <3> QED
      BY <3>1
  <2> QED
    BY <1>1, <2>1, <2>2
<1>8. \A i \in 1..(n - 1) : r[i] = list[at(i)]
  BY <1>3
<1> HIDE DEF at
<1>9. Distinct(list)
  BY DEF Proper
<1>10. Distinct(r)
  <2> SUFFICES ASSUME NEW i \in 1..(n - 1), NEW j \in 1..(n - 1),
                      r[i].index = r[j].index \/ r[i].name = r[j].name
               PROVE  i = j
    BY <1>4 DEF Distinct
  <2>1. at(i) = at(j)
    BY <1>1, <1>5, <1>8, <1>9 DEF Distinct
  <2> QED
    BY <1>6, <2>1
<1>11. ToSet(r) = ToSet(list) \ {list[row]}
  <2>1. \A k \in 1..n : list[k] = list[row] => k = row
    BY <1>1, <1>9 DEF Distinct
  <2> QED
    <3>1. ASSUME NEW i \in 1..(n - 1)
          PROVE  r[i] \in ToSet(list) \ {list[row]}
      BY <1>1, <1>5, <1>8, <2>1 DEF ToSet
    <3>2. ASSUME NEW k \in 1..n, k # row
          PROVE  list[k] \in ToSet(r)
      <4>1. PICK i \in 1..(n - 1) : at(i) = k
        BY <1>7, <3>2
      <4> QED
        BY <1>4, <1>8, <4>1 DEF ToSet
    <3>3. ToSet(r) = {r[i] : i \in 1..(n - 1)} /\ ToSet(list) = {list[k] : k \in 1..n}
      BY <1>1, <1>4 DEF ToSet
    <3> QED
      BY <3>1, <3>2, <3>3
<1>12. Len(r) <= MaxProfiles
  BY <1>1, <1>3, BoundsAssumption
<1> QED
  BY <1>2, <1>3, <1>10, <1>11, <1>12 DEF Proper

LEMMA EditIs ==
  ASSUME NEW edit \in Edits
  PROVE  /\ edit.name \in AnyName /\ edit.scheme \in Schemes \cup {Empty}
         /\ edit.name # Unnamed => edit.name \in Names
<1>1. edit.name \in Names \cup {Unnamed} /\ edit.scheme \in Schemes \cup {Empty}
  BY DEF Edits
<1>2. Names \subseteq AnyName
  <2>1. 0..MaxCopies \subseteq Nat /\ Bases \subseteq Nat
    BY BoundsAssumption, NamesAssumption
  <2> QED
    BY <2>1 DEF Names, AnyName
<1>3. Unnamed \in AnyName
  BY DEF Unnamed, AnyName
<1> QED
  BY <1>1, <1>2, <1>3

(* What the dialog makes of a row.                                         *)
Edited(p, edit) ==
  [index |-> p.index, name |-> edit.name,
   scheme |-> IF edit.scheme = Empty THEN p.scheme ELSE edit.scheme]

LEMMA SetFieldsIs ==
  ASSUME NEW list \in Seq(AnyProfile), NEW row \in DOMAIN list, NEW edit \in Edits
  PROVE  /\ ~AcceptsName(list, row, edit.name) => SetFields(list, row, edit) = list
         /\ AcceptsName(list, row, edit.name) =>
              /\ SetFields(list, row, edit) = [list EXCEPT ![row] = Edited(list[row], edit)]
              /\ Edited(list[row], edit) \in AnyProfile
<1>1. PICK p \in AnyProfile : p = list[row]
  BY LenProperties, ElementOfSeq
<1>2. p = [index |-> p.index, name |-> p.name, scheme |-> p.scheme] /\ p.index \in Nat
      /\ p.scheme \in Schemes
  BY DEF AnyProfile
<1>3. CASE AcceptsName(list, row, edit.name)
  <2>0. PICK sch : sch = IF edit.scheme = Empty THEN p.scheme ELSE edit.scheme
    OBVIOUS
  <2>1. SetFields(list, row, edit) =
          [list EXCEPT ![row].name = edit.name,
                       ![row].scheme = IF edit.scheme = Empty THEN @ ELSE edit.scheme]
    BY <1>3 DEF SetFields
  <2>2. PICK q : q = [p EXCEPT !.name = edit.name]
    OBVIOUS
  <2>3. PICK l : l = [list EXCEPT ![row] = q]
    OBVIOUS
  <2>4. l = [list EXCEPT ![row].name = edit.name]
    BY <1>1, <2>2, <2>3
  <2>5. l[row] = q /\ q.scheme = p.scheme
    BY <1>2, <2>2, <2>3
  <2>6. SetFields(list, row, edit) =
          [l EXCEPT ![row].scheme = IF edit.scheme = Empty THEN @ ELSE edit.scheme]
    <3>1. [list EXCEPT ![row].name = edit.name,
                       ![row].scheme = IF edit.scheme = Empty THEN @ ELSE edit.scheme]
            = [[list EXCEPT ![row].name = edit.name]
                 EXCEPT ![row].scheme = IF edit.scheme = Empty THEN @ ELSE edit.scheme]
      OBVIOUS
    <3> QED
      BY <2>1, <2>4, <3>1, Zenon
  <2>7. SetFields(list, row, edit) = [l EXCEPT ![row] = [q EXCEPT !.scheme = sch]]
    BY <2>0, <2>5, <2>6
  <2>8. [q EXCEPT !.scheme = sch] = Edited(p, edit)
    <3>1. q = [index |-> p.index, name |-> edit.name, scheme |-> p.scheme]
      BY <1>2, <2>2
    <3> QED
      BY <2>0, <3>1 DEF Edited
  <2>9. SetFields(list, row, edit) = [list EXCEPT ![row] = Edited(p, edit)]
    BY <2>3, <2>7, <2>8
  <2>10. Edited(p, edit) \in AnyProfile
    BY <1>2, EditIs DEF Edited, AnyProfile
  <2> QED
    BY <1>1, <1>3, <2>9, <2>10
<1> QED
  BY <1>3 DEF SetFields

-----------------------------------------------------------------------------
(* The operations.  Each keeps the invariant and, unless the user meant to *)
(* replace it, the current profile.                                        *)
Kept == Chosen = {} \/ Chosen' = Chosen

(* Profiles that are only added leave the current one alone.               *)
LEMMA MoreKeepsChosen ==
  ASSUME NEW S, NEW T, NEW c, NEW d, S \subseteq T,
         \A p \in T \ S : p.index \notin IndexesOf(S),
         S # {} => c \in IndexesOf(S) /\ d = c
  PROVE  OfIndex(S, c) = {} \/ OfIndex(T, d) = OfIndex(S, c)
BY DEF OfIndex, IndexesOf

(* A profile behind the others.                                            *)
LEMMA AppendIsProper ==
  ASSUME NEW list, Proper(list), Len(list) < MaxProfiles, NEW p \in Profiles,
         p.index = NewIndex(list), p.name \notin NamesIn(list)
  PROVE  /\ Proper(Append(list, p)) /\ ToSet(Append(list, p)) = ToSet(list) \cup {p}
         /\ p.index \notin IndexesOf(ToSet(list))
<1>1. list \in Seq(AnyProfile) /\ p \in AnyProfile /\ list \in Seq(Profiles) /\ Distinct(list)
      /\ Len(list) \in Nat
  BY ProperList, ProfilesAreAny DEF Proper
<1>2. p.index \notin IndexesIn(list)
  BY <1>1, NewIndexIsFree
<1>3. PICK l : l = Append(list, p)
  OBVIOUS
<1>4. Len(l) = Len(list) + 1 /\ Distinct(l) /\ ToSet(l) = ToSet(list) \cup {p}
  BY <1>1, <1>2, <1>3, AppendKeeps
<1>5. l \in Seq(Profiles)
  BY <1>1, <1>3, AppendProperties
<1>6. Len(l) <= MaxProfiles
  BY <1>1, <1>4, BoundsAssumption
<1> QED
  BY <1>2, <1>3, <1>4, <1>5, <1>6, IndexesAre DEF Proper

(* A proper list to which such a profile was added is saved and shown.     *)
LEMMA AddedStep ==
  ASSUME ModelInv, Len(cache) < MaxProfiles, NEW p \in Profiles,
         p.index = NewIndex(cache), p.name \notin NamesIn(cache),
         NEW c, cache # <<>> => c = current, cache = <<>> => c = p.index,
         cache' = Sorted(Append(cache, p)), current' = c,
         settings' = [standard |-> c, list |-> Append(cache, p)], halfEdited' = FALSE
  PROVE  ModelInv' /\ Kept
<1>1. Proper(cache) /\ Known(cache, current)
  BY DEF ModelInv
<1>2. PICK l : l = Append(cache, p)
  OBVIOUS
<1>3. /\ Proper(l) /\ ToSet(l) = ToSet(cache) \cup {p}
      /\ p.index \notin IndexesOf(ToSet(cache))
  BY <1>1, <1>2, AppendIsProper
<1>4. Proper(Sorted(l)) /\ ToSet(Sorted(l)) = ToSet(l)
  BY <1>3, SortedIsProper
<1>5. cache = <<>> <=> ToSet(cache) = {}
  BY <1>1, ProperList
<1>6. Known(l, c)
  <2>1. CASE cache = <<>>
    BY <1>3, <2>1 DEF Known, IndexesOf
  <2>2. CASE cache # <<>>
    BY <1>1, <1>3, <1>5, <2>2 DEF Known, IndexesOf
  <2> QED
    BY <2>1, <2>2
<1>7. ModelInv'
  <2>1. cache' = Sorted(l) /\ settings' = [standard |-> c, list |-> l]
    BY <1>2
  <2> QED
    BY <1>3, <1>4, <1>6, <2>1, CommitKeepsInv
<1>8. Kept
  <2>1. \A q \in ToSet(l) \ ToSet(cache) : q.index \notin IndexesOf(ToSet(cache))
    BY <1>3
  <2>2. ToSet(cache) # {} => current \in IndexesOf(ToSet(cache)) /\ c = current
    BY <1>1, <1>5 DEF Known
  <2>3. ToSet(cache) \subseteq ToSet(l)
    BY <1>3
  <2>4. OfIndex(ToSet(cache), current) = {} \/ OfIndex(ToSet(l), c) = OfIndex(ToSet(cache), current)
    BY <2>1, <2>2, <2>3, MoreKeepsChosen
  <2>5. ToSet(cache') = ToSet(l) /\ current' = c
    BY <1>2, <1>4
  <2> QED
    BY <2>4, <2>5, ChosenIs DEF Kept
<1> QED
  BY <1>7, <1>8

LEMMA UnchangedKeepsInv ==
  ASSUME ModelInv, UNCHANGED vars
  PROVE  ModelInv' /\ Kept
BY ChosenIs DEF ModelInv, vars, Kept

LEMMA AddStep ==
  ASSUME ModelInv, NEW edit \in Edits, Add(edit)
  PROVE  ModelInv' /\ Kept
<1> DEFINE blank == [index |-> NewIndex(cache), name |-> Unnamed, scheme |-> DefaultScheme]
           row == Len(cache) + 1
           c == IF cache = <<>> THEN blank.index ELSE current
<1>1. Proper(cache) /\ Known(cache, current)
  BY DEF ModelInv
<1>2. cache \in Seq(AnyProfile) /\ Len(cache) \in Nat /\ DOMAIN cache = 1..Len(cache)
  BY <1>1, ProperList
<1>3. blank.index = NewIndex(cache) /\ NewIndex(cache) \in 0..Len(cache)
  BY <1>2, NewIndexIsFree
<1>4. blank \in AnyProfile
  <2>1. Unnamed \in AnyName
    BY DEF Unnamed, AnyName
  <2>2. NewIndex(cache) \in Nat
    BY <1>2, <1>3
  <2> QED
    BY <2>1, <2>2, SchemesAssumption DEF AnyProfile
<1>5. PICK saved : /\ Proper(saved) /\ Agree(saved, cache, halfEdited)
                   /\ settings = [standard |-> current, list |-> saved]
                   /\ State = St(cache, current, saved)
  BY StateIs
<1>6. PICK l : l = Append(cache, blank)
  OBVIOUS
<1>7. /\ l \in Seq(AnyProfile) /\ Len(l) = row /\ l[row] = blank
      /\ (\A i \in 1..Len(cache) : l[i] = cache[i]) /\ DOMAIN l = 1..row
  <2> HIDE DEF blank
  <2>1. /\ l \in Seq(AnyProfile) /\ Len(l) = Len(cache) + 1 /\ l[Len(cache) + 1] = blank
        /\ \A i \in 1..Len(cache) : l[i] = cache[i]
    BY <1>2, <1>4, <1>6, AppendProperties
  <2>2. DOMAIN l = 1..Len(l)
    BY <2>1, LenProperties
  <2> QED
    BY <2>1, <2>2
<1>8. row \in DOMAIN l
  BY <1>2, <1>7
<1>9. InsertRow(State, blank) = St(l, c, saved)
  <2> HIDE DEF blank
  <2> QED
    BY <1>1, <1>4, <1>5, <1>6, InsertRowIs DEF c
<1>10. PICK F : F = SetFields(l, row, edit)
  OBVIOUS
<1> DEFINE inserted == InsertRow(State, blank)
           filled == [inserted EXCEPT !.list = SetFields(@, row, edit)]
<1>11. inserted.list = l /\ filled = St(F, c, saved)
  <2> HIDE DEF c, row, blank
  <2>1. inserted.list = l
    BY <1>9 DEF St
  <2>2. [inserted EXCEPT !.list = F] = St(F, c, saved)
    BY <1>9 DEF St
  <2> HIDE DEF inserted
  <2> QED
    BY <1>10, <2>1, <2>2
<1>12. /\ Len(cache) < MaxProfiles
       /\ \/ /\ Refused(l, row, edit)
             /\ Become(RemoveRow(filled, row))
             /\ UNCHANGED halfEdited
          \/ /\ ~Refused(l, row, edit)
             /\ Become([Commit(filled) EXCEPT !.list = Sorted(@)])
             /\ halfEdited' = FALSE
  <2>1. inserted.list = l
    BY <1>11
  <2> QED
    BY <2>1 DEF Add
<1> HIDE DEF filled, inserted, blank, c, row
<1>13. CASE Refused(l, row, edit)
  <2>1. Become(RemoveRow(St(F, c, saved), row)) /\ UNCHANGED halfEdited
    BY <1>11, <1>12, <1>13
  <2>2. PICK r : r = RemoveAt(F, row)
    OBVIOUS
  <2>3. cache' = r /\ current' = CurrentFor(r, c)
        /\ settings' = [standard |-> CurrentFor(r, c), list |-> saved]
    BY <2>1, <2>2, RemoveRowIs, BecomeIs
  <2>4. /\ F \in Seq(AnyProfile) /\ Len(F) = row
        /\ \A i \in 1..Len(cache) : F[i] = cache[i]
    <3>1. CASE F = l
      BY <1>7, <3>1
    <3>2. CASE F # l
      <4>1. PICK q \in AnyProfile : F = [l EXCEPT ![row] = q]
        BY <1>7, <1>8, <1>10, <3>2, SetFieldsIs
      <4>2. /\ F \in Seq(AnyProfile) /\ Len(F) = Len(l)
            /\ \A i \in 1..Len(l) : F[i] = IF i = row THEN q ELSE l[i]
        BY <1>7, <1>8, <4>1, ExceptSeq
      <4> QED
        BY <1>2, <1>7, <4>2 DEF row
    <3> QED
      BY <3>1, <3>2
  <2>5. r = cache
    <3>1. row \in DOMAIN F
      BY <1>7, <1>8, <2>4, LenProperties
    <3>2. /\ r \in Seq(AnyProfile) /\ Len(r) = Len(cache)
          /\ \A i \in 1..Len(cache) : r[i] = F[IF i < row THEN i ELSE i + 1]
      BY <1>2, <2>2, <2>4, <3>1, RemoveAtIs DEF row
    <3>3. \A i \in 1..Len(cache) : r[i] = cache[i]
      BY <1>2, <2>4, <3>2 DEF row
    <3> QED
      BY <1>2, <3>2, <3>3, SeqEqual
  <2>6. CurrentFor(cache, c) = current
    <3>1. CASE cache = <<>>
      <4>1. CurrentFor(cache, c) = -1
        BY <3>1 DEF CurrentFor
      <4>2. ToSet(cache) = {}
        BY <1>1, <3>1, ProperList
      <4> QED
        BY <1>1, <4>1, <4>2 DEF Known
    <3>2. CASE cache # <<>>
      BY <1>1, <3>2, CurrentForIsKnown DEF c
    <3> QED
      BY <3>1, <3>2
  <2>7. UNCHANGED vars
    BY <1>5, <2>1, <2>3, <2>5, <2>6 DEF vars
  <2> QED
    BY <2>7, UnchangedKeepsInv
<1>14. CASE ~Refused(l, row, edit)
  <2>1. AcceptsName(l, row, edit.name) /\ edit.scheme # Empty
    BY <1>14 DEF Refused
  <2>2. PICK p : p = Edited(blank, edit)
    OBVIOUS
  <2>3. F = [l EXCEPT ![row] = p] /\ p \in AnyProfile
    BY <1>7, <1>8, <1>10, <2>1, <2>2, SetFieldsIs
  <2>4. p.index = NewIndex(cache) /\ p.name = edit.name /\ p.scheme = edit.scheme
    BY <1>3, <2>1, <2>2 DEF Edited
  <2>5. p \in Profiles
    <3>1. edit.name \in Names /\ edit.scheme \in Schemes
      BY <2>1, EditIs DEF AcceptsName
    <3>2. NewIndex(cache) \in 0..(MaxProfiles - 1)
      BY <1>2, <1>3, <1>12, BoundsAssumption
    <3>3. p = [index |-> NewIndex(cache), name |-> edit.name, scheme |-> edit.scheme]
      BY <2>2, <2>4 DEF Edited
    <3> QED
      BY <3>1, <3>2, <3>3 DEF Profiles
  <2>6. p.name \notin NamesIn(cache)
    <3>1. \A i \in 1..Len(cache) : i \in DOMAIN l \ {row}
      BY <1>2, <1>7 DEF row
    <3>2. \A i \in 1..Len(cache) : cache[i].name # edit.name
      BY <1>7, <2>1, <3>1 DEF AcceptsName
    <3> QED
      BY <1>2, <2>4, <3>2 DEF NamesIn
  <2>7. F = Append(cache, p)
    <3>1. PICK a : a = Append(cache, p)
      OBVIOUS
    <3>2. /\ a \in Seq(AnyProfile) /\ Len(a) = row /\ a[row] = p
          /\ \A i \in 1..Len(cache) : a[i] = cache[i]
      BY <1>2, <2>3, <3>1, AppendProperties DEF row
    <3>3. /\ F \in Seq(AnyProfile) /\ Len(F) = Len(l)
          /\ \A i \in 1..Len(l) : F[i] = IF i = row THEN p ELSE l[i]
      BY <1>7, <1>8, <2>3, ExceptSeq
    <3>4. \A i \in 1..Len(F) : F[i] = a[i]
      BY <1>2, <1>7, <3>2, <3>3 DEF row
    <3> QED
      BY <1>7, <3>1, <3>2, <3>3, <3>4, SeqEqual
  <2>8. [Commit(filled) EXCEPT !.list = Sorted(@)] = [list |-> Sorted(F), current |-> c,
           settings |-> [standard |-> c, list |-> F]]
    <3>1. Commit(filled) = St(F, c, F)
      BY <1>11, CommitIs
    <3> QED
      BY <3>1 DEF St
  <2>9. /\ cache' = Sorted(F) /\ current' = c /\ settings' = [standard |-> c, list |-> F]
        /\ halfEdited' = FALSE
    BY <1>12, <1>14, <2>8 DEF Become
  <2>10. (cache # <<>> => c = current) /\ (cache = <<>> => c = p.index)
    BY <1>3, <2>4 DEF c
  <2>11. Len(cache) < MaxProfiles
    BY <1>12
  <2>12. cache' = Sorted(Append(cache, p)) /\ settings' = [standard |-> c, list |-> Append(cache, p)]
    BY <2>7, <2>9
  <2> QED
    BY <2>4, <2>5, <2>6, <2>9, <2>10, <2>11, <2>12, AddedStep
<1> QED
  BY <1>13, <1>14

LEMMA OtherRowsKeepChosen ==
  ASSUME NEW list, NEW new, NEW row \in DOMAIN list, DOMAIN new = DOMAIN list,
         \A i \in DOMAIN list : i # row => new[i] = list[i],
         new[row].index = list[row].index, NEW c, list[row].index # c
  PROVE  OfIndex(ToSet(new), c) = OfIndex(ToSet(list), c)
<1>1. ASSUME NEW p \in OfIndex(ToSet(new), c)
      PROVE  p \in OfIndex(ToSet(list), c)
  <2>1. PICK i \in DOMAIN list : p = new[i] /\ p.index = c
    BY <1>1 DEF OfIndex, ToSet
  <2>2. p = list[i]
    BY <2>1
  <2> QED
    BY <2>1, <2>2 DEF OfIndex, ToSet
<1>2. ASSUME NEW p \in OfIndex(ToSet(list), c)
      PROVE  p \in OfIndex(ToSet(new), c)
  <2>1. PICK i \in DOMAIN list : p = list[i] /\ p.index = c
    BY <1>2 DEF OfIndex, ToSet
  <2>2. p = new[i]
    BY <2>1
  <2> QED
    BY <2>1, <2>2 DEF OfIndex, ToSet
<1> QED
  BY <1>1, <1>2

LEMMA ModifyStep ==
  ASSUME ModelInv, NEW row \in Rows, NEW edit \in Edits, Modify(row, edit)
  PROVE  ModelInv' /\ (cache[row].index # current => Kept)
<1>1. Proper(cache) /\ Known(cache, current)
  BY DEF ModelInv
<1>2. PICK n \in Nat : /\ n = Len(cache) /\ DOMAIN cache = 1..n /\ cache \in Seq(AnyProfile)
                      /\ \A i \in 1..n : cache[i] \in Profiles
  BY <1>1, ProperList
<1>3. row \in DOMAIN cache /\ row \in 1..n
  BY <1>2 DEF Rows
<1>4. PICK saved : /\ Proper(saved) /\ Agree(saved, cache, halfEdited)
                   /\ settings = [standard |-> current, list |-> saved]
                   /\ State = St(cache, current, saved)
  BY StateIs
<1>5. PICK F : F = SetFields(cache, row, edit)
  OBVIOUS
<1> DEFINE filled == [State EXCEPT !.list = SetFields(@, row, edit)]
<1>6. filled = St(F, current, saved)
  BY <1>4, <1>5 DEF St
<1>7. filled.list = F
  BY <1>6 DEF St
<1>8. \/ /\ Refused(cache, row, edit)
         /\ Become(filled)
         /\ halfEdited' = (halfEdited \/ F # cache)
      \/ /\ ~Refused(cache, row, edit)
         /\ Become(Commit(filled))
         /\ halfEdited' = FALSE
  BY <1>7 DEF Modify
<1> HIDE DEF filled
<1>9. /\ Proper(F) /\ DOMAIN F = 1..n /\ IndexesOf(ToSet(F)) = IndexesOf(ToSet(cache))
      /\ \A i \in 1..n : i # row => F[i] = cache[i]
      /\ F[row].index = cache[row].index
  <2>1. CASE ~AcceptsName(cache, row, edit.name)
    BY <1>1, <1>2, <1>3, <1>5, <2>1, SetFieldsIs
  <2>2. CASE AcceptsName(cache, row, edit.name)
    <3>1. PICK q : q = Edited(cache[row], edit)
      OBVIOUS
    <3>2. F = [cache EXCEPT ![row] = q]
      BY <1>2, <1>3, <1>5, <2>2, <3>1, SetFieldsIs
    <3>3. q.index = cache[row].index /\ q.name = edit.name
      BY <3>1 DEF Edited
    <3>4. q \in Profiles
      <4>1. cache[row] \in Profiles
        BY <1>2, <1>3
      <4>2. cache[row].index \in 0..(MaxProfiles - 1) /\ cache[row].scheme \in Schemes
        BY <4>1 DEF Profiles
      <4>3. edit.name \in Names /\ edit.scheme \in Schemes \cup {Empty}
        BY <2>2, EditIs DEF AcceptsName
      <4> QED
        BY <3>1, <4>2, <4>3 DEF Edited, Profiles
    <3>5. /\ F \in Seq(Profiles) /\ Len(F) = n
          /\ \A i \in 1..n : F[i] = IF i = row THEN q ELSE cache[i]
      BY <1>1, <1>2, <1>3, <3>2, <3>4, ExceptSeq DEF Proper
    <3>6. DOMAIN F = 1..n
      BY <3>5, LenProperties
    <3>7. Distinct(F)
      <4> SUFFICES ASSUME NEW i \in 1..n, NEW j \in 1..n, i # j
                   PROVE  F[i].index # F[j].index /\ F[i].name # F[j].name
        BY <3>6 DEF Distinct
      <4>1. Distinct(cache)
        BY <1>1 DEF Proper
      <4>2. \A r \in 1..n : F[r].index = cache[r].index
        BY <3>3, <3>5
      <4>3. F[i].index # F[j].index
        BY <1>2, <4>1, <4>2 DEF Distinct
      <4>4. \A r \in 1..n : r # row => cache[r].name # edit.name
        BY <1>2, <2>2 DEF AcceptsName
      <4>5. F[i].name # F[j].name
        <5>1. CASE i # row /\ j # row
          BY <1>2, <3>5, <4>1, <5>1 DEF Distinct
        <5>2. CASE i = row
          BY <3>3, <3>5, <4>4, <5>2
        <5>3. CASE j = row
          BY <3>3, <3>5, <4>4, <5>3
        <5> QED
          BY <5>1, <5>2, <5>3
      <4> QED
        BY <4>3, <4>5
    <3>8. IndexesOf(ToSet(F)) = IndexesOf(ToSet(cache))
      <4>1. \A r \in 1..n : F[r].index = cache[r].index
        BY <3>3, <3>5
      <4>2. IndexesIn(F) = IndexesIn(cache)
        BY <1>2, <3>6, <4>1 DEF IndexesIn
      <4> QED
        BY <4>2, IndexesAre
    <3> QED
      BY <1>1, <1>2, <1>3, <3>3, <3>5, <3>6, <3>7, <3>8 DEF Proper
  <2> QED
    BY <2>1, <2>2
<1>10. Known(F, current)
  <2>1. ToSet(F) # {} /\ ToSet(cache) # {}
    BY <1>2, <1>3, <1>9 DEF ToSet
  <2> QED
    BY <1>1, <1>9, <2>1 DEF Known
<1>11. cache' = F /\ current' = current
  BY <1>6, <1>8, BecomeIs, CommitIs
<1>12. ModelInv'
  <2>1. CASE Refused(cache, row, edit)
    <3>1. settings' = [standard |-> current, list |-> saved] /\ halfEdited' = (halfEdited \/ F # cache)
      BY <1>6, <1>8, <2>1, BecomeIs
    <3>2. halfEdited \in BOOLEAN
      BY DEF ModelInv
    <3>3. Agree(saved, F, halfEdited')
      BY <1>4, <1>9, <3>1, <3>2 DEF Agree
    <3>4. halfEdited' \in BOOLEAN
      BY <3>1, <3>2
    <3> QED
      BY <1>4, <1>9, <1>10, <1>11, <3>1, <3>3, <3>4 DEF ModelInv
  <2>2. CASE ~Refused(cache, row, edit)
    <3>1. settings' = [standard |-> current, list |-> F] /\ halfEdited' = FALSE
      BY <1>6, <1>8, <2>2, BecomeIs, CommitIs
    <3> QED
      BY <1>9, <1>10, <1>11, <3>1, CommitKeepsInv
  <2> QED
    BY <2>1, <2>2
<1>13. cache[row].index # current => Kept
  <2> SUFFICES ASSUME cache[row].index # current
               PROVE  Kept
    OBVIOUS
  <2>1. OfIndex(ToSet(F), current) = OfIndex(ToSet(cache), current)
    BY <1>2, <1>3, <1>9, OtherRowsKeepChosen
  <2> QED
    BY <1>11, <2>1, ChosenIs DEF Kept
<1> QED
  BY <1>12, <1>13

LEMMA DeleteStep ==
  ASSUME ModelInv, NEW row \in Rows, Delete(row)
  PROVE  ModelInv' /\ (cache[row].index # current => Kept)
<1>1. Proper(cache) /\ Known(cache, current)
  BY DEF ModelInv
<1>2. row \in DOMAIN cache
  BY DEF Rows
<1>3. PICK saved : State = St(cache, current, saved)
  BY StateIs
<1>4. PICK r : r = RemoveAt(cache, row)
  OBVIOUS
<1>5. PICK c : c = CurrentFor(r, current)
  OBVIOUS
<1>6. Become(Commit(St(r, c, saved))) /\ halfEdited' = FALSE
  BY <1>3, <1>4, <1>5, RemoveRowIs DEF Delete
<1>7. cache' = r /\ current' = c /\ settings' = [standard |-> c, list |-> r]
  BY <1>6, CommitIs, BecomeIs
<1>8. Proper(r) /\ ToSet(r) = ToSet(cache) \ {cache[row]}
  BY <1>1, <1>2, <1>4, RemoveAtKeeps
<1>9. Known(r, c) /\ (Known(r, current) => c = current)
  BY <1>5, <1>8, CurrentForIsKnown
<1>10. ModelInv'
  BY <1>6, <1>7, <1>8, <1>9, CommitKeepsInv
<1>11. cache[row].index # current => Kept
  <2> SUFFICES ASSUME cache[row].index # current
               PROVE  Kept
    OBVIOUS
  <2>1. cache[row] \in ToSet(cache)
    BY <1>2 DEF ToSet
  <2>2. current \in IndexesOf(ToSet(cache))
    BY <1>1, <2>1 DEF Known
  <2>3. Known(r, current)
    BY <1>8, <2>2 DEF Known, IndexesOf
  <2>4. OfIndex(ToSet(r), current) = OfIndex(ToSet(cache), current)
    BY <1>8 DEF OfIndex
  <2> QED
    BY <1>7, <1>9, <2>3, <2>4, ChosenIs DEF Kept
<1> QED
  BY <1>10, <1>11

LEMMA CopyStep ==
  ASSUME ModelInv, NEW row \in Rows, Copy(row)
  PROVE  ModelInv' /\ Kept
<1>1. Proper(cache) /\ Known(cache, current)
  BY DEF ModelInv
<1>2. PICK n \in Nat : /\ n = Len(cache) /\ DOMAIN cache = 1..n /\ cache \in Seq(AnyProfile)
                      /\ \A i \in 1..n : cache[i] \in Profiles
  BY <1>1, ProperList
<1>3. row \in 1..n
  BY <1>2 DEF Rows
<1>4. PICK old \in Profiles : old = cache[row]
  BY <1>2, <1>3
<1>5. PICK name : name = CopyName(cache, old.name)
  OBVIOUS
<1>6. PICK p : p = [old EXCEPT !.name = name, !.index = NewIndex(cache)]
  OBVIOUS
<1>7. PICK saved : State = St(cache, current, saved)
  BY StateIs
<1>8. PICK l : l = Append(cache, p)
  OBVIOUS
<1> DEFINE copied == [State EXCEPT !.list = Append(@, p)]
<1>9. copied = St(l, current, saved)
  <2>1. State.list = cache /\ [State EXCEPT !.list = l] = St(l, current, saved)
    BY <1>7 DEF St
  <2> QED
    BY <1>8, <2>1
<1>10. /\ Len(cache) < MaxProfiles /\ name.copies <= MaxCopies
       /\ Become([Commit(copied) EXCEPT !.list = Sorted(@)])
       /\ halfEdited' = FALSE
  <2>1. Copy(row) <=>
          /\ Len(cache) < MaxProfiles
          /\ name.copies <= MaxCopies
          /\ Become([Commit(copied) EXCEPT !.list = Sorted(@)])
          /\ halfEdited' = FALSE
    BY <1>4, <1>5, <1>6, Zenon DEF Copy
  <2> QED
    BY <2>1
<1> HIDE DEF copied
<1>11. [Commit(copied) EXCEPT !.list = Sorted(@)] = [list |-> Sorted(l), current |-> current,
          settings |-> [standard |-> current, list |-> l]]
  <2>1. Commit(copied) = St(l, current, l)
    BY <1>9, CommitIs
  <2> QED
    BY <2>1 DEF St
<1>12. /\ cache' = Sorted(l) /\ current' = current
       /\ settings' = [standard |-> current, list |-> l]
  BY <1>10, <1>11 DEF Become
<1>13. old.name \in AnyName /\ old.name.base \in Bases /\ old.scheme \in Schemes
  <2>1. old.name \in Names /\ old.scheme \in Schemes
    BY DEF Profiles
  <2>2. old \in AnyProfile
    BY ProfilesAreAny
  <2> QED
    BY <2>1, <2>2 DEF AnyProfile, Names
<1>14. name \in AnyName /\ name.base \in Bases /\ name \notin NamesIn(cache)
  BY <1>2, <1>5, <1>13, CopyNameIsFree
<1>15. name \in Names
  <2>1. name = [base |-> name.base, copies |-> name.copies] /\ name.copies \in Nat
    BY <1>14 DEF AnyName
  <2>2. name.copies \in 0..MaxCopies
    BY <1>10, <2>1, BoundsAssumption
  <2> QED
    BY <1>14, <2>1, <2>2 DEF Names
<1>16. NewIndex(cache) \in 0..(MaxProfiles - 1)
  <2>1. NewIndex(cache) \in 0..Len(cache)
    BY <1>2, NewIndexIsFree
  <2> QED
    BY <1>2, <1>10, <2>1, BoundsAssumption
<1>17. p = [index |-> NewIndex(cache), name |-> name, scheme |-> old.scheme]
  <2>1. old = [index |-> old.index, name |-> old.name, scheme |-> old.scheme]
    BY DEF Profiles
  <2> QED
    BY <1>6, <2>1
<1>18. p \in Profiles /\ p.index = NewIndex(cache) /\ p.name = name
  BY <1>13, <1>15, <1>16, <1>17 DEF Profiles
<1>19. cache # <<>>
  BY <1>2, <1>3, EmptySeq
<1>20. cache' = Sorted(Append(cache, p)) /\ settings' = [standard |-> current, list |-> Append(cache, p)]
  BY <1>8, <1>12
<1> QED
  BY <1>10, <1>12, <1>14, <1>18, <1>19, <1>20, AddedStep

LEMMA GrownIsProper ==
  ASSUME NEW list, Proper(list), NEW l, NEW k \in Nat, Grown(list, l, k), Len(l) <= MaxProfiles
  PROVE  /\ Proper(l) /\ ToSet(list) \subseteq ToSet(l)
         /\ \A p \in ToSet(l) \ ToSet(list) : p.index \notin IndexesOf(ToSet(list))
<1>1. PICK n \in Nat : /\ n = Len(list) /\ DOMAIN list = 1..n
                      /\ \A i \in 1..n : list[i] \in Profiles
  BY ProperList
<1>2. l \in Seq(AnyProfile) /\ Distinct(l)
  BY DEF Grown
<1>3. PICK m \in Nat : /\ m = Len(l) /\ DOMAIN l = 1..m /\ l \in [1..m -> AnyProfile]
                      /\ \A i \in 1..m : l[i] \in AnyProfile
  BY <1>2, LenProperties
<1>4. /\ n <= m /\ m <= MaxProfiles
      /\ \A i \in 1..n : l[i] = list[i]
      /\ \A i \in (n + 1)..m : l[i].index < m /\ l[i].name \in Names
  BY <1>1, <1>3 DEF Grown
<1>5. ASSUME NEW i \in 1..m
      PROVE  l[i] \in Profiles
  <2>1. CASE i \in 1..n
    BY <1>1, <1>4, <2>1
  <2>2. CASE i \notin 1..n
    <3>1. i \in (n + 1)..m
      BY <1>1, <1>3, <2>2
    <3>2. PICK p \in AnyProfile : p = l[i]
      BY <1>3
    <3>3. p.index \in Nat /\ p.index < m /\ p.name \in Names
      BY <1>4, <3>1, <3>2 DEF AnyProfile
    <3>4. p.index \in 0..(MaxProfiles - 1)
      BY <1>3, <1>4, <3>3, BoundsAssumption
    <3> QED
      BY <3>2, <3>3, <3>4 DEF AnyProfile, Profiles
  <2> QED
    BY <2>1, <2>2
<1>6. Proper(l)
  <2>1. l \in [1..m -> Profiles]
    BY <1>3, <1>5
  <2>2. l \in Seq(Profiles)
    BY <1>3, <2>1, SeqDef
  <2> QED
    BY <1>2, <2>2 DEF Proper
<1>7. ToSet(list) \subseteq ToSet(l)
  <2>1. \A i \in 1..n : i \in 1..m
    BY <1>1, <1>3, <1>4
  <2> QED
    BY <1>1, <1>3, <1>4, <2>1 DEF ToSet
<1>8. ASSUME NEW p \in ToSet(l) \ ToSet(list), NEW q \in ToSet(list)
      PROVE  p.index # q.index
  <2>1. q \in ToSet(l) /\ p # q
    BY <1>7, <1>8
  <2>2. PICK i \in 1..m, j \in 1..m : p = l[i] /\ q = l[j]
    BY <1>3, <1>8, <2>1 DEF ToSet
  <2> QED
    BY <1>2, <1>3, <2>1, <2>2 DEF Distinct
<1> QED
  BY <1>6, <1>7, <1>8 DEF IndexesOf

LEMMA AutoCreateStep ==
  ASSUME ModelInv, AutoCreate
  PROVE  ModelInv' /\ Kept
<1>1. Proper(cache) /\ Known(cache, current)
  BY DEF ModelInv
<1>2. PICK added : added = WithDetected(cache)
  OBVIOUS
<1>3. PICK saved : State = St(cache, current, saved)
  BY StateIs
<1>4. PICK shown : shown = Sorted(added)
  OBVIOUS
<1> DEFINE grown == [State EXCEPT !.list = Sorted(added)]
<1>5. grown = St(shown, current, saved) /\ grown.list = shown
  BY <1>3, <1>4 DEF St
<1>6. /\ Len(added) <= MaxProfiles
      /\ Become(Commit(IF added = cache THEN State
                       ELSE IF cache = <<>> THEN SetCurrent(grown, grown.list[1].index)
                       ELSE grown))
      /\ halfEdited' = FALSE
  BY <1>2 DEF AutoCreate
<1> HIDE DEF grown
<1>7. Grown(cache, added, Len(Detected)) /\ Len(Detected) \in Nat
  BY <1>1, <1>2, DetectedGrows, ProperList, NamesAssumption, LenProperties DEF Proper
<1>8. /\ Proper(added) /\ ToSet(cache) \subseteq ToSet(added)
      /\ \A p \in ToSet(added) \ ToSet(cache) : p.index \notin IndexesOf(ToSet(cache))
  BY <1>1, <1>6, <1>7, GrownIsProper
<1>9. Proper(shown) /\ ToSet(shown) = ToSet(added)
  BY <1>4, <1>8, SortedIsProper
<1>10. cache = <<>> <=> ToSet(cache) = {}
  BY <1>1, ProperList
<1>11. CASE added = cache
  <2>1. Become(St(cache, current, cache))
    BY <1>3, <1>6, <1>11, CommitIs
  <2>2. cache' = cache /\ current' = current /\ settings' = [standard |-> current, list |-> cache]
    BY <2>1, BecomeIs
  <2>3. ModelInv'
    BY <1>1, <1>6, <2>2, CommitKeepsInv
  <2> QED
    BY <2>2, <2>3, ChosenIs DEF Kept
<1>12. CASE added # cache /\ cache = <<>>
  <2>1. PICK c : c = CurrentFor(shown, shown[1].index)
    OBVIOUS
  <2>2. Become(St(shown, c, shown))
    BY <1>5, <1>6, <1>12, <2>1, SetCurrentIs, CommitIs
  <2>3. cache' = shown /\ current' = c /\ settings' = [standard |-> c, list |-> shown]
    BY <2>2, BecomeIs
  <2>4. ModelInv'
    BY <1>6, <1>9, <2>1, <2>3, CurrentForIsKnown, CommitKeepsInv
  <2>5. Chosen = {}
    BY <1>10, <1>12, ChosenIs DEF OfIndex
  <2> QED
    BY <2>4, <2>5 DEF Kept
<1>13. CASE added # cache /\ cache # <<>>
  <2>1. Become(St(shown, current, shown))
    BY <1>5, <1>6, <1>13, CommitIs
  <2>2. cache' = shown /\ current' = current /\ settings' = [standard |-> current, list |-> shown]
    BY <2>1, BecomeIs
  <2>3. current \in IndexesOf(ToSet(cache)) /\ Known(shown, current)
    BY <1>1, <1>8, <1>9, <1>10, <1>13 DEF Known, IndexesOf
  <2>4. ModelInv'
    BY <1>6, <1>9, <2>2, <2>3, CommitKeepsInv
  <2>5. OfIndex(ToSet(cache), current) = {}
          \/ OfIndex(ToSet(shown), current) = OfIndex(ToSet(cache), current)
    BY <1>8, <1>9, <2>3, MoreKeepsChosen
  <2> QED
    BY <2>2, <2>4, <2>5, ChosenIs DEF Kept
<1> QED
  BY <1>11, <1>12, <1>13

LEMMA PickStep ==
  ASSUME ModelInv, NEW row \in Rows, Pick(row)
  PROVE  ModelInv'
<1>1. Proper(cache) /\ Known(cache, current)
  BY DEF ModelInv
<1>2. PICK saved : /\ Proper(saved) /\ Agree(saved, cache, halfEdited)
                   /\ State = St(cache, current, saved)
  BY StateIs
<1>3. PICK c : c = CurrentFor(cache, cache[row].index)
  OBVIOUS
<1>4. Become(St(cache, c, saved)) /\ UNCHANGED halfEdited
  BY <1>2, <1>3, SetCurrentIs DEF Pick
<1>5. cache' = cache /\ current' = c /\ settings' = [standard |-> c, list |-> saved]
  BY <1>4, BecomeIs
<1>6. Known(cache, c)
  BY <1>1, <1>3, CurrentForIsKnown
<1> QED
  BY <1>1, <1>2, <1>4, <1>5, <1>6 DEF ModelInv

LEMMA IndexesAreNatural ==
  ASSUME NEW list, Proper(list), NEW c, Known(list, c)
  PROVE  list # <<>> => c # -1
<1>1. ToSet(list) \subseteq Profiles /\ (list = <<>> <=> ToSet(list) = {})
  BY ProperList
<1>2. \A p \in Profiles : p.index # -1
  BY BoundsAssumption DEF Profiles
<1> QED
  BY <1>1, <1>2 DEF Known, IndexesOf

LEMMA LoadIs ==
  ASSUME NEW s, NEW list, NEW c, Proper(list), Known(list, c),
         s = [list |-> s.list, current |-> s.current, settings |-> s.settings]
  PROVE  Load(s, [standard |-> c, list |-> list])
           = [list |-> list, current |-> c, settings |-> s.settings]
<1>1. list # <<>> => c # -1
  BY IndexesAreNatural
<1>2. PICK saved : saved = [standard |-> c, list |-> list]
  OBVIOUS
<1>3. Load(s, saved) = [s EXCEPT !.list = list, !.current = c]
  BY <1>1, <1>2 DEF Load
<1> QED
  BY <1>2, <1>3

LEMMA LoadFileStep ==
  ASSUME ModelInv, NEW file \in Files, LoadFile(file)
  PROVE  ModelInv'
<1>1. PICK list, c : list = file.list /\ c = file.standard
  OBVIOUS
<1>2. file = [standard |-> c, list |-> list] /\ Proper(list)
  BY <1>1, FilesAssumption DEF Proper
<1>3. Known(list, c)
  <2>1. list = <<>> <=> ToSet(list) = {}
    BY <1>2, ProperList
  <2> QED
    BY <1>1, <2>1, FilesAssumption, IndexesAre DEF Known
<1>4. State = [list |-> State.list, current |-> State.current, settings |-> State.settings]
  BY DEF State
<1>5. Load(State, file) = [list |-> list, current |-> c, settings |-> State.settings]
  BY <1>2, <1>3, <1>4, LoadIs
<1>6. Commit(Load(State, file)) = St(list, c, list)
  BY <1>5 DEF Commit, St
<1>7. /\ cache' = list /\ current' = c /\ settings' = [standard |-> c, list |-> list]
      /\ halfEdited' = FALSE
  BY <1>6, BecomeIs DEF LoadFile
<1> QED
  BY <1>2, <1>3, <1>7, CommitKeepsInv

LEMMA RestartStep ==
  ASSUME ModelInv, Restart
  PROVE  ModelInv' /\ current' = current /\ (~halfEdited => Kept)
<1>1. Proper(cache) /\ Known(cache, current)
  BY DEF ModelInv
<1>2. PICK saved : /\ Proper(saved) /\ Agree(saved, cache, halfEdited)
                   /\ settings = [standard |-> current, list |-> saved]
  BY DEF ModelInv
<1>3. Known(saved, current)
  BY <1>1, <1>2 DEF Known, Agree, IndexesOf
<1>4. /\ State = [list |-> State.list, current |-> State.current, settings |-> State.settings]
      /\ State.settings = settings
  BY DEF State
<1>5. Load(State, settings) = [list |-> saved, current |-> current, settings |-> settings]
  BY <1>2, <1>3, <1>4, LoadIs
<1>6. cache' = saved /\ current' = current /\ settings' = settings /\ halfEdited' = FALSE
  BY <1>5 DEF Restart, Become
<1>7. Agree(saved, saved, FALSE)
  BY DEF Agree
<1>8. ModelInv'
  BY <1>2, <1>3, <1>6, <1>7 DEF ModelInv
<1>9. ~halfEdited => Kept
  BY <1>2, <1>6, ChosenIs DEF Agree, Kept
<1> QED
  BY <1>6, <1>8, <1>9

LEMMA InitIsGood ==
  ASSUME Init
  PROVE  ModelInv
<1>1. Proper(<<>>)
  <2>1. <<>> \in Seq(Profiles) /\ Len(<<>>) = 0 /\ DOMAIN <<>> = {}
    <3>1. <<>> \in Seq(Profiles) /\ Len(<<>>) = 0
      BY EmptySeq
    <3>2. DOMAIN <<>> = 1..0
      BY <3>1, LenProperties
    <3> QED
      BY <3>1, <3>2
  <2> QED
    BY <2>1, BoundsAssumption DEF Proper, Distinct
<1>2. PICK added : added = WithDetected(<<>>)
  OBVIOUS
<1>3. Grown(<<>>, added, Len(Detected)) /\ Len(Detected) \in Nat /\ Len(Detected) <= MaxProfiles
  BY <1>1, <1>2, DetectedGrows, ProperList, NamesAssumption, LenProperties DEF Proper
<1>4. Len(added) <= MaxProfiles
  <2>1. Len(<<>>) = 0 /\ Len(added) <= Len(<<>>) + Len(Detected) /\ Len(added) \in Nat
    BY <1>3, EmptySeq, LenProperties DEF Grown
  <2> QED
    BY <1>3, <2>1, BoundsAssumption
<1>5. Proper(added)
  BY <1>1, <1>3, <1>4, GrownIsProper
<1>6. Proper(cache)
  BY <1>2, <1>5, SortedIsProper DEF Init
<1>7. current = CurrentFor(cache, cache[1].index)
  BY DEF Init, CurrentFor
<1>8. Known(cache, current)
  BY <1>6, <1>7, CurrentForIsKnown
<1>9. settings = [standard |-> current, list |-> cache] /\ halfEdited = FALSE
  BY DEF Init
<1>10. Agree(cache, cache, halfEdited)
  BY DEF Agree
<1> QED
  BY <1>6, <1>8, <1>9, <1>10 DEF ModelInv

-----------------------------------------------------------------------------
LEMMA StepIsGood ==
  ASSUME ModelInv, [Next]_vars
  PROVE  ModelInv'
<1>1. ASSUME NEW edit \in Edits, Add(edit) PROVE ModelInv'
  BY <1>1, AddStep
<1>2. ASSUME NEW row \in Rows, NEW edit \in Edits, Modify(row, edit) PROVE ModelInv'
  BY <1>2, ModifyStep
<1>3. ASSUME NEW row \in Rows, Delete(row) \/ Copy(row) \/ Pick(row) PROVE ModelInv'
  BY <1>3, DeleteStep, CopyStep, PickStep
<1>4. ASSUME NEW file \in Files, LoadFile(file) PROVE ModelInv'
  BY <1>4, LoadFileStep
<1>5. CASE AutoCreate
  BY <1>5, AutoCreateStep
<1>6. CASE Restart
  BY <1>6, RestartStep
<1>7. CASE UNCHANGED vars
  BY <1>7, UnchangedKeepsInv
<1> QED
  BY <1>1, <1>2, <1>3, <1>4, <1>5, <1>6, <1>7 DEF Next

LEMMA ModelInvHolds == Spec => []ModelInv
<1>1. Init => ModelInv
  BY InitIsGood
<1>2. ModelInv /\ [Next]_vars => ModelInv'
  BY StepIsGood
<1> QED
  BY <1>1, <1>2, PTL DEF Spec

(* The variables keep their types: above all, no index grows beyond the    *)
(* number of profiles, and no profile stays without a name.                *)
THEOREM TypeCorrect == Spec => []TypeOK
<1>1. ModelInv => TypeOK
  BY ModelInvImplies
<1> QED
  BY <1>1, ModelInvHolds, PTL

(* No two profiles have one index or one name, whatever is added, copied,  *)
(* detected, renamed, refused, removed or reloaded, in any order.          *)
THEOREM NoTwoAreAlike == Spec => []ProfilesAreDistinct
<1>1. ModelInv => ProfilesAreDistinct
  BY ModelInvImplies
<1> QED
  BY <1>1, ModelInvHolds, PTL

(* The settings hold the profiles that are shown and the one chosen, but   *)
(* for what an edit set before it failed.                                  *)
THEOREM ShownIsSaved == Spec => []SavedIsShown
<1>1. ModelInv => SavedIsShown
  BY ModelInvImplies
<1> QED
  BY <1>1, ModelInvHolds, PTL

(* There is a current profile whenever there is one at all, and only the   *)
(* user replaces it.                                                       *)
THEOREM ChoiceIsKept == Spec => CurrentIsTheUsers
<1> DEFINE Users ==
      \/ Chosen' = Chosen
      \/ Chosen = {}
      \/ \E row \in Rows : Pick(row)
      \/ \E row \in Rows : cache[row].index = current /\ Delete(row)
      \/ \E row \in Rows, edit \in Edits : cache[row].index = current /\ Modify(row, edit)
      \/ \E file \in Files : LoadFile(file)
      \/ Restart /\ halfEdited /\ current' = current
<1>1. ModelInv' => (cache' # <<>> => Chosen' # {})
  <2> SUFFICES ASSUME ModelInv', cache' # <<>>
               PROVE  Chosen' # {}
    OBVIOUS
  <2>1. Proper(cache') /\ Known(cache', current')
    BY DEF ModelInv
  <2>2. current' \in IndexesOf(ToSet(cache'))
    BY <2>1, ProperList DEF Known
  <2> QED
    BY <2>2, ChosenIs DEF OfIndex, IndexesOf
<1>2. ModelInv /\ [Next]_vars => Users
  <2> SUFFICES ASSUME ModelInv, [Next]_vars
               PROVE  Users
    OBVIOUS
  <2>0. Kept => Users
    BY DEF Kept
  <2>1. ASSUME NEW edit \in Edits, Add(edit) PROVE Kept
    BY <2>1, AddStep
  <2>2. ASSUME NEW row \in Rows, NEW edit \in Edits, Modify(row, edit) PROVE Users
    BY <2>0, <2>2, ModifyStep
  <2>3. ASSUME NEW row \in Rows, Delete(row) PROVE Users
    BY <2>0, <2>3, DeleteStep
  <2>4. ASSUME NEW row \in Rows, Copy(row) PROVE Kept
    BY <2>4, CopyStep
  <2>5. ASSUME NEW row \in Rows, Pick(row) PROVE Users
    BY <2>5
  <2>6. ASSUME NEW file \in Files, LoadFile(file) PROVE Users
    BY <2>6
  <2>7. CASE AutoCreate
    BY <2>0, <2>7, AutoCreateStep
  <2>8. CASE Restart
    BY <2>0, <2>8, RestartStep
  <2>9. CASE UNCHANGED vars
    BY <2>0, <2>9, UnchangedKeepsInv
  <2> HIDE DEF Users
  <2> QED
    BY <2>0, <2>1, <2>2, <2>3, <2>4, <2>5, <2>6, <2>7, <2>8, <2>9 DEF Next
<1>3. ModelInv /\ ModelInv' /\ [Next]_vars
        => [/\ (cache' # <<>>) => (Chosen' # {})
            /\ Users]_vars
  BY <1>1, <1>2
<1> QED
  BY <1>3, ModelInvHolds, PTL DEF Spec, CurrentIsTheUsers

-----------------------------------------------------------------------------
(* Some characters under a name: an obligation of arithmetic cannot hold    *)
(* their own notation.                                                      *)
Separators == {",", " "}
Space == " "
Equals == "="
Quote == "'"
Backslash == "\\"
DollarSign == "$"
OpenBrace == "{"
CloseBrace == "}"

(* The characters of numbers and truth values.                              *)
PlainChars == NumberChars \cup {"T"}

(* All characters.                                                          *)
Alphabet ==
  STRING \cup WordChars \cup Separators
    \cup {Equals, Quote, Backslash, DollarSign, OpenBrace, CloseBrace}

LEMMA Characters ==
  /\ STRING \subseteq Alphabet /\ WordChars \subseteq Alphabet /\ Separators \subseteq Alphabet
  /\ Space \in Separators
  /\ {Equals, Quote, Backslash, DollarSign, OpenBrace, CloseBrace} \subseteq Alphabet
  /\ Equals \notin WordChars /\ Quote # Backslash
  /\ \A sep \in Separators : sep \notin WordChars /\ sep # Quote /\ sep # "scheme"
  /\ \A c \in PlainChars : c # Quote /\ c \notin SpaceChars /\ c \notin Separators
<1>1. Space \in Separators
  BY Zenon DEF Separators, Space
<1>2. /\ STRING \subseteq Alphabet /\ WordChars \subseteq Alphabet /\ Separators \subseteq Alphabet
      /\ {Equals, Quote, Backslash, DollarSign, OpenBrace, CloseBrace} \subseteq Alphabet
  BY DEF Alphabet
<1>3. Equals \notin WordChars /\ Quote # Backslash
  BY Zenon DEF WordChars, Digits, Equals, Quote, Backslash
<1>4. \A sep \in Separators : sep \notin WordChars /\ sep # Quote /\ sep # "scheme"
  BY Zenon DEF Separators, WordChars, Digits, Quote
<1>5. \A c \in PlainChars : c # Quote /\ c \notin SpaceChars /\ c \notin Separators
  BY Zenon DEF PlainChars, NumberChars, Digits, Quote, SpaceChars, Separators
<1> QED
  BY <1>1, <1>2, <1>3, <1>4, <1>5, Zenon

(* What begins a placeholder or an escape, and what ends the parameters.    *)
LEMMA SchemeCharacters ==
  /\ DollarSign \notin WordChars /\ OpenBrace \notin WordChars /\ CloseBrace \notin WordChars
  /\ Space \notin WordChars /\ DollarSign # Backslash /\ DollarSign # OpenBrace
  /\ CloseBrace \notin {Equals, Quote, Backslash, Space}
<1>1. /\ DollarSign \notin WordChars /\ OpenBrace \notin WordChars /\ CloseBrace \notin WordChars
      /\ Space \notin WordChars
  BY Zenon DEF WordChars, Digits, DollarSign, OpenBrace, CloseBrace, Space
<1>2. /\ DollarSign # Backslash /\ DollarSign # OpenBrace
      /\ CloseBrace # Equals /\ CloseBrace # Quote /\ CloseBrace # Backslash /\ CloseBrace # Space
  BY Zenon DEF DollarSign, OpenBrace, CloseBrace, Space, Equals, Quote, Backslash
<1> QED
  BY <1>1, <1>2

(* The two parsers read character by character: the options with the        *)
(* separator of their text, the schemes with none.                          *)
Read(kind, p, c) ==
  IF kind = "scheme" THEN ReadSchemeChar(p, c) ELSE ReadChar(p, c, kind)

(* The parser reads the text s, and is then in state q.                     *)
Leads(kind, p, s, q) ==
  \E h : /\ h[0] = p /\ h[Len(s)] = q
         /\ \A i \in 1..Len(s) : h[i] = Read(kind, h[i - 1], s[i])

LEMMA LeadsNowhere ==
  ASSUME NEW kind, NEW p
  PROVE  Leads(kind, p, <<>>, p)
<1> DEFINE h == [i \in {0} |-> p]
<1>1. h[0] = p /\ Len(<<>>) = 0
  OBVIOUS
<1>2. \A i \in 1..Len(<<>>) : h[i] = Read(kind, h[i - 1], <<>>[i])
  BY <1>1
<1> QED
  BY <1>1, <1>2 DEF Leads

LEMMA LeadsByOne ==
  ASSUME NEW kind, NEW p, NEW c
  PROVE  Leads(kind, p, <<c>>, Read(kind, p, c))
<1>0. PICK s : s = <<c>>
  OBVIOUS
<1>1. Len(s) = 1 /\ s[1] = c
  BY <1>0
<1>2. PICK q : q = Read(kind, p, c)
  OBVIOUS
<1> DEFINE h == [i \in {0, 1} |-> IF i = 0 THEN p ELSE q]
<1>3. h[0] = p /\ h[1] = q
  OBVIOUS
<1> HIDE DEF h
<1>4. \A i \in 1..Len(s) : h[i] = Read(kind, h[i - 1], s[i])
  <2> SUFFICES h[1] = Read(kind, h[1 - 1], s[1])
    BY <1>1
  <2> QED
    BY <1>1, <1>2, <1>3
<1>5. Leads(kind, p, s, q)
  BY <1>1, <1>3, <1>4 DEF Leads
<1> QED
  BY <1>0, <1>2, <1>5

LEMMA LeadsOn ==
  ASSUME NEW kind, NEW p, NEW q, NEW r,
         NEW s \in Seq(Alphabet), NEW t \in Seq(Alphabet),
         Leads(kind, p, s, q), Leads(kind, q, t, r)
  PROVE  Leads(kind, p, s \o t, r)
<1>1. PICK f : /\ f[0] = p /\ f[Len(s)] = q
               /\ \A i \in 1..Len(s) : f[i] = Read(kind, f[i - 1], s[i])
  BY DEF Leads
<1>2. PICK g : /\ g[0] = q /\ g[Len(t)] = r
               /\ \A i \in 1..Len(t) : g[i] = Read(kind, g[i - 1], t[i])
  BY DEF Leads
<1>3. PICK u : u = s \o t
  OBVIOUS
<1>4. PICK m \in Nat : m = Len(s)
  OBVIOUS
<1>5. PICK n \in Nat : n = Len(t)
  OBVIOUS
<1>6. /\ Len(u) = m + n
      /\ \A i \in 1..m : u[i] = s[i]
      /\ \A i \in (m + 1)..(m + n) : u[i] = t[i - m]
  BY <1>3, <1>4, <1>5, ConcatProperties
<1> DEFINE h == [i \in 0..(m + n) |-> IF i <= m THEN f[i] ELSE g[i - m]]
<1>7. /\ h[0] = p /\ h[m + n] = r
      /\ \A i \in 0..m : h[i] = f[i]
      /\ \A i \in 0..n : h[m + i] = g[i]
  BY <1>1, <1>2, <1>4, <1>5
<1> HIDE DEF h
<1>8. ASSUME NEW i \in 1..m
      PROVE  h[i] = Read(kind, h[i - 1], u[i])
  <2>1. i - 1 \in 0..m /\ i \in 0..m
    OBVIOUS
  <2> QED
    BY <1>1, <1>4, <1>6, <1>7, <2>1
<1>9. ASSUME NEW i \in 1..n
      PROVE  h[m + i] = Read(kind, h[(m + i) - 1], u[m + i])
  <2>1. i - 1 \in 0..n /\ i \in 0..n /\ m + (i - 1) = (m + i) - 1
    OBVIOUS
  <2>2. h[(m + i) - 1] = g[i - 1] /\ h[m + i] = g[i]
    BY <1>7, <2>1
  <2>3. m + i \in (m + 1)..(m + n) /\ (m + i) - m = i
    OBVIOUS
  <2>4. u[m + i] = t[i]
    BY <1>6, <2>3
  <2> QED
    BY <1>2, <1>5, <2>2, <2>4
<1>10. \A i \in 1..Len(u) : h[i] = Read(kind, h[i - 1], u[i])
  <2> SUFFICES ASSUME NEW i \in 1..Len(u)
               PROVE  h[i] = Read(kind, h[i - 1], u[i])
    OBVIOUS
  <2>1. CASE i <= m
    BY <1>6, <1>8, <2>1
  <2>2. CASE i > m
    <3>1. PICK j \in 1..n : i = m + j
      <4>1. i - m \in 1..n /\ i = m + (i - m)
        BY <1>6, <2>2
      <4> QED
        BY <4>1
    <3> QED
      BY <1>9, <3>1
  <2> QED
    BY <1>6, <2>1, <2>2
<1> QED
  BY <1>3, <1>6, <1>7, <1>10 DEF Leads

(* A text leads to one state only.                                          *)
LEMMA LeadsToOne ==
  ASSUME NEW kind, NEW p, NEW q, NEW r, NEW s \in Seq(Alphabet),
         Leads(kind, p, s, q), Leads(kind, p, s, r)
  PROVE  q = r
<1>1. PICK f : /\ f[0] = p /\ f[Len(s)] = q
               /\ \A i \in 1..Len(s) : f[i] = Read(kind, f[i - 1], s[i])
  BY DEF Leads
<1>2. PICK g : /\ g[0] = p /\ g[Len(s)] = r
               /\ \A i \in 1..Len(s) : g[i] = Read(kind, g[i - 1], s[i])
  BY DEF Leads
<1>3. PICK n \in Nat : n = Len(s)
  OBVIOUS
<1> DEFINE Bad == {i \in Nat : i <= n /\ f[i] # g[i]}
<1>4. 0 \notin Bad
  BY <1>1, <1>2
<1>5. ASSUME NEW i \in Nat, i \notin Bad
      PROVE  i + 1 \notin Bad
  <2>1. CASE i + 1 > n
    BY <2>1
  <2>2. CASE i + 1 <= n
    <3>1. f[i] = g[i]
      BY <1>5, <2>2
    <3>2. i + 1 \in 1..Len(s) /\ (i + 1) - 1 = i
      BY <1>3, <2>2
    <3>3. f[i + 1] = Read(kind, f[i], s[i + 1]) /\ g[i + 1] = Read(kind, g[i], s[i + 1])
      BY <1>1, <1>2, <3>2
    <3> QED
      BY <3>1, <3>3
  <2> QED
    BY <1>3, <2>1, <2>2
<1>6. Bad = {}
  <2>1. Bad \subseteq Nat /\ \A i \in Nat : i + 1 \in Bad => i \in Bad
    BY <1>5
  <2> HIDE DEF Bad
  <2> QED
    BY <1>4, <2>1, NoLeast
<1> QED
  BY <1>1, <1>2, <1>3, <1>6

(* The equation of the folds in FromText and ParseScheme, and its solution. *)
Folds(kind, p, s, g) ==
  g = [d \in SUBSET DOMAIN s |->
         IF d = {} THEN p ELSE Read(kind, g[d \ {Max(d)}], s[Max(d)])]

LEMMA FoldExists ==
  ASSUME NEW kind, NEW p, NEW t \in Seq(Alphabet)
  PROVE  \E g : Folds(kind, p, t, g)
<1>0. PICK D : D = DOMAIN t
  OBVIOUS
<1> DEFINE Small(n)  == {s \in SUBSET D : Cardinality(s) <= n}
           Solves(h, n) == h = [s \in Small(n) |->
              IF s = {} THEN p ELSE Read(kind, h[s \ {Max(s)}], t[Max(s)])]
           Bad == {n \in Nat : ~\E h : Solves(h, n)}
<1>a. PICK m \in Nat : D = 1..m
  BY <1>0, LenProperties
<1>b. IsFiniteSet(D)
  BY <1>a, FS_Interval
<1>1. \A s \in SUBSET D : /\ IsFiniteSet(s) /\ Cardinality(s) \in Nat
                          /\ Cardinality(s) <= Cardinality(D)
                          /\ Cardinality(s) = 0 <=> s = {}
  BY <1>b, FS_Subset, FS_CardinalityType, FS_EmptySet
<1>2. 0 \notin Bad
  <2> DEFINE h == [s \in Small(0) |-> p]
  <2>1. Small(0) = {{}}
    BY <1>1, FS_EmptySet
  <2>2. Solves(h, 0)
    BY <2>1
  <2> QED
    BY <2>2
<1>3. ASSUME NEW n \in Nat, n \notin Bad
      PROVE  n + 1 \notin Bad
  <2>1. PICK h : Solves(h, n)
    BY <1>3
  <2> DEFINE k == [s \in Small(n + 1) |->
                     IF s = {} THEN p ELSE Read(kind, h[s \ {Max(s)}], t[Max(s)])]
  <2>2. Small(n) \subseteq Small(n + 1)
    BY <1>1, <1>3
  <2>3. \A s \in Small(n) : k[s] = h[s]
    BY <2>1, <2>2
  <2>4. \A s \in Small(n + 1) : s # {} => s \ {Max(s)} \in Small(n)
    <3> SUFFICES ASSUME NEW s \in Small(n + 1), s # {}
                 PROVE  s \ {Max(s)} \in Small(n)
      OBVIOUS
    <3>1. Max(s) \in s
      BY <1>a, MaxIsThere
    <3>2. Cardinality(s \ {Max(s)}) = Cardinality(s) - 1
      BY <1>1, <3>1, FS_RemoveElement
    <3> QED
      BY <1>1, <1>3, <3>2
  <2>5. Solves(k, n + 1)
    <3> HIDE DEF Small
    <3>1. \A s \in Small(n + 1) : s # {} => k[s \ {Max(s)}] = h[s \ {Max(s)}]
      BY <2>3, <2>4
    <3> QED
      BY <3>1, Zenon
  <2> QED
    BY <2>5
<1>4. Bad = {}
  <2> HIDE DEF Solves
  <2>1. Bad \subseteq Nat /\ \A n \in Nat : n + 1 \in Bad => n \in Bad
    BY <1>3
  <2> HIDE DEF Bad
  <2> QED
    BY <1>2, <2>1, NoLeast
<1>5. PICK h : Solves(h, Cardinality(D))
  BY <1>1, <1>4
<1>6. Small(Cardinality(D)) = SUBSET D
  BY <1>1
<1> QED
  BY <1>0, <1>5, <1>6 DEF Folds

(* A solution follows the text.                                             *)
LEMMA FoldLeads ==
  ASSUME NEW kind, NEW p, NEW t \in Seq(Alphabet), NEW g, Folds(kind, p, t, g)
  PROVE  Leads(kind, p, t, g[DOMAIN t])
<1>1. PICK n \in Nat : n = Len(t) /\ DOMAIN t = 1..n
  BY LenProperties
<1> DEFINE h == [i \in 0..n |-> g[1..i]]
<1>2. \A d \in SUBSET (1..n) :
         g[d] = IF d = {} THEN p ELSE Read(kind, g[d \ {Max(d)}], t[Max(d)])
  BY <1>1, Zenon DEF Folds
<1>3. h[0] = p
  <2>1. {} \in SUBSET (1..n) /\ 1..0 = {} /\ 0 \in 0..n
    OBVIOUS
  <2> QED
    BY <1>2, <2>1
<1>4. h[n] = g[DOMAIN t]
  BY <1>1
<1>5. ASSUME NEW i \in 1..n
      PROVE  h[i] = Read(kind, h[i - 1], t[i])
  <2>1. PICK d : d = 1..i
    OBVIOUS
  <2>2. d \in SUBSET (1..n) /\ d # {} /\ i \in Nat /\ i # 0
    <3>1. i \in Nat /\ i # 0 /\ i <= n
      BY <1>1
    <3>2. i \in d /\ \A j \in d : j \in 1..n
      BY <2>1, <3>1
    <3> QED
      BY <3>1, <3>2
  <2>3. Max(d) = i
    BY <2>1, <2>2, MaxOfInterval
  <2>4. d \ {i} = 1..(i - 1)
    BY <2>1
  <2>5. h[i] = g[d] /\ h[i - 1] = g[d \ {i}]
    BY <2>1, <2>4
  <2> QED
    BY <1>2, <2>2, <2>3, <2>5
<1> HIDE DEF h
<1> QED
  BY <1>1, <1>3, <1>4, <1>5 DEF Leads

(* So fromString() and parseScheme() end where their text leads.            *)
FoldOf(text, sep) ==
  FoldLeft(LAMBDA q, c : ReadChar(q, c, sep), ParserStart, text)

FoldEquation(text, sep, g) ==
  g = [d \in SUBSET DOMAIN text |->
         IF d = {} THEN ParserStart ELSE ReadChar(g[d \ {Max(d)}], text[Max(d)], sep)]

LEMMA FoldOfText ==
  ASSUME NEW text \in Seq(Alphabet), NEW sep \in Separators
  PROVE  Leads(sep, ParserStart, text, FoldOf(text, sep))
<1>1. FoldOf(text, sep) = (CHOOSE g : FoldEquation(text, sep, g))[DOMAIN text]
  BY DEF FoldOf, FoldLeft, MapThenFoldSet, FoldEquation
<1>2. \A g : FoldEquation(text, sep, g) <=> Folds(sep, ParserStart, text, g)
  <2>1. sep # "scheme"
    BY Characters
  <2>2. \A p, c : Read(sep, p, c) = ReadChar(p, c, sep)
    BY <2>1 DEF Read
  <2> QED
    BY <2>2 DEF FoldEquation, Folds
<1>3. PICK g : g = CHOOSE h : FoldEquation(text, sep, h)
  OBVIOUS
<1>4. FoldEquation(text, sep, g)
  BY <1>2, <1>3, FoldExists, Zenon
<1> QED
  BY <1>1, <1>2, <1>3, <1>4, FoldLeads

SchemeEquation(scheme, g) ==
  g = [d \in SUBSET DOMAIN scheme |->
         IF d = {} THEN SchemeStart ELSE ReadSchemeChar(g[d \ {Max(d)}], scheme[Max(d)])]

LEMMA FoldOfScheme ==
  ASSUME NEW scheme \in Seq(Alphabet)
  PROVE  Leads("scheme", SchemeStart, scheme, FoldLeft(ReadSchemeChar, SchemeStart, scheme))
<1>1. FoldLeft(ReadSchemeChar, SchemeStart, scheme)
        = (CHOOSE g : SchemeEquation(scheme, g))[DOMAIN scheme]
  BY DEF FoldLeft, MapThenFoldSet, SchemeEquation
<1>2. \A g : SchemeEquation(scheme, g) <=> Folds("scheme", SchemeStart, scheme, g)
  <2>1. \A p, c : Read("scheme", p, c) = ReadSchemeChar(p, c)
    BY DEF Read
  <2> QED
    BY <2>1 DEF SchemeEquation, Folds
<1>3. PICK g : g = CHOOSE h : SchemeEquation(scheme, h)
  OBVIOUS
<1>4. SchemeEquation(scheme, g)
  BY <1>2, <1>3, FoldExists, Zenon
<1> QED
  BY <1>1, <1>2, <1>3, <1>4, FoldLeads

-----------------------------------------------------------------------------
(* FlattenSeq, one sequence at a time.                                      *)
Flattens(n, seqs, f) ==
  /\ f[0] = <<>> /\ f[n] = FlattenSeq(seqs)
  /\ \A i \in 1..n : f[i] = f[i - 1] \o seqs[i]

FlattenEquation(n, seqs, h) ==
  h = [i \in 1..n |-> IF i = 1 THEN seqs[i] ELSE h[i - 1] \o seqs[i]]

LEMMA FlattenSeqIs ==
  ASSUME NEW S, NEW n \in Nat, NEW seqs \in [1..n -> Seq(S)]
  PROVE  /\ n = 0 => FlattenSeq(seqs) = <<>>
         /\ n # 0 => FlattenSeq(seqs) = (CHOOSE h : FlattenEquation(n, seqs, h))[n]
<1>1. seqs \in Seq(Seq(S)) /\ Len(seqs) = n
  OBVIOUS
<1>2. ASSUME n = 0
      PROVE  FlattenSeq(seqs) = <<>>
  <2>1. seqs = <<>>
    BY <1>1, <1>2, EmptySeq
  <2>2. FlattenSeq(seqs) = seqs
    BY <1>1, <1>2 DEF FlattenSeq
  <2> QED
    BY <2>1, <2>2
<1>3. ASSUME n # 0
      PROVE  FlattenSeq(seqs) = (CHOOSE h : FlattenEquation(n, seqs, h))[n]
  <2>1. FlattenSeq(seqs) = (CHOOSE h : FlattenEquation(Len(seqs), seqs, h))[Len(seqs)]
    BY <1>1, <1>3 DEF FlattenSeq, FlattenEquation
  <2> QED
    BY <1>1, <2>1
<1> QED
  BY <1>2, <1>3

LEMMA FlattenExists ==
  ASSUME NEW n \in Nat, NEW seqs
  PROVE  \E h : FlattenEquation(n, seqs, h)
<1> DEFINE Bad == {m \in Nat : ~\E h : FlattenEquation(m, seqs, h)}
<1>1. 0 \notin Bad
  <2> DEFINE h == [i \in 1..0 |-> <<>>]
  <2>1. FlattenEquation(0, seqs, h)
    BY DEF FlattenEquation
  <2> QED
    BY <2>1
<1>2. ASSUME NEW m \in Nat, m \notin Bad
      PROVE  m + 1 \notin Bad
  <2>1. PICK h : FlattenEquation(m, seqs, h)
    BY <1>2
  <2> DEFINE k == [i \in 1..(m + 1) |-> IF i = 1 THEN seqs[i] ELSE h[i - 1] \o seqs[i]]
  <2>2. \A i \in 1..m : k[i] = h[i]
    <3>1. \A i \in 1..m : h[i] = IF i = 1 THEN seqs[i] ELSE h[i - 1] \o seqs[i]
      BY <2>1 DEF FlattenEquation
    <3>2. \A i \in 1..m : i \in 1..(m + 1)
      OBVIOUS
    <3> QED
      BY <3>1, <3>2
  <2>3. \A i \in 1..(m + 1) : i # 1 => i - 1 \in 1..m
    OBVIOUS
  <2>4. \A i \in 1..(m + 1) : i # 1 => k[i - 1] = h[i - 1]
    <3> HIDE DEF k
    <3> QED
      BY <2>2, <2>3
  <2>5. FlattenEquation(m + 1, seqs, k)
    BY <2>4, Zenon DEF FlattenEquation
  <2> QED
    BY <2>5
<1>3. Bad = {}
  <2>1. Bad \subseteq Nat /\ \A i \in Nat : i + 1 \in Bad => i \in Bad
    BY <1>2
  <2> HIDE DEF Bad
  <2> QED
    BY <1>1, <2>1, NoLeast
<1> QED
  BY <1>3

LEMMA FlattenIs ==
  ASSUME NEW S, NEW n \in Nat, NEW seqs \in [1..n -> Seq(S)]
  PROVE  \E f \in [0..n -> Seq(S)] : Flattens(n, seqs, f)
<1>1. CASE n = 0
  <2> DEFINE f == [i \in 0..n |-> <<>>]
  <2>1. f \in [0..n -> Seq(S)]
    BY EmptySeq
  <2>2. FlattenSeq(seqs) = <<>>
    BY <1>1, FlattenSeqIs
  <2>3. f[0] = <<>> /\ f[n] = <<>> /\ 1..n = {}
    BY <1>1
  <2> HIDE DEF f
  <2>4. Flattens(n, seqs, f)
    BY <2>2, <2>3 DEF Flattens
  <2> QED
    BY <2>1, <2>4
<1>2. CASE n # 0
  <2>1. PICK h : h = CHOOSE g : FlattenEquation(n, seqs, g)
    OBVIOUS
  <2>2. FlattenEquation(n, seqs, h)
    BY <2>1, FlattenExists
  <2>3. FlattenSeq(seqs) = h[n]
    BY <1>2, <2>1, FlattenSeqIs
  <2>4. \A i \in 1..n : h[i] = IF i = 1 THEN seqs[i] ELSE h[i - 1] \o seqs[i]
    BY <2>2 DEF FlattenEquation
  <2> DEFINE f == [i \in 0..n |-> IF i = 0 THEN <<>> ELSE h[i]]
  <2>5. f[0] = <<>> /\ f[n] = FlattenSeq(seqs) /\ \A i \in 1..n : f[i] = h[i]
    BY <1>2, <2>3
  <2>6. DOMAIN f = 0..n /\ f = [i \in DOMAIN f |-> f[i]]
    OBVIOUS
  <2> HIDE DEF f
  <2>7. \A i \in 1..n : f[i] = f[i - 1] \o seqs[i]
    <3> SUFFICES ASSUME NEW i \in 1..n
                 PROVE  f[i] = f[i - 1] \o seqs[i]
      OBVIOUS
    <3>1. CASE i = 1
      <4>1. seqs[i] \in Seq(S)
        OBVIOUS
      <4>2. <<>> \o seqs[i] = seqs[i]
        BY <4>1, ConcatEmptySeq
      <4>3. f[i] = seqs[i] /\ f[i - 1] = <<>>
        BY <2>4, <2>5, <3>1
      <4> QED
        BY <4>2, <4>3
    <3>2. CASE i # 1
      <4>1. i - 1 \in 1..n
        BY <3>2
      <4> QED
        BY <2>4, <2>5, <3>2, <4>1
    <3> QED
      BY <3>1, <3>2
  <2>8. \A i \in 0..n : f[i] \in Seq(S)
    <3> DEFINE Bad == {i \in Nat : i <= n /\ f[i] \notin Seq(S)}
    <3>1. 0 \notin Bad
      BY <2>5, EmptySeq
    <3>2. ASSUME NEW i \in Nat, i \notin Bad
          PROVE  i + 1 \notin Bad
      <4> SUFFICES ASSUME i + 1 <= n
                   PROVE  f[i + 1] \in Seq(S)
        OBVIOUS
      <4>1. i + 1 \in 1..n /\ (i + 1) - 1 = i
        OBVIOUS
      <4>2. f[i + 1] = f[i] \o seqs[i + 1]
        BY <2>7, <4>1
      <4>3. f[i] \in Seq(S) /\ seqs[i + 1] \in Seq(S)
        BY <3>2, <4>1
      <4> QED
        BY <4>2, <4>3, ConcatProperties
    <3>3. Bad = {}
      <4>1. Bad \subseteq Nat /\ \A i \in Nat : i + 1 \in Bad => i \in Bad
        BY <3>2
      <4> HIDE DEF Bad
      <4> QED
        BY <3>1, <4>1, NoLeast
    <3> QED
      BY <3>3
  <2> QED
    BY <2>5, <2>6, <2>7, <2>8 DEF Flattens
<1> QED
  BY <1>1, <1>2

-----------------------------------------------------------------------------
(* SetToSeq lists a finite set, each element once.                          *)
LEMMA SetToSeqIs ==
  ASSUME NEW D, IsFiniteSet(D)
  PROVE  \E n \in Nat : \E keys \in [1..n -> D] :
            /\ keys = SetToSeq(D)
            /\ \A i, j \in 1..n : keys[i] = keys[j] => i = j
            /\ \A d \in D : \E i \in 1..n : keys[i] = d
<1>1. PICK n \in Nat : n = Cardinality(D)
  BY FS_CardinalityType
<1>2. PICK f \in [1..n -> D] : /\ \A i, j \in 1..n : f[i] = f[j] => i = j
  BY <1>1, FS_CardinalityType DEF ExistsBijection, Bijection, Injection, IsInjective
<1>3. PICK keys : keys = CHOOSE g \in [1..n -> D] : IsInjective(g)
  OBVIOUS
<1>4. IsInjective(f)
  BY <1>2 DEF IsInjective
<1>5. keys \in [1..n -> D] /\ IsInjective(keys)
  BY <1>3, <1>4
<1>6. keys = SetToSeq(D)
  BY <1>1, <1>3 DEF SetToSeq
<1>7. \A i, j \in 1..n : keys[i] = keys[j] => i = j
  BY <1>5 DEF IsInjective
<1>8. ASSUME NEW d \in D, \A i \in 1..n : keys[i] # d
      PROVE  FALSE
  <2>1. PICK E : E = D \ {d}
    OBVIOUS
  <2>2. IsFiniteSet(E) /\ Cardinality(E) = n - 1
    BY <1>1, <2>1, FS_RemoveElement
  <2>3. keys \in [1..n -> E]
    BY <1>5, <1>8, <2>1
  <2>4. PICK I : I = 1..n
    OBVIOUS
  <2>5. IsFiniteSet(I) /\ Cardinality(I) = n
    BY <2>4, FS_Interval
  <2>6. keys \in [I -> E]
    BY <2>3, <2>4
  <2>7. Cardinality(I) > Cardinality(E)
    BY <2>2, <2>5
  <2>8. \E x, y \in I : x # y /\ keys[x] = keys[y]
    BY <2>2, <2>5, <2>6, <2>7, FS_PigeonHole
  <2> QED
    BY <1>7, <2>4, <2>8
<1> QED
  BY <1>5, <1>6, <1>7, <1>8

-----------------------------------------------------------------------------
(* The parser of options, between two characters of a text that the program *)
(* has written.                                                             *)
ParserState(mode, key, value, quoted, parameters, error) ==
  [mode |-> mode, key |-> key, value |-> value, quoted |-> quoted,
   parameters |-> parameters, error |-> error]

At(mode, key, value, parameters) ==
  ParserState(mode, key, value, FALSE, parameters, FALSE)

AtQuoted(mode, key, value, parameters) ==
  ParserState(mode, key, value, TRUE, parameters, FALSE)

With(parameters, key, value) ==
  [k \in DOMAIN parameters \cup {key} |-> IF k = key THEN value ELSE parameters[k]]

LEMMA ReadsKey ==
  ASSUME NEW sep \in Separators, NEW mode \in {"between", "key"}, NEW key, NEW P,
         NEW c \in WordChars
  PROVE  Read(sep, At(mode, key, <<>>, P), c)
           = At("key", Append(key, c), <<>>, P)
<1>1. c # sep /\ sep # "scheme"
  BY Characters
<1>2. CASE mode = "between"
  BY <1>1, <1>2 DEF Read, ReadChar, Between, At, AtQuoted, ParserState
<1>3. CASE mode = "key"
  BY <1>1, <1>3 DEF Read, ReadChar, InKey, At, AtQuoted, ParserState
<1> QED
  BY <1>2, <1>3

LEMMA ReadsEqual ==
  ASSUME NEW sep \in Separators, NEW key, NEW P
  PROVE  Read(sep, At("key", key, <<>>, P), Equals) = At("value", key, <<>>, P)
<1>1. Equals \notin WordChars /\ sep # "scheme"
  BY Characters
<1> QED
  BY <1>1 DEF Read, ReadChar, InKey, At, AtQuoted, ParserState, Equals

LEMMA ReadsPlain ==
  ASSUME NEW sep \in Separators, NEW key, NEW value, NEW P, NEW c \in PlainChars
  PROVE  Read(sep, At("value", key, value, P), c)
           = At("value", key, Append(value, c), P)
<1>1. c # "'" /\ c \notin SpaceChars
  BY Characters, Zenon DEF Quote
<1>2. c # sep /\ sep # "scheme"
  BY Characters
<1> QED
  BY <1>1, <1>2 DEF Read, ReadChar, InValue, At, AtQuoted, ParserState

LEMMA ReadsOpening ==
  ASSUME NEW sep \in Separators, NEW key, NEW P
  PROVE  Read(sep, At("value", key, <<>>, P), Quote) = AtQuoted("quote", key, <<>>, P)
<1>1. sep # "scheme"
  BY Characters
<1> QED
  BY <1>1 DEF Read, ReadChar, InValue, At, AtQuoted, ParserState, Quote

LEMMA ReadsQuoted ==
  ASSUME NEW sep \in Separators, NEW key, NEW value, NEW P, NEW c, c # Quote, c # Backslash
  PROVE  Read(sep, AtQuoted("quote", key, value, P), c)
           = AtQuoted("quote", key, Append(value, c), P)
<1>1. sep # "scheme"
  BY Characters
<1> QED
  BY <1>1 DEF Read, ReadChar, InQuote, At, AtQuoted, ParserState, Quote, Backslash

LEMMA ReadsBackslash ==
  ASSUME NEW sep \in Separators, NEW key, NEW value, NEW P
  PROVE  Read(sep, AtQuoted("quote", key, value, P), Backslash)
           = AtQuoted("escape", key, value, P)
<1>1. sep # "scheme"
  BY Characters
<1> QED
  BY <1>1 DEF Read, ReadChar, InQuote, At, AtQuoted, ParserState, Backslash

LEMMA ReadsEscaped ==
  ASSUME NEW sep \in Separators, NEW key, NEW value, NEW P, NEW c
  PROVE  Read(sep, AtQuoted("escape", key, value, P), c)
           = AtQuoted("quote", key, Append(value, c), P)
<1>1. sep # "scheme"
  BY Characters
<1> QED
  BY <1>1 DEF Read, ReadChar, At, AtQuoted, ParserState

LEMMA ReadsClosing ==
  ASSUME NEW sep \in Separators, NEW key, NEW value, NEW P
  PROVE  Read(sep, AtQuoted("quote", key, value, P), Quote) = AtQuoted("between", key, value, P)
<1>1. sep # "scheme"
  BY Characters
<1> QED
  BY <1>1 DEF Read, ReadChar, InQuote, At, AtQuoted, ParserState, Quote

(* What a separator leaves of the entry.                                    *)
Reset(p, mode, nothing, quoted) ==
  [p EXCEPT !.mode = mode, !.key = nothing, !.value = nothing, !.quoted = quoted]

LEMMA ResetIs ==
  ASSUME NEW m, NEW k, NEW v, NEW P, NEW mode, NEW n
  PROVE  \A q, e, quoted : Reset(ParserState(m, k, v, q, P, e), mode, n, quoted)
                              = ParserState(mode, n, n, quoted, P, e)
<1> SUFFICES ASSUME NEW q, NEW e, NEW quoted
             PROVE  Reset(ParserState(m, k, v, q, P, e), mode, n, quoted)
                      = ParserState(mode, n, n, quoted, P, e)
  OBVIOUS
<1>1. [ParserState(m, k, v, q, P, e) EXCEPT !.mode = mode] = ParserState(mode, k, v, q, P, e)
  BY DEF ParserState
<1>2. [ParserState(mode, k, v, q, P, e) EXCEPT !.key = n] = ParserState(mode, n, v, q, P, e)
  BY DEF ParserState
<1>3. [ParserState(mode, n, v, q, P, e) EXCEPT !.value = n] = ParserState(mode, n, n, q, P, e)
  BY DEF ParserState
<1>4. [ParserState(mode, n, n, q, P, e) EXCEPT !.quoted = quoted]
        = ParserState(mode, n, n, quoted, P, e)
  BY DEF ParserState
<1> QED
  BY <1>1, <1>2, <1>3, <1>4 DEF Reset

(* The value of an entry, by whether it was in quotes.                      *)
TypedQuoted(text) == Typed(text, TRUE)
TypedPlain(text) == Typed(text, FALSE)

LEMMA QuotedInsert ==
  ASSUME NEW mode, NEW key, key # <<>>, NEW value, NEW P
  PROVE  InsertValue(AtQuoted(mode, key, value, P))
           = AtQuoted(mode, key, value, With(P, key, TypedQuoted(value)))
<1>1. PICK v : v = TypedQuoted(value)
  OBVIOUS
<1>2. PICK w : w = With(P, key, v)
  OBVIOUS
<1>3. [AtQuoted(mode, key, value, P) EXCEPT !.parameters = w]
        = AtQuoted(mode, key, value, w)
  <2>1. \A b, e : [ParserState(mode, key, value, b, P, e) EXCEPT !.parameters = w]
                     = ParserState(mode, key, value, b, w, e)
    BY DEF ParserState
  <2> QED
    BY <2>1, Zenon DEF At, AtQuoted
<1>4. /\ AtQuoted(mode, key, value, P).key = key
      /\ AtQuoted(mode, key, value, P).value = value
      /\ AtQuoted(mode, key, value, P).quoted = TRUE
      /\ AtQuoted(mode, key, value, P).parameters = P
  BY DEF At, AtQuoted, ParserState
<1>5. InsertValue(AtQuoted(mode, key, value, P))
        = [AtQuoted(mode, key, value, P) EXCEPT !.parameters = With(P, key, v)]
  BY <1>1, <1>4, Zenon DEF InsertValue, With, TypedQuoted, TypedPlain
<1> QED
  BY <1>1, <1>2, <1>3, <1>5

LEMMA QuotedReset ==
  ASSUME NEW key, NEW value, NEW P
  PROVE  Reset(AtQuoted("between", key, value, P), "between", <<>>, FALSE)
           = At("between", <<>>, <<>>, P)
<1>1. \A b, c, e : Reset(ParserState("between", key, value, b, P, e), "between", <<>>, c)
                      = ParserState("between", <<>>, <<>>, c, P, e)
  BY ResetIs
<1> QED
  BY <1>1, Zenon DEF At, AtQuoted

LEMMA QuotedSeparator ==
  ASSUME NEW sep \in Separators, NEW key, key # <<>>, NEW value, NEW P,
         NEW v, v = TypedQuoted(value)
  PROVE  Read(sep, AtQuoted("between", key, value, P), sep) = At("between", <<>>, <<>>, With(P, key, v))
<1>1. sep # "'" /\ sep # "scheme"
  BY Characters, Zenon DEF Quote
<1>2. PICK w : w = With(P, key, v)
  OBVIOUS
<1>3. Reset(AtQuoted("between", key, value, w), "between", <<>>, FALSE)
        = At("between", <<>>, <<>>, w)
  BY QuotedReset, Zenon
<1>4. InsertValue(AtQuoted("between", key, value, P)) = AtQuoted("between", key, value, w)
  BY <1>2, QuotedInsert
<1>5. Between(AtQuoted("between", key, value, P), sep, sep)
        = At("between", <<>>, <<>>, w)
  BY <1>3, <1>4 DEF Between, Reset
<1>6. /\ AtQuoted("between", key, value, P).mode = "between"
      /\ ~AtQuoted("between", key, value, P).error
  BY DEF At, AtQuoted, ParserState
<1>7. ReadChar(AtQuoted("between", key, value, P), sep, sep)
        = Between(AtQuoted("between", key, value, P), sep, sep)
  BY <1>1, <1>6 DEF ReadChar, InValue
<1> QED
  BY <1>1, <1>2, <1>5, <1>7 DEF Read

LEMMA PlainInsert ==
  ASSUME NEW mode, NEW key, key # <<>>, NEW value, NEW P
  PROVE  InsertValue(At(mode, key, value, P))
           = At(mode, key, value, With(P, key, TypedPlain(value)))
<1>1. PICK v : v = TypedPlain(value)
  OBVIOUS
<1>2. PICK w : w = With(P, key, v)
  OBVIOUS
<1>3. [At(mode, key, value, P) EXCEPT !.parameters = w]
        = At(mode, key, value, w)
  <2>1. \A b, e : [ParserState(mode, key, value, b, P, e) EXCEPT !.parameters = w]
                     = ParserState(mode, key, value, b, w, e)
    BY DEF ParserState
  <2> QED
    BY <2>1, Zenon DEF At
<1>4. /\ At(mode, key, value, P).key = key
      /\ At(mode, key, value, P).value = value
      /\ At(mode, key, value, P).quoted = FALSE
      /\ At(mode, key, value, P).parameters = P
  BY DEF At, AtQuoted, ParserState
<1>5. InsertValue(At(mode, key, value, P))
        = [At(mode, key, value, P) EXCEPT !.parameters = With(P, key, v)]
  BY <1>1, <1>4, Zenon DEF InsertValue, With, TypedQuoted, TypedPlain
<1> QED
  BY <1>1, <1>2, <1>3, <1>5

LEMMA PlainReset ==
  ASSUME NEW key, NEW value, NEW P
  PROVE  Reset(At("value", key, value, P), "between", <<>>, FALSE)
           = At("between", <<>>, <<>>, P)
<1>1. \A b, c, e : Reset(ParserState("value", key, value, b, P, e), "between", <<>>, c)
                      = ParserState("between", <<>>, <<>>, c, P, e)
  BY ResetIs
<1> QED
  BY <1>1, Zenon DEF At

LEMMA PlainSeparator ==
  ASSUME NEW sep \in Separators, NEW key, key # <<>>, NEW value, NEW P,
         NEW v, v = TypedPlain(value)
  PROVE  Read(sep, At("value", key, value, P), sep) = At("between", <<>>, <<>>, With(P, key, v))
<1>1. sep # "'" /\ sep # "scheme"
  BY Characters, Zenon DEF Quote
<1>2. PICK w : w = With(P, key, v)
  OBVIOUS
<1>3. Reset(At("value", key, value, w), "between", <<>>, FALSE)
        = At("between", <<>>, <<>>, w)
  BY PlainReset, Zenon
<1>4. InsertValue(At("value", key, value, P)) = At("value", key, value, w)
  BY <1>2, PlainInsert
<1>5. Between(At("value", key, value, P), sep, sep)
        = At("between", <<>>, <<>>, w)
  BY <1>3, <1>4 DEF Between, Reset
<1>6. /\ At("value", key, value, P).mode = "value"
      /\ ~At("value", key, value, P).error
  BY DEF At, AtQuoted, ParserState
<1>7. ReadChar(At("value", key, value, P), sep, sep)
        = Between(At("value", key, value, P), sep, sep)
  BY <1>1, <1>6 DEF ReadChar, InValue
<1> QED
  BY <1>1, <1>2, <1>5, <1>7 DEF Read

(* The text of one entry.                                                   *)
LEMMA PrefixIs ==
  ASSUME NEW S, NEW s \in Seq(S)
  PROVE  /\ SubSeq(s, 1, 0) = <<>> /\ SubSeq(s, 1, Len(s)) = s
         /\ \A i \in 1..Len(s) : SubSeq(s, 1, i) = Append(SubSeq(s, 1, i - 1), s[i])
<1>1. SubSeq(s, 1, 0) = <<>> /\ SubSeq(s, 1, Len(s)) = s
  BY SubSeqEmpty, SubSeqFull
<1>2. ASSUME NEW i \in 1..Len(s)
      PROVE  SubSeq(s, 1, i) = Append(SubSeq(s, 1, i - 1), s[i])
  <2>1. PICK t : t = SubSeq(s, 1, i - 1)
    OBVIOUS
  <2>2. Len(s) \in Nat /\ i \in Nat /\ \A j \in 1..Len(s) : s[j] \in S
    BY LenProperties
  <2>3. t \in Seq(S)
    <3>1. 1 \in Int /\ i - 1 \in Int /\ \A j \in 1..(i - 1) : s[j] \in S
      BY <2>2
    <3> QED
      BY <2>1, <3>1, SubSeqProperties
  <2>4. 1 \in 1..Len(s) /\ i \in 1..Len(s)
    BY <2>2
  <2>5. SubSeq(s, 1, i) = t \o <<s[i]>>
    BY <2>1, <2>4, SubSeqRecursiveSecond
  <2>6. Append(t, s[i]) = t \o <<s[i]>>
    BY <2>2, <2>3, AppendIsConcat
  <2> QED
    BY <2>1, <2>5, <2>6
<1> QED
  BY <1>1, <1>2

LEMMA KeyLeads ==
  ASSUME NEW sep \in Separators, NEW key \in Seq(WordChars), key # <<>>, NEW P
  PROVE  Leads(sep, At("between", <<>>, <<>>, P), key, At("key", key, <<>>, P))
<1>1. PICK n \in Nat : n = Len(key) /\ n # 0
  BY EmptySeq
<1>2. \A i \in 1..n : key[i] \in WordChars
  BY <1>1
<1> DEFINE h == [i \in 0..n |-> IF i = 0 THEN At("between", <<>>, <<>>, P)
                                ELSE At("key", SubSeq(key, 1, i), <<>>, P)]
<1>3. /\ h[0] = At("between", <<>>, <<>>, P)
      /\ \A i \in 1..n : h[i] = At("key", SubSeq(key, 1, i), <<>>, P)
  OBVIOUS
<1> HIDE DEF h
<1>4. h[n] = At("key", key, <<>>, P)
  <2>1. n \in 1..n /\ SubSeq(key, 1, n) = key
    BY <1>1, PrefixIs
  <2> QED
    BY <1>3, <2>1
<1>5. ASSUME NEW i \in 1..n
      PROVE  h[i] = Read(sep, h[i - 1], key[i])
  <2>1. SubSeq(key, 1, i) = Append(SubSeq(key, 1, i - 1), key[i])
    BY <1>1, PrefixIs
  <2>2. h[i] = At("key", SubSeq(key, 1, i), <<>>, P)
    BY <1>3
  <2>3. CASE i = 1
    <3>1. PICK w : w = SubSeq(key, 1, i - 1)
      OBVIOUS
    <3>2. w = <<>>
      BY <2>3, <3>1, PrefixIs
    <3>3. h[i - 1] = At("between", w, <<>>, P)
      BY <1>3, <2>3, <3>2
    <3>4. Read(sep, At("between", w, <<>>, P), key[i])
            = At("key", Append(w, key[i]), <<>>, P)
      BY <1>2, ReadsKey
    <3> QED
      BY <2>1, <2>2, <3>1, <3>3, <3>4
  <2>4. CASE i # 1
    <3>1. PICK w : w = SubSeq(key, 1, i - 1)
      OBVIOUS
    <3>2. i - 1 \in 1..n
      BY <2>4
    <3>3. h[i - 1] = At("key", w, <<>>, P)
      BY <1>3, <3>1, <3>2
    <3>4. Read(sep, At("key", w, <<>>, P), key[i])
            = At("key", Append(w, key[i]), <<>>, P)
      BY <1>2, ReadsKey
    <3> QED
      BY <2>1, <2>2, <3>1, <3>3, <3>4
  <2> QED
    BY <2>3, <2>4
<1> QED
  BY <1>1, <1>3, <1>4, <1>5 DEF Leads

(* A value that is no string stands as it is.                               *)
LEMMA PlainLeads ==
  ASSUME NEW sep \in Separators, NEW key, NEW P, NEW text \in Seq(Alphabet),
         \A i \in 1..Len(text) : text[i] \in PlainChars
  PROVE  Leads(sep, At("value", key, <<>>, P), text, At("value", key, text, P))
<1>1. PICK n \in Nat : n = Len(text)
  BY LenProperties
<1> DEFINE h == [i \in 0..n |-> At("value", key, SubSeq(text, 1, i), P)]
<1>2. \A i \in 0..n : h[i] = At("value", key, SubSeq(text, 1, i), P)
  OBVIOUS
<1> HIDE DEF h
<1>3. h[0] = At("value", key, <<>>, P) /\ h[n] = At("value", key, text, P)
  <2>1. 0 \in 0..n /\ n \in 0..n
    BY <1>1
  <2>2. SubSeq(text, 1, 0) = <<>> /\ SubSeq(text, 1, n) = text
    BY <1>1, PrefixIs
  <2> QED
    BY <1>2, <2>1, <2>2
<1>4. ASSUME NEW i \in 1..n
      PROVE  h[i] = Read(sep, h[i - 1], text[i])
  <2>1. SubSeq(text, 1, i) = Append(SubSeq(text, 1, i - 1), text[i])
    BY <1>1, PrefixIs
  <2>2. PICK w : w = SubSeq(text, 1, i - 1)
    OBVIOUS
  <2>3. i - 1 \in 0..n /\ i \in 0..n
    OBVIOUS
  <2>4. h[i - 1] = At("value", key, w, P)
    BY <1>2, <2>2, <2>3
  <2>5. text[i] \in PlainChars
    BY <1>1
  <2>6. Read(sep, At("value", key, w, P), text[i])
          = At("value", key, Append(w, text[i]), P)
    BY <2>5, ReadsPlain
  <2> QED
    BY <1>2, <2>1, <2>2, <2>3, <2>4, <2>6
<1> QED
  BY <1>1, <1>3, <1>4 DEF Leads

(* A string is quoted, and what is special in quotes is escaped.            *)
EscapedAt(text, i) ==
  IF text[i] \in {Backslash, Quote} THEN <<Backslash, text[i]>> ELSE <<text[i]>>

LEMMA EscapedLeads ==
  ASSUME NEW sep \in Separators, NEW key, NEW P, NEW text \in Seq(Alphabet)
  PROVE  Leads(sep, AtQuoted("quote", key, <<>>, P), Escaped(text),
               AtQuoted("quote", key, text, P))
<1>1. PICK n \in Nat : n = Len(text) /\ DOMAIN text = 1..n
  BY LenProperties
<1>2. \A i \in 1..n : text[i] \in Alphabet
  BY <1>1
<1> DEFINE seqs == [i \in DOMAIN text |-> EscapedAt(text, i)]
<1>3. Escaped(text) = FlattenSeq(seqs)
  BY DEF Escaped, EscapedAt, Backslash, Quote
<1>4. \A i \in 1..n : EscapedAt(text, i) \in Seq(Alphabet)
  BY <1>2, Characters DEF EscapedAt
<1>5. seqs \in [1..n -> Seq(Alphabet)] /\ \A i \in 1..n : seqs[i] = EscapedAt(text, i)
  BY <1>1, <1>4
<1> HIDE DEF seqs
<1>6. PICK f \in [0..n -> Seq(Alphabet)] : Flattens(n, seqs, f)
  BY <1>5, FlattenIs
<1> DEFINE Done(i) == Leads(sep, AtQuoted("quote", key, <<>>, P), f[i],
                            AtQuoted("quote", key, SubSeq(text, 1, i), P))
           Bad == {i \in Nat : i <= n /\ ~Done(i)}
<1>7. Done(0)
  <2>1. f[0] = <<>> /\ SubSeq(text, 1, 0) = <<>>
    BY <1>6, PrefixIs DEF Flattens
  <2> QED
    BY <2>1, LeadsNowhere
<1>8. ASSUME NEW i \in Nat, i + 1 <= n, Done(i)
      PROVE  Done(i + 1)
  <2>1. i + 1 \in 1..n /\ (i + 1) - 1 = i /\ i \in 0..n
    BY <1>8
  <2>2. PICK c \in Alphabet : c = text[i + 1]
    BY <1>2, <2>1
  <2>3. PICK w : w = SubSeq(text, 1, i)
    OBVIOUS
  <2>4. SubSeq(text, 1, i + 1) = Append(w, c)
    BY <1>1, <2>1, <2>2, <2>3, PrefixIs
  <2>5. PICK e \in Seq(Alphabet) : e = EscapedAt(text, i + 1)
    BY <1>4, <2>1
  <2>6. f[i + 1] = f[i] \o e /\ f[i] \in Seq(Alphabet)
    BY <1>5, <1>6, <2>1, <2>5 DEF Flattens
  <2>7. Leads(sep, AtQuoted("quote", key, w, P), e, AtQuoted("quote", key, Append(w, c), P))
    <3>1. CASE c \in {Backslash, Quote}
      <4>1. e = <<Backslash>> \o <<c>>
        BY <2>2, <2>5, <3>1 DEF EscapedAt
      <4>2. Leads(sep, AtQuoted("quote", key, w, P), <<Backslash>>,
                  AtQuoted("escape", key, w, P))
        <5>1. Read(sep, AtQuoted("quote", key, w, P), Backslash)
                = AtQuoted("escape", key, w, P)
          BY ReadsBackslash
        <5> QED
          BY <5>1, LeadsByOne
      <4>3. Leads(sep, AtQuoted("escape", key, w, P), <<c>>,
                  AtQuoted("quote", key, Append(w, c), P))
        <5>1. Read(sep, AtQuoted("escape", key, w, P), c)
                = AtQuoted("quote", key, Append(w, c), P)
          BY ReadsEscaped
        <5> QED
          BY <5>1, LeadsByOne
      <4>4. <<Backslash>> \in Seq(Alphabet) /\ <<c>> \in Seq(Alphabet)
        BY Characters
      <4> QED
        BY <4>1, <4>2, <4>3, <4>4, LeadsOn
    <3>2. CASE c \notin {Backslash, Quote}
      <4>1. e = <<c>>
        BY <2>2, <2>5, <3>2 DEF EscapedAt
      <4>2. Read(sep, AtQuoted("quote", key, w, P), c) = AtQuoted("quote", key, Append(w, c), P)
        BY <3>2, ReadsQuoted
      <4> QED
        BY <4>1, <4>2, LeadsByOne
    <3> QED
      BY <3>1, <3>2
  <2> QED
    BY <1>8, <2>3, <2>4, <2>5, <2>6, <2>7, LeadsOn
<1>9. Bad = {}
  <2>1. 0 \notin Bad
    BY <1>7
  <2>2. \A i \in Nat : i + 1 \in Bad => i \in Bad
    <3> HIDE DEF Done
    <3> QED
      BY <1>1, <1>8
  <2>3. Bad \subseteq Nat
    OBVIOUS
  <2> HIDE DEF Bad
  <2> QED
    BY <2>1, <2>2, <2>3, NoLeast
<1>10. Done(n)
  <2> HIDE DEF Done
  <2> QED
    BY <1>1, <1>9
<1> QED
  BY <1>1, <1>3, <1>6, <1>10, PrefixIs DEF Flattens

(* An entry: its name, and its value as its type has it written.            *)
ValueText(v) ==
  IF v.kind = "string" THEN <<Quote>> \o Escaped(v.text) \o <<Quote>> ELSE v.text

EntryText(key, v) == key \o <<Equals>> \o ValueText(v)

(* The parser after it.                                                     *)
Ended(key, v, P) ==
  IF v.kind = "string" THEN AtQuoted("between", key, v.text, P) ELSE At("value", key, v.text, P)

IsHeld(v) == v.text \in Seq(Alphabet) /\ IsValue(v)

(* Numbers and truth values are written in plain characters.                *)
LEMMA PlainTexts ==
  ASSUME NEW t \in Seq(Alphabet),
         \/ ToSet(t) \subseteq Digits \/ ToSet(t) \subseteq NumberChars \/ t = <<"T">>
  PROVE  \A i \in 1..Len(t) : t[i] \in PlainChars
<1>0. /\ \A i \in 1..Len(t) : t[i] \in ToSet(t)
      /\ Digits \subseteq PlainChars /\ NumberChars \subseteq PlainChars
  <2>1. \A i \in 1..Len(t) : t[i] \in ToSet(t)
    BY DEF ToSet
  <2>2. Digits \subseteq PlainChars /\ NumberChars \subseteq PlainChars
    BY Zenon DEF PlainChars, NumberChars
  <2> QED
    BY <2>1, <2>2
<1>1. CASE ToSet(t) \subseteq Digits
  BY <1>0, <1>1
<1>2. CASE ToSet(t) \subseteq NumberChars
  BY <1>0, <1>2
<1>3. CASE t = <<"T">>
  <2>1. "T" \in PlainChars
    BY Zenon DEF PlainChars
  <2>2. PICK c : c = "T"
    OBVIOUS
  <2>3. Len(t) = 1 /\ t[1] = c
    BY <1>3, <2>2
  <2> QED
    BY <2>1, <2>2, <2>3
<1> QED
  BY <1>1, <1>2, <1>3

LEMMA TruthIsNoNumber == ~IsInt(<<"T">>) /\ ~IsNumber(<<"T">>)
<1>1. PICK t : t = <<"T">>
  OBVIOUS
<1>2. PICK c : c = "T"
  OBVIOUS
<1>3. c \in ToSet(t)
  <2>1. 1 \in DOMAIN t /\ t[1] = c
    BY <1>1, <1>2
  <2> QED
    BY <2>1 DEF ToSet
<1>4. c \notin Digits /\ c \notin NumberChars
  BY <1>2, Zenon DEF Digits, NumberChars
<1>5. ~IsInt(t) /\ ~IsNumber(t)
  BY <1>3, <1>4, Zenon DEF IsInt, IsNumber
<1> QED
  BY <1>1, <1>5

LEMMA HeldIs ==
  ASSUME NEW v, IsHeld(v)
  PROVE  /\ v.kind = "string" => AsRead(v) = TypedQuoted(v.text)
         /\ v.kind # "string" => /\ AsRead(v) = TypedPlain(v.text)
                                /\ \A i \in 1..Len(v.text) : v.text[i] \in PlainChars
<1>1. PICK t : t = v.text
  OBVIOUS
<1>2. PICK k : k = v.kind
  OBVIOUS
<1>3. /\ t \in Seq(Alphabet) /\ v = [text |-> t, kind |-> k]
      /\ \/ k = "string"
         \/ k = "bool" /\ t = <<"T">>
         \/ k = "int" /\ IsInt(t) /\ t = Shortest(t)
         \/ k = "double" /\ IsNumber(t) /\ t = Shortest(t)
  BY <1>1, <1>2, Zenon DEF IsHeld, IsValue
<1>4. ASSUME k = "string"
      PROVE  AsRead(v) = TypedQuoted(t)
  <2>1. v.kind # "double"
    BY <1>2, <1>4
  <2>2. AsRead(v) = v
    BY <2>1, Zenon DEF AsRead
  <2>3. TypedQuoted(t) = [text |-> t, kind |-> "string"]
    BY Zenon DEF TypedQuoted, Typed
  <2> QED
    BY <1>3, <1>4, <2>2, <2>3, Zenon
<1>a. TypedPlain(t) = IF IsInt(t) THEN [text |-> Shortest(t), kind |-> "int"]
                      ELSE IF IsNumber(t) THEN [text |-> Shortest(t), kind |-> "double"]
                      ELSE IF t = <<"T">> THEN [text |-> t, kind |-> "bool"]
                      ELSE [text |-> t, kind |-> "string"]
  BY Zenon DEF TypedPlain, Typed
<1>5. ASSUME k = "bool", t = <<"T">>
      PROVE  AsRead(v) = TypedPlain(t)
  <2>1. v.kind # "double"
    BY <1>2, <1>5
  <2>2. AsRead(v) = v
    BY <2>1, Zenon DEF AsRead
  <2>3. ~IsInt(t) /\ ~IsNumber(t)
    BY <1>5, TruthIsNoNumber
  <2>4. TypedPlain(t) = [text |-> t, kind |-> "bool"]
    BY <1>5, <1>a, <2>3
  <2> QED
    BY <1>3, <1>5, <2>2, <2>4, Zenon
<1>6. ASSUME k = "int", IsInt(t), t = Shortest(t)
      PROVE  AsRead(v) = TypedPlain(t)
  <2>1. v.kind # "double"
    BY <1>2, <1>6
  <2>2. AsRead(v) = v
    BY <2>1, Zenon DEF AsRead
  <2> QED
    BY <1>3, <1>6, <1>a, <2>2
<1>7. ASSUME k = "double", IsNumber(t), t = Shortest(t)
      PROVE  AsRead(v) = TypedPlain(t)
  <2>1. AsRead(v) = IF IsInt(t) THEN [text |-> t, kind |-> "int"] ELSE v
    BY <1>1, <1>2, <1>7, Zenon DEF AsRead
  <2> QED
    BY <1>3, <1>7, <1>a, <2>1
<1>8. ASSUME k # "string"
      PROVE  \A i \in 1..Len(t) : t[i] \in PlainChars
  <2>1. \/ ToSet(t) \subseteq Digits \/ ToSet(t) \subseteq NumberChars \/ t = <<"T">>
    BY <1>3, <1>8, Zenon DEF IsInt, IsNumber
  <2> QED
    BY <1>3, <2>1, PlainTexts
<1>9. k # "string" => AsRead(v) = TypedPlain(t)
  BY <1>3, <1>5, <1>6, <1>7
<1> QED
  BY <1>1, <1>2, <1>4, <1>8, <1>9

LEMMA EndedInsert ==
  ASSUME NEW key, key # <<>>, NEW v, IsHeld(v), NEW P
  PROVE  /\ InsertValue(Ended(key, v, P)).parameters = With(P, key, AsRead(v))
         /\ ~InsertValue(Ended(key, v, P)).error
         /\ ~Ended(key, v, P).error
         /\ Ended(key, v, P).mode \notin {"quote", "escape"}
<1>1. PICK t : t = v.text
  OBVIOUS
<1>2. PICK w : w = With(P, key, AsRead(v))
  OBVIOUS
<1>3. CASE v.kind = "string"
  <2>1. AsRead(v) = TypedQuoted(t)
    BY <1>1, <1>3, HeldIs
  <2>2. InsertValue(AtQuoted("between", key, t, P)) = AtQuoted("between", key, t, w)
    BY <1>2, <2>1, QuotedInsert
  <2>3. Ended(key, v, P) = AtQuoted("between", key, t, P)
    BY <1>1, <1>3 DEF Ended
  <2> QED
    <3>1. AtQuoted("between", key, t, w).parameters = w /\ ~AtQuoted("between", key, t, w).error
      BY DEF AtQuoted, ParserState
    <3>2. ~AtQuoted("between", key, t, P).error
          /\ AtQuoted("between", key, t, P).mode \notin {"quote", "escape"}
      BY DEF AtQuoted, ParserState
    <3> QED
      BY <1>2, <2>2, <2>3, <3>1, <3>2
<1>4. CASE v.kind # "string"
  <2>1. AsRead(v) = TypedPlain(t)
    BY <1>1, <1>4, HeldIs
  <2>2. InsertValue(At("value", key, t, P)) = At("value", key, t, w)
    BY <1>2, <2>1, PlainInsert
  <2>3. Ended(key, v, P) = At("value", key, t, P)
    BY <1>1, <1>4 DEF Ended
  <2> QED
    <3>1. At("value", key, t, w).parameters = w /\ ~At("value", key, t, w).error
      BY DEF At, ParserState
    <3>2. ~At("value", key, t, P).error
          /\ At("value", key, t, P).mode \notin {"quote", "escape"}
      BY DEF At, ParserState
    <3> QED
      BY <1>2, <2>2, <2>3, <3>1, <3>2
<1> QED
  BY <1>3, <1>4

LEMMA EndedSeparator ==
  ASSUME NEW sep \in Separators, NEW key, key # <<>>, NEW v, IsHeld(v), NEW P
  PROVE  Read(sep, Ended(key, v, P), sep) = At("between", <<>>, <<>>, With(P, key, AsRead(v)))
<1>1. PICK t : t = v.text
  OBVIOUS
<1>2. CASE v.kind = "string"
  <2>1. AsRead(v) = TypedQuoted(t)
    BY <1>1, <1>2, HeldIs
  <2>2. Ended(key, v, P) = AtQuoted("between", key, t, P)
    BY <1>1, <1>2 DEF Ended
  <2>3. PICK r : r = AsRead(v)
    OBVIOUS
  <2>4. Read(sep, AtQuoted("between", key, t, P), sep) = At("between", <<>>, <<>>, With(P, key, r))
    BY <2>1, <2>3, QuotedSeparator
  <2> QED
    BY <2>2, <2>3, <2>4
<1>3. CASE v.kind # "string"
  <2>1. AsRead(v) = TypedPlain(t)
    BY <1>1, <1>3, HeldIs
  <2>2. Ended(key, v, P) = At("value", key, t, P)
    BY <1>1, <1>3 DEF Ended
  <2> QED
    <3>1. PICK r : r = AsRead(v)
      OBVIOUS
    <3>2. Read(sep, At("value", key, t, P), sep) = At("between", <<>>, <<>>, With(P, key, r))
      BY <2>1, <3>1, PlainSeparator
    <3> QED
      BY <2>2, <3>1, <3>2
<1> QED
  BY <1>2, <1>3

(* What the texts are made of.                                              *)
Marked(C) == C \subseteq Alphabet /\ WordChars \cup {Equals, Quote, Backslash} \subseteq C

LEMMA SeqInAlphabet ==
  ASSUME NEW C, Marked(C), NEW s \in Seq(C)
  PROVE  s \in Seq(Alphabet)
BY SeqMonotonic DEF Marked

LEMMA EscapedIn ==
  ASSUME NEW C, Marked(C), NEW text \in Seq(C)
  PROVE  Escaped(text) \in Seq(C)
<1>1. PICK n \in Nat : n = Len(text) /\ DOMAIN text = 1..n
  BY LenProperties
<1>2. \A i \in 1..n : text[i] \in C
  BY <1>1
<1> DEFINE seqs == [i \in DOMAIN text |-> EscapedAt(text, i)]
<1>3. Escaped(text) = FlattenSeq(seqs)
  BY DEF Escaped, EscapedAt, Backslash, Quote
<1>4. \A i \in 1..n : EscapedAt(text, i) \in Seq(C)
  BY <1>2 DEF EscapedAt, Marked
<1>5. seqs \in [1..n -> Seq(C)]
  BY <1>1, <1>4
<1> HIDE DEF seqs
<1>6. PICK f \in [0..n -> Seq(C)] : Flattens(n, seqs, f)
  BY <1>5, FlattenIs
<1>7. f[n] \in Seq(C)
  BY <1>1, <1>6
<1> QED
  BY <1>3, <1>6, <1>7 DEF Flattens

LEMMA EntryIn ==
  ASSUME NEW C, Marked(C), NEW key \in Seq(WordChars), NEW v, v.text \in Seq(C)
  PROVE  ValueText(v) \in Seq(C) /\ EntryText(key, v) \in Seq(C)
<1>1. <<Quote>> \in Seq(C) /\ <<Equals>> \in Seq(C)
  BY DEF Marked
<1>2. key \in Seq(C)
  BY SeqMonotonic DEF Marked
<1>3. ValueText(v) \in Seq(C)
  <2>1. CASE v.kind = "string"
    <3>1. PICK e \in Seq(C) : e = Escaped(v.text)
      BY EscapedIn
    <3>2. (<<Quote>> \o e) \o <<Quote>> \in Seq(C)
      BY <1>1, ConcatProperties
    <3> QED
      BY <2>1, <3>1, <3>2 DEF ValueText
  <2>2. CASE v.kind # "string"
    BY <2>2 DEF ValueText
  <2> QED
    BY <2>1, <2>2
<1>4. (key \o <<Equals>>) \o ValueText(v) \in Seq(C)
  BY <1>1, <1>2, <1>3, ConcatProperties
<1> QED
  BY <1>3, <1>4 DEF EntryText

LEMMA EntryLeads ==
  ASSUME NEW sep \in Separators, NEW key \in Seq(WordChars), key # <<>>,
         NEW v, IsHeld(v), NEW P
  PROVE  Leads(sep, At("between", <<>>, <<>>, P), EntryText(key, v), Ended(key, v, P))
<1>0. PICK t \in Seq(Alphabet) : t = v.text
  BY DEF IsHeld
<1>1. <<Quote>> \in Seq(Alphabet) /\ <<Equals>> \in Seq(Alphabet) /\ key \in Seq(Alphabet)
  BY Characters, SeqMonotonic
<1>2. key \o <<Equals>> \in Seq(Alphabet)
  BY <1>1, ConcatProperties
<1>3. Leads(sep, At("between", <<>>, <<>>, P), key \o <<Equals>>, At("value", key, <<>>, P))
  <2>1. Leads(sep, At("between", <<>>, <<>>, P), key, At("key", key, <<>>, P))
    BY KeyLeads
  <2>2. Leads(sep, At("key", key, <<>>, P), <<Equals>>, At("value", key, <<>>, P))
    BY LeadsByOne, ReadsEqual
  <2> QED
    BY <1>1, <2>1, <2>2, LeadsOn
<1>4. ValueText(v) \in Seq(Alphabet)
      /\ Leads(sep, At("value", key, <<>>, P), ValueText(v), Ended(key, v, P))
  <2>1. CASE v.kind = "string"
    <3>1. PICK e : e = Escaped(t)
      OBVIOUS
    <3>2. e \in Seq(Alphabet)
      <4>1. Marked(Alphabet)
        BY Characters DEF Marked
      <4> QED
        BY <3>1, <4>1, EscapedIn
    <3>3. <<Quote>> \o e \in Seq(Alphabet) /\ (<<Quote>> \o e) \o <<Quote>> \in Seq(Alphabet)
      BY <1>1, <3>2, ConcatProperties
    <3>4. Leads(sep, At("value", key, <<>>, P), <<Quote>>, AtQuoted("quote", key, <<>>, P))
      BY LeadsByOne, ReadsOpening
    <3>5. Leads(sep, AtQuoted("quote", key, <<>>, P), e, AtQuoted("quote", key, t, P))
      BY <3>1, EscapedLeads
    <3>6. Leads(sep, AtQuoted("quote", key, t, P), <<Quote>>, AtQuoted("between", key, t, P))
      BY LeadsByOne, ReadsClosing
    <3>7. Leads(sep, At("value", key, <<>>, P), <<Quote>> \o e, AtQuoted("quote", key, t, P))
      BY <1>1, <3>2, <3>4, <3>5, LeadsOn
    <3>8. Leads(sep, At("value", key, <<>>, P), (<<Quote>> \o e) \o <<Quote>>,
                AtQuoted("between", key, t, P))
      BY <1>1, <3>3, <3>6, <3>7, LeadsOn
    <3> QED
      BY <1>0, <2>1, <3>1, <3>3, <3>8 DEF ValueText, Ended
  <2>2. CASE v.kind # "string"
    <3>1. \A i \in 1..Len(t) : t[i] \in PlainChars
      BY <1>0, <2>2, HeldIs
    <3>2. Leads(sep, At("value", key, <<>>, P), t, At("value", key, t, P))
      BY <3>1, PlainLeads
    <3> QED
      BY <1>0, <2>2, <3>2 DEF ValueText, Ended
  <2> QED
    BY <2>1, <2>2
<1> QED
  BY <1>2, <1>3, <1>4, LeadsOn DEF EntryText

-----------------------------------------------------------------------------
(* The text of a map, entry by entry.                                       *)
EntryAt(keys, p, sep, i) ==
  IF i = 1 THEN EntryText(keys[i], p[keys[i]])
  ELSE <<sep>> \o EntryText(keys[i], p[keys[i]])

TextOf(keys, p, sep) == FlattenSeq([i \in DOMAIN keys |-> EntryAt(keys, p, sep, i)])

LEMMA ToTextIs ==
  ASSUME NEW p, NEW sep
  PROVE  ToText(p, sep) = TextOf(SetToSeq(DOMAIN p), p, sep)
BY Zenon DEF ToText, TextOf, EntryAt, EntryText, ValueText, Equals, Quote

(* The entries of the first i names.                                        *)
Upto(keys, p, i) == [k \in {keys[j] : j \in 1..i} |-> p[k]]

LEMMA UptoIs ==
  ASSUME NEW keys, NEW p
  PROVE  /\ Upto(keys, p, 0) = <<>>
         /\ \A i, j \in Nat : i = j + 1 =>
               With(Upto(keys, p, j), keys[i], p[keys[i]]) = Upto(keys, p, i)
<1>1. Upto(keys, p, 0) = <<>>
  <2>1. {keys[j] : j \in 1..0} = {}
    OBVIOUS
  <2>2. PICK u : u = [k \in {} |-> p[k]]
    OBVIOUS
  <2>3. u \in [1..0 -> {}]
    BY <2>2
  <2>4. u \in Seq({}) /\ Len(u) = 0
    BY <2>3
  <2>5. u = <<>>
    BY <2>4, EmptySeq
  <2> QED
    BY <2>1, <2>2, <2>5 DEF Upto
<1>2. ASSUME NEW i \in Nat, NEW j \in Nat, i = j + 1
      PROVE  With(Upto(keys, p, j), keys[i], p[keys[i]]) = Upto(keys, p, i)
  <2>1. PICK K : K = {keys[m] : m \in 1..j}
    OBVIOUS
  <2>2. {keys[m] : m \in 1..i} = K \cup {keys[i]}
    BY <1>2, <2>1
  <2>3. PICK u : u = Upto(keys, p, j)
    OBVIOUS
  <2>4. u = [k \in K |-> p[k]]
    BY <2>1, <2>3 DEF Upto
  <2>5. With(u, keys[i], p[keys[i]]) = [k \in K \cup {keys[i]} |-> p[k]]
    BY <2>4 DEF With
  <2> QED
    BY <2>2, <2>3, <2>5 DEF Upto
<1> QED
  BY <1>1, <1>2

(* A map that the program may hold, whose values are written in C.          *)
Written(C, p) ==
  /\ IsFiniteSet(DOMAIN p) /\ DOMAIN p \subseteq Seq(WordChars) \ {<<>>}
  /\ p = [k \in DOMAIN p |-> p[k]]
  /\ \A k \in DOMAIN p : IsHeld(p[k]) /\ p[k].text \in Seq(C)

(* What is read of it.                                                      *)
Reread(p) == [k \in DOMAIN p |-> AsRead(p[k])]

LEMMA StartIs == ParserStart = At("between", <<>>, <<>>, <<>>)
BY Zenon DEF ParserStart, At, ParserState

LEMMA TextIsRead ==
  ASSUME NEW C, Marked(C), NEW sep \in Separators, sep \in C, NEW p, Written(C, p)
  PROVE  ToText(p, sep) \in Seq(C) /\ ReadsBack(p, sep)
<1>0. PICK D : D = DOMAIN p
  OBVIOUS
<1>r. PICK r : r = Reread(p)
  OBVIOUS
<1>s. r = [k \in D |-> r[k]] /\ \A k \in D : r[k] = AsRead(p[k])
  BY <1>0, <1>r DEF Reread
<1>a. PICK n \in Nat : \E keys \in [1..n -> D] :
         keys = SetToSeq(D) /\ \A d \in D : \E i \in 1..n : keys[i] = d
  BY <1>0, SetToSeqIs DEF Written
<1>b. PICK keys \in [1..n -> D] :
         keys = SetToSeq(D) /\ \A d \in D : \E i \in 1..n : keys[i] = d
  BY <1>a
<1>1. /\ n \in Nat /\ keys \in [1..n -> D] /\ keys = SetToSeq(D)
      /\ \A d \in D : \E i \in 1..n : keys[i] = d
  BY <1>a, <1>b
<1>2. \A i \in 1..n : /\ keys[i] \in Seq(WordChars) /\ keys[i] # <<>>
                      /\ IsHeld(p[keys[i]]) /\ p[keys[i]].text \in Seq(C)
  BY <1>0, <1>1 DEF Written
<1>3. DOMAIN keys = 1..n
  BY <1>1
<1> DEFINE seqs == [i \in DOMAIN keys |-> EntryAt(keys, p, sep, i)]
<1>4. ToText(p, sep) = FlattenSeq(seqs)
  BY <1>0, <1>1, ToTextIs DEF TextOf
<1>5. \A i \in 1..n : /\ EntryText(keys[i], p[keys[i]]) \in Seq(C)
                      /\ EntryAt(keys, p, sep, i) \in Seq(C)
  <2> SUFFICES ASSUME NEW i \in 1..n
               PROVE  /\ EntryText(keys[i], p[keys[i]]) \in Seq(C)
                      /\ EntryAt(keys, p, sep, i) \in Seq(C)
    OBVIOUS
  <2>1. PICK e : e = EntryText(keys[i], p[keys[i]])
    OBVIOUS
  <2>2. e \in Seq(C) /\ <<sep>> \in Seq(C)
    BY <1>2, <2>1, EntryIn
  <2>3. <<sep>> \o e \in Seq(C)
    BY <2>2, ConcatProperties
  <2> QED
    BY <2>1, <2>2, <2>3 DEF EntryAt
<1>6. seqs \in [1..n -> Seq(C)] /\ \A i \in 1..n : seqs[i] = EntryAt(keys, p, sep, i)
  BY <1>3, <1>5
<1> HIDE DEF seqs
<1>7. PICK f \in [0..n -> Seq(C)] : Flattens(n, seqs, f)
  BY <1>6, FlattenIs
<1>8. f[n] = ToText(p, sep) /\ f[n] \in Seq(C)
  BY <1>1, <1>4, <1>7 DEF Flattens
<1>9. PICK start : start = At("between", <<>>, <<>>, <<>>)
  OBVIOUS
<1> DEFINE Done(i) == Leads(sep, start, f[i],
                            IF i = 0 THEN start
                            ELSE Ended(keys[i], p[keys[i]], Upto(keys, r, i - 1)))
           Bad == {i \in Nat : i <= n /\ ~Done(i)}
<1>10. Done(0)
  BY <1>7, LeadsNowhere DEF Flattens
<1>11. ASSUME NEW i \in Nat, i + 1 <= n, Done(i)
       PROVE  Done(i + 1)
  <2>1. i + 1 \in 1..n /\ (i + 1) - 1 = i /\ i \in 0..n /\ i + 1 # 0
    BY <1>1, <1>11
  <2>2. PICK k \in Seq(WordChars) : k = keys[i + 1] /\ k # <<>>
    BY <1>2, <2>1
  <2>3. PICK v : v = p[k]
    OBVIOUS
  <2>4. PICK P : P = Upto(keys, r, i)
    OBVIOUS
  <2>5. PICK e : e = EntryText(k, v)
    OBVIOUS
  <2>6. IsHeld(v) /\ e \in Seq(C)
    BY <1>2, <1>5, <2>1, <2>2, <2>3, <2>5
  <2>7. Leads(sep, At("between", <<>>, <<>>, P), e, Ended(k, v, P))
    BY <2>2, <2>5, <2>6, EntryLeads
  <2>8. e \in Seq(Alphabet) /\ f[i] \in Seq(Alphabet) /\ <<sep>> \in Seq(Alphabet)
    BY <1>7, <2>1, <2>6, SeqInAlphabet DEF Marked
  <2>9. PICK t : t = EntryAt(keys, p, sep, i + 1)
    OBVIOUS
  <2>10. f[i + 1] = f[i] \o t
    BY <1>6, <1>7, <2>1, <2>9 DEF Flattens
  <2>11. CASE i = 0
    <3>1. t = e
      BY <2>2, <2>3, <2>5, <2>9, <2>11 DEF EntryAt
    <3>2. P = <<>>
      BY <1>1, <2>4, <2>11, UptoIs
    <3>3. Leads(sep, start, f[i], start)
      BY <1>11, <2>11
    <3>4. Leads(sep, start, t, Ended(k, v, P))
      BY <1>9, <2>7, <3>1, <3>2
    <3>5. Leads(sep, start, f[i + 1], Ended(k, v, P))
      BY <2>8, <2>10, <3>1, <3>3, <3>4, LeadsOn
    <3> QED
      BY <2>1, <2>2, <2>3, <2>4, <3>5
  <2>12. CASE i # 0
    <3>1. t = <<sep>> \o e
      BY <2>2, <2>3, <2>5, <2>9, <2>12 DEF EntryAt
    <3>2. i \in 1..n
      BY <2>1, <2>12
    <3>3. PICK l : l = keys[i] /\ l # <<>>
      BY <1>2, <3>2
    <3>4. PICK w : w = p[l]
      OBVIOUS
    <3>5. PICK Q : Q = Upto(keys, r, i - 1)
      OBVIOUS
    <3>6. IsHeld(w) /\ With(Q, l, AsRead(w)) = P
      <4>1. i - 1 \in Nat /\ i \in Nat /\ i = (i - 1) + 1
        BY <2>12
      <4>2. With(Upto(keys, r, i - 1), keys[i], r[keys[i]]) = Upto(keys, r, i)
        BY <4>1, UptoIs
      <4>3. r[l] = AsRead(w)
        BY <1>1, <1>s, <3>2, <3>3, <3>4
      <4> QED
        BY <1>2, <2>4, <3>2, <3>3, <3>4, <3>5, <4>2, <4>3
    <3>7. Leads(sep, start, f[i], Ended(l, w, Q))
      BY <1>11, <2>12, <3>3, <3>4, <3>5
    <3>8. Leads(sep, Ended(l, w, Q), <<sep>>, At("between", <<>>, <<>>, P))
      <4>1. Read(sep, Ended(l, w, Q), sep) = At("between", <<>>, <<>>, P)
        BY <3>3, <3>6, EndedSeparator
      <4> QED
        BY <4>1, LeadsByOne
    <3>9. Leads(sep, Ended(l, w, Q), t, Ended(k, v, P))
      BY <2>7, <2>8, <3>1, <3>8, LeadsOn
    <3>10. t \in Seq(Alphabet)
      BY <2>8, <3>1, ConcatProperties
    <3>11. Leads(sep, start, f[i + 1], Ended(k, v, P))
      BY <2>8, <2>10, <3>7, <3>9, <3>10, LeadsOn
    <3> QED
      BY <2>1, <2>2, <2>3, <2>4, <3>11
  <2> QED
    BY <2>11, <2>12
<1>12. Bad = {}
  <2>1. 0 \notin Bad
    BY <1>10
  <2>2. \A i \in Nat : i + 1 \in Bad => i \in Bad
    <3> HIDE DEF Done
    <3> QED
      BY <1>1, <1>11
  <2>3. Bad \subseteq Nat
    OBVIOUS
  <2> HIDE DEF Bad
  <2> QED
    BY <2>1, <2>2, <2>3, NoLeast
<1>13. Done(n)
  <2> HIDE DEF Done
  <2> QED
    <3>1. n \in Nat /\ n <= n
      BY <1>1
    <3> QED
      BY <1>12, <3>1
<1>14. PICK text : text = ToText(p, sep)
  OBVIOUS
<1>15. text \in Seq(C) /\ text \in Seq(Alphabet)
  BY <1>8, <1>14, SeqInAlphabet
<1>16. PICK q : q = FoldOf(text, sep)
  OBVIOUS
<1>17. Leads(sep, start, text, q)
  BY <1>9, <1>15, <1>16, FoldOfText, StartIs
<1>18. /\ q.mode \notin {"quote", "escape"} /\ ~q.error
       /\ ~InsertValue(q).error /\ InsertValue(q).parameters = r
  <2>1. CASE n = 0
    <3>1. Leads(sep, start, text, start)
      BY <1>8, <1>13, <1>14, <2>1
    <3>2. q = ParserStart
      BY <1>9, <1>15, <1>17, <3>1, LeadsToOne, StartIs
    <3>3. r = <<>>
      <4>1. D = {}
        BY <1>1, <2>1
      <4>2. Upto(keys, r, 0) = r
        <5>1. {keys[j] : j \in 1..0} = D
          BY <4>1
        <5> QED
          BY <1>s, <5>1 DEF Upto
      <4> QED
        BY <1>1, <4>2, UptoIs
    <3>4. InsertValue(ParserStart) = ParserStart
      BY DEF InsertValue, ParserStart
    <3> QED
      BY <3>2, <3>3, <3>4 DEF ParserStart
  <2>2. CASE n # 0
    <3>1. n \in 1..n
      BY <1>1, <2>2
    <3>2. PICK k : k = keys[n] /\ k # <<>>
      BY <1>2, <3>1
    <3>3. PICK v : v = p[k]
      OBVIOUS
    <3>4. PICK Q : Q = Upto(keys, r, n - 1)
      OBVIOUS
    <3>5. IsHeld(v)
      BY <1>2, <3>1, <3>2, <3>3
    <3>6. Leads(sep, start, text, Ended(k, v, Q))
      BY <1>8, <1>13, <1>14, <2>2, <3>2, <3>3, <3>4
    <3>7. q = Ended(k, v, Q)
      BY <1>15, <1>17, <3>6, LeadsToOne
    <3>8. With(Q, k, AsRead(v)) = r
      <4>1. With(Q, k, AsRead(v)) = Upto(keys, r, n)
        <5>1. n - 1 \in Nat /\ n \in Nat /\ n = (n - 1) + 1
          BY <1>1, <2>2
        <5>2. With(Upto(keys, r, n - 1), keys[n], r[keys[n]]) = Upto(keys, r, n)
          BY <5>1, UptoIs
        <5>3. r[k] = AsRead(v)
          BY <1>1, <1>s, <3>1, <3>2, <3>3
        <5> QED
          BY <3>2, <3>3, <3>4, <5>2, <5>3
      <4>2. {keys[j] : j \in 1..n} = D
        BY <1>1
      <4>3. Upto(keys, r, n) = r
        BY <1>s, <4>2 DEF Upto
      <4> QED
        BY <4>1, <4>3
    <3> QED
      BY <3>2, <3>5, <3>7, <3>8, EndedInsert
  <2> QED
    BY <2>1, <2>2
<1>19. FromText(text, sep) = InsertValue(q)
  BY <1>16, <1>18 DEF FromText, FoldOf
<1> QED
  BY <1>r, <1>14, <1>15, <1>18, <1>19 DEF ReadsBack, Reread

(* The options of the program are such maps.                                *)
LEMMA OptionsAreWritten ==
  ASSUME NEW p \in ParameterMaps
  PROVE  Written(Alphabet, p)
<1> DEFINE Kinds == {"string", "bool", "int", "double"}
           Values == {v \in [text : Texts, kind : Kinds] : IsValue(v)}
<1>1. PICK K \in SUBSET Keys : IsFiniteSet(K) /\ p \in [K -> Values]
  BY DEF ParameterMaps
<1>2. DOMAIN p = K /\ p = [k \in DOMAIN p |-> p[k]] /\ \A k \in K : p[k] \in Values
  <2> HIDE DEF Values
  <2> QED
    BY <1>1
<1>3. K \subseteq Seq(WordChars) \ {<<>>}
  BY <1>1, TextsAssumption
<1>4. ASSUME NEW k \in K
      PROVE  IsHeld(p[k]) /\ p[k].text \in Seq(Alphabet)
  <2>1. PICK v : v = p[k]
    OBVIOUS
  <2>2. v \in [text : Texts, kind : Kinds] /\ IsValue(v)
    BY <1>2, <2>1
  <2>3. v.text \in Texts
    BY <2>2
  <2>4. v.text \in Seq(Alphabet)
    <3>1. v.text \in Seq(STRING) /\ STRING \subseteq Alphabet
      BY <2>3, TextsAssumption, Zenon DEF Alphabet
    <3> QED
      BY <3>1, SeqMonotonic
  <2> QED
    BY <2>1, <2>2, <2>4, Zenon DEF IsHeld
<1> QED
  BY <1>1, <1>2, <1>3, <1>4 DEF Written

LEMMA AlphabetIsMarked == Marked(Alphabet)
BY Characters DEF Marked

LEMMA EveryOptionIsReadBack ==
  ASSUME NEW scheme \in Schemes
  PROVE  OptionsReadBack[scheme]
<1>1. ASSUME NEW p \in ParameterMaps, NEW sep \in Separators
      PROVE  ReadsBack(p, sep)
  BY Characters, AlphabetIsMarked, OptionsAreWritten, TextIsRead
<1>2. OptionsOf[scheme] \subseteq ParameterMaps
  BY DEF OptionsOf
<1>3. \A p \in OptionsOf[scheme], sep \in {",", " "} : ReadsBack(p, sep)
  BY <1>1, <1>2, Zenon DEF Separators
<1> QED
  BY <1>3, Zenon DEF OptionsReadBack

-----------------------------------------------------------------------------
(* The parser of schemes, between two characters.                           *)
SchemeState(mode, name, arguments, result, used, error) ==
  [mode |-> mode, name |-> name, arguments |-> arguments, result |-> result,
   used |-> used, error |-> error]

SchemeAt(mode, name, arguments, result, used) ==
  SchemeState(mode, name, arguments, result, used, FALSE)

LEMMA SchemeFields ==
  ASSUME NEW mode, NEW name, NEW arguments, NEW result, NEW used, NEW s,
         s = SchemeAt(mode, name, arguments, result, used)
  PROVE  /\ s.mode = mode /\ s.name = name /\ s.arguments = arguments /\ s.result = result
         /\ s.used = used /\ ~s.error
BY DEF SchemeAt, SchemeState

LEMMA ReadsLiteral ==
  ASSUME NEW R, NEW U, NEW c, c # DollarSign, c # Backslash
  PROVE  Read("scheme", SchemeAt("text", <<>>, <<>>, R, U), c)
           = SchemeAt("text", <<>>, <<>>, Append(R, Literal(c)), U)
BY DEF Read, ReadSchemeChar, InText, SchemeAt, SchemeState, DollarSign, Backslash

LEMMA ReadsEscape ==
  ASSUME NEW R, NEW U
  PROVE  Read("scheme", SchemeAt("text", <<>>, <<>>, R, U), Backslash)
           = SchemeAt("escape", <<>>, <<>>, R, U)
BY DEF Read, ReadSchemeChar, InText, SchemeAt, SchemeState, DollarSign, Backslash

LEMMA ReadsEscapedDollar ==
  ASSUME NEW R, NEW U
  PROVE  Read("scheme", SchemeAt("escape", <<>>, <<>>, R, U), DollarSign)
           = SchemeAt("text", <<>>, <<>>, Append(R, Literal(DollarSign)), U)
BY DEF Read, ReadSchemeChar, InText, SchemeAt, SchemeState, DollarSign, Backslash

LEMMA ReadsDollar ==
  ASSUME NEW R, NEW U
  PROVE  Read("scheme", SchemeAt("text", <<>>, <<>>, R, U), DollarSign)
           = SchemeAt("name", <<>>, <<>>, R, U)
BY DEF Read, ReadSchemeChar, InText, SchemeAt, SchemeState, DollarSign

LEMMA ReadsOpenBrace ==
  ASSUME NEW R, NEW U
  PROVE  Read("scheme", SchemeAt("name", <<>>, <<>>, R, U), OpenBrace)
           = SchemeAt("brace", <<>>, <<>>, R, U)
BY DEF Read, ReadSchemeChar, InBareName, SchemeAt, SchemeState, OpenBrace

LEMMA ReadsName ==
  ASSUME NEW mode \in {"name", "brace"}, NEW name, NEW R, NEW U, NEW c \in WordChars
  PROVE  Read("scheme", SchemeAt(mode, name, <<>>, R, U), c)
           = SchemeAt(mode, Append(name, c), <<>>, R, U)
<1>1. c # "{"
  BY SchemeCharacters, Zenon DEF OpenBrace
<1>2. CASE mode = "name"
  BY <1>1, <1>2 DEF Read, ReadSchemeChar, InBareName, SchemeAt, SchemeState
<1>3. CASE mode = "brace"
  BY <1>3 DEF Read, ReadSchemeChar, InBraces, SchemeAt, SchemeState
<1> QED
  BY <1>2, <1>3

Updated(s, mode, name, result, used) ==
  [s EXCEPT !.mode = mode, !.name = name, !.result = result, !.used = used]

LEMMA UpdatedIs ==
  ASSUME NEW m, NEW n, NEW a, NEW r, NEW u, NEW mode, NEW name, NEW R, NEW U
  PROVE  Updated(SchemeAt(m, n, a, r, u), mode, name, R, U) = SchemeAt(mode, name, a, R, U)
<1>1. ASSUME NEW e
      PROVE  Updated(SchemeState(m, n, a, r, u, e), mode, name, R, U)
               = SchemeState(mode, name, a, R, U, e)
  <2>1. [SchemeState(m, n, a, r, u, e) EXCEPT !.mode = mode] = SchemeState(mode, n, a, r, u, e)
    BY DEF SchemeState
  <2>2. [SchemeState(mode, n, a, r, u, e) EXCEPT !.name = name]
          = SchemeState(mode, name, a, r, u, e)
    BY DEF SchemeState
  <2>3. [SchemeState(mode, name, a, r, u, e) EXCEPT !.result = R]
          = SchemeState(mode, name, a, R, u, e)
    BY DEF SchemeState
  <2>4. [SchemeState(mode, name, a, R, u, e) EXCEPT !.used = U]
          = SchemeState(mode, name, a, R, U, e)
    BY DEF SchemeState
  <2> QED
    BY <2>1, <2>2, <2>3, <2>4 DEF Updated
<1> QED
  BY <1>1, Zenon DEF SchemeAt

LEMMA EndNameIs ==
  ASSUME NEW mode, NEW name, NEW R, NEW U
  PROVE  EndName(SchemeAt(mode, name, <<>>, R, U))
           = SchemeAt("text", <<>>, <<>>, R \o Expansion(name, <<>>), U \cup {name})
<1>1. PICK r : r = R \o Expansion(name, <<>>)
  OBVIOUS
<1>2. PICK s : s = SchemeAt(mode, name, <<>>, R, U)
  OBVIOUS
<1>3. EndName(s) = Updated(s, "text", <<>>, r, U \cup {name})
  <2>1. s.name = name /\ s.result = R /\ s.used = U
    BY <1>2, SchemeFields
  <2>2. EndName(s) = Updated(s, "text", <<>>, s.result \o Expansion(s.name, <<>>),
                             s.used \cup {s.name})
    BY Zenon DEF EndName, Updated
  <2> QED
    BY <1>1, <2>1, <2>2
<1> QED
  BY <1>1, <1>2, <1>3, UpdatedIs

LEMMA ReadsEndOfName ==
  ASSUME NEW name, name # <<>>, NEW R, NEW U, NEW c, c \notin WordChars
  PROVE  Read("scheme", SchemeAt("name", name, <<>>, R, U), c)
           = SchemeAt("text", <<>>, <<>>,
                      Append(R \o Expansion(name, <<>>), Literal(c)), U \cup {name})
<1>1. PICK r : r = R \o Expansion(name, <<>>)
  OBVIOUS
<1>2. PICK s : s = SchemeAt("name", name, <<>>, R, U)
  OBVIOUS
<1>3. EndName(s) = SchemeAt("text", <<>>, <<>>, r, U \cup {name})
  BY <1>1, <1>2, EndNameIs
<1>4. /\ s.mode = "name" /\ s.name = name /\ ~s.error
      /\ EndName(s).mode = "text" /\ EndName(s).name = <<>> /\ EndName(s).result = r
      /\ EndName(s).used = U \cup {name}
  BY <1>2, <1>3, SchemeFields
<1>5. Read("scheme", s, c) = [EndName(s) EXCEPT !.result = Append(@, Literal(c))]
  BY <1>4, Zenon DEF Read, ReadSchemeChar, InBareName
<1>6. [EndName(s) EXCEPT !.result = Append(@, Literal(c))]
        = Updated(EndName(s), "text", <<>>, Append(r, Literal(c)), U \cup {name})
  BY <1>3, <1>4 DEF Updated, SchemeAt, SchemeState
<1> QED
  BY <1>1, <1>2, <1>3, <1>5, <1>6, UpdatedIs

LEMMA ReadsEndOfBraces ==
  ASSUME NEW name, NEW R, NEW U
  PROVE  Read("scheme", SchemeAt("brace", name, <<>>, R, U), CloseBrace)
           = SchemeAt("text", <<>>, <<>>, R \o Expansion(name, <<>>), U \cup {name})
BY SchemeCharacters, EndNameIs
   DEF Read, ReadSchemeChar, InBraces, SchemeAt, SchemeState, CloseBrace

LEMMA ReadsSpace ==
  ASSUME NEW name, name # <<>>, NEW R, NEW U
  PROVE  Read("scheme", SchemeAt("brace", name, <<>>, R, U), Space)
           = SchemeAt("arguments", name, <<>>, R, U)
BY SchemeCharacters
   DEF Read, ReadSchemeChar, InBraces, SchemeAt, SchemeState, Space, SpaceChars, CloseBrace

LEMMA ReadsArgument ==
  ASSUME NEW name, NEW arguments, NEW R, NEW U, NEW c, c # CloseBrace
  PROVE  Read("scheme", SchemeAt("arguments", name, arguments, R, U), c)
           = SchemeAt("arguments", name, Append(arguments, c), R, U)
BY DEF Read, ReadSchemeChar, InArguments, SchemeAt, SchemeState, CloseBrace

Yields(text, p) == ~FromText(text, Space).error /\ FromText(text, Space).parameters = p

LEMMA ReadsEndOfArguments ==
  ASSUME NEW name \in Placeholders, NEW arguments, NEW R, NEW U, NEW p, Yields(arguments, p)
  PROVE  Read("scheme", SchemeAt("arguments", name, arguments, R, U), CloseBrace)
           = SchemeAt("text", <<>>, <<>>, R \o Expansion(name, p), U \cup {name})
BY DEF Read, ReadSchemeChar, InArguments, SchemeAt, SchemeState, CloseBrace, Space, Yields

(* Once it has failed, or has parameters of a name without a value, the     *)
(* parser is done with the text: it returns nothing.                        *)
SchemeFailed(mode, name, arguments, result, used) ==
  SchemeState(mode, name, arguments, result, used, TRUE)

Stuck(q, U) ==
  \E mode, name, arguments, result :
     \/ q = SchemeFailed(mode, name, arguments, result, U)
     \/ /\ q = SchemeAt("arguments", name, arguments, result, U)
        /\ name \notin Placeholders /\ name \in U

LEMMA FailedFields ==
  ASSUME NEW mode, NEW name, NEW arguments, NEW result, NEW used, NEW s,
         s = SchemeFailed(mode, name, arguments, result, used)
  PROVE  s.error /\ s.used = used /\ s.result = result
BY DEF SchemeFailed, SchemeState

LEMMA ReadsBadArguments ==
  ASSUME NEW name, NEW arguments, NEW R, NEW U,
         FromText(arguments, Space).error
  PROVE  Read("scheme", SchemeAt("arguments", name, arguments, R, U), CloseBrace)
           = SchemeFailed("arguments", name, arguments, R, U)
BY DEF Read, ReadSchemeChar, InArguments, SchemeAt, SchemeFailed, SchemeState, CloseBrace, Space

LEMMA ReadsArgumentsOfOther ==
  ASSUME NEW name, name \notin Placeholders, NEW arguments, NEW R, NEW U,
         ~FromText(arguments, Space).error
  PROVE  Read("scheme", SchemeAt("arguments", name, arguments, R, U), CloseBrace)
           = SchemeAt("arguments", name, arguments, R, U \cup {name})
BY DEF Read, ReadSchemeChar, InArguments, SchemeAt, SchemeState, CloseBrace, Space

LEMMA StuckStays ==
  ASSUME NEW q, NEW U, Stuck(q, U), NEW c
  PROVE  Stuck(Read("scheme", q, c), U)
<1>1. PICK mode, name, arguments, result :
         \/ q = SchemeFailed(mode, name, arguments, result, U)
         \/ /\ q = SchemeAt("arguments", name, arguments, result, U)
            /\ name \notin Placeholders /\ name \in U
  BY DEF Stuck
<1>2. CASE q = SchemeFailed(mode, name, arguments, result, U)
  <2>1. q.error
    BY <1>2, FailedFields
  <2>2. Read("scheme", q, c) = q
    BY <2>1, Zenon DEF Read, ReadSchemeChar
  <2> QED
    BY <2>2
<1>3. CASE /\ q = SchemeAt("arguments", name, arguments, result, U)
           /\ name \notin Placeholders /\ name \in U
  <2>1. CASE c # CloseBrace
    <3>1. Read("scheme", q, c) = SchemeAt("arguments", name, Append(arguments, c), result, U)
      BY <1>3, <2>1, ReadsArgument
    <3> QED
      BY <1>3, <3>1 DEF Stuck
  <2>2. CASE c = CloseBrace /\ FromText(arguments, Space).error
    <3>1. Read("scheme", q, c) = SchemeFailed("arguments", name, arguments, result, U)
      BY <1>3, <2>2, ReadsBadArguments
    <3> QED
      BY <3>1 DEF Stuck
  <2>3. CASE c = CloseBrace /\ ~FromText(arguments, Space).error
    <3>1. Read("scheme", q, c) = SchemeAt("arguments", name, arguments, result, U \cup {name})
      BY <1>3, <2>3, ReadsArgumentsOfOther
    <3>2. U \cup {name} = U
      BY <1>3
    <3>3. Read("scheme", q, c) = SchemeAt("arguments", name, arguments, result, U)
      BY <3>1, <3>2
    <3> QED
      BY <1>3, <3>3 DEF Stuck
  <2> QED
    BY <2>1, <2>2, <2>3
<1> QED
  BY <1>1, <1>2, <1>3

LEMMA StuckLeads ==
  ASSUME NEW q, NEW U, Stuck(q, U), NEW s \in Seq(Alphabet)
  PROVE  \E r : Leads("scheme", q, s, r) /\ Stuck(r, U)
<1>1. PICK g : Folds("scheme", q, s, g)
  BY FoldExists
<1>2. PICK r : Leads("scheme", q, s, r)
  BY <1>1, FoldLeads
<1>3. PICK h : /\ h[0] = q /\ h[Len(s)] = r
               /\ \A i \in 1..Len(s) : h[i] = Read("scheme", h[i - 1], s[i])
  BY <1>2 DEF Leads
<1>4. PICK n \in Nat : n = Len(s)
  BY LenProperties
<1> DEFINE Bad == {i \in Nat : i <= n /\ ~Stuck(h[i], U)}
<1>5. 0 \notin Bad
  BY <1>3
<1>6. ASSUME NEW i \in Nat, i + 1 <= n, Stuck(h[i], U)
      PROVE  Stuck(h[i + 1], U)
  <2>1. i + 1 \in 1..Len(s) /\ (i + 1) - 1 = i
    BY <1>4, <1>6
  <2>2. PICK c : c = s[i + 1]
    OBVIOUS
  <2>3. h[i + 1] = Read("scheme", h[i], c)
    BY <1>3, <2>1, <2>2
  <2> QED
    BY <1>6, <2>3, StuckStays
<1>7. Bad = {}
  <2>1. Bad \subseteq Nat /\ \A i \in Nat : i + 1 \in Bad => i \in Bad
    BY <1>6
  <2> HIDE DEF Bad
  <2> QED
    BY <1>5, <2>1, NoLeast
<1>8. Stuck(h[n], U)
  BY <1>7
<1> QED
  BY <1>2, <1>3, <1>4, <1>8

(* A name and the text of parameters are read as they stand.                *)
Words == Seq(WordChars) \ {<<>>}

LEMMA NameLeads ==
  ASSUME NEW mode \in {"name", "brace"}, NEW w \in Seq(WordChars), NEW R, NEW U
  PROVE  Leads("scheme", SchemeAt(mode, <<>>, <<>>, R, U), w, SchemeAt(mode, w, <<>>, R, U))
<1>1. PICK n \in Nat : n = Len(w)
  BY LenProperties
<1> DEFINE h == [i \in 0..n |-> SchemeAt(mode, SubSeq(w, 1, i), <<>>, R, U)]
<1>2. \A i \in 0..n : h[i] = SchemeAt(mode, SubSeq(w, 1, i), <<>>, R, U)
  OBVIOUS
<1> HIDE DEF h
<1>3. h[0] = SchemeAt(mode, <<>>, <<>>, R, U) /\ h[n] = SchemeAt(mode, w, <<>>, R, U)
  <2>1. 0 \in 0..n /\ n \in 0..n
    BY <1>1
  <2>2. SubSeq(w, 1, 0) = <<>> /\ SubSeq(w, 1, n) = w
    BY <1>1, PrefixIs
  <2> QED
    BY <1>2, <2>1, <2>2
<1>4. ASSUME NEW i \in 1..n
      PROVE  h[i] = Read("scheme", h[i - 1], w[i])
  <2>1. SubSeq(w, 1, i) = Append(SubSeq(w, 1, i - 1), w[i])
    BY <1>1, PrefixIs
  <2>2. PICK v : v = SubSeq(w, 1, i - 1)
    OBVIOUS
  <2>3. i - 1 \in 0..n /\ i \in 0..n
    BY <1>1
  <2>4. h[i - 1] = SchemeAt(mode, v, <<>>, R, U)
    BY <1>2, <2>2, <2>3
  <2>5. w[i] \in WordChars
    BY <1>1
  <2>6. Read("scheme", SchemeAt(mode, v, <<>>, R, U), w[i])
          = SchemeAt(mode, Append(v, w[i]), <<>>, R, U)
    BY <2>5, ReadsName
  <2> QED
    BY <1>2, <2>1, <2>2, <2>3, <2>4, <2>6
<1> QED
  BY <1>1, <1>3, <1>4 DEF Leads

Braceless == Alphabet \ {CloseBrace}

LEMMA ArgumentsLead ==
  ASSUME NEW name, NEW t \in Seq(Braceless), NEW R, NEW U
  PROVE  Leads("scheme", SchemeAt("arguments", name, <<>>, R, U), t,
               SchemeAt("arguments", name, t, R, U))
<1>1. PICK n \in Nat : n = Len(t)
  BY LenProperties
<1> DEFINE h == [i \in 0..n |-> SchemeAt("arguments", name, SubSeq(t, 1, i), R, U)]
<1>2. \A i \in 0..n : h[i] = SchemeAt("arguments", name, SubSeq(t, 1, i), R, U)
  OBVIOUS
<1> HIDE DEF h
<1>3. h[0] = SchemeAt("arguments", name, <<>>, R, U) /\ h[n] = SchemeAt("arguments", name, t, R, U)
  <2>1. 0 \in 0..n /\ n \in 0..n
    BY <1>1
  <2>2. SubSeq(t, 1, 0) = <<>> /\ SubSeq(t, 1, n) = t
    BY <1>1, PrefixIs
  <2> QED
    BY <1>2, <2>1, <2>2
<1>4. ASSUME NEW i \in 1..n
      PROVE  h[i] = Read("scheme", h[i - 1], t[i])
  <2>1. SubSeq(t, 1, i) = Append(SubSeq(t, 1, i - 1), t[i])
    BY <1>1, PrefixIs
  <2>2. PICK v : v = SubSeq(t, 1, i - 1)
    OBVIOUS
  <2>3. i - 1 \in 0..n /\ i \in 0..n
    BY <1>1
  <2>4. h[i - 1] = SchemeAt("arguments", name, v, R, U)
    BY <1>2, <2>2, <2>3
  <2>5. t[i] # CloseBrace
    BY <1>1 DEF Braceless
  <2>6. Read("scheme", SchemeAt("arguments", name, v, R, U), t[i])
          = SchemeAt("arguments", name, Append(v, t[i]), R, U)
    BY <2>5, ReadsArgument
  <2> QED
    BY <1>2, <2>1, <2>2, <2>3, <2>4, <2>6
<1> QED
  BY <1>1, <1>3, <1>4 DEF Leads

-----------------------------------------------------------------------------
(* The parser has read pieces whose values are R and whose placeholders are *)
(* U; the last of them may be a name that goes on.                          *)
Settled(q, R, U) == q = SchemeAt("text", <<>>, <<>>, R, U)

Pending(q, R, U) ==
  \E name \in Words : \E r, u :
     /\ q = SchemeAt("name", name, <<>>, r, u)
     /\ R = r \o Expansion(name, <<>>) /\ U = u \cup {name}

(* The parameters that are read of a scheme.                                *)
Readable ==
  Arguments \cup {<<>>} \cup {FromText(text, Space).parameters : text \in ArgumentTexts}

(* The pieces of a scheme, from a state in which no name is pending.        *)
LEMMA LiteralIsChar ==
  ASSUME NEW c \in Literals
  PROVE  /\ c \in Alphabet /\ c # DollarSign /\ c # Backslash
         /\ Char(c).text = <<c>> /\ Char(c).value = <<Literal(c)>> /\ Char(c).used = {}
         /\ ~Char(c).fails
<1>1. c \in STRING /\ c # "$" /\ c # "\\"
  BY SchemeAssumption, Zenon
<1>2. c # DollarSign /\ c # Backslash
  BY <1>1, Zenon DEF DollarSign, Backslash
<1>3. c \in Alphabet
  BY <1>1, Characters, Zenon
<1>4. /\ Char(c).text = <<c>> /\ Char(c).value = <<Literal(c)>> /\ Char(c).used = {}
      /\ ~Char(c).fails
  BY DEF Char
<1> QED
  BY <1>2, <1>3, <1>4

LEMMA NamesAreWords ==
  ASSUME NEW name \in Placeholders \cup OtherNames
  PROVE  name \in Words /\ name \in Seq(WordChars) /\ name # <<>> /\ name \in Seq(Alphabet)
<1>1. name \in Seq(WordChars) /\ name # <<>>
  BY SchemeAssumption, Zenon
<1>2. name \in Seq(Alphabet)
  BY <1>1, Characters, SeqMonotonic
<1> QED
  BY <1>1, <1>2 DEF Words

LEMMA CharLeads ==
  ASSUME NEW c \in Literals, NEW R, NEW U
  PROVE  Leads("scheme", SchemeAt("text", <<>>, <<>>, R, U), Char(c).text,
               SchemeAt("text", <<>>, <<>>, Append(R, Literal(c)), U))
<1>1. c # DollarSign /\ c # Backslash /\ Char(c).text = <<c>>
  BY LiteralIsChar
<1>2. Read("scheme", SchemeAt("text", <<>>, <<>>, R, U), c)
        = SchemeAt("text", <<>>, <<>>, Append(R, Literal(c)), U)
  BY <1>1, ReadsLiteral
<1> QED
  BY <1>1, <1>2, LeadsByOne

LEMMA CharEndsName ==
  ASSUME NEW c \in Literals, c \notin WordChars, NEW name, name # <<>>, NEW R, NEW U
  PROVE  Leads("scheme", SchemeAt("name", name, <<>>, R, U), Char(c).text,
               SchemeAt("text", <<>>, <<>>,
                        Append(R \o Expansion(name, <<>>), Literal(c)), U \cup {name}))
<1>1. Char(c).text = <<c>>
  BY LiteralIsChar
<1>2. Read("scheme", SchemeAt("name", name, <<>>, R, U), c)
        = SchemeAt("text", <<>>, <<>>,
                   Append(R \o Expansion(name, <<>>), Literal(c)), U \cup {name})
  BY ReadsEndOfName
<1> QED
  BY <1>1, <1>2, LeadsByOne

LEMMA PairIs ==
  ASSUME NEW S, NEW x \in S, NEW y \in S
  PROVE  <<x, y>> = <<x>> \o <<y>>
<1>0. <<x>> \in Seq(S) /\ <<y>> \in Seq(S) /\ <<x, y>> \in Seq(S)
  OBVIOUS
<1>1. PICK s \in Seq(S) : s = <<x>>
  BY <1>0
<1>2. PICK t \in Seq(S) : t = <<y>>
  BY <1>0
<1>3. PICK u \in Seq(S) : u = <<x, y>>
  BY <1>0
<1>4. PICK v \in Seq(S) : v = s \o t
  BY ConcatProperties
<1>5. Len(s) = 1 /\ s[1] = x /\ Len(t) = 1 /\ t[1] = y
  BY <1>1, <1>2
<1>6. Len(u) = 2 /\ u[1] = x /\ u[2] = y
  BY <1>3
<1>7. Len(v) = 2 /\ v[1] = x /\ v[2] = y
  BY <1>4, <1>5, ConcatProperties
<1>8. \A i \in 1..Len(u) : u[i] = v[i]
  BY <1>6, <1>7
<1>9. u = v
  BY <1>6, <1>7, <1>8, SeqEqual
<1> QED
  BY <1>1, <1>2, <1>3, <1>4, <1>9

LEMMA SpecialsAreTexts ==
  /\ <<DollarSign>> \in Seq(Alphabet) /\ <<OpenBrace>> \in Seq(Alphabet)
  /\ <<CloseBrace>> \in Seq(Alphabet) /\ <<Space>> \in Seq(Alphabet)
  /\ <<Backslash>> \in Seq(Alphabet)
BY Characters

LEMMA DollarLeads ==
  ASSUME NEW R, NEW U
  PROVE  /\ Dollar.text \in Seq(Alphabet)
         /\ Dollar.value = <<Literal(DollarSign)>> /\ Dollar.used = {} /\ ~Dollar.fails
         /\ Leads("scheme", SchemeAt("text", <<>>, <<>>, R, U), Dollar.text,
                  SchemeAt("text", <<>>, <<>>, Append(R, Literal(DollarSign)), U))
<1>1. Dollar.text = <<Backslash, DollarSign>>
  BY Zenon DEF Dollar, Backslash, DollarSign
<1>2. Dollar.value = <<Literal(DollarSign)>> /\ Dollar.used = {} /\ ~Dollar.fails
  BY Zenon DEF Dollar, DollarSign
<1>3. Dollar.text = <<Backslash>> \o <<DollarSign>>
  BY <1>1, Characters, PairIs
<1>4. Leads("scheme", SchemeAt("text", <<>>, <<>>, R, U), <<Backslash>>,
            SchemeAt("escape", <<>>, <<>>, R, U))
  BY ReadsEscape, LeadsByOne
<1>5. Leads("scheme", SchemeAt("escape", <<>>, <<>>, R, U), <<DollarSign>>,
            SchemeAt("text", <<>>, <<>>, Append(R, Literal(DollarSign)), U))
  BY ReadsEscapedDollar, LeadsByOne
<1>6. <<Backslash>> \o <<DollarSign>> \in Seq(Alphabet)
  BY SpecialsAreTexts, ConcatProperties
<1> QED
  BY <1>2, <1>3, <1>4, <1>5, <1>6, SpecialsAreTexts, LeadsOn

LEMMA BareLeads ==
  ASSUME NEW name \in Placeholders \cup OtherNames, NEW R, NEW U
  PROVE  /\ Bare(name).text \in Seq(Alphabet)
         /\ Bare(name).value = Expansion(name, <<>>) /\ Bare(name).used = {name}
         /\ ~Bare(name).fails
         /\ Leads("scheme", SchemeAt("text", <<>>, <<>>, R, U), Bare(name).text,
                  SchemeAt("name", name, <<>>, R, U))
<1>1. Bare(name).text = <<DollarSign>> \o name
  BY Zenon DEF Bare, DollarSign
<1>2. /\ Bare(name).value = Expansion(name, <<>>) /\ Bare(name).used = {name}
      /\ ~Bare(name).fails
  BY Zenon DEF Bare
<1>3. Leads("scheme", SchemeAt("text", <<>>, <<>>, R, U), <<DollarSign>>,
            SchemeAt("name", <<>>, <<>>, R, U))
  BY ReadsDollar, LeadsByOne
<1>4. Leads("scheme", SchemeAt("name", <<>>, <<>>, R, U), name,
            SchemeAt("name", name, <<>>, R, U))
  BY NamesAreWords, NameLeads
<1>5. <<DollarSign>> \o name \in Seq(Alphabet)
  BY SpecialsAreTexts, NamesAreWords, ConcatProperties
<1>6. Leads("scheme", SchemeAt("text", <<>>, <<>>, R, U), <<DollarSign>> \o name,
            SchemeAt("name", name, <<>>, R, U))
  BY <1>3, <1>4, SpecialsAreTexts, NamesAreWords, LeadsOn
<1> QED
  BY <1>1, <1>2, <1>5, <1>6

(* The text before the parameters, or before the brace that closes.         *)
Opening(name) == <<DollarSign, OpenBrace>> \o name

LEMMA OpeningLeads ==
  ASSUME NEW name \in Placeholders \cup OtherNames, NEW R, NEW U
  PROVE  /\ Opening(name) \in Seq(Alphabet)
         /\ Leads("scheme", SchemeAt("text", <<>>, <<>>, R, U), Opening(name),
                  SchemeAt("brace", name, <<>>, R, U))
<1>1. <<DollarSign, OpenBrace>> = <<DollarSign>> \o <<OpenBrace>>
  BY Characters, PairIs
<1>2. PICK t : t = <<DollarSign, OpenBrace>>
  OBVIOUS
<1>3. t \in Seq(Alphabet)
  BY <1>1, <1>2, SpecialsAreTexts, ConcatProperties
<1>4. Leads("scheme", SchemeAt("text", <<>>, <<>>, R, U), <<DollarSign>>,
            SchemeAt("name", <<>>, <<>>, R, U))
  BY ReadsDollar, LeadsByOne
<1>5. Leads("scheme", SchemeAt("name", <<>>, <<>>, R, U), <<OpenBrace>>,
            SchemeAt("brace", <<>>, <<>>, R, U))
  BY ReadsOpenBrace, LeadsByOne
<1>6. Leads("scheme", SchemeAt("text", <<>>, <<>>, R, U), t,
            SchemeAt("brace", <<>>, <<>>, R, U))
  BY <1>1, <1>2, <1>4, <1>5, SpecialsAreTexts, LeadsOn
<1>7. Leads("scheme", SchemeAt("brace", <<>>, <<>>, R, U), name,
            SchemeAt("brace", name, <<>>, R, U))
  BY NamesAreWords, NameLeads
<1>8. t \o name \in Seq(Alphabet)
  BY <1>3, NamesAreWords, ConcatProperties
<1>9. Leads("scheme", SchemeAt("text", <<>>, <<>>, R, U), t \o name,
            SchemeAt("brace", name, <<>>, R, U))
  BY <1>3, <1>6, <1>7, NamesAreWords, LeadsOn
<1> QED
  BY <1>2, <1>8, <1>9 DEF Opening

LEMMA BracedLeads ==
  ASSUME NEW name \in Placeholders \cup OtherNames, NEW R, NEW U
  PROVE  /\ Braced(name).text \in Seq(Alphabet)
         /\ Braced(name).value = Expansion(name, <<>>) /\ Braced(name).used = {name}
         /\ ~Braced(name).fails
         /\ Leads("scheme", SchemeAt("text", <<>>, <<>>, R, U), Braced(name).text,
                  SchemeAt("text", <<>>, <<>>, R \o Expansion(name, <<>>), U \cup {name}))
<1>1. Braced(name).text = Opening(name) \o <<CloseBrace>>
  BY Zenon DEF Braced, Opening, DollarSign, OpenBrace, CloseBrace
<1>2. /\ Braced(name).value = Expansion(name, <<>>) /\ Braced(name).used = {name}
      /\ ~Braced(name).fails
  BY Zenon DEF Braced
<1>3. PICK t \in Seq(Alphabet) : t = Opening(name)
  BY OpeningLeads
<1>4. Leads("scheme", SchemeAt("text", <<>>, <<>>, R, U), t,
            SchemeAt("brace", name, <<>>, R, U))
  BY <1>3, OpeningLeads
<1>5. Leads("scheme", SchemeAt("brace", name, <<>>, R, U), <<CloseBrace>>,
            SchemeAt("text", <<>>, <<>>, R \o Expansion(name, <<>>), U \cup {name}))
  BY ReadsEndOfBraces, LeadsByOne
<1>6. t \o <<CloseBrace>> \in Seq(Alphabet)
  BY <1>3, SpecialsAreTexts, ConcatProperties
<1>7. Leads("scheme", SchemeAt("text", <<>>, <<>>, R, U), t \o <<CloseBrace>>,
            SchemeAt("text", <<>>, <<>>, R \o Expansion(name, <<>>), U \cup {name}))
  BY <1>3, <1>4, <1>5, SpecialsAreTexts, LeadsOn
<1> QED
  BY <1>1, <1>2, <1>3, <1>6, <1>7

LEMMA BracelessTexts ==
  ASSUME NEW t \in Seq(STRING), CloseBrace \notin ToSet(t)
  PROVE  t \in Seq(Alphabet) /\ t \in Seq(Braceless)
<1>1. t \in Seq(Alphabet)
  BY Characters, SeqMonotonic
<1>2. PICK n \in Nat : n = Len(t) /\ DOMAIN t = 1..n /\ t \in [1..n -> Alphabet]
  BY <1>1, LenProperties
<1>3. \A i \in 1..n : t[i] \in Braceless
  BY <1>2 DEF ToSet, Braceless
<1>4. t \in [1..n -> Braceless]
  BY <1>2, <1>3
<1> QED
  BY <1>1, <1>2, <1>4

LEMMA ArgumentsAreWritten ==
  ASSUME NEW p \in Arguments
  PROVE  Written(Braceless, p) /\ Reread(p) = p
<1>1. /\ IsFiniteSet(DOMAIN p) /\ DOMAIN p \subseteq Seq(WordChars) \ {<<>>}
      /\ p = [k \in DOMAIN p |-> p[k]]
  BY SchemeAssumption, Zenon
<1>2. ASSUME NEW k \in DOMAIN p
      PROVE  /\ IsHeld(p[k]) /\ p[k].text \in Seq(Braceless)
             /\ AsRead(p[k]) = p[k]
  <2>1. /\ p[k].text \in Seq(STRING) /\ "}" \notin ToSet(p[k].text)
        /\ IsValue(p[k]) /\ AsRead(p[k]) = p[k]
    BY SchemeAssumption, Zenon
  <2>2. CloseBrace \notin ToSet(p[k].text)
    BY <2>1, Zenon DEF CloseBrace
  <2>3. PICK t : t = p[k].text
    OBVIOUS
  <2>4. t \in Seq(STRING) /\ CloseBrace \notin ToSet(t)
    BY <2>1, <2>2, <2>3, Zenon
  <2>5. t \in Seq(Alphabet) /\ t \in Seq(Braceless)
    BY <2>4, BracelessTexts
  <2> QED
    BY <2>1, <2>3, <2>5, Zenon DEF IsHeld
<1>3. Written(Braceless, p)
  BY <1>1, <1>2 DEF Written
<1>4. Reread(p) = [k \in DOMAIN p |-> p[k]]
  BY <1>2, Zenon DEF Reread
<1> QED
  BY <1>1, <1>3, <1>4

(* A placeholder with parameters, in words of the program or its own.       *)
ArgumentsText(name, text) == ((Opening(name) \o <<Space>>) \o text) \o <<CloseBrace>>

Given(piece, name, text) ==
  /\ name \in Placeholders \cup OtherNames /\ text \in Seq(Braceless)
  /\ piece.text = ArgumentsText(name, text)
  /\ \E p \in Readable : piece.value = Expansion(name, p) /\ (~piece.fails => Yields(text, p))
  /\ ~piece.fails => name \in Placeholders /\ piece.used = {name}
  /\ piece.fails => \/ FromText(text, Space).error /\ piece.used = {}
                    \/ /\ ~FromText(text, Space).error /\ piece.used = {name}
                       /\ name \notin Placeholders

LEMMA ProgramsArguments ==
  ASSUME NEW p \in Arguments
  PROVE  ToText(p, Space) \in Seq(Braceless) /\ Yields(ToText(p, Space), p)
<1>1. Marked(Braceless) /\ Space \in Braceless /\ Space \in Separators
  BY Characters, SchemeCharacters DEF Marked, Braceless
<1>2. ToText(p, Space) \in Seq(Braceless) /\ ReadsBack(p, Space)
  BY <1>1, ArgumentsAreWritten, TextIsRead
<1>3. Reread(p) = p
  BY ArgumentsAreWritten
<1> QED
  BY <1>2, <1>3 DEF ReadsBack, Yields, Reread

LEMMA WithArgumentsIs ==
  ASSUME NEW name \in Placeholders \cup OtherNames, NEW p \in Arguments
  PROVE  Given(WithArguments(name, p), name, ToText(p, Space))
<1>1. PICK piece : piece = WithArguments(name, p)
  OBVIOUS
<1>2. PICK text : text = ToText(p, Space)
  OBVIOUS
<1>3. piece.text = ArgumentsText(name, text)
  BY <1>1, <1>2, Zenon
  DEF WithArguments, ArgumentsText, Opening, DollarSign, OpenBrace, CloseBrace, Space
<1>4. /\ piece.value = Expansion(name, p) /\ piece.used = {name}
      /\ piece.fails <=> name \notin Placeholders
  BY <1>1, Zenon DEF WithArguments
<1>5. text \in Seq(Braceless) /\ Yields(text, p) /\ p \in Readable
  BY <1>2, ProgramsArguments DEF Readable
<1>6. ~FromText(text, Space).error
  BY <1>5 DEF Yields
<1> QED
  BY <1>1, <1>2, <1>3, <1>4, <1>5, <1>6 DEF Given

LEMMA AsWrittenIs ==
  ASSUME NEW name \in Placeholders \cup OtherNames, NEW text \in ArgumentTexts
  PROVE  Given(AsWritten(name, text), name, text)
<1>1. PICK piece : piece = AsWritten(name, text)
  OBVIOUS
<1>2. PICK p : p = FromText(text, Space).parameters
  OBVIOUS
<1>3. piece.text = ArgumentsText(name, text)
  BY <1>1, Zenon
  DEF AsWritten, ArgumentsText, Opening, DollarSign, OpenBrace, CloseBrace, Space
<1>4. /\ piece.value = Expansion(name, p)
      /\ piece.used = IF FromText(text, Space).error THEN {} ELSE {name}
      /\ piece.fails <=> FromText(text, Space).error \/ name \notin Placeholders
  BY <1>1, <1>2, Zenon DEF AsWritten, Space
<1>5. p \in Readable
  BY <1>2 DEF Readable
<1>6. ~FromText(text, Space).error => Yields(text, p)
  BY <1>2 DEF Yields
<1>7. text \in Seq(Braceless)
  <2>1. text \in Seq(STRING) /\ "}" \notin ToSet(text)
    BY SchemeAssumption, Zenon
  <2> QED
    BY <2>1, BracelessTexts, Zenon DEF CloseBrace
<1> QED
  BY <1>1, <1>3, <1>4, <1>5, <1>6, <1>7 DEF Given

LEMMA ArgumentsBegin ==
  ASSUME NEW name \in Placeholders \cup OtherNames, NEW a \in Seq(Braceless), NEW R, NEW U
  PROVE  \E v \in Seq(Alphabet) :
            /\ ArgumentsText(name, a) = v \o <<CloseBrace>>
            /\ Leads("scheme", SchemeAt("text", <<>>, <<>>, R, U), v,
                     SchemeAt("arguments", name, a, R, U))
<1>1. PICK t \in Seq(Alphabet) : t = Opening(name)
  BY OpeningLeads
<1>2. a \in Seq(Alphabet)
  <2>1. Braceless \subseteq Alphabet
    BY DEF Braceless
  <2> QED
    BY <2>1, SeqMonotonic
<1>3. Leads("scheme", SchemeAt("text", <<>>, <<>>, R, U), t,
            SchemeAt("brace", name, <<>>, R, U))
  BY <1>1, OpeningLeads
<1>4. Leads("scheme", SchemeAt("brace", name, <<>>, R, U), <<Space>>,
            SchemeAt("arguments", name, <<>>, R, U))
  <2>1. Read("scheme", SchemeAt("brace", name, <<>>, R, U), Space)
          = SchemeAt("arguments", name, <<>>, R, U)
    BY NamesAreWords, ReadsSpace
  <2> QED
    BY <2>1, LeadsByOne
<1>5. Leads("scheme", SchemeAt("arguments", name, <<>>, R, U), a,
            SchemeAt("arguments", name, a, R, U))
  BY ArgumentsLead
<1>6. PICK u \in Seq(Alphabet) : u = t \o <<Space>>
  BY SpecialsAreTexts, ConcatProperties
<1>7. PICK v \in Seq(Alphabet) : v = u \o a
  BY <1>2, ConcatProperties
<1>8. Leads("scheme", SchemeAt("text", <<>>, <<>>, R, U), u,
            SchemeAt("arguments", name, <<>>, R, U))
  BY <1>3, <1>4, <1>6, SpecialsAreTexts, LeadsOn
<1>9. Leads("scheme", SchemeAt("text", <<>>, <<>>, R, U), v,
            SchemeAt("arguments", name, a, R, U))
  BY <1>2, <1>5, <1>7, <1>8, LeadsOn
<1>10. ArgumentsText(name, a) = v \o <<CloseBrace>>
  BY <1>1, <1>6, <1>7 DEF ArgumentsText
<1> QED
  BY <1>9, <1>10

LEMMA GivenLeads ==
  ASSUME NEW piece, NEW name, NEW a, Given(piece, name, a), NEW R, NEW U
  PROVE  /\ piece.text \in Seq(Alphabet)
         /\ \E r : /\ Leads("scheme", SchemeAt("text", <<>>, <<>>, R, U), piece.text, r)
                   /\ IF piece.fails THEN Stuck(r, U \cup piece.used)
                      ELSE Settled(r, R \o piece.value, U \cup piece.used)
<1>1. /\ name \in Placeholders \cup OtherNames /\ a \in Seq(Braceless)
      /\ piece.text = ArgumentsText(name, a)
  BY DEF Given
<1>2. PICK v \in Seq(Alphabet) :
         /\ piece.text = v \o <<CloseBrace>>
         /\ Leads("scheme", SchemeAt("text", <<>>, <<>>, R, U), v,
                  SchemeAt("arguments", name, a, R, U))
  BY <1>1, ArgumentsBegin
<1>3. piece.text \in Seq(Alphabet)
  BY <1>2, SpecialsAreTexts, ConcatProperties
<1>4. PICK r : r = Read("scheme", SchemeAt("arguments", name, a, R, U), CloseBrace)
  OBVIOUS
<1>5. Leads("scheme", SchemeAt("text", <<>>, <<>>, R, U), piece.text, r)
  <2>1. Leads("scheme", SchemeAt("arguments", name, a, R, U), <<CloseBrace>>, r)
    BY <1>4, LeadsByOne
  <2> QED
    BY <1>2, <2>1, SpecialsAreTexts, LeadsOn
<1>6. ASSUME ~piece.fails
      PROVE  Settled(r, R \o piece.value, U \cup piece.used)
  <2>1. PICK p \in Readable : piece.value = Expansion(name, p) /\ Yields(a, p)
    BY <1>6 DEF Given
  <2>2. name \in Placeholders /\ piece.used = {name}
    BY <1>6 DEF Given
  <2>3. r = SchemeAt("text", <<>>, <<>>, R \o Expansion(name, p), U \cup {name})
    BY <1>4, <2>1, <2>2, ReadsEndOfArguments
  <2> QED
    BY <2>1, <2>2, <2>3, Zenon DEF Settled
<1>7. ASSUME FromText(a, Space).error, piece.used = {}
      PROVE  Stuck(r, U \cup piece.used)
  <2>1. r = SchemeFailed("arguments", name, a, R, U)
    BY <1>4, <1>7, ReadsBadArguments
  <2>2. U \cup piece.used = U
    BY <1>7
  <2> QED
    BY <2>1, <2>2 DEF Stuck
<1>8. ASSUME ~FromText(a, Space).error, piece.used = {name}, name \notin Placeholders
      PROVE  Stuck(r, U \cup piece.used)
  <2>1. r = SchemeAt("arguments", name, a, R, U \cup {name})
    BY <1>4, <1>8, ReadsArgumentsOfOther
  <2>2. name \in U \cup {name} /\ U \cup piece.used = U \cup {name}
    BY <1>8
  <2> QED
    BY <1>8, <2>1, <2>2 DEF Stuck
<1>9. piece.fails => Stuck(r, U \cup piece.used)
  BY <1>7, <1>8 DEF Given
<1> QED
  BY <1>3, <1>5, <1>6, <1>9

-----------------------------------------------------------------------------
(* One piece after another.                                                 *)
Bares == {Bare(name) : name \in Placeholders \cup OtherNames}

Special == WordChars \cup {DollarSign, Backslash}

Items ==
  {Literal(c) : c \in Alphabet}
    \cup {ValueOf(name, p) : name \in Placeholders, p \in Readable}

LEMMA ExpansionIn ==
  ASSUME NEW name, NEW p \in Readable
  PROVE  Expansion(name, p) \in Seq(Items)
<1>1. CASE name \in Placeholders
  <2>1. ValueOf(name, p) \in Items
    BY <1>1 DEF Items
  <2>2. Expansion(name, p) = <<ValueOf(name, p)>>
    BY <1>1 DEF Expansion
  <2>3. PICK v \in Items : v = ValueOf(name, p)
    BY <2>1
  <2>4. <<v>> \in Seq(Items)
    OBVIOUS
  <2> QED
    BY <2>2, <2>3, <2>4
<1>2. CASE name \notin Placeholders
  BY <1>2, EmptySeq DEF Expansion
<1> QED
  BY <1>1, <1>2

LEMMA NothingReadable == <<>> \in Readable
BY DEF Readable

LEMMA PieceIs ==
  ASSUME NEW piece \in Pieces
  PROVE  \/ \E c \in Literals : piece = Char(c)
         \/ piece = Dollar
         \/ \E name \in Placeholders \cup OtherNames : piece = Bare(name)
         \/ \E name \in Placeholders \cup OtherNames : piece = Braced(name)
         \/ \E name, text : Given(piece, name, text)
<1> DEFINE names == Placeholders \cup OtherNames
           With1 == {WithArguments(name, p) : name \in names, p \in Arguments}
           With2 == {AsWritten(name, text) : name \in names, text \in ArgumentTexts}
<1>1. Pieces = {Char(c) : c \in Literals} \cup {Dollar}
                 \cup Bares \cup {Braced(name) : name \in names} \cup With1 \cup With2
  BY DEF Pieces, Bares
<1>2. CASE piece \in {Char(c) : c \in Literals}
  BY <1>2
<1>3. CASE piece \in With1
  <2>1. PICK name \in names, p \in Arguments : piece = WithArguments(name, p)
    BY <1>3
  <2>2. Given(piece, name, ToText(p, Space))
    BY <2>1, WithArgumentsIs
  <2> QED
    BY <2>2
<1>4. CASE piece \in With2
  <2>1. PICK name \in names, text \in ArgumentTexts : piece = AsWritten(name, text)
    BY <1>4
  <2>2. Given(piece, name, text)
    BY <2>1, AsWrittenIs
  <2> QED
    BY <2>2
<1>5. CASE piece \in Bares \cup {Braced(name) : name \in names}
  BY <1>5 DEF Bares
<1> HIDE DEF With1, With2
<1> QED
  BY <1>1, <1>2, <1>3, <1>4, <1>5

LEMMA LiteralIn ==
  ASSUME NEW c \in Alphabet
  PROVE  Literal(c) \in Items /\ <<Literal(c)>> \in Seq(Items)
<1>1. PICK l : l = Literal(c)
  OBVIOUS
<1>2. l \in Items
  BY <1>1 DEF Items
<1>3. <<l>> \in Seq(Items)
  BY <1>2
<1> QED
  BY <1>1, <1>2, <1>3

LEMMA PieceIn ==
  ASSUME NEW piece \in Pieces
  PROVE  piece.text \in Seq(Alphabet) /\ piece.value \in Seq(Items)
<1>1. ASSUME NEW c \in Literals, piece = Char(c)
      PROVE  piece.text \in Seq(Alphabet) /\ piece.value \in Seq(Items)
  <2>1. c \in Alphabet /\ piece.text = <<c>> /\ piece.value = <<Literal(c)>>
    BY <1>1, LiteralIsChar
  <2>2. <<c>> \in Seq(Alphabet)
    BY <2>1
  <2> QED
    BY <2>1, <2>2, LiteralIn
<1>2. ASSUME piece = Dollar
      PROVE  piece.text \in Seq(Alphabet) /\ piece.value \in Seq(Items)
  BY <1>2, Characters, DollarLeads, LiteralIn
<1>3. ASSUME NEW name \in Placeholders \cup OtherNames, piece = Bare(name)
      PROVE  piece.text \in Seq(Alphabet) /\ piece.value \in Seq(Items)
  BY <1>3, BareLeads, ExpansionIn, NothingReadable
<1>4. ASSUME NEW name \in Placeholders \cup OtherNames, piece = Braced(name)
      PROVE  piece.text \in Seq(Alphabet) /\ piece.value \in Seq(Items)
  <2>1. piece.text \in Seq(Alphabet) /\ piece.value = Expansion(name, <<>>)
    <3>1. PICK U : U = {}
      OBVIOUS
    <3> QED
      BY <1>4, BracedLeads
  <2> QED
    BY <2>1, ExpansionIn, NothingReadable
<1>5. ASSUME NEW name, NEW text, Given(piece, name, text)
      PROVE  piece.text \in Seq(Alphabet) /\ piece.value \in Seq(Items)
  <2>1. piece.text \in Seq(Alphabet)
    <3>1. PICK U : U = {}
      OBVIOUS
    <3> QED
      BY <1>5, GivenLeads
  <2>2. PICK p \in Readable : piece.value = Expansion(name, p)
    BY <1>5 DEF Given
  <2> QED
    BY <2>1, <2>2, ExpansionIn
<1> QED
  BY <1>1, <1>2, <1>3, <1>4, <1>5, PieceIs

(* From a state in which no name goes on, every piece is read.              *)
LEMMA PieceLeads ==
  ASSUME NEW piece \in Pieces, NEW R \in Seq(Items), NEW U, NEW q, Settled(q, R, U)
  PROVE  \E r : /\ Leads("scheme", q, piece.text, r)
                /\ \/ piece.fails /\ Stuck(r, U \cup piece.used)
                   \/ ~piece.fails /\ Settled(r, R \o piece.value, U \cup piece.used)
                   \/ /\ ~piece.fails /\ piece \in Bares
                      /\ Pending(r, R \o piece.value, U \cup piece.used)
<1> DEFINE Goal == \E r : /\ Leads("scheme", q, piece.text, r)
              /\ \/ piece.fails /\ Stuck(r, U \cup piece.used)
                 \/ ~piece.fails /\ Settled(r, R \o piece.value, U \cup piece.used)
                 \/ /\ ~piece.fails /\ piece \in Bares
                    /\ Pending(r, R \o piece.value, U \cup piece.used)
<1>0. q = SchemeAt("text", <<>>, <<>>, R, U)
  BY DEF Settled
<1>a. U \cup {} = U
  OBVIOUS
<1>1. ASSUME NEW c \in Literals, piece = Char(c)
      PROVE  Goal
  <2>1. c \in Alphabet /\ piece.value = <<Literal(c)>> /\ piece.used = {} /\ ~piece.fails
    BY <1>1, LiteralIsChar
  <2>2. PICK l \in Items : l = Literal(c)
    BY <2>1, LiteralIn
  <2>3. Append(R, l) = R \o <<l>>
    BY AppendIsConcat
  <2>4. Leads("scheme", q, piece.text, SchemeAt("text", <<>>, <<>>, Append(R, l), U))
    BY <1>0, <1>1, <2>2, CharLeads
  <2>5. R \o piece.value = Append(R, l) /\ U \cup piece.used = U
    BY <2>1, <2>2, <2>3, <1>a
  <2> QED
    BY <2>1, <2>4, <2>5, Zenon DEF Settled
<1>2. ASSUME piece = Dollar
      PROVE  Goal
  <2>1. piece.value = <<Literal(DollarSign)>> /\ piece.used = {} /\ ~piece.fails
    BY <1>2, DollarLeads
  <2>2. PICK l \in Items : l = Literal(DollarSign)
    BY Characters, LiteralIn
  <2>3. Append(R, l) = R \o <<l>>
    BY AppendIsConcat
  <2>4. Leads("scheme", q, piece.text, SchemeAt("text", <<>>, <<>>, Append(R, l), U))
    BY <1>0, <1>2, <2>2, DollarLeads
  <2>5. R \o piece.value = Append(R, l) /\ U \cup piece.used = U
    BY <2>1, <2>2, <2>3, <1>a
  <2> QED
    BY <2>1, <2>4, <2>5, Zenon DEF Settled
<1>3. ASSUME NEW name \in Placeholders \cup OtherNames, piece = Bare(name)
      PROVE  Goal
  <2>1. piece.value = Expansion(name, <<>>) /\ piece.used = {name} /\ ~piece.fails
    BY <1>3, BareLeads
  <2>2. PICK r : r = SchemeAt("name", name, <<>>, R, U)
    OBVIOUS
  <2>3. Leads("scheme", q, piece.text, r)
    BY <1>0, <1>3, <2>2, BareLeads
  <2>4. name \in Words
    BY NamesAreWords
  <2>5. Pending(r, R \o piece.value, U \cup piece.used)
    BY <2>1, <2>2, <2>4, Zenon DEF Pending
  <2>6. piece \in Bares
    BY <1>3 DEF Bares
  <2> QED
    BY <2>1, <2>3, <2>5, <2>6
<1>4. ASSUME NEW name \in Placeholders \cup OtherNames, piece = Braced(name)
      PROVE  Goal
  <2>1. piece.value = Expansion(name, <<>>) /\ piece.used = {name} /\ ~piece.fails
    BY <1>4, BracedLeads
  <2>2. PICK r : r = SchemeAt("text", <<>>, <<>>, R \o Expansion(name, <<>>), U \cup {name})
    OBVIOUS
  <2>3. Leads("scheme", q, piece.text, r)
    BY <1>0, <1>4, <2>2, BracedLeads
  <2> QED
    BY <2>1, <2>2, <2>3, Zenon DEF Settled
<1>5. ASSUME NEW name, NEW text, Given(piece, name, text)
      PROVE  Goal
  <2>1. PICK r : /\ Leads("scheme", q, piece.text, r)
                 /\ IF piece.fails THEN Stuck(r, U \cup piece.used)
                    ELSE Settled(r, R \o piece.value, U \cup piece.used)
    BY <1>0, <1>5, GivenLeads
  <2> QED
    BY <2>1
<1> HIDE DEF Goal
<1>6. Goal
  BY <1>1, <1>2, <1>3, <1>4, <1>5, PieceIs
<1> QED
  BY <1>6 DEF Goal

(* Where a name goes on, only a literal character can follow, and ends it.  *)
LEMMA FirstOfConcat ==
  ASSUME NEW S, NEW s \in Seq(S), NEW t \in Seq(S), s # <<>>
  PROVE  (s \o t)[1] = s[1] /\ s \o t # <<>> /\ s \o t \in Seq(S)
<1>1. Len(s) \in Nat /\ Len(s) # 0 /\ Len(t) \in Nat
  BY EmptySeq, LenProperties
<1>2. 1 \in 1..Len(s) + Len(t) /\ 1 <= Len(s)
  BY <1>1
<1>3. (s \o t)[1] = s[1] /\ s \o t \in Seq(S)
  BY <1>2, ConcatProperties
<1>4. s \o t # <<>>
  BY ConcatEqualIffEmpty
<1> QED
  BY <1>3, <1>4

LEMMA OpeningBegins ==
  ASSUME NEW name \in Placeholders \cup OtherNames
  PROVE  Opening(name)[1] = DollarSign /\ Opening(name) # <<>> /\ Opening(name) \in Seq(Alphabet)
<1>1. PICK t : t = <<DollarSign, OpenBrace>>
  OBVIOUS
<1>2. t \in Seq(Alphabet)
  BY <1>1, Characters
<1>3. t # <<>> /\ t[1] = DollarSign
  BY <1>1
<1> QED
  BY <1>1, <1>2, <1>3, NamesAreWords, FirstOfConcat DEF Opening

LEMMA OnlyLiteralsFollow ==
  ASSUME NEW piece \in Pieces, piece.text[1] \notin Special
  PROVE  \E c \in Literals : piece = Char(c) /\ c \notin WordChars
<1>1. ASSUME NEW c \in Literals, piece = Char(c)
      PROVE  c \notin WordChars
  <2>1. piece.text[1] = c
    BY <1>1, LiteralIsChar
  <2> QED
    BY <2>1 DEF Special
<1>2. ASSUME piece = Dollar
      PROVE  FALSE
  <2>1. piece.text = <<Backslash, DollarSign>>
    BY <1>2, Zenon DEF Dollar, Backslash, DollarSign
  <2>2. piece.text[1] = Backslash
    BY <2>1
  <2> QED
    BY <2>2 DEF Special
<1>3. ASSUME NEW name \in Placeholders \cup OtherNames, piece = Bare(name)
      PROVE  FALSE
  <2>1. piece.text = <<DollarSign>> \o name
    BY <1>3, Zenon DEF Bare, DollarSign
  <2>2. PICK s : s = <<DollarSign>>
    OBVIOUS
  <2>3. s \in Seq(Alphabet)
    BY <2>2, SpecialsAreTexts
  <2>4. s # <<>> /\ s[1] = DollarSign
    BY <2>2
  <2>5. (s \o name)[1] = DollarSign
    BY <2>3, <2>4, NamesAreWords, FirstOfConcat
  <2> QED
    BY <2>1, <2>2, <2>5 DEF Special
<1>4. ASSUME NEW name \in Placeholders \cup OtherNames, piece = Braced(name)
      PROVE  FALSE
  <2>1. piece.text = Opening(name) \o <<CloseBrace>>
    BY <1>4, Zenon DEF Braced, Opening, DollarSign, OpenBrace, CloseBrace
  <2>2. piece.text[1] = DollarSign
    BY <2>1, OpeningBegins, SpecialsAreTexts, FirstOfConcat
  <2> QED
    BY <2>2 DEF Special
<1>5. ASSUME NEW name, NEW text, Given(piece, name, text)
      PROVE  FALSE
  <2>1. /\ name \in Placeholders \cup OtherNames /\ text \in Seq(Braceless)
        /\ piece.text = ((Opening(name) \o <<Space>>) \o text) \o <<CloseBrace>>
    BY <1>5 DEF Given, ArgumentsText
  <2>2. text \in Seq(Alphabet)
    <3>1. Braceless \subseteq Alphabet
      BY DEF Braceless
    <3> QED
      BY <2>1, <3>1, SeqMonotonic
  <2>3. PICK t \in Seq(Alphabet) : t = Opening(name) /\ t # <<>> /\ t[1] = DollarSign
    BY <2>1, OpeningBegins
  <2>4. PICK u \in Seq(Alphabet) : u = t \o <<Space>> /\ u # <<>> /\ u[1] = DollarSign
    BY <2>3, SpecialsAreTexts, FirstOfConcat
  <2>5. PICK v \in Seq(Alphabet) : v = u \o text /\ v # <<>> /\ v[1] = DollarSign
    BY <2>2, <2>4, FirstOfConcat
  <2>6. (v \o <<CloseBrace>>)[1] = DollarSign
    BY <2>5, SpecialsAreTexts, FirstOfConcat
  <2>7. piece.text[1] = DollarSign
    BY <2>1, <2>3, <2>4, <2>5, <2>6
  <2> QED
    BY <2>7 DEF Special
<1> QED
  BY <1>1, <1>2, <1>3, <1>4, <1>5, PieceIs

LEMMA PieceEndsName ==
  ASSUME NEW piece \in Pieces, piece.text[1] \notin Special,
         NEW R \in Seq(Items), NEW U, NEW q, Pending(q, R, U)
  PROVE  \E r : /\ Leads("scheme", q, piece.text, r)
                /\ ~piece.fails /\ Settled(r, R \o piece.value, U \cup piece.used)
<1>1. PICK c \in Literals : piece = Char(c) /\ c \notin WordChars
  BY OnlyLiteralsFollow
<1>2. PICK name \in Words : \E r, u :
         /\ q = SchemeAt("name", name, <<>>, r, u)
         /\ R = r \o Expansion(name, <<>>) /\ U = u \cup {name}
  BY DEF Pending
<1>3. PICK r, u : /\ q = SchemeAt("name", name, <<>>, r, u)
                  /\ R = r \o Expansion(name, <<>>) /\ U = u \cup {name}
  BY <1>2
<1>4. name # <<>>
  BY <1>2 DEF Words
<1>5. c \in Alphabet /\ piece.value = <<Literal(c)>> /\ piece.used = {} /\ ~piece.fails
  BY <1>1, LiteralIsChar
<1>6. PICK l \in Items : l = Literal(c)
  BY <1>5, LiteralIn
<1>7. Append(R, l) = R \o <<l>>
  BY AppendIsConcat
<1>8. Leads("scheme", q, piece.text, SchemeAt("text", <<>>, <<>>, Append(R, l), U))
  BY <1>1, <1>3, <1>4, <1>6, CharEndsName
<1>9. R \o piece.value = Append(R, l) /\ U \cup piece.used = U
  BY <1>5, <1>6, <1>7
<1> QED
  BY <1>5, <1>8, <1>9, Zenon DEF Settled

LEMMA FollowsName ==
  ASSUME NEW pieces, Separated(pieces), NEW i \in 1..(Len(pieces) - 1), pieces[i] \in Bares
  PROVE  pieces[i + 1].text[1] \notin Special
BY Zenon DEF Separated, Bares, Special, DollarSign, Backslash

(* Whether the first pieces are read, and the placeholders of those that    *)
(* are.                                                                     *)
AllRead(pieces, i) == \A j \in 1..i : ~pieces[j].fails

Reached(pieces, i) == {j \in 1..i : \A m \in 1..(j - 1) : ~pieces[m].fails}

Uses(pieces, i) == UNION {pieces[j].used : j \in Reached(pieces, i)}

LEMMA UsesIs ==
  ASSUME NEW pieces
  PROVE  /\ AllRead(pieces, 0) /\ Uses(pieces, 0) = {}
         /\ \A i, j \in Nat : i = j + 1 =>
               /\ AllRead(pieces, i) <=> AllRead(pieces, j) /\ ~pieces[i].fails
               /\ Uses(pieces, i) = IF AllRead(pieces, j)
                                    THEN Uses(pieces, j) \cup pieces[i].used
                                    ELSE Uses(pieces, j)
<1>1. AllRead(pieces, 0) /\ Uses(pieces, 0) = {}
  <2>1. AllRead(pieces, 0)
    BY DEF AllRead
  <2>2. Reached(pieces, 0) = {}
    BY DEF Reached
  <2> QED
    BY <2>1, <2>2 DEF Uses
<1>2. ASSUME NEW i \in Nat, NEW j \in Nat, i = j + 1
      PROVE  /\ AllRead(pieces, i) <=> AllRead(pieces, j) /\ ~pieces[i].fails
             /\ Uses(pieces, i) = IF AllRead(pieces, j)
                                  THEN Uses(pieces, j) \cup pieces[i].used
                                  ELSE Uses(pieces, j)
  <2>1. 1..i = (1..j) \cup {i} /\ i - 1 = j
    BY <1>2
  <2>2. AllRead(pieces, i) <=> AllRead(pieces, j) /\ ~pieces[i].fails
    BY <2>1 DEF AllRead
  <2>3. Reached(pieces, i) = IF AllRead(pieces, j) THEN Reached(pieces, j) \cup {i}
                             ELSE Reached(pieces, j)
    BY <2>1 DEF Reached, AllRead
  <2>4. PICK K : K = Reached(pieces, j)
    OBVIOUS
  <2>5. UNION {pieces[m].used : m \in K \cup {i}}
          = (UNION {pieces[m].used : m \in K}) \cup pieces[i].used
    OBVIOUS
  <2> QED
    BY <2>2, <2>3, <2>4, <2>5 DEF Uses
<1> QED
  BY <1>1, <1>2

LEMMA SchemeStartIs == SchemeStart = SchemeAt("text", <<>>, <<>>, <<>>, {})
BY Zenon DEF SchemeStart, SchemeAt, SchemeState

(* What parseScheme() returns once all pieces are read.                     *)
LEMMA SettledReturns ==
  ASSUME NEW scheme, NEW q, q = FoldLeft(ReadSchemeChar, SchemeStart, scheme),
         NEW R, NEW U, Settled(q, R, U)
  PROVE  /\ ~ParseScheme(scheme).error /\ ParseScheme(scheme).result = R
         /\ ParseScheme(scheme).used = U
<1>1. /\ q.mode = "text" /\ q.name = <<>> /\ q.result = R /\ q.used = U /\ ~q.error
  BY SchemeFields DEF Settled
<1>2. q.mode \notin {"brace", "arguments"}
  BY <1>1
<1>3. ParseScheme(scheme) = q
  BY <1>1, <1>2, Zenon DEF ParseScheme
<1> QED
  BY <1>1, <1>3

(* What an error leaves of the state.                                       *)
Dropped(s, nothing, failed) == [s EXCEPT !.result = nothing, !.error = failed]

LEMMA DroppedIs ==
  ASSUME NEW mode, NEW name, NEW arguments, NEW result, NEW used, NEW nothing
  PROVE  \A e, failed : Dropped(SchemeState(mode, name, arguments, result, used, e), nothing, failed)
                          = SchemeState(mode, name, arguments, nothing, used, failed)
<1> SUFFICES ASSUME NEW e, NEW failed
             PROVE  Dropped(SchemeState(mode, name, arguments, result, used, e), nothing, failed)
                      = SchemeState(mode, name, arguments, nothing, used, failed)
  OBVIOUS
<1>1. [SchemeState(mode, name, arguments, result, used, e) EXCEPT !.result = nothing]
        = SchemeState(mode, name, arguments, nothing, used, e)
  BY DEF SchemeState
<1>2. [SchemeState(mode, name, arguments, nothing, used, e) EXCEPT !.error = failed]
        = SchemeState(mode, name, arguments, nothing, used, failed)
  BY DEF SchemeState
<1> QED
  BY <1>1, <1>2 DEF Dropped

LEMMA StuckReturns ==
  ASSUME NEW scheme, NEW q, q = FoldLeft(ReadSchemeChar, SchemeStart, scheme),
         NEW U, Stuck(q, U)
  PROVE  /\ ParseScheme(scheme).error /\ ParseScheme(scheme).result = <<>>
         /\ ParseScheme(scheme).used = U
<1>1. PICK mode, name, arguments, result :
         \/ q = SchemeFailed(mode, name, arguments, result, U)
         \/ /\ q = SchemeAt("arguments", name, arguments, result, U)
            /\ name \notin Placeholders /\ name \in U
  BY DEF Stuck
<1>2. CASE q = SchemeFailed(mode, name, arguments, result, U)
  <2>1. q.error
    BY <1>2, FailedFields
  <2>2. ParseScheme(scheme) = Dropped(q, <<>>, TRUE)
    BY <2>1, Zenon DEF ParseScheme, Dropped
  <2>3. ParseScheme(scheme) = SchemeFailed(mode, name, arguments, <<>>, U)
    <3>1. \A e, failed :
             Dropped(SchemeState(mode, name, arguments, result, U, e), <<>>, failed)
               = SchemeState(mode, name, arguments, <<>>, U, failed)
      BY DroppedIs
    <3> QED
      BY <1>2, <2>2, <3>1, Zenon DEF SchemeFailed
  <2> QED
    BY <2>3, FailedFields
<1>3. CASE /\ q = SchemeAt("arguments", name, arguments, result, U)
           /\ name \notin Placeholders /\ name \in U
  <2>1. q.mode = "arguments" /\ q.name = name /\ q.result = result /\ q.used = U /\ ~q.error
    BY <1>3, SchemeFields
  <2>2. PICK ended : ended = IF q.error \/ q.name = <<>> THEN q ELSE EndName(q)
    OBVIOUS
  <2>3. ParseScheme(scheme) = Dropped(ended, <<>>, TRUE)
    BY <2>1, <2>2, Zenon DEF ParseScheme, Dropped
  <2>4. \E n, m, r : ended = SchemeAt(m, n, arguments, r, U)
    <3>1. CASE name = <<>>
      BY <1>3, <2>1, <2>2, <3>1
    <3>2. CASE name # <<>>
      <4>1. EndName(q) = Updated(q, "text", <<>>, result \o Expansion(name, <<>>), U \cup {name})
        BY <2>1, Zenon DEF EndName, Updated
      <4>2. U \cup {name} = U
        BY <1>3
      <4>3. PICK r : r = result \o Expansion(name, <<>>)
        OBVIOUS
      <4>4. EndName(q) = Updated(q, "text", <<>>, r, U)
        BY <4>1, <4>2, <4>3
      <4>5. EndName(q) = SchemeAt("text", <<>>, arguments, r, U)
        BY <1>3, <4>4, UpdatedIs
      <4> QED
        BY <2>1, <2>2, <3>2, <4>5
    <3> QED
      BY <3>1, <3>2
  <2>5. PICK n, m, r : ended = SchemeAt(m, n, arguments, r, U)
    BY <2>4
  <2>6. ParseScheme(scheme) = SchemeFailed(m, n, arguments, <<>>, U)
    <3>1. \A e, failed : Dropped(SchemeState(m, n, arguments, r, U, e), <<>>, failed)
                            = SchemeState(m, n, arguments, <<>>, U, failed)
      BY DroppedIs
    <3> QED
      BY <2>3, <2>5, <3>1, Zenon DEF SchemeAt, SchemeFailed
  <2> QED
    BY <2>6, FailedFields
<1> QED
  BY <1>1, <1>2, <1>3

LEMMA PendingReturns ==
  ASSUME NEW scheme, NEW q, q = FoldLeft(ReadSchemeChar, SchemeStart, scheme),
         NEW R, NEW U, Pending(q, R, U)
  PROVE  /\ ~ParseScheme(scheme).error /\ ParseScheme(scheme).result = R
         /\ ParseScheme(scheme).used = U
<1>1. PICK name \in Words : \E r, u :
         /\ q = SchemeAt("name", name, <<>>, r, u)
         /\ R = r \o Expansion(name, <<>>) /\ U = u \cup {name}
  BY DEF Pending
<1>2. PICK r, u : /\ q = SchemeAt("name", name, <<>>, r, u)
                  /\ R = r \o Expansion(name, <<>>) /\ U = u \cup {name}
  BY <1>1
<1>3. q.mode = "name" /\ q.name = name /\ name # <<>> /\ ~q.error
  BY <1>1, <1>2, SchemeFields DEF Words
<1>4. q.mode \notin {"brace", "arguments"}
  BY <1>3
<1>5. ParseScheme(scheme) = EndName(q)
  BY <1>3, <1>4, Zenon DEF ParseScheme
<1>6. EndName(q) = SchemeAt("text", <<>>, <<>>, R, U)
  BY <1>2, EndNameIs
<1> QED
  BY <1>5, <1>6, SchemeFields

(* The scheme made of pieces is expanded to their values.                   *)
LEMMA PiecesAreExpanded ==
  ASSUME NEW n \in Nat, NEW pieces \in [1..n -> Pieces], Separated(pieces)
  PROVE  Expands(pieces)
<1>0. DOMAIN pieces = 1..n /\ Len(pieces) = n /\ \A i \in 1..n : pieces[i] \in Pieces
  BY LenProperties
<1> DEFINE texts == [i \in DOMAIN pieces |-> pieces[i].text]
           values == [i \in DOMAIN pieces |-> pieces[i].value]
<1>1. /\ texts \in [1..n -> Seq(Alphabet)] /\ \A i \in 1..n : texts[i] = pieces[i].text
      /\ values \in [1..n -> Seq(Items)] /\ \A i \in 1..n : values[i] = pieces[i].value
  <2>1. \A i \in 1..n : pieces[i].text \in Seq(Alphabet) /\ pieces[i].value \in Seq(Items)
    BY <1>0, PieceIn
  <2> QED
    BY <1>0, <2>1
<1>2. PICK t : t = texts
  OBVIOUS
<1>3. PICK v : v = values
  OBVIOUS
<1>4. /\ t \in [1..n -> Seq(Alphabet)] /\ \A i \in 1..n : t[i] = pieces[i].text
      /\ v \in [1..n -> Seq(Items)] /\ \A i \in 1..n : v[i] = pieces[i].value
  BY <1>1, <1>2, <1>3
<1> HIDE DEF texts, values
<1>5. PICK f \in [0..n -> Seq(Alphabet)] : Flattens(n, t, f)
  BY <1>4, FlattenIs
<1>6. PICK g \in [0..n -> Seq(Items)] : Flattens(n, v, g)
  BY <1>4, FlattenIs
<1>7. /\ f[0] = <<>> /\ f[n] = FlattenSeq(t)
      /\ \A i \in 1..n : f[i] = f[i - 1] \o t[i]
  BY <1>5 DEF Flattens
<1>8. /\ g[0] = <<>> /\ g[n] = FlattenSeq(v)
      /\ \A i \in 1..n : g[i] = g[i - 1] \o v[i]
  BY <1>6 DEF Flattens
<1>9. PICK start : start = SchemeStart
  OBVIOUS
<1> DEFINE Done(i) ==
             \E q : /\ Leads("scheme", start, f[i], q)
                    /\ \/ ~AllRead(pieces, i) /\ Stuck(q, Uses(pieces, i))
                       \/ AllRead(pieces, i) /\ Settled(q, g[i], Uses(pieces, i))
                       \/ /\ AllRead(pieces, i) /\ i # 0 /\ pieces[i] \in Bares
                          /\ Pending(q, g[i], Uses(pieces, i))
           Bad == {i \in Nat : i <= n /\ ~Done(i)}
<1>10. Done(0)
  <2>1. Leads("scheme", start, f[0], start)
    BY <1>7, LeadsNowhere
  <2>2. AllRead(pieces, 0) /\ Settled(start, g[0], Uses(pieces, 0))
    BY <1>8, <1>9, SchemeStartIs, UsesIs DEF Settled
  <2> QED
    BY <2>1, <2>2
<1>11. ASSUME NEW i \in Nat, i + 1 <= n, Done(i)
       PROVE  Done(i + 1)
  <2>1. PICK j \in 1..n : j = i + 1 /\ j # 0 /\ j - 1 = i /\ j \in Nat
    BY <1>11
  <2>2. i \in 0..n /\ j \in 0..n
    BY <1>11, <2>1
  <2>3. PICK piece \in Pieces : piece = pieces[j]
    BY <1>0
  <2>4. PICK R \in Seq(Items) : R = g[i]
    BY <1>6, <2>2
  <2>5. PICK U : U = Uses(pieces, i)
    OBVIOUS
  <2>6. /\ g[j] = R \o piece.value
        /\ AllRead(pieces, j) <=> AllRead(pieces, i) /\ ~piece.fails
        /\ Uses(pieces, j) = IF AllRead(pieces, i) THEN U \cup piece.used ELSE U
    <3>1. g[j] = R \o piece.value
      BY <1>4, <1>8, <2>1, <2>3, <2>4
    <3>2. /\ AllRead(pieces, j) <=> AllRead(pieces, i) /\ ~pieces[j].fails
          /\ Uses(pieces, j) = IF AllRead(pieces, i) THEN Uses(pieces, i) \cup pieces[j].used
                               ELSE Uses(pieces, i)
      BY <2>1, UsesIs
    <3> QED
      BY <2>3, <2>5, <3>1, <3>2
  <2>7. PICK x \in Seq(Alphabet) : x = f[i]
    BY <1>5, <2>2
  <2>8. PICK y \in Seq(Alphabet) : y = piece.text
    BY PieceIn
  <2>9. f[j] = x \o y
    BY <1>4, <1>7, <2>1, <2>3, <2>7, <2>8
  <2>10. PICK q : /\ Leads("scheme", start, x, q)
                  /\ \/ ~AllRead(pieces, i) /\ Stuck(q, U)
                     \/ AllRead(pieces, i) /\ Settled(q, R, U)
                     \/ /\ AllRead(pieces, i) /\ i # 0 /\ pieces[i] \in Bares
                        /\ Pending(q, R, U)
    BY <1>11, <2>4, <2>5, <2>7
  <2>11. ASSUME AllRead(pieces, i), Settled(q, R, U)
         PROVE  Done(j)
    <3>1. PICK r : /\ Leads("scheme", q, y, r)
                   /\ \/ piece.fails /\ Stuck(r, U \cup piece.used)
                      \/ ~piece.fails /\ Settled(r, R \o piece.value, U \cup piece.used)
                      \/ /\ ~piece.fails /\ piece \in Bares
                         /\ Pending(r, R \o piece.value, U \cup piece.used)
      BY <2>8, <2>11, PieceLeads
    <3>2. Leads("scheme", start, x \o y, r)
      BY <2>10, <3>1, LeadsOn
    <3>3. \/ ~AllRead(pieces, j) /\ Stuck(r, Uses(pieces, j))
          \/ AllRead(pieces, j) /\ Settled(r, g[j], Uses(pieces, j))
          \/ /\ AllRead(pieces, j) /\ j # 0 /\ pieces[j] \in Bares
             /\ Pending(r, g[j], Uses(pieces, j))
      BY <2>1, <2>3, <2>6, <2>11, <3>1
    <3> QED
      BY <2>9, <3>2, <3>3
  <2>12. ASSUME AllRead(pieces, i), i # 0, pieces[i] \in Bares, Pending(q, R, U)
         PROVE  Done(j)
    <3>1. i \in 1..(Len(pieces) - 1)
      BY <1>0, <1>11, <2>12
    <3>2. piece.text[1] \notin Special
      BY <2>1, <2>3, <2>12, <3>1, FollowsName
    <3>3. PICK r : /\ Leads("scheme", q, y, r)
                   /\ ~piece.fails /\ Settled(r, R \o piece.value, U \cup piece.used)
      BY <2>8, <2>12, <3>2, PieceEndsName
    <3>4. Leads("scheme", start, x \o y, r)
      BY <2>10, <3>3, LeadsOn
    <3>5. AllRead(pieces, j) /\ Settled(r, g[j], Uses(pieces, j))
      BY <2>6, <2>12, <3>3
    <3> QED
      BY <2>9, <3>4, <3>5
  <2>a. ASSUME ~AllRead(pieces, i), Stuck(q, U)
        PROVE  Done(j)
    <3>1. PICK r : Leads("scheme", q, y, r) /\ Stuck(r, U)
      BY <2>a, StuckLeads
    <3>2. Leads("scheme", start, x \o y, r)
      BY <2>10, <3>1, LeadsOn
    <3>3. ~AllRead(pieces, j) /\ Stuck(r, Uses(pieces, j))
      BY <2>6, <2>a, <3>1
    <3> QED
      BY <2>9, <3>2, <3>3
  <2>13. Done(j)
    <3> HIDE DEF Done
    <3> QED
      BY <2>10, <2>11, <2>12, <2>a
  <2> HIDE DEF Done
  <2> QED
    BY <2>1, <2>13
<1>12. Bad = {}
  <2>1. 0 \notin Bad
    BY <1>10
  <2>2. \A i \in Nat : i + 1 \in Bad => i \in Bad
    <3> HIDE DEF Done
    <3> QED
      BY <1>11
  <2>3. Bad \subseteq Nat
    OBVIOUS
  <2> HIDE DEF Bad
  <2> QED
    BY <2>1, <2>2, <2>3, NoLeast
<1>13. Done(n)
  <2> HIDE DEF Done
  <2>1. n \in Nat /\ n <= n
    OBVIOUS
  <2> QED
    BY <1>12, <2>1
<1>14. PICK scheme \in Seq(Alphabet) : scheme = f[n] /\ scheme = FlattenSeq(t)
  BY <1>5, <1>7
<1>15. PICK U : U = Uses(pieces, n)
  OBVIOUS
<1>16. PICK q : /\ Leads("scheme", SchemeStart, scheme, q)
                /\ \/ ~AllRead(pieces, n) /\ Stuck(q, U)
                   \/ AllRead(pieces, n) /\ (Settled(q, g[n], U) \/ Pending(q, g[n], U))
  BY <1>9, <1>13, <1>14, <1>15
<1>17. q = FoldLeft(ReadSchemeChar, SchemeStart, scheme)
  BY <1>16, FoldOfScheme, LeadsToOne
<1>18. PICK R : R = g[n]
  OBVIOUS
<1>19. /\ ParseScheme(scheme).error <=> ~AllRead(pieces, n)
       /\ ParseScheme(scheme).result = IF AllRead(pieces, n) THEN R ELSE <<>>
       /\ ParseScheme(scheme).used = U
  <2>1. CASE ~AllRead(pieces, n) /\ Stuck(q, U)
    BY <1>17, <2>1, StuckReturns
  <2>2. CASE AllRead(pieces, n) /\ (Settled(q, R, U) \/ Pending(q, R, U))
    <3>1. ~ParseScheme(scheme).error /\ ParseScheme(scheme).result = R
          /\ ParseScheme(scheme).used = U
      BY <1>17, <2>2, SettledReturns, PendingReturns
    <3> QED
      BY <2>2, <3>1
  <2> QED
    BY <1>16, <1>18, <2>1, <2>2
<1>20. R = FlattenSeq(v)
  BY <1>8, <1>18
<1>21. /\ U = UNION {pieces[i].used :
                        i \in {j \in DOMAIN pieces : \A m \in 1..(j - 1) : ~pieces[m].fails}}
       /\ AllRead(pieces, n) <=> ~(\E i \in DOMAIN pieces : pieces[i].fails)
  BY <1>0, <1>15 DEF Uses, Reached, AllRead
<1>22. FlattenSeq(t) = scheme /\ t = [i \in DOMAIN pieces |-> pieces[i].text]
  BY <1>2, <1>14 DEF texts
<1>23. v = [i \in DOMAIN pieces |-> pieces[i].value]
  BY <1>3 DEF values
<1> QED
  BY <1>19, <1>20, <1>21, <1>22, <1>23, Zenon DEF Expands

LEMMA EveryPatternExpands ==
  ASSUME NEW scheme \in Schemes
  PROVE  PatternsExpand[scheme]
<1>1. ASSUME NEW pieces \in Patterns
      PROVE  Expands(pieces)
  <2>1. pieces \in UNION {[1..n -> Pieces] : n \in 0..MaxPieces} /\ Separated(pieces)
    BY DEF Patterns
  <2>2. PICK n \in 0..MaxPieces : pieces \in [1..n -> Pieces]
    BY <2>1
  <2>3. n \in Nat
    <3>1. MaxPieces \in Nat
      BY SchemeAssumption, Zenon
    <3> QED
      BY <3>1
  <2> QED
    BY <2>1, <2>2, <2>3, PiecesAreExpanded
<1>2. PatternsOf[scheme] \subseteq Patterns
  BY DEF PatternsOf
<1>3. \A pieces \in PatternsOf[scheme] : Expands(pieces)
  BY <1>1, <1>2
<1> QED
  BY <1>3, Zenon DEF PatternsExpand

(* The encoder options in the settings are read as they were entered,       *)
(* whatever quotes, backslashes, separators and spaces they hold, strings   *)
(* as strings and numbers with their value, a whole one as an int: what     *)
(* Parameters::toString() writes, fromString() reads.                       *)
THEOREM OptionsAreReadBack == Spec => []SavedOptionsAreReadBack
<1>1. TypeOK => SavedOptionsAreReadBack
  <2> SUFFICES ASSUME TypeOK, NEW row \in DOMAIN settings.list
               PROVE  OptionsReadBack[settings.list[row].scheme]
    BY DEF SavedOptionsAreReadBack
  <2>1. settings.list \in Seq(Profiles)
    BY DEF TypeOK
  <2>2. settings.list[row] \in Profiles
    BY <2>1
  <2>3. settings.list[row].scheme \in Schemes
    BY <2>2 DEF Profiles
  <2> QED
    BY <2>3, EveryOptionIsReadBack
<1> QED
  BY <1>1, TypeCorrect, PTL

(* Every piece of a profile's scheme is replaced by its own value under its *)
(* own parameters, whatever goes before or follows, or, if a piece has      *)
(* parameters that cannot be read or that no value takes, nothing is left;  *)
(* and the caller is told just the placeholders used up to there:           *)
(* parseScheme() mixes up no two pieces.                                    *)
THEOREM SchemesAreExpanded == Spec => []SchemesExpand
<1>1. TypeOK => SchemesExpand
  <2> SUFFICES ASSUME TypeOK, NEW row \in Rows
               PROVE  PatternsExpand[cache[row].scheme]
    BY DEF SchemesExpand
  <2>1. cache \in Seq(Profiles)
    BY DEF TypeOK
  <2>2. cache[row] \in Profiles
    BY <2>1 DEF Rows
  <2>3. cache[row].scheme \in Schemes
    BY <2>2 DEF Profiles
  <2> QED
    BY <2>3, EveryPatternExpands
<1> QED
  BY <1>1, TypeCorrect, PTL
=============================================================================
