--------------------------- MODULE ExtractionProofs ---------------------------
(***************************************************************************)
(* What becomes of the sectors of a track between the disc and the         *)
(* encoder, for any disc, any order of the thread and the main thread, any *)
(* errors and cancellations, and any number of rips.                       *)
(***************************************************************************)
EXTENDS Extraction, SequenceTheorems, FiniteSetTheorems, NaturalsInduction,
        WellFoundedInduction, TLAPS

-----------------------------------------------------------------------------
(* Least elements, which stand for induction below.                        *)
LEMMA LeastNatural ==
  ASSUME NEW S, S \subseteq Nat, S # {}
  PROVE  \E x \in S : \A y \in S : x <= y
<1> DEFINE R == OpToRel(<, Nat)
<1>1. IsWellFoundedOn(R, Nat)
  BY NatLessThanWellFounded
<1>2. \A x, y \in Nat : x < y => <<x, y>> \in R
  BY DEF OpToRel
<1> HIDE DEF R
<1>3. PICK x \in S : \A y \in S : ~(<<y, x>> \in R)
  BY <1>1, WFMin, Zenon
<1>4. ASSUME NEW y \in S PROVE x <= y
  <2>1. x \in Nat /\ y \in Nat /\ ~(<<y, x>> \in R)
    BY <1>3
  <2>2. ~(y < x)
    BY <1>2, <2>1, Zenon
  <2> QED
    BY <2>1, <2>2
<1> QED
  BY <1>4

(* A set of naturals without 0 and closed under predecessors is empty.     *)
LEMMA NoLeast ==
  ASSUME NEW S, S \subseteq Nat, 0 \notin S,
         \A n \in Nat : n + 1 \in S => n \in S
  PROVE  S = {}
<1> SUFFICES ASSUME S # {}
             PROVE  FALSE
  OBVIOUS
<1>1. PICK x \in S : \A y \in S : x <= y
  BY LeastNatural
<1>2. x \in Nat /\ x # 0
  BY <1>1
<1>3. x - 1 \in Nat /\ x = (x - 1) + 1
  BY <1>2
<1>4. x - 1 \in S
  BY <1>1, <1>3
<1> QED
  BY <1>1, <1>2, <1>4

LEMMA OneLess ==
  ASSUME NEW S, IsFiniteSet(S), NEW n \in Nat, Cardinality(S) = n + 1, NEW x \in S
  PROVE  Cardinality(S \ {x}) = n
<1>1. Cardinality(S \ {x}) = Cardinality(S) - 1
  BY FS_RemoveElement
<1> QED
  BY <1>1

-----------------------------------------------------------------------------
(* Sums over finite sets.                                                  *)

Any(s) == CHOOSE x \in s : TRUE

(* The equation of the fold behind SumFunction, on the subsets of D.       *)
Adds(g, w, D) ==
  g = [s \in SUBSET D |-> IF s = {} THEN 0 ELSE w[Any(s)] + g[s \ {Any(s)}]]

LEMMA SumFunctionIs ==
  ASSUME NEW w
  PROVE  SumFunction(w) = (CHOOSE g : Adds(g, w, DOMAIN w))[DOMAIN w]
BY DEF SumFunction, SumFunctionOnSet, FoldFunctionOnSet, MapThenFoldSet, Adds, Any

(* It has a solution: one for the sets of n elements gives one for n + 1.  *)
LEMMA SumExists ==
  ASSUME NEW D, IsFiniteSet(D), NEW w
  PROVE  \E g : Adds(g, w, D)
<1> DEFINE Small(n)  == {s \in SUBSET D : Cardinality(s) <= n}
           AddsTo(h, n) == h = [s \in Small(n) |->
                                  IF s = {} THEN 0 ELSE w[Any(s)] + h[s \ {Any(s)}]]
           Bad == {n \in Nat : ~\E h : AddsTo(h, n)}
<1>1. \A s \in SUBSET D : /\ IsFiniteSet(s) /\ Cardinality(s) \in Nat
                          /\ Cardinality(s) <= Cardinality(D)
                          /\ Cardinality(s) = 0 <=> s = {}
  BY FS_Subset, FS_CardinalityType, FS_EmptySet
<1>2. 0 \notin Bad
  <2> DEFINE h == [s \in Small(0) |-> 0]
  <2>1. Small(0) = {{}}
    BY <1>1, FS_EmptySet
  <2>2. AddsTo(h, 0)
    BY <2>1
  <2> QED
    BY <2>2
<1>3. ASSUME NEW n \in Nat, n \notin Bad
      PROVE  n + 1 \notin Bad
  <2>1. PICK h : AddsTo(h, n)
    BY <1>3
  <2> DEFINE k == [s \in Small(n + 1) |->
                     IF s = {} THEN 0 ELSE w[Any(s)] + h[s \ {Any(s)}]]
  <2>2. Small(n) \subseteq Small(n + 1)
    BY <1>1, <1>3
  <2>3. \A s \in Small(n) : k[s] = h[s]
    BY <2>1, <2>2
  <2>4. \A s \in Small(n + 1) : s # {} => s \ {Any(s)} \in Small(n)
    <3> SUFFICES ASSUME NEW s \in Small(n + 1), s # {}
                 PROVE  s \ {Any(s)} \in Small(n)
      OBVIOUS
    <3>1. Any(s) \in s
      BY DEF Any
    <3>2. Cardinality(s \ {Any(s)}) = Cardinality(s) - 1
      BY <1>1, <3>1, FS_RemoveElement
    <3> QED
      BY <1>1, <1>3, <3>2
  <2>5. AddsTo(k, n + 1)
    <3> HIDE DEF Small
    <3>1. \A s \in Small(n + 1) : s # {} => k[s \ {Any(s)}] = h[s \ {Any(s)}]
      BY <2>3, <2>4
    <3> QED
      BY <3>1, Zenon
  <2> QED
    BY <2>5
<1>4. Bad = {}
  <2> HIDE DEF AddsTo
  <2>1. Bad \subseteq Nat /\ \A n \in Nat : n + 1 \in Bad => n \in Bad
    BY <1>3
  <2> HIDE DEF Bad
  <2> QED
    BY <1>2, <2>1, NoLeast
<1>5. PICK h : AddsTo(h, Cardinality(D))
  BY <1>1, <1>4
<1>6. Small(Cardinality(D)) = SUBSET D
  BY <1>1
<1> QED
  BY <1>5, <1>6 DEF Adds

(* What is added up depends only on the set.                               *)
LEMMA SumOnSubset ==
  ASSUME NEW D, IsFiniteSet(D), NEW S \in SUBSET D, NEW w, NEW v,
         \A t \in S : w[t] = v[t],
         NEW g, Adds(g, w, D), NEW h, Adds(h, v, S)
  PROVE  \A s \in SUBSET S : g[s] = h[s]
<1> DEFINE Bad == {n \in Nat : \E s \in SUBSET S : Cardinality(s) = n /\ g[s] # h[s]}
<1>1. \A s \in SUBSET S : /\ IsFiniteSet(s) /\ Cardinality(s) \in Nat
                          /\ Cardinality(s) = 0 <=> s = {}
  BY FS_Subset, FS_CardinalityType, FS_EmptySet
<1>2. \A s \in SUBSET S : s = {} => g[s] = h[s]
  BY DEF Adds
<1>3. 0 \notin Bad
  BY <1>1, <1>2
<1>4. ASSUME NEW n \in Nat, n + 1 \in Bad
      PROVE  n \in Bad
  <2>1. PICK s \in SUBSET S : Cardinality(s) = n + 1 /\ g[s] # h[s]
    BY <1>4
  <2>2. s # {} /\ Any(s) \in s
    BY <1>2, <2>1 DEF Any
  <2>3. PICK r \in SUBSET S : r = s \ {Any(s)}
    OBVIOUS
  <2>4. g[s] = w[Any(s)] + g[r] /\ h[s] = v[Any(s)] + h[r]
    BY <2>2, <2>3 DEF Adds
  <2>5. g[r] # h[r]
    BY <2>1, <2>2, <2>4
  <2>6. Cardinality(r) = n
    BY <1>1, <2>1, <2>2, <2>3, OneLess, Zenon
  <2> QED
    BY <2>5, <2>6
<1>5. Bad = {}
  <2>1. Bad \subseteq Nat /\ \A n \in Nat : n + 1 \in Bad => n \in Bad
    BY <1>4
  <2> HIDE DEF Bad
  <2> QED
    BY <1>3, <2>1, NoLeast
<1> QED
  BY <1>1, <1>5

(* The sum over D is the element taken out and the sum over the rest,      *)
(* whichever element that is.                                              *)
LEMMA SumType ==
  ASSUME NEW D, IsFiniteSet(D), NEW w, \A t \in D : w[t] \in Int, NEW g, Adds(g, w, D)
  PROVE  \A s \in SUBSET D : g[s] \in Int
<1> DEFINE Bad == {n \in Nat : \E s \in SUBSET D : Cardinality(s) = n /\ g[s] \notin Int}
<1>1. \A s \in SUBSET D : /\ IsFiniteSet(s) /\ Cardinality(s) \in Nat
                          /\ Cardinality(s) = 0 <=> s = {}
  BY FS_Subset, FS_CardinalityType, FS_EmptySet
<1>2. \A s \in SUBSET D : s = {} => g[s] = 0
  BY DEF Adds
<1>3. 0 \notin Bad
  BY <1>1, <1>2
<1>4. ASSUME NEW n \in Nat, n + 1 \in Bad
      PROVE  n \in Bad
  <2>1. PICK s \in SUBSET D : Cardinality(s) = n + 1 /\ g[s] \notin Int
    BY <1>4
  <2>2. s # {} /\ Any(s) \in s
    BY <1>2, <2>1 DEF Any
  <2>3. PICK r \in SUBSET D : r = s \ {Any(s)}
    OBVIOUS
  <2>4. g[s] = w[Any(s)] + g[r]
    BY <2>2, <2>3 DEF Adds
  <2>5. g[r] \notin Int
    BY <2>1, <2>2, <2>4
  <2>6. Cardinality(r) = n
    BY <1>1, <2>1, <2>2, <2>3, OneLess, Zenon
  <2> QED
    BY <2>5, <2>6
<1>5. Bad = {}
  <2>1. Bad \subseteq Nat /\ \A n \in Nat : n + 1 \in Bad => n \in Bad
    BY <1>4
  <2> HIDE DEF Bad
  <2> QED
    BY <1>3, <2>1, NoLeast
<1> QED
  BY <1>1, <1>5

LEMMA SumTakesOut ==
  ASSUME NEW D, IsFiniteSet(D), NEW w, \A t \in D : w[t] \in Int, NEW g, Adds(g, w, D)
  PROVE  \A s \in SUBSET D, x \in D : x \in s => g[s] = w[x] + g[s \ {x}]
<1> DEFINE Bad == {n \in Nat : \E s \in SUBSET D : \E x \in s :
                                  Cardinality(s) = n /\ g[s] # w[x] + g[s \ {x}]}
<1>1. \A s \in SUBSET D : /\ IsFiniteSet(s) /\ Cardinality(s) \in Nat
                          /\ Cardinality(s) = 0 <=> s = {}
  BY FS_Subset, FS_CardinalityType, FS_EmptySet
<1>2. \A s \in SUBSET D : g[s] \in Int
  BY SumType
<1>3. 0 \notin Bad
  BY <1>1
<1>4. ASSUME NEW n \in Nat, n + 1 \in Bad
      PROVE  n \in Bad
  <2>0. PICK s \in SUBSET D : \E x \in s : Cardinality(s) = n + 1 /\ g[s] # w[x] + g[s \ {x}]
    BY <1>4
  <2>1. PICK x \in s : Cardinality(s) = n + 1 /\ g[s] # w[x] + g[s \ {x}]
    BY <2>0
  <2>2. PICK c : c = Any(s) /\ c \in s
    BY <2>1 DEF Any
  <2>3. g[s] = w[c] + g[s \ {c}]
    BY <2>2 DEF Adds
  <2>4. c # x
    BY <2>1, <2>3
  <2>5. PICK r \in SUBSET D : r = s \ {c}
    OBVIOUS
  <2>6. PICK q \in SUBSET D : q = s \ {x}
    OBVIOUS
  <2>7. r \ {x} = q \ {c} /\ r \ {x} \in SUBSET D /\ x \in r /\ c \in q
    BY <2>2, <2>4, <2>5, <2>6
  <2>8. Cardinality(r) = n /\ Cardinality(q) = n
    BY <1>1, <2>1, <2>2, <2>5, <2>6, OneLess, Zenon
  <2>9. CASE n \notin Bad
    <3>1. g[r] = w[x] + g[r \ {x}] /\ g[q] = w[c] + g[q \ {c}]
      BY <2>7, <2>8, <2>9
    <3>2. /\ w[x] \in Int /\ w[c] \in Int
          /\ g[s] \in Int /\ g[r] \in Int /\ g[q] \in Int /\ g[r \ {x}] \in Int
      BY <1>2, <2>2, <2>7
    <3>a. g[s] = w[c] + g[r] /\ g[q] = w[c] + g[r \ {x}]
      BY <2>3, <2>5, <2>7, <3>1, Zenon
    <3> HIDE DEF Bad
    <3>3. g[s] = w[x] + g[q]
      BY <3>1, <3>2, <3>a
    <3>4. g[s] = w[x] + g[s \ {x}]
      BY <2>6, <3>3, Zenon
    <3> QED
      BY <2>1, <3>4, Zenon
  <2> QED
    BY <2>9
<1>5. Bad = {}
  <2>1. Bad \subseteq Nat /\ \A n \in Nat : n + 1 \in Bad => n \in Bad
    BY <1>4
  <2> HIDE DEF Bad
  <2> QED
    BY <1>3, <2>1, NoLeast
<1> QED
  BY <1>1, <1>5
-----------------------------------------------------------------------------
(* The inductive invariant, in three layers.                               *)

Shift == SampleOffset \div 588

(* What the layers above the types assume of the constants: no rip's table *)
(* of contents begins before the disc, and the folder has room for a disc. *)
OnDisc == \A k \in 0..MaxRips : Toc[1] + k * Shift >= 0
Room   == \A k \in 0..MaxRips : Free >= Toc[NTracks + 1] + k * Shift

Drives  == [toc : [1..(NTracks + 1) -> Int], mask : 0..255, never : BOOLEAN]
Threads == [running : BOOLEAN, checked : BOOLEAN, reading : BOOLEAN, track : 0..NTracks,
            current : Int,
            last : Int, mode : 0..3, never : BOOLEAN, offset_done : BOOLEAN,
            interrupt : BOOLEAN, error : BOOLEAN, overall : Nat]
Signals == [signal : {"output"}, sector : Int] \cup [signal : {"error", "finished"}]
Rips    == [selection : SUBSET Tracks, skipped : SUBSET Tracks, single_file : BOOLEAN,
            mode : 0..3, never : BOOLEAN]
Jobs    == [track : 0..NTracks, opened : BOOLEAN, data : Seq(Int), header : Nat]
Audexes == [rip : Rips, rips : 0..MaxRips, index : 0..(NTracks + 1), finished : BOOLEAN,
            jobs : Seq(Jobs)]
Files   == [open : BOOLEAN, data : Seq(Int), buffer : Seq(Int), header : Nat,
            written : Nat, free : Nat]

Types ==
  /\ drive \in Drives /\ thread \in Threads /\ posted \in Seq(Signals)
  /\ audex \in Audexes /\ file \in Files

(* The table of contents after k rips that shifted it, at most one shift   *)
(* per rip.                                                                *)
Shifted(k) == [i \in 1..(NTracks + 1) |-> Toc[i] + k * Shift]
Applied == SampleOffset # 0 => thread.offset_done
TocIsShifted ==
  /\ thread.offset_done => SampleOffset # 0
  /\ \E k \in 0..audex.rips : /\ drive.toc = Shifted(k)
                              /\ audex.rips > 0 /\ ~thread.offset_done => k < audex.rips

(* The signals of a track: sectors, then errors, then its end, and nothing *)
(* is queued or in the wave file between two tracks.                       *)
Shape(p, running) ==
  /\ \A i \in 1..Len(p) : p[i].signal = "finished" <=> i = Len(p) /\ ~running
  /\ \A i, j \in 1..Len(p) :
       p[i].signal = "error" => ~running /\ (j > i => p[j].signal # "output")
Stream ==
  /\ thread.reading => thread.running /\ thread.checked
  /\ thread.running => audex.rips > 0
  /\ audex.rips = 0 => posted = <<>> /\ audex.jobs = <<>>
  /\ Shape(posted, thread.running)
  /\ ~thread.reading /\ posted = <<>> => file.data = <<>> /\ file.buffer = <<>> /\ file.written = 0
  /\ thread.running /\ ~thread.reading => posted = <<>>
  /\ thread.interrupt => audex.finished
  /\ Len(file.buffer) <= Chunk

(* g[i]: the sectors of the first i jobs.                                  *)
Totals(g, jobs) ==
  /\ g \in [0..Len(jobs) -> Nat] /\ g[0] = 0
  /\ \A i \in 1..Len(jobs) : g[i] = g[i - 1] + Len(jobs[i].data)
SpaceIsKept ==
  \E g : Totals(g, audex.jobs) /\ file.free + Len(file.data) + g[Len(audex.jobs)] = Free

TypeInv == Types /\ TocIsShifted /\ Stream /\ SpaceIsKept

(* A rip that was neither stopped nor has come to its end.                 *)
Ripping == audex.rips > 0 /\ ~audex.finished /\ audex.index # NTracks + 1
NoError == \A i \in 1..Len(posted) : posted[i].signal # "error"
First == FirstSector(drive.toc, thread.track)
Last  == LastSector(drive.toc, thread.track)
Below(sel, t) == {s \in sel : s < t}

TrackInv ==
  /\ audex.index = NTracks + 1 => ~thread.running /\ posted = <<>>
  /\ thread.reading \/ audex.jobs # <<>> => Applied
  /\ Ripping =>
       /\ thread.running \/ posted # <<>>
       /\ audex.index \in Tracks
       /\ thread.track = IF audex.rip.single_file THEN 0 ELSE audex.index
       /\ ~audex.rip.single_file => audex.index \in audex.rip.selection
       /\ posted # <<>> => Applied
       /\ thread.reading => thread.last = Last /\ thread.current <= Last + 1
  /\ Ripping /\ ~audex.rip.single_file =>
       /\ thread.running /\ ~thread.reading =>
            thread.overall = Frames(drive.toc, Below(audex.rip.selection, audex.index))
       /\ thread.reading =>
            thread.overall = Frames(drive.toc, Below(audex.rip.selection, audex.index)) + (thread.current - First)
       /\ ~thread.running /\ NoError =>
            thread.overall = Frames(drive.toc, Below(audex.rip.selection, audex.index)) + (Last + 1 - First)
  /\ ProgressAddsUp

Base == IF audex.rip.single_file THEN 0 ELSE drive.toc[audex.index] - drive.toc[1]

(* The file and its buffer hold consecutive sectors from the first on.     *)
Consecutive(f, first) ==
  /\ \A i \in 1..Len(f.data) : f.data[i] = first + i - 1
  /\ \A i \in 1..Len(f.buffer) : f.buffer[i] = first + Len(f.data) + i - 1
  /\ f.written = Len(f.data) + Len(f.buffer)

(* A track that is read into its wave file, and not past one that could not*)
(* be opened.                                                              *)
Writing == Ripping /\ file.open

WaveInv ==
  /\ Ripping => file.free + Len(file.data) + Base >= Free
  /\ Ripping /\ ~file.open => file.data = <<>> /\ file.buffer = <<>> /\ file.written = 0
  /\ Writing =>
       /\ Consecutive(file, First)
       /\ \A i \in 1..Len(posted) : posted[i].signal = "output" =>
            posted[i].sector = First + file.written + i - 1 /\ posted[i].sector <= Last
       /\ thread.reading => thread.current = First + file.written + Len(posted)
       /\ ~thread.running /\ NoError => Last + 1 = First + file.written + Len(posted) - 1
  /\ WaveIsTheTrack

-----------------------------------------------------------------------------
(* The table of contents.                                                  *)

LEMMA ShiftType == Shift \in Int
BY ExtractionAssumption DEF Shift

LEMMA ShiftedType ==
  ASSUME NEW k \in Int
  PROVE  Shifted(k) \in [1..(NTracks + 1) -> Int]
<1>1. \A i \in 1..(NTracks + 1) : Toc[i] + k * Shift \in Int
  BY ExtractionAssumption, ShiftType
<1> QED
  BY <1>1 DEF Shifted

LEMMA ShiftedOnce ==
  ASSUME NEW k \in Int, NEW d \in Drives, d.toc = Shifted(k)
  PROVE  /\ ApplyOffset(d) \in Drives /\ ApplyOffset(d).toc = Shifted(k + 1)
<1>1. ApplyOffset(d) = [d EXCEPT !.toc = [i \in 1..(NTracks + 1) |-> d.toc[i] + Shift]]
  BY ShiftedType DEF ApplyOffset, Shift
<1>2. \A i \in 1..(NTracks + 1) : d.toc[i] + Shift = Toc[i] + (k + 1) * Shift
  <2> SUFFICES ASSUME NEW i \in 1..(NTracks + 1)
               PROVE  d.toc[i] + Shift = Toc[i] + (k + 1) * Shift
    OBVIOUS
  <2>1. d.toc[i] = Toc[i] + k * Shift
    BY DEF Shifted
  <2>2. Toc[i] \in Int
    BY ExtractionAssumption
  <2> QED
    BY <2>1, <2>2, ShiftType
<1>3. [i \in 1..(NTracks + 1) |-> d.toc[i] + Shift] = Shifted(k + 1)
  BY <1>2 DEF Shifted
<1>4. Shifted(k + 1) \in [1..(NTracks + 1) -> Int]
  BY ShiftedType
<1> QED
  BY <1>1, <1>3, <1>4, ZenonT(60) DEF Drives

LEMMA TracksAreFinite == IsFiniteSet(Tracks) /\ \A S \in SUBSET Tracks : IsFiniteSet(S)
<1>1. 1 \in Int /\ NTracks \in Int
  BY ExtractionAssumption
<1>2. IsFiniteSet(Tracks)
  BY <1>1, FS_Interval, Zenon DEF Tracks
<1> QED
  BY <1>2, FS_Subset

(* The tracks of the disc do not overlap.                                  *)
LEMMA TocGrows ==
  ASSUME NEW s \in 1..(NTracks + 1), NEW t \in 1..(NTracks + 1), s < t
  PROVE  Toc[s] < Toc[t]
<1> DEFINE Bad == {n \in Nat : s + 1 + n <= NTracks + 1 /\ ~(Toc[s] < Toc[s + 1 + n])}
<1>1. 0 \notin Bad
  BY ExtractionAssumption DEF Tracks
<1>2. ASSUME NEW n \in Nat, n + 1 \in Bad
      PROVE  n \in Bad
  <2>1. s + 1 + n \in Tracks /\ s + 1 + n + 1 = s + 1 + (n + 1)
    BY <1>2, ExtractionAssumption DEF Tracks
  <2>2. Toc[s + 1 + n] < Toc[s + 1 + (n + 1)]
    BY <2>1, ExtractionAssumption
  <2>3. /\ Toc[s] \in Nat /\ Toc[s + 1 + n] \in Nat /\ Toc[s + 1 + (n + 1)] \in Nat
        /\ s + 1 + n <= NTracks + 1
    BY <1>2, <2>1, ExtractionAssumption DEF Tracks
  <2>4. ~(Toc[s] < Toc[s + 1 + (n + 1)])
    BY <1>2
  <2>5. ~(Toc[s] < Toc[s + 1 + n])
    BY <2>2, <2>3, <2>4
  <2> QED
    BY <2>3, <2>5
<1>3. Bad = {}
  <2>1. Bad \subseteq Nat /\ \A n \in Nat : n + 1 \in Bad => n \in Bad
    BY <1>2
  <2> HIDE DEF Bad
  <2> QED
    BY <1>1, <2>1, NoLeast
<1>4. t - s - 1 \in Nat /\ t = s + 1 + (t - s - 1)
  BY ExtractionAssumption
<1>5. t - s - 1 \notin Bad
  BY <1>3
<1> QED
  BY <1>4, <1>5, ExtractionAssumption

LEMMA ShiftedGrows ==
  ASSUME NEW k \in Int, NEW s \in 1..(NTracks + 1), NEW t \in 1..(NTracks + 1), s < t
  PROVE  Shifted(k)[s] < Shifted(k)[t]
<1>1. Toc[s] \in Int /\ Toc[t] \in Int /\ Toc[s] < Toc[t]
  BY TocGrows, ExtractionAssumption
<1>2. PICK x \in Int : x = k * Shift
  BY ShiftType
<1>3. Shifted(k)[s] = Toc[s] + x /\ Shifted(k)[t] = Toc[t] + x
  BY <1>2 DEF Shifted
<1> QED
  BY <1>1, <1>3

-----------------------------------------------------------------------------
(* Frames.                                                                 *)

(* What NumOfFramesOfTrack tells of a track, and that it is a length.      *)
LEMMA NumOfFrames ==
  ASSUME NEW k \in Int, NEW t \in Tracks
  PROVE  LET toc == Shifted(k) IN
         /\ NumOfFramesOfTrack(toc, t) \in Nat
         /\ toc[t] \in Int /\ toc[t + 1] \in Int
         /\ NumOfFramesOfTrack(toc, t) = toc[t + 1] - toc[t] - (IF t = NTracks THEN 1 ELSE 0)
         /\ NumOfFramesOfTrack(toc, t) = NumOfFramesOfTrack(Shifted(0), t)
<1> DEFINE toc == Shifted(k)
<1>1. t \in 1..(NTracks + 1) /\ t + 1 \in 1..(NTracks + 1) /\ NTracks \in Nat \ {0} /\ t \in Nat
  BY ExtractionAssumption DEF Tracks
<1>2. toc[t] \in Int /\ toc[t + 1] \in Int /\ toc[t] < toc[t + 1]
  <2>1. toc \in [1..(NTracks + 1) -> Int]
    BY ShiftedType
  <2>2. toc[t] < toc[t + 1]
    BY <1>1, ShiftedGrows
  <2> HIDE DEF toc
  <2> QED
    BY <1>1, <2>1, <2>2
<1>3. NumOfFramesOfTrack(toc, t) = toc[t + 1] - toc[t] - (IF t = NTracks THEN 1 ELSE 0)
  BY <1>1, <1>2 DEF NumOfFramesOfTrack, LastSector
<1>4. Shifted(0)[t] \in Int /\ Shifted(0)[t + 1] \in Int
  <2>1. Shifted(0) \in [1..(NTracks + 1) -> Int]
    BY ShiftedType
  <2> QED
    BY <1>1, <2>1
<1>5. NumOfFramesOfTrack(Shifted(0), t) =
        Shifted(0)[t + 1] - Shifted(0)[t] - (IF t = NTracks THEN 1 ELSE 0)
  BY <1>1, <1>4 DEF NumOfFramesOfTrack, LastSector
<1>6. toc[t + 1] - toc[t] = Shifted(0)[t + 1] - Shifted(0)[t]
  <2>1. PICK x \in Int : x = k * Shift
    BY ShiftType
  <2>2. Toc[t] \in Int /\ Toc[t + 1] \in Int
    BY <1>1, ExtractionAssumption
  <2>3. toc[t] = Toc[t] + x /\ toc[t + 1] = Toc[t + 1] + x
    BY <1>1, <2>1 DEF Shifted
  <2>4. Shifted(0)[t] = Toc[t] /\ Shifted(0)[t + 1] = Toc[t + 1]
    BY <1>1, <2>2, ShiftType DEF Shifted
  <2> QED
    BY <2>2, <2>3, <2>4
<1> QED
  BY <1>2, <1>3, <1>5, <1>6

(* Frames is a sum over tracks.                                            *)
LEMMA FramesAdds ==
  ASSUME NEW k \in Int
  PROVE  /\ Frames(Shifted(k), {}) = 0
         /\ \A S \in SUBSET Tracks : Frames(Shifted(k), S) \in Int
         /\ \A S \in SUBSET Tracks, t \in Tracks : t \in S =>
              Frames(Shifted(k), S) =
                NumOfFramesOfTrack(Shifted(k), t) + Frames(Shifted(k), S \ {t})
<1> DEFINE W(S) == [t \in S |-> NumOfFramesOfTrack(Shifted(k), t)]
<1>1. PICK g : Adds(g, W(Tracks), Tracks)
  BY SumExists, TracksAreFinite
<1>2. ASSUME NEW S \in SUBSET Tracks
      PROVE  Frames(Shifted(k), S) = g[S]
  <2>1. DOMAIN W(S) = S
    OBVIOUS
  <2>2. \E h : Adds(h, W(S), S)
    BY SumExists, TracksAreFinite
  <2>3. PICK h : h = CHOOSE f : Adds(f, W(S), S)
    OBVIOUS
  <2>4. Adds(h, W(S), S)
    BY <2>2, <2>3
  <2>5. Frames(Shifted(k), S) = h[S]
    <3>1. Frames(Shifted(k), S) = SumFunction(W(S))
      BY DEF Frames
    <3> HIDE DEF W
    <3> QED
      BY <2>1, <2>3, <3>1, SumFunctionIs, Zenon
  <2>6. \A t \in S : W(Tracks)[t] = W(S)[t]
    OBVIOUS
  <2> HIDE DEF W
  <2>7. \A s \in SUBSET S : g[s] = h[s]
    BY <1>1, <2>4, <2>6, TracksAreFinite, SumOnSubset
  <2> QED
    BY <2>5, <2>7
<1>3. \A t \in Tracks : W(Tracks)[t] = NumOfFramesOfTrack(Shifted(k), t) /\ W(Tracks)[t] \in Int
  BY NumOfFrames
<1> HIDE DEF W
<1>4. \A s \in SUBSET Tracks : g[s] \in Int
  BY <1>1, <1>3, SumType, TracksAreFinite
<1>5. \A s \in SUBSET Tracks, x \in Tracks : x \in s => g[s] = W(Tracks)[x] + g[s \ {x}]
  <2>1. PICK v : v = W(Tracks)
    OBVIOUS
  <2>2. Adds(g, v, Tracks) /\ IsFiniteSet(Tracks) /\ \A t \in Tracks : v[t] \in Int
    BY <1>1, <1>3, <2>1, TracksAreFinite
  <2>3. \A s \in SUBSET Tracks, x \in Tracks : x \in s => g[s] = v[x] + g[s \ {x}]
    BY <2>2, SumTakesOut
  <2> QED
    BY <2>1, <2>3
<1>6. g[{}] = 0
  BY <1>1 DEF Adds
<1> QED
  BY <1>2, <1>3, <1>4, <1>5, <1>6, Zenon

(* It is a natural number, and the table's shift does not matter to it.    *)
LEMMA FramesShift ==
  ASSUME NEW k \in Int, NEW S \in SUBSET Tracks
  PROVE  Frames(Shifted(k), S) = Frames(Shifted(0), S)
<1>1. \A t \in S : NumOfFramesOfTrack(Shifted(k), t) = NumOfFramesOfTrack(Shifted(0), t)
  BY NumOfFrames
<1>2. [t \in S |-> NumOfFramesOfTrack(Shifted(k), t)] =
        [t \in S |-> NumOfFramesOfTrack(Shifted(0), t)]
  BY <1>1, Zenon
<1> QED
  BY <1>2 DEF Frames

LEMMA FramesNat ==
  ASSUME NEW k \in Int
  PROVE  \A S \in SUBSET Tracks : Frames(Shifted(k), S) \in Nat
<1> DEFINE F(S) == Frames(Shifted(k), S)
           Bad == {n \in Nat : \E S \in SUBSET Tracks : Cardinality(S) = n /\ F(S) \notin Nat}
<1>1. /\ F({}) = 0
      /\ \A S \in SUBSET Tracks, t \in Tracks : t \in S =>
           F(S) = NumOfFramesOfTrack(Shifted(k), t) + F(S \ {t})
  BY FramesAdds
<1>2. \A t \in Tracks : NumOfFramesOfTrack(Shifted(k), t) \in Nat
  BY NumOfFrames
<1> HIDE DEF F
<1>3. \A S \in SUBSET Tracks : /\ IsFiniteSet(S) /\ Cardinality(S) \in Nat
                               /\ Cardinality(S) = 0 <=> S = {}
  BY TracksAreFinite, FS_CardinalityType, FS_EmptySet
<1>4. 0 \notin Bad
  BY <1>1, <1>3
<1>5. ASSUME NEW n \in Nat, n + 1 \in Bad
      PROVE  n \in Bad
  <2>1. PICK S \in SUBSET Tracks : Cardinality(S) = n + 1 /\ F(S) \notin Nat
    BY <1>5
  <2>2. PICK t \in Tracks : t \in S
    BY <1>3, <2>1
  <2>3. PICK R \in SUBSET Tracks : R = S \ {t}
    OBVIOUS
  <2>4. Cardinality(R) = n
    BY <1>3, <2>1, <2>2, <2>3, OneLess, Zenon
  <2>5. F(S) = NumOfFramesOfTrack(Shifted(k), t) + F(R)
    BY <1>1, <2>2, <2>3
  <2>6. F(R) \notin Nat
    BY <1>2, <2>1, <2>5
  <2> QED
    BY <2>4, <2>6
<1>6. Bad = {}
  <2>1. Bad \subseteq Nat /\ \A n \in Nat : n + 1 \in Bad => n \in Bad
    BY <1>5
  <2> HIDE DEF Bad
  <2> QED
    BY <1>4, <2>1, NoLeast
<1> QED
  BY <1>3, <1>6 DEF F

(* The frames of disjoint sets of tracks add up.                           *)
LEMMA FramesUnion ==
  ASSUME NEW k \in Int, NEW A \in SUBSET Tracks
  PROVE  \A B \in SUBSET Tracks : A \cap B = {} =>
           Frames(Shifted(k), A \cup B) = Frames(Shifted(k), A) + Frames(Shifted(k), B)
<1> DEFINE F(S) == Frames(Shifted(k), S)
           Bad == {n \in Nat : \E B \in SUBSET Tracks : /\ Cardinality(B) = n /\ A \cap B = {}
                                                        /\ F(A \cup B) # F(A) + F(B)}
<1>1. /\ F({}) = 0
      /\ \A S \in SUBSET Tracks, t \in Tracks : t \in S =>
           F(S) = NumOfFramesOfTrack(Shifted(k), t) + F(S \ {t})
      /\ \A S \in SUBSET Tracks : F(S) \in Nat
  BY FramesAdds, FramesNat
<1>2. \A t \in Tracks : NumOfFramesOfTrack(Shifted(k), t) \in Nat
  BY NumOfFrames
<1> HIDE DEF F
<1>3. \A S \in SUBSET Tracks : /\ IsFiniteSet(S) /\ Cardinality(S) \in Nat
                               /\ Cardinality(S) = 0 <=> S = {}
  BY TracksAreFinite, FS_CardinalityType, FS_EmptySet
<1>4. 0 \notin Bad
  <2>1. A \cup {} = A
    OBVIOUS
  <2>2. F(A) = F(A) + 0
    BY <1>1
  <2> QED
    BY <1>1, <1>3, <2>1, <2>2
<1>5. ASSUME NEW n \in Nat, n + 1 \in Bad
      PROVE  n \in Bad
  <2>1. PICK B \in SUBSET Tracks : /\ Cardinality(B) = n + 1 /\ A \cap B = {}
                                   /\ F(A \cup B) # F(A) + F(B)
    BY <1>5
  <2>2. PICK t \in Tracks : t \in B
    BY <1>3, <2>1
  <2>3. PICK R \in SUBSET Tracks : R = B \ {t}
    OBVIOUS
  <2>4. Cardinality(R) = n
    BY <1>3, <2>1, <2>2, <2>3, OneLess, Zenon
  <2>5. PICK U \in SUBSET Tracks : U = A \cup B
    OBVIOUS
  <2>6. PICK V \in SUBSET Tracks : V = A \cup R
    OBVIOUS
  <2>7. V = U \ {t} /\ t \in U /\ A \cap R = {}
    BY <2>1, <2>2, <2>3, <2>5, <2>6
  <2>8. PICK x \in Nat : x = NumOfFramesOfTrack(Shifted(k), t)
    BY <1>2
  <2>9. F(U) = x + F(V) /\ F(B) = x + F(R)
    BY <1>1, <2>2, <2>3, <2>7, <2>8, Zenon
  <2>10. F(V) \in Nat /\ F(R) \in Nat /\ F(A) \in Nat
    BY <1>1
  <2>11. F(U) # F(A) + F(B)
    BY <2>1, <2>5, Zenon
  <2>12. F(V) # F(A) + F(R)
    BY <2>9, <2>10, <2>11
  <2> QED
    BY <2>4, <2>6, <2>7, <2>12
<1>6. Bad = {}
  <2>1. Bad \subseteq Nat /\ \A n \in Nat : n + 1 \in Bad => n \in Bad
    BY <1>5
  <2> HIDE DEF Bad
  <2> QED
    BY <1>4, <2>1, NoLeast
<1> QED
  BY <1>3, <1>6, Zenon DEF F

-----------------------------------------------------------------------------
(* The operators on the drive and on the wave file.                        *)

LEMMA ModeIsSet ==
  ASSUME NEW d \in Drives, NEW mode, NEW b \in BOOLEAN
  PROVE  /\ SetParanoiaMode(d, mode) \in Drives /\ SetParanoiaMode(d, mode).toc = d.toc
         /\ SetNeverSkip(d, b) \in Drives /\ SetNeverSkip(d, b).toc = d.toc
<1>1. ASSUME NEW e \in Drives, NEW m
      PROVE  SetParanoiaMode(e, m) \in Drives /\ SetParanoiaMode(e, m).toc = e.toc
  <2>1. PICK x \in 0..223 : x = CASE m = 0 -> 0
                                  [] m = 1 -> FULL - NEVERSKIP - 1
                                  [] m = 2 -> FULL - NEVERSKIP - 24
                                  [] OTHER -> FULL - NEVERSKIP
    BY DEF FULL, NEVERSKIP
  <2>2. PICK y \in 0..255 : y = IF e.never THEN x + NEVERSKIP ELSE x
    BY DEF NEVERSKIP
  <2>3. SetParanoiaMode(e, m) = [e EXCEPT !.mask = y]
    <3> DEFINE base == CASE m = 0 -> 0
                         [] m = 1 -> FULL - NEVERSKIP - 1
                         [] m = 2 -> FULL - NEVERSKIP - 24
                         [] OTHER -> FULL - NEVERSKIP
    <3>1. SetParanoiaMode(e, m) = [e EXCEPT !.mask = IF e.never THEN base + NEVERSKIP ELSE base]
      BY DEF SetParanoiaMode
    <3>2. base = x
      BY <2>1
    <3> HIDE DEF base
    <3> QED
      BY <2>2, <3>1, <3>2, Zenon
  <2> QED
    BY <2>3, ZenonT(60) DEF Drives
<1>2. [d EXCEPT !.never = b] \in Drives /\ [d EXCEPT !.never = b].toc = d.toc
  BY ZenonT(60) DEF Drives
<1> QED
  BY <1>1, <1>2 DEF SetNeverSkip

LEMMA FilesAre ==
  ASSUME NEW f \in Files
  PROVE  /\ f.open \in BOOLEAN /\ f.data \in Seq(Int) /\ f.buffer \in Seq(Int)
         /\ f.header \in Nat /\ f.written \in Nat /\ f.free \in Nat
         /\ Len(f.data) \in Nat /\ Len(f.buffer) \in Nat
<1>1. /\ f.open \in BOOLEAN /\ f.data \in Seq(Int) /\ f.buffer \in Seq(Int)
      /\ f.header \in Nat /\ f.written \in Nat /\ f.free \in Nat
  BY DEF Files
<1> QED
  BY <1>1, LenProperties

LEMMA FlushIs ==
  ASSUME NEW f \in Files
  PROVE  \E n \in Nat :
           /\ n <= Len(f.buffer) /\ n <= f.free /\ (n = Len(f.buffer) \/ n = f.free)
           /\ Flush(f) \in Files
           /\ Flush(f).data = f.data \o SubSeq(f.buffer, 1, n)
           /\ Flush(f).buffer = SubSeq(f.buffer, n + 1, Len(f.buffer))
           /\ Flush(f).free = f.free - n
           /\ Flush(f).written = f.written /\ Flush(f).header = f.header
           /\ Flush(f).open = f.open
           /\ Len(Flush(f).data) = Len(f.data) + n
           /\ Len(Flush(f).buffer) = Len(f.buffer) - n
<1>1. PICK n : n = Min({Len(f.buffer), f.free})
  OBVIOUS
<1>2. n \in Nat /\ n <= Len(f.buffer) /\ n <= f.free /\ (n = Len(f.buffer) \/ n = f.free)
  <2>1. \E x \in {Len(f.buffer), f.free} : \A y \in {Len(f.buffer), f.free} : x <= y
    BY FilesAre
  <2>2. n \in {Len(f.buffer), f.free} /\ \A y \in {Len(f.buffer), f.free} : n <= y
    BY <1>1, <2>1, Zenon DEF Min
  <2> QED
    BY <2>2, FilesAre
<1>3. PICK x : x = SubSeq(f.buffer, 1, n)
  OBVIOUS
<1>4. x \in Seq(Int) /\ Len(x) = n
  BY <1>2, <1>3, FilesAre, SubSeqProperties
<1>5. PICK y : y = SubSeq(f.buffer, n + 1, Len(f.buffer))
  OBVIOUS
<1>6. y \in Seq(Int) /\ Len(y) = Len(f.buffer) - n
  BY <1>2, <1>5, FilesAre, SubSeqProperties
<1>7. PICK z \in Seq(Int) : z = f.data \o x /\ Len(z) = Len(f.data) + n
  BY <1>4, FilesAre, ConcatProperties
<1>8. PICK r \in Nat : r = f.free - n
  BY <1>2, FilesAre
<1>9. Flush(f) = [f EXCEPT !.data = z, !.buffer = y, !.free = r]
  BY <1>1, <1>3, <1>5, <1>7, <1>8, Zenon DEF Flush
<1>10. [f EXCEPT !.data = z, !.buffer = y, !.free = r] \in Files
  BY <1>6, <1>7, <1>8, ZenonT(60) DEF Files
<1>11. /\ Flush(f).data = z /\ Flush(f).buffer = y /\ Flush(f).free = r
       /\ Flush(f).written = f.written /\ Flush(f).header = f.header /\ Flush(f).open = f.open
  BY <1>9, ZenonT(60) DEF Files
<1> QED
  BY <1>2, <1>3, <1>5, <1>6, <1>7, <1>8, <1>9, <1>10, <1>11, Zenon

LEMMA FlushKeeps ==
  ASSUME NEW f \in Files, NEW first \in Int, Consecutive(f, first)
  PROVE  Consecutive(Flush(f), first)
<1>1. PICK n \in Nat :
        /\ n <= Len(f.buffer)
        /\ Flush(f) \in Files
        /\ Flush(f).data = f.data \o SubSeq(f.buffer, 1, n)
        /\ Flush(f).buffer = SubSeq(f.buffer, n + 1, Len(f.buffer))
        /\ Flush(f).written = f.written
        /\ Len(Flush(f).data) = Len(f.data) + n
        /\ Len(Flush(f).buffer) = Len(f.buffer) - n
  BY FlushIs
<1>2. PICK d \in Seq(Int), b \in Seq(Int), x \in Seq(Int), y \in Seq(Int) :
        d = f.data /\ b = f.buffer /\ x = Flush(f).data /\ y = Flush(f).buffer
  BY <1>1, FilesAre
<1>3. PICK ld \in Nat, lb \in Nat : ld = Len(d) /\ lb = Len(b)
  BY <1>2, FilesAre
<1>4. n <= lb /\ Len(x) = ld + n /\ Len(y) = lb - n /\ x = d \o SubSeq(b, 1, n)
      /\ y = SubSeq(b, n + 1, lb)
  BY <1>1, <1>2, <1>3, Zenon
<1>5. \A i \in 1..lb : b[i] \in Int
  BY <1>3, LenProperties
<1>6. PICK z \in Seq(Int) : z = SubSeq(b, 1, n) /\ Len(z) = n /\ \A i \in 1..n : z[i] = b[i]
  <2>1. \A i \in 1..n : b[i] \in Int
    BY <1>4, <1>5
  <2>2. PICK z : z = SubSeq(b, 1, n)
    OBVIOUS
  <2>3. /\ z \in Seq(Int) /\ Len(z) = (IF 1 <= n THEN n - 1 + 1 ELSE 0)
        /\ \A i \in 1..(n - 1 + 1) : z[i] = b[1 + i - 1]
    BY <2>1, <2>2, SubSeqProperties
  <2>4. n - 1 + 1 = n /\ (IF 1 <= n THEN n - 1 + 1 ELSE 0) = n /\ \A i \in 1..n : 1 + i - 1 = i
    OBVIOUS
  <2>5. Len(z) = n /\ \A i \in 1..n : z[i] = b[i]
    BY <2>3, <2>4, Zenon
  <2> QED
    BY <2>2, <2>3, <2>5, Zenon
<1>7. \A i \in 1..(ld + n) : x[i] = IF i <= ld THEN d[i] ELSE z[i - ld]
  BY <1>3, <1>4, <1>6, ConcatProperties
<1>8. \A i \in 1..(lb - n) : y[i] = b[n + i]
  <2>1. \A i \in (n + 1)..lb : b[i] \in Int
    BY <1>5
  <2>2. \A i \in 1..(lb - (n + 1) + 1) : y[i] = b[n + 1 + i - 1]
    BY <1>4, <2>1, SubSeqProperties
  <2> QED
    BY <2>2
<1>9. /\ \A i \in 1..ld : d[i] = first + i - 1
      /\ \A i \in 1..lb : b[i] = first + ld + i - 1
      /\ f.written = ld + lb
  BY <1>2, <1>3, Zenon DEF Consecutive
<1>10. \A i \in 1..(ld + n) : x[i] = first + i - 1
  <2> SUFFICES ASSUME NEW i \in 1..(ld + n)
               PROVE  x[i] = first + i - 1
    OBVIOUS
  <2>1. CASE i <= ld
    <3>1. x[i] = d[i] /\ i \in 1..ld
      BY <1>7, <2>1
    <3> QED
      BY <1>9, <3>1
  <2>2. CASE ~(i <= ld)
    <3>1. i - ld \in 1..n /\ i - ld \in 1..lb
      BY <1>4, <2>2
    <3>2. x[i] = b[i - ld]
      BY <1>6, <1>7, <2>2, <3>1
    <3> QED
      BY <1>9, <3>1, <3>2
  <2> QED
    BY <2>1, <2>2
<1>11. \A i \in 1..(lb - n) : y[i] = first + (ld + n) + i - 1
  BY <1>8, <1>9
<1>12. (ld + n) + (lb - n) = ld + lb
  OBVIOUS
<1>13. Flush(f).written = Len(x) + Len(y)
  BY <1>1, <1>4, <1>9, <1>12, Zenon
<1> QED
  BY <1>2, <1>4, <1>10, <1>11, <1>13, Zenon DEF Consecutive

LEMMA FlushOpen ==
  ASSUME NEW f \in Files
  PROVE  (IF Len(f.buffer) < Chunk THEN f ELSE Flush(f)).open = f.open
BY DEF Flush, Files

(* A sector that is written enters the buffer, or there was no room.       *)
LEMMA WriteIs ==
  ASSUME NEW f \in Files, NEW sector \in Int, Len(f.buffer) <= Chunk
  PROVE  LET h == WriteSector(f, sector) IN
         /\ h \in Files
         /\ Len(h.buffer) <= Chunk
         /\ h.free + Len(h.data) = f.free + Len(f.data)
         /\ h.open = f.open
         /\ ~f.open => h = f
         /\ \A first \in Int :
              /\ f.open /\ Consecutive(f, first)
              /\ sector = first + f.written /\ f.free >= Len(f.buffer)
              => Consecutive(h, first) /\ h.written = f.written + 1
<1> DEFINE g == IF Len(f.buffer) < Chunk THEN f ELSE Flush(f)
           h == WriteSector(f, sector)
           k == [g EXCEPT !.buffer = Append(@, sector), !.written = @ + 1]
<1>1. Chunk \in Nat \ {0} /\ Len(f.buffer) \in Nat /\ f.free \in Nat /\ Len(f.data) \in Nat
  BY ExtractionAssumption, FilesAre
<1>2. /\ g \in Files /\ g.free + Len(g.data) = f.free + Len(f.data)
      /\ Len(f.buffer) < Chunk => g = f
      /\ Len(f.buffer) = Chunk => g = Flush(f)
      /\ g.written = f.written
      /\ Len(g.buffer) <= Len(f.buffer)
      /\ f.free >= Len(f.buffer) /\ Len(f.buffer) = Chunk => Len(g.buffer) = 0
  <2>1. CASE Len(f.buffer) < Chunk
    <3>1. g = f
      BY <2>1
    <3> HIDE DEF g
    <3> QED
      BY <1>1, <2>1, <3>1
  <2>2. CASE ~(Len(f.buffer) < Chunk)
    <3>1. g = Flush(f) /\ Len(f.buffer) = Chunk
      BY <1>1, <2>2
    <3> HIDE DEF g
    <3>2. PICK n \in Nat :
            /\ n <= Len(f.buffer) /\ n <= f.free /\ (n = Len(f.buffer) \/ n = f.free)
            /\ Flush(f) \in Files
            /\ Flush(f).free = f.free - n
            /\ Flush(f).written = f.written
            /\ Len(Flush(f).data) = Len(f.data) + n
            /\ Len(Flush(f).buffer) = Len(f.buffer) - n
      BY FlushIs
    <3> QED
      BY <1>1, <2>2, <3>1, <3>2
  <2> QED
    BY <2>1, <2>2
<1>3. h = IF ~f.open THEN f ELSE IF Len(f.buffer) = Chunk /\ g.buffer # <<>> THEN g ELSE k
  BY DEF WriteSector
<1>o. g.open = f.open
  BY FlushOpen
<1>4. \A first \in Int : Consecutive(f, first) => Consecutive(g, first)
  BY <1>1, FlushKeeps
<1> HIDE DEF g, h
<1>8. CASE ~f.open
  BY <1>3, <1>8, Zenon DEF h
<1>5. CASE f.open /\ h = g /\ Len(f.buffer) = Chunk /\ g.buffer # <<>>
  <2>1. Len(g.buffer) # 0
    BY <1>2, <1>5, FilesAre, EmptySeq
  <2> QED
    BY <1>1, <1>2, <1>5, <1>o, <2>1 DEF h
<1>6. CASE f.open /\ h = k /\ (Len(f.buffer) < Chunk \/ g.buffer = <<>>)
  <2>1. PICK b \in Seq(Int) : b = g.buffer
    BY <1>2, FilesAre
  <2>2. PICK c \in Seq(Int) : /\ c = Append(b, sector) /\ Len(c) = Len(b) + 1
                              /\ \A i \in 1..Len(b) : c[i] = b[i]
                              /\ c[Len(b) + 1] = sector
    BY AppendProperties
  <2>3. PICK w \in Nat : w = g.written + 1 /\ w = f.written + 1
    BY <1>2, FilesAre
  <2>4. h = [g EXCEPT !.buffer = c, !.written = w]
    BY <1>6, <2>1, <2>2, <2>3, Zenon
  <2>5. /\ h \in Files /\ h.open = g.open /\ h.buffer = c /\ h.written = w /\ h.data = g.data /\ h.free = g.free
    BY <1>2, <2>4, ZenonT(60) DEF Files
  <2>6. Len(b) \in Nat /\ Len(c) <= Chunk
    BY <1>1, <1>2, <1>6, <2>1, <2>2, LenProperties, EmptySeq
  <2>7. ASSUME NEW first \in Int, Consecutive(f, first), sector = first + f.written
        PROVE  Consecutive(h, first)
    <3>1. Consecutive(g, first)
      BY <1>4, <2>7
    <3>2. PICK d \in Seq(Int) : d = g.data /\ Len(d) \in Nat
      BY <1>2, FilesAre
    <3>3. /\ \A i \in 1..Len(d) : d[i] = first + i - 1
          /\ \A i \in 1..Len(b) : b[i] = first + Len(d) + i - 1
          /\ g.written = Len(d) + Len(b)
      BY <2>1, <3>1, <3>2 DEF Consecutive
    <3>a. PICK ld \in Nat, lb \in Nat : ld = Len(d) /\ lb = Len(b) /\ Len(c) = lb + 1
      BY <2>2, <2>6, <3>2
    <3>b. w = ld + lb + 1 /\ f.written = ld + lb /\ sector = first + ld + lb
      BY <1>2, <2>3, <2>7, <3>3, <3>a
    <3>4. \A i \in 1..Len(c) : c[i] = first + Len(d) + i - 1
      <4>1. /\ \A i \in 1..lb : c[i] = b[i] /\ b[i] = first + ld + i - 1
            /\ c[lb + 1] = sector
        BY <2>2, <3>3, <3>a
      <4>2. \A i \in 1..(lb + 1) : c[i] = first + ld + i - 1
        BY <3>b, <4>1
      <4> QED
        BY <3>a, <4>2
    <3>5. w = Len(d) + Len(c)
      BY <3>a, <3>b
    <3> QED
      BY <2>5, <3>2, <3>3, <3>4, <3>5, Zenon DEF Consecutive
  <2> QED
    BY <1>2, <1>6, <1>o, <2>3, <2>5, <2>6, <2>7 DEF h
<1>7. Len(f.buffer) < Chunk \/ Len(f.buffer) = Chunk
  BY <1>1
<1> QED
  BY <1>3, <1>5, <1>6, <1>7, <1>8, Zenon

LEMMA NoFileIs ==
  ASSUME NEW n \in Nat
  PROVE  /\ NoFile(n) \in Files /\ NoFile(n).free = n /\ NoFile(n).written = 0
         /\ NoFile(n).header = 0
         /\ NoFile(n).data = <<>> /\ NoFile(n).buffer = <<>>
BY EmptySeq DEF NoFile, Files

LEMMA OpenWaveIs ==
  ASSUME NEW f \in Files, NEW opens \in BOOLEAN
  PROVE  LET g == OpenWave(f, opens) IN
         /\ g \in Files /\ g.open = opens /\ g.free = f.free /\ g.written = 0
         /\ g.data = <<>> /\ g.buffer = <<>>
<1> DEFINE h == OpenWave(f, opens)
<1>1. PICK g \in Files : /\ g = NoFile(f.free) /\ g.free = f.free /\ g.written = 0
                         /\ g.data = <<>> /\ g.buffer = <<>>
  BY NoFileIs, FilesAre
<1>2. h = [g EXCEPT !.open = opens]
  BY <1>1, Zenon DEF OpenWave
<1> HIDE DEF h
<1>3. /\ h \in Files /\ h.open = opens /\ h.free = g.free /\ h.written = g.written
      /\ h.data = g.data /\ h.buffer = g.buffer
  BY <1>1, <1>2, ZenonT(60) DEF Files
<1> QED
  BY <1>1, <1>3, Zenon DEF h

LEMMA EmptyFile ==
  ASSUME NEW f, f.data = <<>>, f.buffer = <<>>, f.written = 0, NEW first
  PROVE  Consecutive(f, first)
<1>1. Len(<<>>) = 0
  BY EmptySeq
<1>2. 1..0 = {} /\ 0 + 0 = 0
  OBVIOUS
<1> QED
  BY <1>1, <1>2, Zenon DEF Consecutive

LEMMA CloseIs ==
  ASSUME NEW f \in Files
  PROVE  LET g == CloseWave(f) IN
         /\ g \in Files
         /\ g.free + Len(g.data) = f.free + Len(f.data)
         /\ \A first \in Int : Consecutive(f, first) /\ f.free >= Len(f.buffer) =>
              /\ g.header = Len(g.data) /\ Len(g.data) = f.written
              /\ \A i \in 1..Len(g.data) : g.data[i] = first + i - 1
<1> DEFINE g == CloseWave(f)
<1>1. PICK ld \in Nat, lb \in Nat, fr \in Nat : ld = Len(f.data) /\ lb = Len(f.buffer) /\ fr = f.free
  BY FilesAre
<1>2. CASE f.written = 0
  <2>1. g = NoFile(f.free + Len(f.data))
    BY <1>2 DEF CloseWave
  <2>2. g \in Files /\ g.free = fr + ld /\ g.data = <<>> /\ g.header = 0
    <3>1. fr + ld \in Nat
      OBVIOUS
    <3>2. g = NoFile(fr + ld)
      BY <1>1, <2>1
    <3> QED
      BY <3>1, <3>2, NoFileIs, Zenon
  <2>3. Len(g.data) = 0
    BY <2>2, EmptySeq
  <2> HIDE DEF g
  <2>4. g.free + Len(g.data) = f.free + Len(f.data)
    BY <1>1, <2>2, <2>3
  <2>5. \A i \in 1..0 : g.data[i] = 0
    OBVIOUS
  <2>6. 1..0 = {}
    OBVIOUS
  <2> QED
    BY <1>2, <2>2, <2>3, <2>4, <2>6, Zenon DEF g
<1>3. CASE f.written # 0
  <2>1. PICK h \in Files : h = Flush(f)
    BY FlushIs
  <2>2. PICK n \in Nat : /\ n <= lb /\ n <= fr /\ (n = lb \/ n = fr)
                         /\ h.free = fr - n /\ h.written = f.written
                         /\ Len(h.data) = ld + n /\ Len(h.buffer) = lb - n
    BY <1>1, <2>1, FlushIs
  <2>3. PICK e \in Nat : e = IF h.buffer = <<>> THEN f.written ELSE 0
    BY FilesAre
  <2>4. g = [h EXCEPT !.open = FALSE, !.buffer = <<>>, !.header = e]
    BY <1>3, <2>1, <2>3, Zenon DEF CloseWave
  <2> HIDE DEF g
  <2>5. /\ g \in Files /\ g.data = h.data /\ g.free = h.free /\ g.header = e
    <3>1. <<>> \in Seq(Int)
      BY EmptySeq
    <3> QED
      BY <2>4, <3>1, ZenonT(60) DEF Files
  <2>6. g.free + Len(g.data) = f.free + Len(f.data)
    <3>1. (fr - n) + (ld + n) = fr + ld
      OBVIOUS
    <3> QED
      BY <1>1, <2>2, <2>5, <3>1, Zenon
  <2>7. ASSUME NEW first \in Int, Consecutive(f, first), f.free >= Len(f.buffer)
        PROVE  /\ g.header = Len(g.data) /\ Len(g.data) = f.written
               /\ \A i \in 1..Len(g.data) : g.data[i] = first + i - 1
    <3>1. Consecutive(h, first)
      BY <2>1, <2>7, FlushKeeps
    <3>2. n = lb /\ Len(h.buffer) = 0
      BY <1>1, <2>2, <2>7
    <3>3. h.buffer = <<>>
      BY <3>2, FilesAre, EmptySeq
    <3>4. f.written = Len(h.data)
      <4>1. h.written = Len(h.data) + Len(h.buffer)
        BY <3>1 DEF Consecutive
      <4>2. ld + n + 0 = ld + n
        OBVIOUS
      <4> QED
        BY <2>2, <3>2, <4>1, <4>2, Zenon
    <3>5. \A i \in 1..Len(h.data) : h.data[i] = first + i - 1
      BY <3>1 DEF Consecutive
    <3> QED
      BY <2>3, <2>5, <3>3, <3>4, <3>5, Zenon
  <2> QED
    BY <2>5, <2>6, <2>7 DEF g
<1> QED
  BY <1>2, <1>3, Zenon

-----------------------------------------------------------------------------
(* The space the wave files take.                                          *)

LEMMA TotalsAppend ==
  ASSUME NEW jobs \in Seq(Jobs), NEW job \in Jobs, NEW g, Totals(g, jobs)
  PROVE  \E h : /\ Totals(h, Append(jobs, job))
                /\ h[Len(Append(jobs, job))] = g[Len(jobs)] + Len(job.data)
<1>1. PICK js \in Seq(Jobs) : js = Append(jobs, job) /\ Len(js) = Len(jobs) + 1
                              /\ (\A i \in 1..Len(jobs) : js[i] = jobs[i])
                              /\ js[Len(jobs) + 1] = job
  BY AppendProperties
<1>2. PICK n \in Nat : n = Len(jobs)
  BY LenProperties
<1>3. PICK l \in Nat : l = Len(job.data)
  BY LenProperties DEF Jobs
<1>4. /\ g \in [0..n -> Nat] /\ g[0] = 0
      /\ \A i \in 1..n : g[i] = g[i - 1] + Len(jobs[i].data)
  BY <1>2 DEF Totals
<1> DEFINE h == [i \in 0..(n + 1) |-> IF i = n + 1 THEN g[n] + l ELSE g[i]]
<1>5. h \in [0..(n + 1) -> Nat] /\ h[0] = 0 /\ h[n + 1] = g[n] + l
  BY <1>4
<1>6. ASSUME NEW i \in 1..(n + 1)
      PROVE  h[i] = h[i - 1] + Len(js[i].data)
  <2>1. CASE i = n + 1
    <3>1. i - 1 = n /\ n \in 0..(n + 1) /\ n # n + 1
      BY <2>1
    <3>2. h[i - 1] = g[n]
      BY <3>1
    <3>3. h[i] = g[n] + l
      BY <2>1
    <3>4. Len(js[i].data) = l
      BY <1>1, <1>2, <1>3, <2>1
    <3> QED
      BY <3>2, <3>3, <3>4
  <2>2. CASE i # n + 1
    <3>1. i \in 1..n /\ i - 1 \in 0..n /\ i - 1 # n + 1 /\ i \in 0..(n + 1) /\ i - 1 \in 0..(n + 1)
      BY <2>2
    <3>2. h[i] = g[i] /\ h[i - 1] = g[i - 1]
      BY <2>2, <3>1
    <3>3. js[i] = jobs[i]
      BY <1>1, <1>2, <3>1
    <3> HIDE DEF h
    <3> QED
      BY <1>4, <3>1, <3>2, <3>3, Zenon
  <2> QED
    BY <2>1, <2>2
<1> HIDE DEF h
<1>7. Len(js) = n + 1
  BY <1>1, <1>2
<1>8. Totals(h, js)
  BY <1>5, <1>6, <1>7, Zenon DEF Totals
<1> QED
  BY <1>1, <1>2, <1>3, <1>5, <1>7, <1>8, Zenon

LEMMA TotalsTail ==
  ASSUME NEW jobs \in Seq(Jobs), jobs # <<>>, NEW g, Totals(g, jobs)
  PROVE  \E h : /\ Totals(h, Tail(jobs))
                /\ h[Len(Tail(jobs))] + Len(Head(jobs).data) = g[Len(jobs)]
<1>1. PICK js \in Seq(Jobs) : js = Tail(jobs) /\ Len(js) = Len(jobs) - 1
                              /\ \A i \in 1..Len(js) : js[i] = jobs[i + 1]
  BY HeadTailProperties
<1>2. PICK n \in Nat : n = Len(js) /\ n + 1 = Len(jobs)
  <2>1. Len(js) \in Nat /\ Len(jobs) \in Nat
    BY LenProperties
  <2>2. Len(js) = Len(jobs) - 1
    BY <1>1
  <2>3. \A a, b \in Nat : a = b - 1 => a + 1 = b
    OBVIOUS
  <2>4. Len(js) + 1 = Len(jobs)
    BY <2>1, <2>2, <2>3, Zenon
  <2> QED
    BY <2>1, <2>4, Zenon
<1>3. Head(jobs) = jobs[1]
  BY DEF Head
<1>4. PICK l \in Nat : l = Len(Head(jobs).data)
  <2>1. Head(jobs) \in Jobs
    BY HeadTailProperties
  <2>2. Head(jobs).data \in Seq(Int)
    BY <2>1 DEF Jobs
  <2> QED
    BY <2>2, LenProperties
<1>5. /\ g \in [0..(n + 1) -> Nat] /\ g[0] = 0
      /\ \A i \in 1..(n + 1) : g[i] = g[i - 1] + Len(jobs[i].data)
  BY <1>2 DEF Totals
<1>6. g[1] = l
  BY <1>3, <1>4, <1>5
<1>7. \A i \in 1..(n + 1) : g[i] >= l
  <2> DEFINE Bad == {k \in Nat : k <= n /\ ~(g[k + 1] >= l)}
  <2>1. 0 \notin Bad
    BY <1>6
  <2>2. ASSUME NEW k \in Nat, k + 1 \in Bad
        PROVE  k \in Bad
    <3>1. k + 1 \in 0..(n + 1) /\ (k + 1) + 1 \in 1..(n + 1) /\ (k + 1) + 1 - 1 = k + 1
      BY <2>2
    <3>2. g[(k + 1) + 1] = g[k + 1] + Len(jobs[(k + 1) + 1].data)
      BY <1>5, <3>1
    <3>3. Len(jobs[(k + 1) + 1].data) \in Nat
      <4>1. jobs[(k + 1) + 1] \in Jobs
        BY <1>2, <3>1, LenProperties
      <4> QED
        BY <4>1, LenProperties DEF Jobs
    <3>4. g[k + 1] \in Nat /\ ~(g[(k + 1) + 1] >= l)
      BY <1>5, <2>2, <3>1
    <3> QED
      BY <2>2, <3>2, <3>3, <3>4
  <2>3. Bad = {}
    <3>1. Bad \subseteq Nat /\ \A k \in Nat : k + 1 \in Bad => k \in Bad
      BY <2>2
    <3> HIDE DEF Bad
    <3> QED
      BY <2>1, <3>1, NoLeast
  <2>4. ASSUME NEW i \in 1..(n + 1) PROVE g[i] >= l
    <3>1. i - 1 \in Nat /\ i - 1 <= n /\ (i - 1) + 1 = i
      OBVIOUS
    <3> QED
      BY <2>3, <3>1
  <2> QED
    BY <2>4
<1> DEFINE h == [i \in 0..n |-> g[i + 1] - l]
<1>8. h \in [0..n -> Nat] /\ h[0] = 0 /\ h[n] + l = g[n + 1]
  <2>1. \A i \in 0..n : i + 1 \in 1..(n + 1) /\ g[i + 1] \in Nat /\ g[i + 1] >= l
    BY <1>5, <1>7
  <2> QED
    BY <1>6, <2>1
<1>9. ASSUME NEW i \in 1..n
      PROVE  h[i] = h[i - 1] + Len(js[i].data)
  <2>1. i + 1 \in 1..(n + 1) /\ i + 1 - 1 = i /\ i \in 1..(n + 1) /\ i \in 0..(n + 1)
        /\ i - 1 \in 0..n /\ (i - 1) + 1 = i /\ i \in 0..n /\ i + 1 \in 0..(n + 1)
    OBVIOUS
  <2>2. h[i] = g[i + 1] - l /\ h[i - 1] = g[i] - l
    BY <2>1
  <2>3. g[i + 1] = g[i] + Len(jobs[i + 1].data) /\ js[i] = jobs[i + 1]
    BY <1>1, <1>2, <1>5, <2>1
  <2>4. Len(js[i].data) \in Nat
    <3>1. js[i] \in Jobs
      BY <1>2, LenProperties
    <3> QED
      BY <3>1, LenProperties DEF Jobs
  <2>5. g[i] \in Nat /\ g[i + 1] \in Nat
    BY <1>5, <2>1
  <2> HIDE DEF h
  <2> QED
    BY <2>2, <2>3, <2>4, <2>5
<1> HIDE DEF h
<1>10. Totals(h, js)
  BY <1>2, <1>8, <1>9, Zenon DEF Totals
<1> QED
  BY <1>1, <1>2, <1>4, <1>8, <1>10, Zenon

-----------------------------------------------------------------------------
(* The records of the thread and of Audex.                                 *)

LEMMA ThreadsAre ==
  ASSUME NEW th \in Threads
  PROVE  /\ th.running \in BOOLEAN /\ th.checked \in BOOLEAN /\ th.reading \in BOOLEAN
         /\ th.track \in 0..NTracks
         /\ th.current \in Int /\ th.last \in Int /\ th.overall \in Nat
         /\ th.offset_done \in BOOLEAN /\ th.interrupt \in BOOLEAN /\ th.error \in BOOLEAN
         /\ th.mode \in 0..3 /\ th.never \in BOOLEAN
BY DEF Threads

LEMMA AudexesAre ==
  ASSUME NEW a \in Audexes
  PROVE  /\ a.rip \in Rips /\ a.rips \in 0..MaxRips /\ a.index \in 0..(NTracks + 1)
         /\ a.finished \in BOOLEAN /\ a.jobs \in Seq(Jobs)
         /\ a.rip.selection \in SUBSET Tracks /\ a.rip.skipped \in SUBSET Tracks
         /\ a.rip.single_file \in BOOLEAN /\ a.rip.mode \in 0..3 /\ a.rip.never \in BOOLEAN
<1>1. /\ a.rip \in Rips /\ a.rips \in 0..MaxRips /\ a.index \in 0..(NTracks + 1)
      /\ a.finished \in BOOLEAN /\ a.jobs \in Seq(Jobs)
  BY DEF Audexes
<1> QED
  BY <1>1 DEF Rips

LEMMA MinIs ==
  ASSUME NEW S \in SUBSET Nat, S # {}
  PROVE  Min(S) \in S /\ \A y \in S : Min(S) <= y
<1>1. \E x \in S : \A y \in S : x <= y
  BY LeastNatural
<1> QED
  BY <1>1, Zenon DEF Min

(* The two outcomes of StartExtract: the rest of the tracks are skipped,   *)
(* or those up to the next.                                                *)
Rest(a) == {t \in a.rip.selection : t > a.index}
NothingLeft(a, th, f) ==
  /\ audex'.index = NTracks + 1 /\ file' = f
  /\ thread'.running = th.running /\ thread'.track = th.track
  /\ a.rip.single_file => a.index # 0
  /\ ~a.rip.single_file => thread'.overall = th.overall + Frames(drive.toc, Rest(a))
NextTrack(a, th, f) ==
  /\ audex'.index \in Tracks /\ \E opens \in BOOLEAN : file' = OpenWave(f, opens)
  /\ thread'.running /\ thread'.track = IF a.rip.single_file THEN 0 ELSE audex'.index
  /\ a.rip.single_file => a.index = 0
  /\ ~a.rip.single_file =>
       /\ audex'.index \in Rest(a)
       /\ thread'.overall = th.overall + Frames(drive.toc, {t \in Rest(a) : t < audex'.index})
Unmoved(a, th) ==
  /\ audex'.rip = a.rip /\ audex'.rips = a.rips /\ audex'.finished = a.finished
  /\ audex'.jobs = a.jobs
  /\ thread'.reading = th.reading /\ thread'.current = th.current /\ thread'.last = th.last
  /\ thread'.offset_done = th.offset_done /\ thread'.interrupt = th.interrupt
  /\ thread'.error = th.error

LEMMA StartExtractIs ==
  ASSUME NEW a \in Audexes, NEW th \in Threads, NEW f \in Files,
         NEW k \in Int, drive.toc = Shifted(k), StartExtract(a, th, f)
  PROVE  /\ audex' \in Audexes /\ thread' \in Threads /\ file' \in Files
         /\ Unmoved(a, th)
         /\ NothingLeft(a, th, f) \/ NextTrack(a, th, f)
<1> DEFINE rest == Rest(a)
           todo == IF a.rip.single_file THEN (IF a.index = 0 THEN {0} ELSE {})
                   ELSE rest \ a.rip.skipped
           over == IF a.rip.single_file THEN {}
                   ELSE {t \in rest : todo = {} \/ t < Min(todo)}
<1>0. NTracks \in Nat \ {0} /\ 1 \in Tracks /\ Tracks \subseteq 0..NTracks
      /\ Tracks \subseteq 0..(NTracks + 1) /\ NTracks + 1 \in 0..(NTracks + 1)
      /\ Tracks \subseteq Nat /\ 0 \in 0..NTracks
  BY ExtractionAssumption DEF Tracks
<1>1. /\ rest \in SUBSET Tracks /\ todo \in SUBSET Nat /\ over \in SUBSET Tracks
      /\ ~a.rip.single_file => todo \in SUBSET rest
  <2>1. rest \in SUBSET Tracks
    BY AudexesAre DEF Rest
  <2> HIDE DEF rest
  <2>2. over \in SUBSET Tracks
    BY <2>1
  <2>3. /\ todo \in SUBSET Nat
        /\ ~a.rip.single_file => todo \in SUBSET rest
    <3>1. CASE a.rip.single_file
      <4>1. todo \subseteq {0}
        BY <3>1
      <4> HIDE DEF todo
      <4> QED
        BY <3>1, <4>1
    <3>2. CASE ~a.rip.single_file
      <4>1. todo \subseteq rest
        BY <3>2
      <4> HIDE DEF todo
      <4> QED
        BY <1>0, <2>1, <3>2, <4>1
    <3> QED
      BY <3>1, <3>2
  <2> QED
    BY <2>1, <2>2, <2>3
<1>2. IF todo = {}
      THEN /\ audex' = [a EXCEPT !.index = NTracks + 1]
           /\ thread' = SkipTracks(th, over)
           /\ file' = f
      ELSE /\ audex' = [a EXCEPT !.index = IF a.rip.single_file THEN 1 ELSE Min(todo)]
           /\ thread' = [SkipTracks(th, over) EXCEPT
                           !.running = TRUE, !.checked = FALSE, !.track = Min(todo),
                           !.mode = a.rip.mode, !.never = a.rip.never]
           /\ \E opens \in BOOLEAN : file' = OpenWave(f, opens)
  BY Zenon DEF StartExtract, Rest
<1>a. /\ a.rip.single_file /\ todo # {} => todo = {0}
      /\ a.rip.single_file /\ todo = {} => a.index # 0
      /\ a.rip.single_file /\ todo # {} => a.index = 0
      /\ ~a.rip.single_file /\ todo = {} => over = rest
      /\ ~a.rip.single_file /\ todo # {} => over = {t \in rest : t < Min(todo)}
  OBVIOUS
<1> HIDE DEF rest, todo, over
<1>3. PICK o \in Nat : o = th.overall + Frames(drive.toc, over)
  <2>1. Frames(drive.toc, over) \in Nat
    <3>1. Frames(Shifted(k), over) \in Nat
      BY <1>1, FramesNat
    <3> QED
      BY <3>1, Zenon
  <2>2. th.overall \in Nat
    BY ThreadsAre
  <2> QED
    BY <2>1, <2>2
<1>4. PICK s \in Threads : /\ s = [th EXCEPT !.overall = o] /\ s = SkipTracks(th, over)
  <2>1. SkipTracks(th, over) = [th EXCEPT !.overall = o]
    BY <1>3, Zenon DEF SkipTracks
  <2>2. [th EXCEPT !.overall = o] \in Threads
    BY ZenonT(60) DEF Threads
  <2> QED
    BY <2>1, <2>2
<1>5. /\ s.running = th.running /\ s.track = th.track /\ s.overall = o
      /\ s.reading = th.reading /\ s.current = th.current /\ s.last = th.last
      /\ s.offset_done = th.offset_done /\ s.interrupt = th.interrupt /\ s.error = th.error
  BY <1>4, ZenonT(60) DEF Threads
<1>6. CASE todo = {}
  <2>1. audex' = [a EXCEPT !.index = NTracks + 1] /\ thread' = s /\ file' = f
    BY <1>2, <1>4, <1>6
  <2>2. /\ audex' \in Audexes /\ audex'.index = NTracks + 1
        /\ audex'.rip = a.rip /\ audex'.rips = a.rips /\ audex'.finished = a.finished
        /\ audex'.jobs = a.jobs
    BY <1>0, <2>1, ZenonT(60) DEF Audexes
  <2>3. a.rip.single_file => a.index # 0
    BY <1>6, <1>a
  <2>4. ~a.rip.single_file => over = rest
    BY <1>6, <1>a
  <2>5. NothingLeft(a, th, f)
    BY <1>3, <1>5, <2>1, <2>2, <2>3, <2>4, Zenon DEF NothingLeft, rest
  <2> QED
    BY <1>5, <2>1, <2>2, <2>5, Zenon DEF Unmoved
<1>7. CASE todo # {}
  <2>1. Min(todo) \in todo
    BY <1>1, <1>7, MinIs, Zenon
  <2>2. Min(todo) \in 0..NTracks /\ (~a.rip.single_file => Min(todo) \in rest)
        /\ (a.rip.single_file => Min(todo) = 0)
    <3>1. CASE a.rip.single_file
      BY <1>0, <1>7, <1>a, <2>1, <3>1
    <3>2. CASE ~a.rip.single_file
      <4>1. Min(todo) \in rest /\ Min(todo) \in Tracks
        BY <1>1, <2>1, <3>2, Zenon
      <4> QED
        BY <1>0, <3>2, <4>1, Zenon
    <3> QED
      BY <3>1, <3>2
  <2>3. ~a.rip.single_file => over = {t \in rest : t < Min(todo)}
    BY <1>7, <1>a
  <2>4. PICK m \in 0..NTracks : m = Min(todo)
    BY <2>2
  <2>5. PICK x \in Tracks : x = IF a.rip.single_file THEN 1 ELSE m
    <3>1. ~a.rip.single_file => m \in Tracks
      BY <1>1, <2>2, <2>4, Zenon
    <3> QED
      BY <1>0, <3>1, Zenon
  <2>6. audex' = [a EXCEPT !.index = x] /\ \E opens \in BOOLEAN : file' = OpenWave(f, opens)
    BY <1>2, <1>7, <2>4, <2>5, Zenon
  <2>7. /\ audex' \in Audexes /\ audex'.index = x
        /\ audex'.rip = a.rip /\ audex'.rips = a.rips /\ audex'.finished = a.finished
        /\ audex'.jobs = a.jobs
    <3>1. x \in 0..(NTracks + 1)
      BY <1>0
    <3> QED
      BY <2>6, <3>1, ZenonT(60) DEF Audexes
  <2>8. PICK y \in 0..3, b \in BOOLEAN : y = a.rip.mode /\ b = a.rip.never
    BY AudexesAre
  <2>9. thread' = [s EXCEPT !.running = TRUE, !.checked = FALSE, !.track = m,
                           !.mode = y, !.never = b]
    BY <1>2, <1>4, <1>7, <2>4, <2>8, Zenon
  <2>10. /\ thread' \in Threads /\ thread'.running = TRUE /\ thread'.track = m
         /\ thread'.overall = s.overall
         /\ thread'.reading = s.reading /\ thread'.current = s.current /\ thread'.last = s.last
         /\ thread'.offset_done = s.offset_done /\ thread'.interrupt = s.interrupt
         /\ thread'.error = s.error
    BY <2>9, ZenonT(60) DEF Threads
  <2>11. ~a.rip.single_file =>
           /\ x \in rest
           /\ thread'.overall = th.overall + Frames(drive.toc, {t \in rest : t < x})
    BY <1>3, <1>5, <2>2, <2>3, <2>4, <2>5, <2>10
  <2>12. thread'.track = IF a.rip.single_file THEN 0 ELSE x
    BY <2>2, <2>4, <2>5, <2>10
  <2>15. a.rip.single_file => a.index = 0
    BY <1>7, <1>a
  <2>13. NextTrack(a, th, f)
    BY <2>6, <2>7, <2>10, <2>11, <2>12, <2>15, Zenon DEF NextTrack, rest
  <2>14. file' \in Files
    BY <2>6, OpenWaveIs, Zenon
  <2> QED
    BY <1>5, <2>7, <2>10, <2>13, <2>14, Zenon DEF Unmoved
<1> QED
  BY <1>6, <1>7

-----------------------------------------------------------------------------
(* The queue of signals.                                                   *)

Out(sector) == [signal |-> "output", sector |-> sector]
Err == [signal |-> "error"]
Fin == [signal |-> "finished"]

LEMMA SignalsAre ==
  /\ \A n \in Int : Out(n) \in Signals /\ Out(n).signal = "output" /\ Out(n).sector = n
  /\ Err \in Signals /\ Err.signal = "error"
  /\ Fin \in Signals /\ Fin.signal = "finished"
  /\ \A x \in Signals : x.signal \in {"output", "error", "finished"}
  /\ \A x \in Signals : x.signal = "output" => x.sector \in Int
BY DEF Out, Err, Fin, Signals

LEMMA TailIs ==
  ASSUME NEW p \in Seq(Signals), p # <<>>
  PROVE  /\ Tail(p) \in Seq(Signals) /\ Len(p) \in Nat \ {0} /\ Len(Tail(p)) = Len(p) - 1
         /\ \A i \in 1..(Len(p) - 1) : Tail(p)[i] = p[i + 1]
         /\ Head(p) = p[1] /\ Head(p) \in Signals
<1>1. /\ Head(p) \in Signals /\ Tail(p) \in Seq(Signals) /\ Len(Tail(p)) = Len(p) - 1
      /\ \A i \in 1..Len(Tail(p)) : Tail(p)[i] = p[i + 1]
  BY HeadTailProperties
<1>2. Len(p) \in Nat \ {0}
  BY EmptySeq
<1>3. Head(p) = p[1]
  BY DEF Head
<1> QED
  BY <1>1, <1>2, <1>3, Zenon

LEMMA ShapeTail ==
  ASSUME NEW p \in Seq(Signals), p # <<>>, NEW running \in BOOLEAN, Shape(p, running),
         Head(p).signal # "finished"
  PROVE  /\ Shape(Tail(p), running)
         /\ ~running => Tail(p) # <<>>
<1>1. PICK q \in Seq(Signals), n \in Nat :
        /\ q = Tail(p) /\ Len(q) = n /\ Len(p) = n + 1
        /\ \A i \in 1..n : q[i] = p[i + 1]
        /\ Head(p) = p[1]
  <2>1. PICK n \in Nat : n = Len(p) - 1 /\ Len(p) = n + 1
    BY TailIs
  <2> QED
    BY <2>1, TailIs, Zenon
<1>2. /\ \A i \in 1..(n + 1) : p[i].signal = "finished" <=> i = n + 1 /\ ~running
      /\ \A i, j \in 1..(n + 1) :
           p[i].signal = "error" => ~running /\ (j > i => p[j].signal # "output")
  BY <1>1 DEF Shape
<1>3. \A i \in 1..n : q[i].signal = "finished" <=> i = n /\ ~running
  BY <1>1, <1>2
<1>4. \A i, j \in 1..n : q[i].signal = "error" => ~running /\ (j > i => q[j].signal # "output")
  BY <1>1, <1>2
<1>5. ~running => n # 0
  BY <1>1, <1>2
<1>6. q = <<>> => n = 0
  BY <1>1, EmptySeq
<1> QED
  BY <1>1, <1>3, <1>4, <1>5, <1>6, Zenon DEF Shape

LEMMA ShapeLast ==
  ASSUME NEW p \in Seq(Signals), p # <<>>, NEW running \in BOOLEAN, Shape(p, running),
         Head(p).signal = "finished"
  PROVE  ~running /\ Len(p) = 1 /\ Tail(p) = <<>>
<1>1. PICK n \in Nat \ {0} : Len(p) = n
  BY TailIs
<1>2. p[1].signal = "finished"
  BY TailIs
<1>3. ~running /\ n = 1
  BY <1>1, <1>2 DEF Shape
<1>4. Len(Tail(p)) = 0 /\ Tail(p) \in Seq(Signals)
  <2>1. Len(Tail(p)) = 1 - 1 /\ Tail(p) \in Seq(Signals)
    BY <1>1, <1>3, TailIs, Zenon
  <2> QED
    BY <2>1
<1>5. Tail(p) = <<>>
  BY <1>4, EmptySeq
<1> QED
  BY <1>1, <1>3, <1>5, Zenon

LEMMA AppendIs ==
  ASSUME NEW x \in Seq(Signals), NEW y \in Signals
  PROVE  \E z \in Seq(Signals), l \in Nat :
           /\ z = Append(x, y) /\ Len(x) = l /\ Len(z) = l + 1
           /\ \A i \in 1..l : z[i] = x[i]
           /\ z[l + 1] = y
<1>1. PICK l \in Nat : Len(x) = l
  BY LenProperties
<1>2. /\ Append(x, y) \in Seq(Signals) /\ Len(Append(x, y)) = Len(x) + 1
      /\ \A i \in 1..Len(x) : Append(x, y)[i] = x[i]
      /\ Append(x, y)[Len(x) + 1] = y
  BY AppendProperties
<1> QED
  BY <1>1, <1>2, Zenon

LEMMA ShapeOutput ==
  ASSUME NEW p \in Seq(Signals), NEW n \in Int, Shape(p, TRUE)
  PROVE  Append(p, Out(n)) \in Seq(Signals) /\ Shape(Append(p, Out(n)), TRUE)
<1>1. PICK q \in Seq(Signals), l \in Nat :
        /\ q = Append(p, Out(n)) /\ Len(p) = l /\ Len(q) = l + 1
        /\ \A i \in 1..l : q[i] = p[i]
        /\ q[l + 1] = Out(n)
  <2>1. Out(n) \in Signals
    BY SignalsAre
  <2> QED
    BY <2>1, AppendIs, Zenon
<1>2. /\ \A i \in 1..l : p[i].signal # "finished" /\ p[i].signal # "error"
  BY <1>1 DEF Shape
<1>3. \A i \in 1..(l + 1) : q[i].signal # "finished" /\ q[i].signal # "error"
  <2>1. Out(n).signal = "output"
    BY SignalsAre
  <2> QED
    BY <1>1, <1>2, <2>1
<1> QED
  BY <1>1, <1>3, Zenon DEF Shape

LEMMA ShapeEnd ==
  ASSUME NEW p \in Seq(Signals), Shape(p, TRUE),
         NEW q, q = p \/ q = Append(p, Err) \/ q = Append(Append(p, Err), Err)
  PROVE  /\ q \in Seq(Signals)
         /\ Append(q, Fin) \in Seq(Signals) /\ Shape(Append(q, Fin), FALSE)
<1> DEFINE Open(x) == /\ x \in Seq(Signals)
                      /\ \A i \in 1..Len(x) : x[i].signal # "finished"
                      /\ \A i, j \in 1..Len(x) :
                           x[i].signal = "error" => (j > i => x[j].signal # "output")
<1>1. Open(p)
  BY DEF Shape
<1>2. ASSUME NEW x \in Seq(Signals), NEW y \in {Err, Fin}
      PROVE  \E z \in Seq(Signals), l \in Nat :
               /\ z = Append(x, y) /\ Len(x) = l /\ Len(z) = l + 1
               /\ \A i \in 1..l : z[i] = x[i]
               /\ z[l + 1] = y
  <2>1. y \in Signals
    BY SignalsAre
  <2> QED
    BY <2>1, AppendIs, Zenon
<1>3. ASSUME NEW x, Open(x)
      PROVE  Open(Append(x, Err))
  <2>1. PICK z \in Seq(Signals), l \in Nat :
               /\ z = Append(x, Err) /\ Len(x) = l /\ Len(z) = l + 1
               /\ \A i \in 1..l : z[i] = x[i]
               /\ z[l + 1] = Err
    BY <1>2, <1>3
  <2>2. z[l + 1].signal = "error"
    BY <2>1, SignalsAre
  <2>3. \A i \in 1..l : /\ x[i].signal # "finished"
                        /\ \A j \in 1..l : x[i].signal = "error" => (j > i => x[j].signal # "output")
    BY <1>3, <2>1
  <2>4. \A i \in 1..(l + 1) : z[i].signal # "finished"
    BY <2>1, <2>2, <2>3
  <2>5. \A i, j \in 1..(l + 1) : z[i].signal = "error" => (j > i => z[j].signal # "output")
    BY <2>1, <2>2, <2>3
  <2> QED
    BY <2>1, <2>4, <2>5, Zenon
<1>4. Open(q)
  BY <1>1, <1>3
<1>5. PICK z \in Seq(Signals), l \in Nat :
               /\ z = Append(q, Fin) /\ Len(q) = l /\ Len(z) = l + 1
               /\ \A i \in 1..l : z[i] = q[i]
               /\ z[l + 1] = Fin
  BY <1>2, <1>4
<1>6. z[l + 1].signal = "finished"
  BY <1>5, SignalsAre
<1>7. \A i \in 1..l : /\ q[i].signal # "finished"
                      /\ \A j \in 1..l : q[i].signal = "error" => (j > i => q[j].signal # "output")
  BY <1>4, <1>5
<1>8. \A i \in 1..(l + 1) : z[i].signal = "finished" <=> i = l + 1
  BY <1>5, <1>6, <1>7
<1>9. \A i, j \in 1..(l + 1) : z[i].signal = "error" => (j > i => z[j].signal # "output")
  BY <1>5, <1>6, <1>7
<1> QED
  BY <1>4, <1>5, <1>8, <1>9, Zenon DEF Shape

LEMMA ShapeEmpty ==
  ASSUME NEW running
  PROVE  Shape(<<>>, running) /\ <<>> \in Seq(Signals)
<1>1. 1..Len(<<>>) = {}
  BY EmptySeq
<1> QED
  BY <1>1, EmptySeq, Zenon DEF Shape

-----------------------------------------------------------------------------
(* The first layer.                                                        *)

LEMMA TypeInit == Init => TypeInv
<1> SUFFICES ASSUME Init
             PROVE  TypeInv
  OBVIOUS
<1>0. NTracks \in Nat \ {0} /\ MaxRips \in Nat /\ Free \in Nat /\ Chunk \in Nat
  BY ExtractionAssumption
<1>1. /\ drive = NewDrive /\ thread = NewThread /\ posted = <<>> /\ file = NoFile(Free)
      /\ audex.rips = 0 /\ audex.finished = FALSE /\ audex.jobs = <<>>
  BY DEF Init
<1>2. drive \in Drives /\ drive.toc = Shifted(0)
  <2>1. Shifted(0) = Toc
    BY ExtractionAssumption, ShiftType DEF Shifted
  <2>2. [toc |-> Toc, mask |-> 0, never |-> TRUE] \in Drives
    BY ExtractionAssumption DEF Drives
  <2> QED
    BY <1>1, <2>1, <2>2, ModeIsSet DEF NewDrive
<1>3. /\ thread \in Threads /\ ~thread.running /\ ~thread.reading /\ ~thread.interrupt
      /\ ~thread.offset_done
  BY <1>0, <1>1 DEF NewThread, Threads
<1>4. audex \in Audexes
  <2>1. [selection |-> {}, skipped |-> {}, single_file |-> FALSE, mode |-> 3,
         never |-> TRUE] \in Rips
    BY DEF Rips
  <2>2. <<>> \in Seq(Jobs)
    BY EmptySeq
  <2>3. 0 \in 0..MaxRips /\ 0 \in 0..(NTracks + 1)
    BY <1>0
  <2> QED
    BY <2>1, <2>2, <2>3, ZenonT(60) DEF Init, Audexes
<1>5. /\ file \in Files /\ file.free = Free /\ file.data = <<>> /\ file.buffer = <<>>
      /\ file.written = 0
  BY <1>0, <1>1, NoFileIs
<1>6. Types
  BY <1>1, <1>2, <1>3, <1>4, <1>5, ShapeEmpty DEF Types
<1>7. TocIsShifted
  <2>1. 0 \in 0..audex.rips /\ ~(audex.rips > 0)
    BY <1>1
  <2> QED
    BY <1>2, <1>3, <2>1 DEF TocIsShifted
<1>8. Stream
  <2>1. Len(file.buffer) <= Chunk
    BY <1>0, <1>5, EmptySeq
  <2>2. Shape(posted, thread.running)
    BY <1>1, ShapeEmpty
  <2> QED
    BY <1>1, <1>3, <1>5, <2>1, <2>2, Zenon DEF Stream
<1>9. SpaceIsKept
  <2> DEFINE g == [i \in 0..0 |-> 0]
  <2>1. Len(<<>>) = 0 /\ 1..0 = {}
    BY EmptySeq
  <2>2. g \in [0..0 -> Nat] /\ g[0] = 0
    OBVIOUS
  <2> HIDE DEF g
  <2>3. Totals(g, <<>>)
    BY <2>1, <2>2, Zenon DEF Totals
  <2>4. file.free + Len(file.data) + g[Len(audex.jobs)] = Free
    BY <1>0, <1>1, <1>5, <2>1, <2>2
  <2> QED
    BY <1>1, <2>3, <2>4 DEF SpaceIsKept
<1> QED
  BY <1>6, <1>7, <1>8, <1>9 DEF TypeInv

(* What a rip starts from.                                                 *)
LEMMA NothingPending ==
  ASSUME TypeInv, NEW rip, Start(rip)
  PROVE  /\ ~thread.running /\ ~thread.reading /\ posted = <<>> /\ audex.jobs = <<>>
         /\ file.data = <<>> /\ file.buffer = <<>> /\ file.free = Free
         /\ audex.rips \in 0..MaxRips /\ audex.rips + 1 \in 0..MaxRips
<1>1. ~thread.running /\ posted = <<>> /\ audex.jobs = <<>>
  BY DEF Start, Over, Idle, TypeInv, Stream
<1>2. ~thread.reading /\ file.data = <<>> /\ file.buffer = <<>>
  BY <1>1 DEF TypeInv, Stream
<1>3. file.free = Free
  <2>1. PICK g : Totals(g, audex.jobs) /\ file.free + Len(file.data) + g[Len(audex.jobs)] = Free
    BY DEF TypeInv, SpaceIsKept
  <2>2. Len(<<>>) = 0 /\ g[0] = 0
    BY <2>1, EmptySeq DEF Totals
  <2>3. file.free + 0 + 0 = Free
    BY <1>1, <1>2, <2>1, <2>2
  <2> QED
    BY <2>3, FilesAre DEF TypeInv, Types
<1>4. audex.rips \in 0..MaxRips /\ audex.rips + 1 \in 0..MaxRips
  BY AudexesAre, ExtractionAssumption DEF TypeInv, Types, Start
<1> QED
  BY <1>1, <1>2, <1>3, <1>4

NewAudex(rip) == [rip |-> rip, rips |-> audex.rips + 1, index |-> 0,
                  finished |-> FALSE, jobs |-> <<>>]

LEMMA NewRip ==
  ASSUME TypeInv, NEW rip \in RipChoices, Start(rip)
  PROVE  /\ StartExtract(NewAudex(rip), NewThread, NoFile(file.free))
         /\ NewAudex(rip) \in Audexes /\ NewThread \in Threads /\ NoFile(file.free) \in Files
         /\ UNCHANGED <<drive, posted>>
<1>1. rip \in Rips
  <2>1. Modes \subseteq 0..3 /\ (SUBSET Tracks \ {{}}) \subseteq SUBSET Tracks
    BY ExtractionAssumption
  <2> QED
    BY <2>1 DEF RipChoices, Rips
<1>2. NewAudex(rip) \in Audexes
  <2>1. audex.rips + 1 \in 0..MaxRips /\ 0 \in 0..(NTracks + 1)
    BY NothingPending, ExtractionAssumption
  <2>2. <<>> \in Seq(Jobs)
    BY EmptySeq
  <2> QED
    BY <1>1, <2>1, <2>2, ZenonT(60) DEF NewAudex, Audexes
<1>3. NewThread \in Threads
  BY ExtractionAssumption DEF NewThread, Threads
<1>4. NoFile(file.free) \in Files
  BY NoFileIs, FilesAre DEF TypeInv, Types
<1> QED
  BY <1>2, <1>3, <1>4 DEF Start, NewAudex

(* The parts of the layer that a new or next track leaves.                 *)
LEMMA StreamAfterStart ==
  ASSUME NEW a \in Audexes, NEW th \in Threads, NEW f \in Files,
         NEW k \in 0..a.rips, drive.toc = Shifted(k), a.rips > 0,
         ~th.offset_done => k < a.rips, th.offset_done => SampleOffset # 0,
         StartExtract(a, th, f), drive \in Drives, drive' = drive, posted' = <<>>,
         ~th.running, ~th.reading, th.interrupt => a.finished,
         f.data = <<>>, f.buffer = <<>>, f.written = 0,
         NEW g, Totals(g, a.jobs), f.free + g[Len(a.jobs)] = Free
  PROVE  TypeInv'
<1>0. k \in Int /\ f.free \in Nat
  BY AudexesAre, FilesAre
<1>1. /\ audex' \in Audexes /\ thread' \in Threads /\ file' \in Files
      /\ Unmoved(a, th)
      /\ NothingLeft(a, th, f) \/ NextTrack(a, th, f)
  BY <1>0, StartExtractIs
<1>2. /\ file'.data = <<>> /\ file'.buffer = <<>> /\ file'.written = 0 /\ file'.free = f.free
  <2>1. CASE NothingLeft(a, th, f)
    BY <2>1 DEF NothingLeft
  <2>2. CASE NextTrack(a, th, f)
    <3>1. PICK opens \in BOOLEAN : file' = OpenWave(f, opens)
      BY <2>2 DEF NextTrack
    <3>2. PICK o : o = OpenWave(f, opens)
      OBVIOUS
    <3>3. o.data = <<>> /\ o.buffer = <<>> /\ o.written = 0 /\ o.free = f.free
      BY <3>2, OpenWaveIs
    <3> QED
      BY <3>1, <3>2, <3>3, Zenon
  <2> QED
    BY <1>1, <2>1, <2>2
<1>3. Types'
  BY <1>1, ShapeEmpty DEF Types
<1>4. TocIsShifted'
  <2>1. k \in 0..audex'.rips /\ drive'.toc = Shifted(k)
        /\ (audex'.rips > 0 /\ ~thread'.offset_done => k < audex'.rips)
    BY <1>1 DEF Unmoved
  <2> QED
    BY <1>1, <2>1, Zenon DEF TocIsShifted, Unmoved
<1>5. Stream'
  <2>1. Len(<<>>) = 0 /\ 0 <= Chunk
    BY EmptySeq, ExtractionAssumption
  <2>2. Shape(<<>>, thread'.running)
    BY ShapeEmpty
  <2>3. audex'.rips > 0 /\ audex'.rips # 0
    BY <1>1 DEF Unmoved
  <2> QED
    BY <1>1, <1>2, <2>1, <2>2, <2>3, Zenon DEF Stream, Unmoved
<1>6. SpaceIsKept'
  <2>1. Len(<<>>) = 0
    BY EmptySeq
  <2>2. f.free + 0 = f.free
    BY <1>0
  <2>3. file'.free + Len(file'.data) + g[Len(audex'.jobs)] = Free /\ Totals(g, audex'.jobs)
    BY <1>1, <1>2, <2>1, <2>2, Zenon DEF Unmoved
  <2> QED
    BY <2>3, Zenon DEF SpaceIsKept
<1> QED
  BY <1>3, <1>4, <1>5, <1>6, Zenon DEF TypeInv

LEMMA TypeStart ==
  ASSUME TypeInv, NEW rip \in RipChoices, Start(rip)
  PROVE  TypeInv'
<1>1. /\ StartExtract(NewAudex(rip), NewThread, NoFile(file.free))
      /\ NewAudex(rip) \in Audexes /\ NewThread \in Threads /\ NoFile(file.free) \in Files
      /\ UNCHANGED <<drive, posted>>
  BY NewRip
<1>2. /\ posted = <<>> /\ file.free = Free /\ audex.rips \in Nat
  BY NothingPending
<1>3. PICK k \in 0..audex.rips : drive.toc = Shifted(k)
  BY DEF TypeInv, TocIsShifted
<1>4. PICK a \in Audexes, th \in Threads, f \in Files :
        a = NewAudex(rip) /\ th = NewThread /\ f = NoFile(file.free)
  BY <1>1
<1>5. a.rips = audex.rips + 1 /\ a.finished = FALSE /\ a.jobs = <<>>
  BY <1>4 DEF NewAudex
<1>6. ~th.offset_done /\ ~th.running /\ ~th.reading /\ ~th.interrupt
  BY <1>4 DEF NewThread
<1>7. f.data = <<>> /\ f.buffer = <<>> /\ f.written = 0 /\ f.free = Free
  BY <1>2, <1>4, ExtractionAssumption, NoFileIs
<1>8. k \in 0..a.rips /\ k < a.rips /\ a.rips > 0
  BY <1>2, <1>5
<1>9. \E g : Totals(g, a.jobs) /\ f.free + g[Len(a.jobs)] = Free
  <2>1. PICK g : Totals(g, audex.jobs)
    BY DEF TypeInv, SpaceIsKept
  <2>2. g[0] = 0 /\ Len(<<>>) = 0 /\ Free + 0 = Free
    BY <2>1, EmptySeq, ExtractionAssumption DEF Totals
  <2> QED
    BY <1>5, <1>7, <2>1, <2>2, NothingPending, Zenon
<1>10. drive \in Drives /\ StartExtract(a, th, f) /\ drive' = drive /\ posted' = <<>>
  BY <1>1, <1>2, <1>4, Zenon DEF TypeInv, Types
<1> QED
  BY <1>3, <1>5, <1>6, <1>7, <1>8, <1>9, <1>10, StreamAfterStart, Zenon

LEMMA TypeCancel ==
  ASSUME TypeInv, Cancel
  PROVE  TypeInv'
<1>1. /\ audex' = [audex EXCEPT !.finished = TRUE] /\ thread' = [thread EXCEPT !.interrupt = TRUE]
      /\ UNCHANGED <<drive, posted, file>>
  BY DEF Cancel, Stopped, Interrupted
<1>2. Types
  BY DEF TypeInv
<1>3. /\ audex' \in Audexes /\ audex'.finished = TRUE
      /\ audex'.rips = audex.rips /\ audex'.jobs = audex.jobs
  BY <1>1, <1>2, ZenonT(60) DEF Types, Audexes
<1>4. /\ thread' \in Threads /\ thread'.interrupt = TRUE
      /\ thread'.running = thread.running /\ thread'.reading = thread.reading
      /\ thread'.checked = thread.checked /\ thread'.offset_done = thread.offset_done
  BY <1>1, <1>2, ZenonT(60) DEF Types, Threads
<1>5. TocIsShifted'
  BY <1>1, <1>3, <1>4, Zenon DEF TypeInv, TocIsShifted
<1>6. Stream'
  BY <1>1, <1>3, <1>4, Zenon DEF TypeInv, Stream
<1>7. SpaceIsKept'
  BY <1>1, <1>3, Zenon DEF TypeInv, SpaceIsKept
<1> QED
  BY <1>1, <1>2, <1>3, <1>4, <1>5, <1>6, <1>7, Zenon DEF TypeInv, Types

(* The drive a thread goes on with when it begins a track.                 *)
DriveOf == IF SampleOffset # 0 /\ ~thread.offset_done THEN ApplyOffset(drive) ELSE drive

LEMMA BeginShift ==
  ASSUME TypeInv, thread.running
  PROVE  /\ DriveOf \in Drives
         /\ Applied => DriveOf = drive
         /\ \E k \in 0..audex.rips : drive.toc = Shifted(k)
         /\ \E j \in 0..audex.rips : /\ DriveOf.toc = Shifted(j)
                                     /\ ~(SampleOffset # 0) => j < audex.rips
<1>1. /\ thread.offset_done \in BOOLEAN /\ audex.rips > 0 /\ audex.rips \in 0..MaxRips
      /\ drive \in Drives /\ MaxRips \in Nat
  BY ThreadsAre, AudexesAre, ExtractionAssumption DEF TypeInv, Types, Stream
<1>2. PICK k \in 0..audex.rips : drive.toc = Shifted(k) /\ (~thread.offset_done => k < audex.rips)
  BY <1>1 DEF TypeInv, TocIsShifted
<1>3. CASE SampleOffset # 0 /\ ~thread.offset_done
  <2>1. DriveOf = ApplyOffset(drive)
    BY <1>3 DEF DriveOf
  <2>2. k \in Int /\ k + 1 \in 0..audex.rips
    BY <1>1, <1>2, <1>3
  <2>3. DriveOf \in Drives /\ DriveOf.toc = Shifted(k + 1)
    BY <1>1, <1>2, <2>1, <2>2, ShiftedOnce
  <2> QED
    BY <1>2, <1>3, <2>2, <2>3, Zenon DEF Applied
<1>4. CASE ~(SampleOffset # 0 /\ ~thread.offset_done)
  <2>1. DriveOf = drive
    BY <1>4, Zenon DEF DriveOf
  <2>2. ~(SampleOffset # 0) => ~thread.offset_done
    BY DEF TypeInv, TocIsShifted
  <2> QED
    BY <1>1, <1>2, <2>1, <2>2, Zenon
<1> QED
  BY <1>3, <1>4, Zenon

(* What CheckInterrupt does: the thread ends at once, or it goes on.       *)
LEMMA CheckIs ==
  ASSUME TypeInv, CheckInterrupt
  PROVE  /\ thread.running /\ ~thread.reading /\ posted = <<>>
         /\ UNCHANGED <<drive, audex, file>>
         /\ thread' \in Threads /\ ~thread'.reading
         /\ thread'.track = thread.track /\ thread'.overall = thread.overall
         /\ thread'.interrupt = thread.interrupt /\ thread'.offset_done = thread.offset_done
         /\ \/ audex.finished /\ ~thread'.running /\ posted' = <<Fin>>
            \/ thread'.running = thread.running /\ posted' = <<>>
<1>1. /\ thread.running /\ ~thread.reading /\ posted = <<>> /\ thread \in Threads
      /\ UNCHANGED <<drive, audex, file>>
  BY DEF CheckInterrupt, TypeInv, Types, Stream
<1>2. Append(posted, Fin) = <<Fin>>
  BY <1>1
<1>3. CASE thread.interrupt
  <2>1. /\ thread' = [thread EXCEPT !.running = FALSE] /\ posted' = <<Fin>>
    BY <1>2, <1>3 DEF CheckInterrupt, Fin
  <2>2. audex.finished
    BY <1>3 DEF TypeInv, Stream
  <2> QED
    BY <1>1, <2>1, <2>2, ZenonT(60) DEF Threads
<1>4. CASE ~thread.interrupt
  <2>1. thread' = [thread EXCEPT !.checked = TRUE] /\ posted' = <<>>
    BY <1>1, <1>4 DEF CheckInterrupt
  <2> QED
    BY <1>1, <2>1, ZenonT(60) DEF Threads
<1> QED
  BY <1>3, <1>4

(* What BeginRun does: the thread ends at once, or it reads.               *)
LEMMA BeginIs ==
  ASSUME TypeInv, BeginRun
  PROVE  /\ thread.running /\ thread.checked /\ ~thread.reading /\ posted = <<>>
         /\ UNCHANGED <<audex, file>>
         /\ drive' \in Drives /\ thread' \in Threads
         /\ thread'.checked = thread.checked
         /\ thread'.track = thread.track /\ thread'.overall = thread.overall
         /\ ~thread'.interrupt /\ drive'.toc = DriveOf.toc
         /\ thread'.offset_done = (SampleOffset # 0)
         /\ \/ /\ FirstSector(DriveOf.toc, thread.track) < 0
                  \/ LastSector(DriveOf.toc, thread.track) < 0
               /\ ~thread'.running /\ ~thread'.reading /\ posted' = <<Fin>>
            \/ /\ ~(FirstSector(DriveOf.toc, thread.track) < 0)
               /\ thread'.running /\ thread'.reading /\ posted' = <<>>
               /\ thread'.current = FirstSector(DriveOf.toc, thread.track)
               /\ thread'.last = LastSector(DriveOf.toc, thread.track)
<1> DEFINE first == FirstSector(DriveOf.toc, thread.track)
           last == LastSector(DriveOf.toc, thread.track)
<1>1. /\ thread.running /\ thread.checked /\ ~thread.reading /\ posted = <<>>
      /\ thread \in Threads /\ drive \in Drives
      /\ UNCHANGED <<audex, file>>
  BY DEF BeginRun, TypeInv, Types, Stream
<1>2. Append(posted, Fin) = <<Fin>>
  BY <1>1
<1>3. /\ DriveOf \in Drives
      /\ \E j \in 0..audex.rips : DriveOf.toc = Shifted(j)
  BY <1>1, BeginShift
<1>4. first \in Int /\ last \in Int
  <2>1. DriveOf.toc \in [1..(NTracks + 1) -> Int]
    BY <1>3 DEF Drives
  <2>2. thread.track \in 0..NTracks /\ NTracks \in Nat \ {0}
    BY <1>1, ThreadsAre, ExtractionAssumption
  <2>3. /\ thread.track # 0 => thread.track \in 1..(NTracks + 1)
        /\ thread.track + 1 \in 1..(NTracks + 1) /\ NTracks + 1 \in 1..(NTracks + 1)
    BY <2>2
  <2> HIDE DEF DriveOf
  <2> QED
    BY <2>1, <2>3 DEF FirstSector, LastSector
<1>5. IF first < 0 \/ last < 0
      THEN /\ thread' = [thread EXCEPT !.running = FALSE, !.interrupt = FALSE, !.error = FALSE,
                                       !.offset_done = SampleOffset # 0]
           /\ posted' = Append(posted, Fin)
           /\ drive' = DriveOf
      ELSE /\ thread' = [thread EXCEPT !.reading = TRUE, !.interrupt = FALSE, !.error = FALSE,
                                       !.current = first, !.last = last,
                                       !.offset_done = SampleOffset # 0]
           /\ drive' = SetNeverSkip(SetParanoiaMode(DriveOf, thread.mode), thread.never)
           /\ UNCHANGED posted
  BY Zenon DEF BeginRun, DriveOf, Fin
<1> HIDE DEF first, last
<1>6. PICK b \in BOOLEAN : b = (SampleOffset # 0)
  OBVIOUS
<1>8. CASE first < 0 \/ last < 0
  <2>1. /\ thread' = [thread EXCEPT !.running = FALSE, !.interrupt = FALSE, !.error = FALSE,
                                    !.offset_done = b]
        /\ posted' = <<Fin>> /\ drive' = DriveOf
    BY <1>2, <1>5, <1>6, <1>8, Zenon
  <2>2. /\ thread' \in Threads /\ thread'.running = FALSE /\ thread'.reading = thread.reading
        /\ thread'.track = thread.track /\ thread'.overall = thread.overall
        /\ thread'.checked = thread.checked
        /\ thread'.interrupt = FALSE /\ thread'.offset_done = b
    BY <1>1, <2>1, ZenonT(60) DEF Threads
  <2> QED
    BY <1>1, <1>3, <1>6, <1>8, <2>1, <2>2, Zenon DEF first, last
<1>9. CASE ~(first < 0 \/ last < 0)
  <2>1. /\ thread' = [thread EXCEPT !.reading = TRUE, !.interrupt = FALSE, !.error = FALSE,
                                    !.current = first, !.last = last, !.offset_done = b]
        /\ posted' = posted
        /\ drive' = SetNeverSkip(SetParanoiaMode(DriveOf, thread.mode), thread.never)
    BY <1>5, <1>6, <1>9, Zenon
  <2>2. /\ thread' \in Threads /\ thread'.running = thread.running /\ thread'.reading = TRUE
        /\ thread'.track = thread.track /\ thread'.overall = thread.overall
        /\ thread'.checked = thread.checked
        /\ thread'.interrupt = FALSE /\ thread'.offset_done = b
        /\ thread'.current = first /\ thread'.last = last
    BY <1>1, <1>4, <2>1, ZenonT(60) DEF Threads
  <2>3. drive' \in Drives /\ drive'.toc = DriveOf.toc
    <3>1. PICK e \in Drives : e = SetParanoiaMode(DriveOf, thread.mode) /\ e.toc = DriveOf.toc
      BY <1>3, ModeIsSet
    <3>2. thread.never \in BOOLEAN
      BY <1>1, ThreadsAre
    <3>3. drive' = SetNeverSkip(e, thread.never)
      BY <2>1, <3>1
    <3> QED
      BY <3>1, <3>2, <3>3, ModeIsSet
  <2> QED
    BY <1>1, <1>6, <1>9, <2>1, <2>2, <2>3, Zenon DEF first, last
<1> QED
  BY <1>8, <1>9, Zenon

LEMMA FinAlone == /\ <<Fin>> \in Seq(Signals) /\ Shape(<<Fin>>, FALSE) /\ <<Fin>> # <<>>
                  /\ Len(<<Fin>>) = 1 /\ Head(<<Fin>>) = Fin
<1>1. <<Fin>> = Append(<<>>, Fin)
  OBVIOUS
<1> QED
  <2>1. <<Fin>> \in Seq(Signals) /\ Shape(<<Fin>>, FALSE)
    BY <1>1, ShapeEmpty, ShapeEnd
  <2>2. <<Fin>> # <<>> /\ Len(<<Fin>>) = 1 /\ Head(<<Fin>>) = Fin
    OBVIOUS
  <2> QED
    BY <2>1, <2>2, Zenon

LEMMA RunsInARip ==
  ASSUME TypeInv, thread.running
  PROVE  audex.rips > 0 /\ audex.rips # 0
BY DEF TypeInv, Stream

LEMMA TypeCheck ==
  ASSUME TypeInv, CheckInterrupt
  PROVE  TypeInv'
<1>1. /\ thread.running /\ ~thread.reading /\ posted = <<>>
      /\ UNCHANGED <<drive, audex, file>>
      /\ thread' \in Threads /\ ~thread'.reading
      /\ thread'.interrupt = thread.interrupt /\ thread'.offset_done = thread.offset_done
      /\ \/ ~thread'.running /\ posted' = <<Fin>>
         \/ thread'.running = thread.running /\ posted' = <<>>
  BY CheckIs, Zenon
<1>2. Types'
  BY <1>1, ShapeEmpty, FinAlone, Zenon DEF TypeInv, Types
<1>3. TocIsShifted'
  BY <1>1, Zenon DEF TypeInv, TocIsShifted
<1>4. Stream'
  <2>1. file.data = <<>> /\ file.buffer = <<>> /\ file.written = 0
    BY <1>1 DEF TypeInv, Stream
  <2>2. thread'.running \in BOOLEAN /\ (~thread'.running => thread'.running = FALSE)
    BY <1>1, ThreadsAre
  <2>3. Shape(posted', thread'.running)
    BY <1>1, <2>2, ShapeEmpty, FinAlone, Zenon
  <2> QED
    BY <1>1, <2>1, <2>3, FinAlone, RunsInARip, Zenon DEF TypeInv, Stream
<1>5. SpaceIsKept'
  BY <1>1, Zenon DEF TypeInv, SpaceIsKept
<1> QED
  BY <1>2, <1>3, <1>4, <1>5, Zenon DEF TypeInv

LEMMA TypeBegin ==
  ASSUME TypeInv, BeginRun
  PROVE  TypeInv'
<1>1. /\ thread.running /\ thread.checked /\ ~thread.reading /\ posted = <<>>
      /\ UNCHANGED <<audex, file>>
      /\ drive' \in Drives /\ thread' \in Threads
      /\ thread'.checked = thread.checked
      /\ ~thread'.interrupt /\ drive'.toc = DriveOf.toc
      /\ thread'.offset_done = (SampleOffset # 0)
      /\ \/ ~thread'.running /\ ~thread'.reading /\ posted' = <<Fin>>
         \/ thread'.running /\ thread'.reading /\ posted' = <<>>
  BY BeginIs, Zenon
<1>2. Types'
  BY <1>1, ShapeEmpty, FinAlone, Zenon DEF TypeInv, Types
<1>3. TocIsShifted'
  <2>1. PICK j \in 0..audex.rips : /\ DriveOf.toc = Shifted(j)
                                   /\ ~(SampleOffset # 0) => j < audex.rips
    BY <1>1, BeginShift
  <2> QED
    BY <1>1, <2>1, Zenon DEF TocIsShifted
<1>4. Stream'
  <2>1. file.data = <<>> /\ file.buffer = <<>> /\ file.written = 0
    BY <1>1 DEF TypeInv, Stream
  <2>2. thread'.running \in BOOLEAN /\ (~thread'.running => thread'.running = FALSE)
    BY <1>1, ThreadsAre
  <2>3. Shape(posted', thread'.running)
    BY <1>1, <2>2, ShapeEmpty, FinAlone, Zenon
  <2> QED
    BY <1>1, <2>1, <2>3, FinAlone, RunsInARip, Zenon DEF TypeInv, Stream
<1>5. SpaceIsKept'
  BY <1>1, Zenon DEF TypeInv, SpaceIsKept
<1> QED
  BY <1>2, <1>3, <1>4, <1>5, Zenon DEF TypeInv

(* A sector is read.                                                       *)
LEMMA ReadIs ==
  ASSUME TypeInv, ReadSector
  PROVE  /\ thread.running /\ thread.reading /\ ~thread.error /\ ~thread.interrupt
         /\ thread.current <= thread.last
         /\ posted' = Append(posted, Out(thread.current))
         /\ UNCHANGED <<drive, audex, file>>
         /\ thread' \in Threads
         /\ thread'.current = thread.current + 1 /\ thread'.overall = thread.overall + 1
         /\ thread'.running = thread.running /\ thread'.reading = thread.reading
         /\ thread'.checked = thread.checked
         /\ thread'.offset_done = thread.offset_done /\ thread'.interrupt = thread.interrupt
         /\ thread'.track = thread.track /\ thread'.last = thread.last
<1>1. /\ thread.running /\ thread.reading /\ ~thread.error /\ ~thread.interrupt
      /\ thread.current <= thread.last
      /\ posted' = Append(posted, Out(thread.current))
      /\ UNCHANGED <<drive, audex, file>>
      /\ thread' = [thread EXCEPT !.current = thread.current + 1, !.overall = thread.overall + 1]
  BY DEF ReadSector, Out, TypeInv, Stream
<1>2. thread \in Threads
  BY DEF TypeInv, Types
<1>3. PICK c \in Int, o \in Nat : c = thread.current + 1 /\ o = thread.overall + 1
  <2>1. thread.current \in Int /\ thread.overall \in Nat
    BY <1>2, ThreadsAre
  <2> QED
    BY <2>1
<1>4. thread' = [thread EXCEPT !.current = c, !.overall = o]
  BY <1>1, <1>3, Zenon
<1> QED
  BY <1>1, <1>2, <1>3, <1>4, ZenonT(60) DEF Threads

LEMMA TypeRead ==
  ASSUME TypeInv, ReadSector
  PROVE  TypeInv'
<1>1. /\ thread.running /\ thread.reading
      /\ posted' = Append(posted, Out(thread.current))
      /\ UNCHANGED <<drive, audex, file>>
      /\ thread' \in Threads
      /\ thread'.running = thread.running /\ thread'.reading = thread.reading
      /\ thread'.checked = thread.checked
      /\ thread'.offset_done = thread.offset_done /\ thread'.interrupt = thread.interrupt
  BY ReadIs, Zenon
<1>2. thread.running = TRUE /\ thread.current \in Int /\ posted \in Seq(Signals)
  BY <1>1, ThreadsAre DEF TypeInv, Types
<1>3. Shape(posted, TRUE)
  BY <1>2, Zenon DEF TypeInv, Stream
<1>4. posted' \in Seq(Signals) /\ Shape(posted', TRUE)
  BY <1>1, <1>2, <1>3, ShapeOutput
<1>5. Types'
  BY <1>1, <1>4, Zenon DEF TypeInv, Types
<1>6. TocIsShifted'
  BY <1>1, Zenon DEF TypeInv, TocIsShifted
<1>7. Stream'
  BY <1>1, <1>2, <1>4, RunsInARip, Zenon DEF TypeInv, Stream
<1>8. SpaceIsKept'
  BY <1>1, Zenon DEF TypeInv, SpaceIsKept
<1> QED
  BY <1>5, <1>6, <1>7, <1>8, Zenon DEF TypeInv

LEMMA FailsIs ==
  ASSUME TypeInv, ReadFails
  PROVE  /\ thread.running /\ thread.reading /\ UNCHANGED <<drive, posted, audex, file>>
         /\ thread' \in Threads
         /\ thread'.running = thread.running /\ thread'.reading = thread.reading
         /\ thread'.checked = thread.checked
         /\ thread'.offset_done = thread.offset_done /\ thread'.interrupt = thread.interrupt
         /\ thread'.track = thread.track /\ thread'.last = thread.last
         /\ thread'.current = thread.current /\ thread'.overall = thread.overall
<1>1. /\ thread.running /\ thread.reading /\ UNCHANGED <<drive, posted, audex, file>>
      /\ thread' = [thread EXCEPT !.error = TRUE] /\ thread \in Threads
  BY DEF ReadFails, TypeInv, Types, Stream
<1> QED
  BY <1>1, ZenonT(60) DEF Threads

LEMMA TypeFails ==
  ASSUME TypeInv, ReadFails
  PROVE  TypeInv'
<1>1. /\ UNCHANGED <<drive, posted, audex, file>>
      /\ thread' \in Threads
      /\ thread'.running = thread.running /\ thread'.reading = thread.reading
      /\ thread'.checked = thread.checked
      /\ thread'.offset_done = thread.offset_done /\ thread'.interrupt = thread.interrupt
  BY FailsIs, Zenon
<1> QED
  BY <1>1, Zenon DEF TypeInv, Types, TocIsShifted, Stream, SpaceIsKept

(* The end of a track: errors, if any, and finished().                     *)
LEMMA EndIs ==
  ASSUME TypeInv, EndRun
  PROVE  /\ thread.running /\ thread.reading /\ UNCHANGED <<drive, audex, file>>
         /\ thread.interrupt \/ thread.error \/ thread.current > thread.last
         /\ \E q : /\ posted' = Append(q, Fin)
                   /\ \/ q = posted /\ ~thread.interrupt /\ ~thread.error
                      \/ q = Append(posted, Err)
                      \/ q = Append(Append(posted, Err), Err)
         /\ thread' \in Threads /\ thread'.running = FALSE /\ thread'.reading = FALSE
         /\ thread'.offset_done = thread.offset_done /\ thread'.interrupt = thread.interrupt
         /\ thread'.track = thread.track /\ thread'.overall = thread.overall
<1>1. /\ thread.running /\ thread.reading /\ UNCHANGED <<drive, audex, file>>
      /\ thread.interrupt \/ thread.error \/ thread.current > thread.last
      /\ thread' = [thread EXCEPT !.running = FALSE, !.reading = FALSE]
      /\ thread \in Threads /\ posted \in Seq(Signals)
  BY DEF EndRun, TypeInv, Types, Stream
<1>2. /\ thread' \in Threads /\ thread'.running = FALSE /\ thread'.reading = FALSE
      /\ thread'.offset_done = thread.offset_done /\ thread'.interrupt = thread.interrupt
      /\ thread'.track = thread.track /\ thread'.overall = thread.overall
  BY <1>1, ZenonT(60) DEF Threads
<1>3. posted' = posted \o (IF thread.interrupt THEN <<Err>> ELSE <<>>)
                       \o (IF thread.error THEN <<Err>> ELSE <<>>) \o <<Fin>>
  BY DEF EndRun, Err, Fin
<1>4. ASSUME NEW p \in Seq(Signals), NEW b
      PROVE  /\ p \o (IF b THEN <<Err>> ELSE <<>>) = (IF b THEN Append(p, Err) ELSE p)
             /\ Append(p, Err) \in Seq(Signals)
  <2>1. /\ p \o <<Err>> = Append(p, Err) /\ p \o <<>> = p
        /\ Append(p, Err) \in Seq(Signals)
    BY SignalsAre, AppendIsConcat, ConcatEmptySeq, AppendProperties
  <2> QED
    BY <2>1, Zenon
<1>5. PICK p \in Seq(Signals) : p = IF thread.interrupt THEN Append(posted, Err) ELSE posted
  BY <1>1, <1>4, Zenon
<1>6. PICK q \in Seq(Signals) : q = IF thread.error THEN Append(p, Err) ELSE p
  BY <1>4, Zenon
<1>7. posted' = q \o <<Fin>>
  BY <1>1, <1>3, <1>4, <1>5, <1>6, Zenon
<1>8. posted' = Append(q, Fin)
  BY <1>7, SignalsAre, AppendIsConcat
<1>9. \/ q = posted /\ ~thread.interrupt /\ ~thread.error
      \/ q = Append(posted, Err)
      \/ q = Append(Append(posted, Err), Err)
  BY <1>5, <1>6, Zenon
<1> QED
  BY <1>1, <1>2, <1>8, <1>9, Zenon

LEMMA TypeEnd ==
  ASSUME TypeInv, EndRun
  PROVE  TypeInv'
<1>1. /\ thread.running /\ UNCHANGED <<drive, audex, file>>
      /\ thread' \in Threads /\ thread'.running = FALSE /\ thread'.reading = FALSE
      /\ thread'.offset_done = thread.offset_done /\ thread'.interrupt = thread.interrupt
  BY EndIs, Zenon
<1>2. PICK q : /\ posted' = Append(q, Fin)
               /\ q = posted \/ q = Append(posted, Err) \/ q = Append(Append(posted, Err), Err)
  BY EndIs, Zenon
<1>3. thread.running = TRUE /\ posted \in Seq(Signals)
  BY <1>1, ThreadsAre DEF TypeInv, Types
<1>4. Shape(posted, TRUE)
  BY <1>3, Zenon DEF TypeInv, Stream
<1>5. q \in Seq(Signals) /\ posted' \in Seq(Signals) /\ Shape(posted', FALSE)
  BY <1>2, <1>3, <1>4, ShapeEnd
<1>6. posted' # <<>>
  BY <1>2, <1>5, SignalsAre, AppendProperties
<1>7. Types'
  BY <1>1, <1>5, Zenon DEF TypeInv, Types
<1>8. TocIsShifted'
  BY <1>1, Zenon DEF TypeInv, TocIsShifted
<1>9. Stream'
  BY <1>1, <1>3, <1>5, <1>6, RunsInARip, Zenon DEF TypeInv, Stream
<1>10. SpaceIsKept'
  BY <1>1, Zenon DEF TypeInv, SpaceIsKept
<1> QED
  BY <1>7, <1>8, <1>9, <1>10, Zenon DEF TypeInv

LEMMA TypeEncoded ==
  ASSUME TypeInv, Encoded
  PROVE  TypeInv'
<1>1. /\ audex.jobs # <<>> /\ UNCHANGED <<drive, thread, posted>>
      /\ audex' = [audex EXCEPT !.jobs = Tail(audex.jobs)]
      /\ file' = [file EXCEPT !.free = file.free + Len(Head(audex.jobs).data)]
  BY DEF Encoded
<1>2. Types
  BY DEF TypeInv
<1>3. audex.jobs \in Seq(Jobs) /\ file.free \in Nat /\ Len(file.data) \in Nat
  BY <1>2, AudexesAre, FilesAre DEF Types
<1>4. PICK l \in Nat : l = Len(Head(audex.jobs).data)
  <2>1. Head(audex.jobs) \in Jobs
    BY <1>1, <1>3, HeadTailProperties
  <2>2. Head(audex.jobs).data \in Seq(Int)
    BY <2>1 DEF Jobs
  <2> QED
    BY <2>2, LenProperties
<1>5. PICK js \in Seq(Jobs) : js = Tail(audex.jobs)
  BY <1>1, <1>3, HeadTailProperties
<1>6. /\ audex' \in Audexes /\ audex'.jobs = js
      /\ audex'.rips = audex.rips /\ audex'.finished = audex.finished
  <2>1. audex' = [audex EXCEPT !.jobs = js]
    BY <1>1, <1>5
  <2> QED
    BY <1>2, <2>1, ZenonT(60) DEF Types, Audexes
<1>7. PICK fr \in Nat : fr = file.free + l
  BY <1>3
<1>8. /\ file' \in Files /\ file'.free = fr /\ file'.data = file.data
      /\ file'.buffer = file.buffer /\ file'.written = file.written
  <2>1. file' = [file EXCEPT !.free = fr]
    BY <1>1, <1>4, <1>7
  <2> QED
    BY <1>2, <2>1, ZenonT(60) DEF Types, Files
<1>9. Types'
  BY <1>1, <1>2, <1>6, <1>8, Zenon DEF Types
<1>10. TocIsShifted'
  BY <1>1, <1>6, Zenon DEF TypeInv, TocIsShifted
<1>11. Stream'
  <2>1. audex.rips # 0
    BY <1>1 DEF TypeInv, Stream
  <2> QED
    BY <1>1, <1>6, <1>8, <2>1, Zenon DEF TypeInv, Stream
<1>12. SpaceIsKept'
  <2>1. PICK g : Totals(g, audex.jobs) /\ file.free + Len(file.data) + g[Len(audex.jobs)] = Free
    BY DEF TypeInv, SpaceIsKept
  <2>2. PICK h : Totals(h, js) /\ h[Len(js)] + l = g[Len(audex.jobs)]
    BY <1>1, <1>3, <1>4, <1>5, <2>1, TotalsTail
  <2>3. h[Len(js)] \in Nat
    BY <2>2, LenProperties DEF Totals
  <2>4. fr + Len(file.data) + h[Len(js)] = Free
    BY <1>3, <1>7, <2>1, <2>2, <2>3
  <2> QED
    BY <1>6, <1>8, <2>2, <2>4, Zenon DEF SpaceIsKept
<1> QED
  BY <1>9, <1>10, <1>11, <1>12, Zenon DEF TypeInv

(* The delivery of a sector, of an error, and of the end of a track.       *)
Delivers(signal) == Deliver /\ Head(posted).signal = signal

LEMMA DeliveryIs ==
  ASSUME TypeInv, Deliver
  PROVE  /\ Delivers("output") \/ Delivers("error") \/ Delivers("finished")
         /\ posted # <<>> /\ posted' = Tail(posted) /\ drive' = drive
         /\ posted \in Seq(Signals) /\ posted' \in Seq(Signals) /\ audex.rips # 0
<1>1. posted # <<>> /\ posted' = Tail(posted) /\ drive' = drive
  BY DEF Deliver
<1>2. posted \in Seq(Signals)
  BY DEF TypeInv, Types
<1>3. Head(posted).signal \in {"output", "error", "finished"} /\ posted' \in Seq(Signals)
  BY <1>1, <1>2, TailIs, SignalsAre
<1>4. audex.rips # 0
  BY <1>1 DEF TypeInv, Stream
<1> QED
  BY <1>1, <1>2, <1>3, <1>4, Zenon DEF Delivers

LEMMA OutputIs ==
  ASSUME TypeInv, Delivers("output")
  PROVE  /\ file' = WriteSector(file, Head(posted).sector) /\ UNCHANGED <<audex, thread>>
         /\ Head(posted).sector \in Int
         /\ Shape(posted', thread.running)
         /\ ~thread.running => posted' # <<>>
<1>1. /\ file' = WriteSector(file, Head(posted).sector) /\ UNCHANGED <<audex, thread>>
      /\ Head(posted).signal # "finished"
  BY DEF Delivers, Deliver, WriteToWave
<1>2. Head(posted).sector \in Int
  BY DeliveryIs, TailIs, SignalsAre DEF Delivers
<1>3. /\ Shape(posted', thread.running)
      /\ ~thread.running => posted' # <<>>
  <2>1. Shape(posted, thread.running) /\ thread.running \in BOOLEAN
    BY ThreadsAre DEF TypeInv, Types, Stream
  <2> QED
    BY <1>1, <2>1, DeliveryIs, ShapeTail, Zenon DEF Delivers
<1> QED
  BY <1>1, <1>2, <1>3, Zenon

LEMMA TypeOutput ==
  ASSUME TypeInv, Delivers("output")
  PROVE  TypeInv'
<1>1. /\ posted # <<>> /\ posted' = Tail(posted) /\ drive' = drive
      /\ posted' \in Seq(Signals) /\ audex.rips # 0
  BY DeliveryIs, Zenon DEF Delivers
<1>2. /\ file' = WriteSector(file, Head(posted).sector) /\ UNCHANGED <<audex, thread>>
      /\ Head(posted).sector \in Int
      /\ Shape(posted', thread.running)
      /\ ~thread.running => posted' # <<>>
  BY OutputIs, Zenon
<1>3. /\ file' \in Files /\ Len(file'.buffer) <= Chunk
      /\ file'.free + Len(file'.data) = file.free + Len(file.data)
  BY <1>2, WriteIs DEF TypeInv, Types, Stream
<1>4. Types'
  BY <1>1, <1>2, <1>3, Zenon DEF TypeInv, Types
<1>5. TocIsShifted'
  BY <1>1, <1>2, Zenon DEF TypeInv, TocIsShifted
<1>6. Stream'
  <2>1. thread.running => thread.reading
    BY <1>1 DEF TypeInv, Stream
  <2> QED
    BY <1>1, <1>2, <1>3, <2>1, Zenon DEF TypeInv, Stream
<1>7. SpaceIsKept'
  BY <1>2, <1>3, Zenon DEF TypeInv, SpaceIsKept
<1> QED
  BY <1>4, <1>5, <1>6, <1>7, Zenon DEF TypeInv

LEMMA ErrorIs ==
  ASSUME TypeInv, Delivers("error")
  PROVE  /\ audex' \in Audexes /\ audex'.finished = TRUE
         /\ audex'.rip = audex.rip /\ audex'.rips = audex.rips
         /\ audex'.index = audex.index /\ audex'.jobs = audex.jobs
         /\ thread' \in Threads /\ thread'.checked = thread.checked
         /\ thread'.running = thread.running /\ thread'.reading = thread.reading
         /\ thread'.offset_done = thread.offset_done /\ thread'.track = thread.track
         /\ file' = file /\ Shape(posted', thread.running)
         /\ ~thread.running /\ posted' # <<>>
<1>1. /\ audex' = [audex EXCEPT !.finished = TRUE]
      /\ thread' = IF audex.finished THEN thread ELSE [thread EXCEPT !.interrupt = TRUE]
      /\ file' = file /\ Head(posted).signal = "error"
  BY DEF Delivers, Deliver, SlotError, Stopped, Interrupted
<1>2. Types
  BY DEF TypeInv
<1>3. thread \in Threads /\ audex \in Audexes
  BY <1>2 DEF Types
<1>4. /\ audex' \in Audexes /\ audex'.finished = TRUE
      /\ audex'.rip = audex.rip /\ audex'.rips = audex.rips
      /\ audex'.index = audex.index /\ audex'.jobs = audex.jobs
  BY <1>1, <1>3, ZenonT(60) DEF Audexes
<1>5. /\ thread' \in Threads /\ thread'.checked = thread.checked
      /\ thread'.running = thread.running /\ thread'.reading = thread.reading
      /\ thread'.offset_done = thread.offset_done /\ thread'.track = thread.track
  <2>1. PICK th : th = [thread EXCEPT !.interrupt = TRUE]
    OBVIOUS
  <2>2. /\ th \in Threads /\ th.checked = thread.checked
        /\ th.running = thread.running /\ th.reading = thread.reading
        /\ th.offset_done = thread.offset_done /\ th.track = thread.track
    BY <1>3, <2>1, ZenonT(60) DEF Threads
  <2>3. audex.finished \in BOOLEAN
    BY <1>3, AudexesAre
  <2> QED
    BY <1>1, <1>3, <2>1, <2>2, <2>3
<1>6. Shape(posted', thread.running) /\ (~thread.running => posted' # <<>>)
  <2>1. Shape(posted, thread.running) /\ thread.running \in BOOLEAN
    BY <1>3, ThreadsAre DEF TypeInv, Stream
  <2>2. Head(posted).signal # "finished"
    BY <1>1
  <2> QED
    BY <2>1, <2>2, DeliveryIs, ShapeTail, Zenon DEF Delivers
<1>7. ~thread.running
  <2>1. Len(posted) \in Nat \ {0} /\ posted[1].signal = "error"
    BY <1>1, DeliveryIs, TailIs DEF Delivers
  <2>2. 1 \in 1..Len(posted)
    BY <2>1
  <2> QED
    BY <2>1, <2>2, Zenon DEF TypeInv, Stream, Shape
<1> QED
  BY <1>1, <1>4, <1>5, <1>6, <1>7, Zenon

LEMMA TypeError ==
  ASSUME TypeInv, Delivers("error")
  PROVE  TypeInv'
<1>1. /\ posted' \in Seq(Signals) /\ drive' = drive /\ audex.rips # 0
  BY DeliveryIs, Zenon DEF Delivers
<1>2. /\ audex' \in Audexes /\ audex'.finished = TRUE
      /\ audex'.rips = audex.rips /\ audex'.jobs = audex.jobs
      /\ thread' \in Threads /\ thread'.checked = thread.checked
      /\ thread'.running = thread.running /\ thread'.reading = thread.reading
      /\ thread'.offset_done = thread.offset_done
      /\ file' = file /\ Shape(posted', thread.running)
      /\ ~thread.running /\ posted' # <<>>
  BY ErrorIs, Zenon
<1>3. Types'
  BY <1>1, <1>2, Zenon DEF TypeInv, Types
<1>4. TocIsShifted'
  BY <1>1, <1>2, Zenon DEF TypeInv, TocIsShifted
<1>5. Stream'
  BY <1>1, <1>2, Zenon DEF TypeInv, Stream
<1>6. SpaceIsKept'
  BY <1>1, <1>2, Zenon DEF TypeInv, SpaceIsKept
<1> QED
  BY <1>3, <1>4, <1>5, <1>6, Zenon DEF TypeInv

(* A job handed over, and Audex with it.                                   *)
Job == [track |-> thread.track, opened |-> file.open, data |-> CloseWave(file).data, header |-> CloseWave(file).header]
WithJob == [audex EXCEPT !.jobs = Append(@, Job)]

LEMMA FinishIs ==
  ASSUME TypeInv, Delivers("finished")
  PROVE  /\ ~thread.running /\ ~thread.reading /\ posted' = <<>> /\ Len(posted) = 1
         /\ audex.rips > 0
         /\ CloseWave(file) \in Files
         /\ Job \in Jobs /\ Job.track = thread.track /\ Job.opened = file.open
         /\ Job.data = CloseWave(file).data /\ Job.header = CloseWave(file).header
         /\ WithJob \in Audexes /\ WithJob.jobs = Append(audex.jobs, Job)
         /\ WithJob.rip = audex.rip /\ WithJob.rips = audex.rips
         /\ WithJob.index = audex.index /\ WithJob.finished = audex.finished
         /\ IF audex.finished
            THEN file' = RemoveWave(CloseWave(file)) /\ UNCHANGED <<audex, thread>>
            ELSE StartExtract(WithJob, thread, NoFile(CloseWave(file).free))
<1>1. posted # <<>> /\ posted' = Tail(posted) /\ posted \in Seq(Signals) /\ audex.rips # 0
  BY DeliveryIs, Zenon DEF Delivers
<1>2. ~thread.running /\ Len(posted) = 1 /\ posted' = <<>>
  <2>1. Shape(posted, thread.running) /\ thread.running \in BOOLEAN
    BY ThreadsAre DEF TypeInv, Types, Stream
  <2>2. Head(posted).signal = "finished"
    BY DEF Delivers
  <2> QED
    BY <1>1, <2>1, <2>2, ShapeLast, Zenon
<1>3. ~thread.reading
  BY <1>2 DEF TypeInv, Stream
<1>4. file \in Files /\ CloseWave(file) \in Files
  BY CloseIs DEF TypeInv, Types
<1>5. Job \in Jobs
  <2>1. thread.track \in 0..NTracks
    BY ThreadsAre DEF TypeInv, Types
  <2>2. CloseWave(file).data \in Seq(Int) /\ CloseWave(file).header \in Nat
    BY <1>4, FilesAre
  <2>3. file.open \in BOOLEAN
    BY <1>4 DEF Files
  <2> QED
    BY <2>1, <2>2, <2>3 DEF Job, Jobs
<1>6. /\ Job.track = thread.track /\ Job.opened = file.open
      /\ Job.data = CloseWave(file).data /\ Job.header = CloseWave(file).header
  BY DEF Job
<1>7. audex \in Audexes
  BY DEF TypeInv, Types
<1>8. PICK js \in Seq(Jobs) : js = Append(audex.jobs, Job)
  BY <1>5, <1>7, AudexesAre, AppendProperties
<1>9. WithJob = [audex EXCEPT !.jobs = js]
  BY <1>8, Zenon DEF WithJob
<1>10. /\ WithJob \in Audexes /\ WithJob.jobs = Append(audex.jobs, Job)
       /\ WithJob.rip = audex.rip /\ WithJob.rips = audex.rips
       /\ WithJob.index = audex.index /\ WithJob.finished = audex.finished
  BY <1>7, <1>8, <1>9, ZenonT(60) DEF Audexes
<1>11. audex.rips > 0
  BY <1>1, <1>7, AudexesAre, ExtractionAssumption
<1>12. FinishExtract
  BY DEF Delivers, Deliver
<1>13. IF audex.finished
       THEN file' = RemoveWave(CloseWave(file)) /\ UNCHANGED <<audex, thread>>
       ELSE StartExtract(WithJob, thread, NoFile(CloseWave(file).free))
  BY <1>12, Zenon DEF FinishExtract, WithJob, Job
<1> QED
  BY <1>2, <1>3, <1>4, <1>5, <1>6, <1>10, <1>11, <1>13, Zenon

LEMMA TypeFinished ==
  ASSUME TypeInv, Delivers("finished")
  PROVE  TypeInv'
<1>1. drive' = drive
  BY DeliveryIs DEF Delivers
<1>2. /\ ~thread.running /\ ~thread.reading /\ posted' = <<>>
      /\ CloseWave(file) \in Files
      /\ Job \in Jobs /\ Job.data = CloseWave(file).data
      /\ WithJob \in Audexes /\ WithJob.jobs = Append(audex.jobs, Job)
      /\ WithJob.rips = audex.rips /\ WithJob.finished = audex.finished
      /\ IF audex.finished
         THEN file' = RemoveWave(CloseWave(file)) /\ UNCHANGED <<audex, thread>>
         ELSE StartExtract(WithJob, thread, NoFile(CloseWave(file).free))
      /\ audex.rips > 0
  BY FinishIs, Zenon
<1>3. PICK h \in Files : h = CloseWave(file)
  BY <1>2
<1>4. h.free \in Nat /\ Len(h.data) \in Nat /\ h.free + Len(h.data) = file.free + Len(file.data)
  BY <1>3, CloseIs, FilesAre DEF TypeInv, Types
<1>5. PICK g : Totals(g, audex.jobs) /\ file.free + Len(file.data) + g[Len(audex.jobs)] = Free
  BY DEF TypeInv, SpaceIsKept
<1>6. audex.jobs \in Seq(Jobs) /\ audex \in Audexes /\ thread \in Threads /\ drive \in Drives
  BY AudexesAre DEF TypeInv, Types
<1>7. g[Len(audex.jobs)] \in Nat
  BY <1>5, <1>6, LenProperties DEF Totals
<1>8. CASE audex.finished
  <2>1. file' = NoFile(h.free + Len(h.data)) /\ UNCHANGED <<audex, thread>>
    BY <1>2, <1>3, <1>8 DEF RemoveWave
  <2>2. /\ file' \in Files /\ file'.free = h.free + Len(h.data) /\ file'.data = <<>>
        /\ file'.buffer = <<>> /\ file'.written = 0
    <3>1. PICK n \in Nat : n = h.free + Len(h.data)
      BY <1>4
    <3>2. file' = NoFile(n)
      BY <2>1, <3>1
    <3> QED
      BY <3>1, <3>2, NoFileIs
  <2>3. Types'
    BY <1>1, <1>2, <2>1, <2>2, ShapeEmpty, Zenon DEF TypeInv, Types
  <2>4. TocIsShifted'
    BY <1>1, <2>1, Zenon DEF TypeInv, TocIsShifted
  <2>5. Stream'
    <3>1. audex.rips # 0 /\ Len(<<>>) = 0 /\ 0 <= Chunk
      BY <1>2, EmptySeq, ExtractionAssumption
    <3> QED
      BY <1>2, <2>1, <2>2, <3>1, ShapeEmpty, Zenon DEF TypeInv, Stream
  <2>6. SpaceIsKept'
    <3>1. Len(file'.data) = 0
      BY <2>2, EmptySeq
    <3>2. file'.free + Len(file'.data) + g[Len(audex.jobs)] = Free
      BY <1>4, <1>5, <1>7, <2>2, <3>1
    <3> QED
      BY <1>5, <2>1, <3>2, Zenon DEF SpaceIsKept
  <2> QED
    BY <2>3, <2>4, <2>5, <2>6, Zenon DEF TypeInv
<1>9. CASE ~audex.finished
  <2>1. StartExtract(WithJob, thread, NoFile(h.free))
    BY <1>2, <1>3, <1>9, Zenon
  <2>2. PICK f \in Files : /\ f = NoFile(h.free) /\ f.free = h.free /\ f.data = <<>>
                           /\ f.buffer = <<>> /\ f.written = 0
    BY <1>4, NoFileIs
  <2>3. PICK a \in Audexes : a = WithJob
    BY <1>2
  <2>4. PICK x : /\ Totals(x, Append(audex.jobs, Job))
                 /\ x[Len(Append(audex.jobs, Job))] = g[Len(audex.jobs)] + Len(Job.data)
    BY <1>2, <1>5, <1>6, TotalsAppend
  <2>5. Totals(x, a.jobs) /\ x[Len(a.jobs)] = g[Len(audex.jobs)] + Len(h.data)
    BY <1>2, <1>3, <2>3, <2>4, Zenon
  <2>6. f.free + x[Len(a.jobs)] = Free
    <3>1. PICK s \in Nat, ld \in Nat, fr \in Nat :
            s = g[Len(audex.jobs)] /\ ld = Len(h.data) /\ fr = h.free
      BY <1>4, <1>7
    <3>2. fr + ld + s = Free
      BY <1>4, <1>5, <3>1
    <3>3. fr + (s + ld) = Free
      BY <3>2
    <3> QED
      BY <2>2, <2>5, <3>1, <3>3, Zenon
  <2>7. /\ thread.offset_done => SampleOffset # 0
        /\ \E k \in 0..a.rips : drive.toc = Shifted(k) /\ (~thread.offset_done => k < a.rips)
    BY <1>2, <2>3 DEF TypeInv, TocIsShifted
  <2>8. StartExtract(a, thread, f) /\ a.rips > 0 /\ (thread.interrupt => a.finished)
    BY <1>2, <2>1, <2>2, <2>3, Zenon DEF TypeInv, Stream
  <2> QED
    BY <1>1, <1>2, <1>6, <2>2, <2>5, <2>6, <2>7, <2>8, StreamAfterStart, Zenon
<1> QED
  BY <1>8, <1>9

LEMMA TypeNext ==
  ASSUME TypeInv, [Next]_vars
  PROVE  TypeInv'
<1>1. CASE \E rip \in RipChoices : Start(rip)
  BY <1>1, TypeStart
<1>2. CASE Cancel
  BY <1>2, TypeCancel
<1>c. CASE CheckInterrupt
  BY <1>c, TypeCheck
<1>3. CASE BeginRun
  BY <1>3, TypeBegin
<1>4. CASE ReadSector
  BY <1>4, TypeRead
<1>5. CASE ReadFails
  BY <1>5, TypeFails
<1>6. CASE EndRun
  BY <1>6, TypeEnd
<1>7. CASE Deliver
  BY <1>7, DeliveryIs, TypeOutput, TypeError, TypeFinished
<1>8. CASE Encoded
  BY <1>8, TypeEncoded
<1>9. CASE UNCHANGED vars
  BY <1>9, Zenon DEF vars, TypeInv, Types, TocIsShifted, Stream, SpaceIsKept
<1> QED
  BY <1>1, <1>2, <1>c, <1>3, <1>4, <1>5, <1>6, <1>7, <1>8, <1>9, Zenon DEF Next, Thread

LEMMA TypeInvHolds == Spec => []TypeInv
<1>1. TypeInv /\ [Next]_vars => TypeInv'
  BY TypeNext
<1> QED
  BY TypeInit, <1>1, PTL DEF Spec

LEMMA TypeInvIsTypeOK == TypeInv => TypeOK
<1> SUFFICES ASSUME TypeInv
             PROVE  TypeOK
  OBVIOUS
<1>1. drive.toc \in [1..(NTracks + 1) -> Int] /\ drive.mask \in 0..255
  BY DEF TypeInv, Types, Drives
<1>2. thread.track \in 0..NTracks /\ thread.overall \in Nat
  BY ThreadsAre DEF TypeInv, Types
<1>3. thread.reading => thread.running
  BY DEF TypeInv, Stream
<1>4. \A i \in DOMAIN posted : posted[i].signal \in {"output", "error", "finished"}
  <2>1. posted \in Seq(Signals)
    BY DEF TypeInv, Types
  <2>2. \A i \in DOMAIN posted : posted[i] \in Signals
    BY <2>1, LenProperties
  <2> QED
    BY <2>2, SignalsAre
<1>5. audex.index \in 0..(NTracks + 1) /\ audex.finished \in BOOLEAN
  BY AudexesAre DEF TypeInv, Types
<1>6. file.free \in 0..Free
  <2>1. PICK g : Totals(g, audex.jobs) /\ file.free + Len(file.data) + g[Len(audex.jobs)] = Free
    BY DEF TypeInv, SpaceIsKept
  <2>2. audex.jobs \in Seq(Jobs)
    BY AudexesAre DEF TypeInv, Types
  <2>3. g[Len(audex.jobs)] \in Nat
    BY <2>1, <2>2, LenProperties DEF Totals
  <2>4. file.free \in Nat /\ Len(file.data) \in Nat /\ Free \in Nat
    BY FilesAre, ExtractionAssumption DEF TypeInv, Types
  <2>5. \A a, b, c, d \in Nat : a + b + c = d => a \in 0..d
    OBVIOUS
  <2> QED
    BY <2>1, <2>3, <2>4, <2>5
<1>7. Len(file.buffer) <= Chunk
  BY DEF TypeInv, Stream
<1> QED
  BY <1>1, <1>2, <1>3, <1>4, <1>5, <1>6, <1>7, Zenon DEF TypeOK

(* The types of the variables; above all, the wave files never take more   *)
(* than the space the folder has, and none of it is lost, however often    *)
(* files are opened, flushed, closed, removed and encoded.                 *)
THEOREM TypeCorrect == Spec => []TypeOK
BY TypeInvHolds, TypeInvIsTypeOK, PTL

-----------------------------------------------------------------------------
(* The second layer: a rip, its tracks and its progress.                   *)

LEMMA TocIs ==
  ASSUME TypeInv
  PROVE  \E k \in 0..MaxRips : drive.toc = Shifted(k)
<1>1. PICK k \in 0..audex.rips : drive.toc = Shifted(k)
  BY DEF TypeInv, TocIsShifted
<1>2. audex.rips \in 0..MaxRips /\ MaxRips \in Nat
  BY AudexesAre, ExtractionAssumption DEF TypeInv, Types
<1>3. k \in 0..MaxRips
  BY <1>2
<1> QED
  BY <1>1, <1>3

LEMMA SectorsAre ==
  ASSUME OnDisc, NEW k \in 0..MaxRips, NEW t \in 0..NTracks
  PROVE  LET toc == Shifted(k) IN
         /\ FirstSector(toc, t) \in Nat /\ LastSector(toc, t) \in Nat
         /\ FirstSector(toc, t) <= LastSector(toc, t)
         /\ \A i \in 1..(NTracks + 1) : toc[i] \in Nat
         /\ t # 0 => /\ FirstSector(toc, t) = toc[t]
                     /\ LastSector(toc, t) + 1 - FirstSector(toc, t) = toc[t + 1] - toc[t]
<1> DEFINE toc == Shifted(k)
<1>1. k \in Int /\ NTracks \in Nat \ {0} /\ MaxRips \in Nat
  BY ExtractionAssumption
<1>2. toc \in [1..(NTracks + 1) -> Int]
  BY <1>1, ShiftedType
<1>3. \A s, r \in 1..(NTracks + 1) : s < r => toc[s] < toc[r]
  BY <1>1, ShiftedGrows
<1>4. toc[1] >= 0
  <2>1. toc[1] = Toc[1] + k * Shift
    BY <1>1 DEF Shifted
  <2> HIDE DEF toc
  <2> QED
    BY <2>1 DEF OnDisc
<1> HIDE DEF toc
<1>5. \A i \in 1..(NTracks + 1) : toc[i] \in Nat
  <2> SUFFICES ASSUME NEW i \in 1..(NTracks + 1)
               PROVE  toc[i] \in Nat
    OBVIOUS
  <2>1. 1 \in 1..(NTracks + 1) /\ (i = 1 \/ 1 < i)
    BY <1>1
  <2>2. toc[i] \in Int /\ toc[1] \in Int /\ (i = 1 \/ toc[1] < toc[i])
    BY <1>2, <1>3, <2>1
  <2> QED
    BY <1>4, <2>2
<1>6. CASE t = 0
  <2>1. FirstSector(toc, t) = 0 /\ LastSector(toc, t) = toc[NTracks + 1] - 1
    BY <1>6 DEF FirstSector, LastSector
  <2>2. toc[NTracks + 1] \in Nat /\ toc[1] \in Nat /\ toc[1] < toc[NTracks + 1]
    BY <1>1, <1>3, <1>5
  <2> QED
    BY <1>5, <1>6, <2>1, <2>2 DEF toc
<1>7. CASE t # 0
  <2>1. FirstSector(toc, t) = toc[t] /\ LastSector(toc, t) = toc[t + 1] - 1
    BY <1>7, Zenon DEF FirstSector, LastSector
  <2>2. t \in 1..(NTracks + 1) /\ t + 1 \in 1..(NTracks + 1) /\ t < t + 1
    BY <1>1, <1>7
  <2>3. toc[t] \in Nat /\ toc[t + 1] \in Nat /\ toc[t] < toc[t + 1]
    BY <1>3, <1>5, <2>2
  <2> QED
    BY <1>5, <1>7, <2>1, <2>3 DEF toc
<1> QED
  BY <1>6, <1>7

LEMMA TrackInit == Init => TrackInv
<1> SUFFICES ASSUME Init
             PROVE  TrackInv
  OBVIOUS
<1>1. /\ audex.rips = 0 /\ audex.index = 0 /\ audex.jobs = <<>> /\ thread.reading = FALSE
  BY DEF Init, NewThread
<1>2. ~(0 > 0) /\ 0 # NTracks + 1
  BY ExtractionAssumption
<1> QED
  BY <1>1, <1>2, Zenon DEF TrackInv, Ripping, ProgressAddsUp

(* What a new or next track leaves: the tracks up to a's index are counted,*)
(* and the sector numOfFramesOfTrack() lacks if they are all.              *)
LEMMA TrackAfterStart ==
  ASSUME NEW a \in Audexes, NEW th \in Threads, NEW f \in Files,
         NEW k \in Int, drive.toc = Shifted(k), drive' = drive, posted' = <<>>,
         StartExtract(a, th, f), ~th.running, ~th.reading, a.index # NTracks + 1,
         a.jobs # <<>> => (SampleOffset # 0 => th.offset_done),
         NEW x \in {0, 1}, x = 1 => Rest(a) = {},
         ~a.rip.single_file =>
           th.overall = Frames(drive.toc, {s \in a.rip.selection : s <= a.index}) + x
  PROVE  TrackInv'
<1>1. /\ audex' \in Audexes /\ thread' \in Threads /\ Unmoved(a, th)
      /\ NothingLeft(a, th, f) \/ NextTrack(a, th, f)
  BY StartExtractIs
<1>2. /\ audex'.rip = a.rip /\ audex'.rips = a.rips /\ audex'.finished = a.finished
      /\ audex'.jobs = a.jobs /\ ~thread'.reading /\ thread'.offset_done = th.offset_done
  BY <1>1, Zenon DEF Unmoved
<1>3. thread'.reading \/ audex'.jobs # <<>> => Applied'
  BY <1>2, Zenon DEF Applied
<1>4. PICK sel \in SUBSET Tracks, ix \in Nat : sel = a.rip.selection /\ ix = a.index
  <2>1. a.index \in Nat /\ a.rip.selection \in SUBSET Tracks
    BY AudexesAre
  <2> QED
    BY <2>1
<1>5. PICK low \in SUBSET Tracks : low = {s \in sel : s <= ix}
  OBVIOUS
<1>6. ~a.rip.single_file => th.overall = Frames(Shifted(k), low) + x
  BY <1>4, <1>5, Zenon
<1>7. Rest(a) = {t \in sel : t > ix}
  BY <1>4, Zenon DEF Rest
<1>8. Tracks \subseteq Nat
  BY DEF Tracks
<1>9. CASE NothingLeft(a, th, f)
  <2>1. /\ audex'.index = NTracks + 1 /\ thread'.running = th.running
        /\ ~a.rip.single_file => thread'.overall = th.overall + Frames(drive.toc, Rest(a))
    BY <1>9 DEF NothingLeft
  <2>2. ASSUME ~a.rip.single_file
        PROVE  thread'.overall - Frames(drive'.toc, sel) \in {0, 1}
    <3>1. PICK up \in SUBSET Tracks : up = Rest(a)
      BY <1>7
    <3>2. low \cap up = {} /\ low \cup up = sel
      <4>1. \A s \in Tracks : s \in low <=> s \in sel /\ ~(s > ix)
        BY <1>5, <1>8
      <4>2. \A s \in Tracks : s \in up <=> s \in sel /\ s > ix
        BY <1>7, <3>1
      <4> QED
        BY <4>1, <4>2
    <3>3. Frames(Shifted(k), sel) = Frames(Shifted(k), low) + Frames(Shifted(k), up)
      BY <3>2, FramesUnion, Zenon
    <3>4. PICK m \in Nat, n \in Nat : m = Frames(Shifted(k), low) /\ n = Frames(Shifted(k), up)
      BY FramesNat
    <3>5. thread'.overall = m + x + n
      BY <1>6, <2>1, <2>2, <3>1, <3>4, Zenon
    <3>6. Frames(drive'.toc, sel) = m + n
      BY <3>3, <3>4, Zenon
    <3>7. \A c, d : c = m + x + n /\ d = m + n => c - d = x
      OBVIOUS
    <3>8. thread'.overall - Frames(drive'.toc, sel) = x
      BY <3>5, <3>6, <3>7, Zenon
    <3> QED
      BY <3>8
  <2>3. ProgressAddsUp'
    BY <1>2, <1>4, <2>2, Zenon DEF ProgressAddsUp
  <2>4. ~Ripping'
    BY <2>1, Zenon DEF Ripping
  <2> QED
    BY <1>3, <2>1, <2>3, <2>4, Zenon DEF TrackInv
<1>10. CASE NextTrack(a, th, f)
  <2>1. /\ audex'.index \in Tracks /\ thread'.running
        /\ thread'.track = IF a.rip.single_file THEN 0 ELSE audex'.index
        /\ ~a.rip.single_file =>
             /\ audex'.index \in Rest(a)
             /\ thread'.overall = th.overall +
                  Frames(drive.toc, {t \in Rest(a) : t < audex'.index})
    BY <1>10 DEF NextTrack
  <2>2. PICK t \in Tracks : t = audex'.index /\ t # NTracks + 1
    <3>1. \A s \in Tracks : s # NTracks + 1
      BY ExtractionAssumption DEF Tracks
    <3> QED
      BY <2>1, <3>1
  <2>3. ASSUME ~a.rip.single_file
        PROVE  /\ t \in sel
               /\ thread'.overall = Frames(drive'.toc, Below(sel, t))
    <3>1. PICK up \in SUBSET Tracks : up = {s \in Rest(a) : s < t}
      BY <1>7
    <3>2. t \in sel /\ t > ix
      BY <1>7, <2>1, <2>2, <2>3
    <3>3. low \cap up = {} /\ low \cup up = {s \in sel : s < t}
      <4>1. ix \in Int /\ \A s \in Tracks : s \in Int
        BY <1>5, <1>7, <1>8, ExtractionAssumption DEF Tracks
      <4>2. low = {s \in sel : s <= ix} /\ up = {s \in sel : s > ix /\ s < t}
        BY <1>5, <1>7, <1>8, <3>1
      <4>3. /\ \A s \in sel : s \in Tracks
            /\ \A s \in Tracks : ~(s <= ix /\ s > ix)
            /\ \A s \in Tracks : s < t <=> s <= ix \/ (s > ix /\ s < t)
        BY <1>7, <3>2, <4>1
      <4> QED
        BY <4>2, <4>3
    <3>4. Frames(Shifted(k), low \cup up) = Frames(Shifted(k), low) + Frames(Shifted(k), up)
      BY <3>3, FramesUnion
    <3>5. PICK m \in Nat, n \in Nat : m = Frames(Shifted(k), low) /\ n = Frames(Shifted(k), up)
      BY FramesNat
    <3>6. x = 0
      BY <2>1, <2>2, <2>3
    <3>7. thread'.overall = m + x + n
      BY <1>6, <2>1, <2>2, <2>3, <3>1, <3>5, Zenon
    <3>8. m + 0 + n = m + n
      OBVIOUS
    <3>9. Below(sel, t) = low \cup up
      BY <3>3, Zenon DEF Below
    <3> QED
      BY <3>2, <3>4, <3>5, <3>6, <3>7, <3>8, <3>9, Zenon
  <2>4. ProgressAddsUp'
    BY <2>2, Zenon DEF ProgressAddsUp
  <2>5. thread'.track = IF audex'.rip.single_file THEN 0 ELSE audex'.index
    BY <1>2, <2>1, Zenon
  <2>6. ~audex'.rip.single_file =>
          /\ audex'.index \in audex'.rip.selection
          /\ thread'.overall = Frames(drive'.toc, Below(audex'.rip.selection, audex'.index))
    BY <1>2, <1>4, <2>2, <2>3, Zenon
  <2> QED
    BY <1>2, <1>3, <2>1, <2>2, <2>4, <2>5, <2>6, Zenon DEF TrackInv
<1> QED
  BY <1>1, <1>9, <1>10

LEMMA TrackStart ==
  ASSUME TypeInv, NEW rip \in RipChoices, Start(rip)
  PROVE  TrackInv'
<1>1. /\ StartExtract(NewAudex(rip), NewThread, NoFile(file.free))
      /\ NewAudex(rip) \in Audexes /\ NewThread \in Threads /\ NoFile(file.free) \in Files
      /\ UNCHANGED <<drive, posted>>
  BY NewRip
<1>2. posted = <<>>
  BY NothingPending
<1>3. PICK k \in 0..MaxRips : drive.toc = Shifted(k)
  BY TocIs
<1>4. PICK a \in Audexes, th \in Threads, f \in Files :
        a = NewAudex(rip) /\ th = NewThread /\ f = NoFile(file.free)
  BY <1>1
<1>5. a.index = 0 /\ a.jobs = <<>>
  BY <1>4 DEF NewAudex
<1>6. ~th.running /\ ~th.reading /\ th.overall = 0
  BY <1>4 DEF NewThread
<1>7. {s \in a.rip.selection : s <= a.index} = {}
  <2>1. a.rip.selection \in SUBSET Tracks
    BY AudexesAre
  <2>2. \A s \in Tracks : ~(s <= 0)
    BY ExtractionAssumption DEF Tracks
  <2> QED
    BY <1>5, <2>1, <2>2
<1>8. th.overall = Frames(drive.toc, {s \in a.rip.selection : s <= a.index}) + 0
  <2>1. Frames(Shifted(k), {}) = 0 /\ 0 + 0 = 0
    BY FramesAdds
  <2> QED
    BY <1>3, <1>6, <1>7, <2>1, Zenon
<1>9. 0 # NTracks + 1 /\ 0 \in {0, 1} /\ 0 # 1 /\ k \in Int
  BY ExtractionAssumption
<1>10. StartExtract(a, th, f) /\ drive' = drive /\ posted' = <<>>
  BY <1>1, <1>2, <1>4, Zenon
<1> QED
  BY <1>3, <1>5, <1>6, <1>8, <1>9, <1>10, TrackAfterStart, Zenon

LEMMA TrackCancel ==
  ASSUME TypeInv, TrackInv, Cancel
  PROVE  TrackInv'
<1>1. /\ audex' = [audex EXCEPT !.finished = TRUE] /\ thread' = [thread EXCEPT !.interrupt = TRUE]
      /\ UNCHANGED <<drive, posted, file>> /\ audex \in Audexes /\ thread \in Threads
  BY DEF Cancel, Stopped, Interrupted, TypeInv, Types
<1>2. audex'.finished = TRUE /\ audex'.index = audex.index /\ audex'.jobs = audex.jobs
  BY <1>1, ZenonT(60) DEF Audexes
<1>3. /\ thread'.running = thread.running /\ thread'.reading = thread.reading
      /\ thread'.offset_done = thread.offset_done
  BY <1>1, ZenonT(60) DEF Threads
<1> QED
  BY <1>1, <1>2, <1>3, Zenon DEF TrackInv, Ripping, Applied, ProgressAddsUp

(* A running thread belongs to a rip that goes on or was stopped.          *)
LEMMA RipsOrStopped ==
  ASSUME TypeInv, TrackInv, thread.running \/ posted # <<>>
  PROVE  /\ audex.rips > 0 /\ audex.index # NTracks + 1
         /\ ~Ripping => audex.finished
         /\ Ripping => ~thread.interrupt /\ ~audex.finished
<1>1. audex.rips # 0
  BY DEF TypeInv, Stream
<1>2. audex.rips > 0
  BY <1>1, AudexesAre, ExtractionAssumption DEF TypeInv, Types
<1>3. audex.index # NTracks + 1
  BY DEF TrackInv
<1>4. thread.interrupt => audex.finished
  BY DEF TypeInv, Stream
<1> QED
  BY <1>2, <1>3, <1>4, Zenon DEF Ripping

LEMMA TrackCheck ==
  ASSUME TypeInv, TrackInv, CheckInterrupt
  PROVE  TrackInv'
<1>1. /\ thread.running /\ ~thread.reading /\ posted = <<>>
      /\ UNCHANGED <<drive, audex, file>>
      /\ ~thread'.reading
      /\ thread'.track = thread.track /\ thread'.overall = thread.overall
      /\ thread'.offset_done = thread.offset_done
      /\ \/ audex.finished /\ ~thread'.running /\ posted' = <<Fin>>
         \/ thread'.running = thread.running /\ posted' = <<>>
  BY CheckIs, Zenon
<1>2. audex.index # NTracks + 1
  BY <1>1, RipsOrStopped, Zenon
<1>3. /\ (Ripping' <=> Ripping) /\ (Applied' <=> Applied)
      /\ ProgressAddsUp' /\ (audex.finished => ~Ripping)
  BY <1>1, <1>2, Zenon DEF Ripping, Applied, ProgressAddsUp
<1>4. CASE ~thread'.running /\ audex.finished
  BY <1>1, <1>2, <1>3, <1>4, Zenon DEF TrackInv
<1>5. CASE thread'.running = thread.running /\ posted' = <<>>
  BY <1>1, <1>2, <1>3, <1>5, Zenon DEF TrackInv
<1> QED
  BY <1>1, <1>4, <1>5, Zenon

LEMMA TrackBegin ==
  ASSUME OnDisc, TypeInv, TrackInv, BeginRun
  PROVE  TrackInv'
<1>1. /\ thread.running /\ ~thread.reading /\ posted = <<>>
      /\ UNCHANGED <<audex, file>>
      /\ thread'.track = thread.track /\ thread'.overall = thread.overall
  BY BeginIs, Zenon
<1>2. /\ audex.rips > 0 /\ audex.index # NTracks + 1
      /\ ~Ripping => audex.finished
  BY <1>1, RipsOrStopped, Zenon
<1>3. thread.track \in 0..NTracks
  BY ThreadsAre DEF TypeInv, Types
<1>4. PICK k \in Int, j \in 0..MaxRips : drive.toc = Shifted(k) /\ DriveOf.toc = Shifted(j)
  <2>1. \E j \in 0..audex.rips : DriveOf.toc = Shifted(j)
    BY <1>1, BeginShift
  <2>2. 0..audex.rips \subseteq 0..MaxRips
    BY AudexesAre, ExtractionAssumption DEF TypeInv, Types
  <2>3. \E k \in Int : drive.toc = Shifted(k)
    BY TocIs
  <2> QED
    BY <2>1, <2>2, <2>3
<1>5. /\ FirstSector(DriveOf.toc, thread.track) \in Nat
      /\ LastSector(DriveOf.toc, thread.track) \in Nat
      /\ FirstSector(DriveOf.toc, thread.track) <= LastSector(DriveOf.toc, thread.track)
  BY <1>3, <1>4, SectorsAre
<1>6. ~(FirstSector(DriveOf.toc, thread.track) < 0 \/ LastSector(DriveOf.toc, thread.track) < 0)
  BY <1>5
<1>7. ProgressAddsUp'
  BY <1>1, <1>2, Zenon DEF ProgressAddsUp
<1>8. CASE ~Ripping
  <2>1. thread'.offset_done = (SampleOffset # 0)
    BY BeginIs, Zenon
  <2>2. ~Ripping'
    BY <1>1, <1>8, Zenon DEF Ripping
  <2> QED
    BY <1>1, <1>2, <1>7, <2>1, <2>2, Zenon DEF TrackInv, Applied
<1>9. CASE Ripping
  <2>1. /\ drive'.toc = DriveOf.toc /\ thread'.offset_done = (SampleOffset # 0)
        /\ thread'.running /\ thread'.reading /\ posted' = <<>>
        /\ thread'.current = FirstSector(DriveOf.toc, thread.track)
        /\ thread'.last = LastSector(DriveOf.toc, thread.track)
    BY <1>6, BeginIs, Zenon
  <2>3. Applied'
    BY <2>1, Zenon DEF Applied
  <2>4. First' = thread'.current /\ Last' = thread'.last
    BY <1>1, <2>1, Zenon DEF First, Last
  <2>5. PICK c \in Nat, l \in Nat : c = thread'.current /\ l = thread'.last /\ c <= l
    BY <1>5, <2>1, Zenon
  <2>6. c <= l + 1 /\ c - c = 0
    BY <2>5
  <2>7. thread'.current <= Last' + 1 /\ thread'.current - First' = 0
    BY <2>4, <2>5, <2>6, Zenon
  <2>8. ASSUME ~audex.rip.single_file
        PROVE  thread'.overall = Frames(drive'.toc, Below(audex.rip.selection, audex.index))
                                   + (thread'.current - First')
    <3>1. PICK S \in SUBSET Tracks : S = Below(audex.rip.selection, audex.index)
      BY AudexesAre DEF Below, TypeInv, Types
    <3>2. thread.overall = Frames(Shifted(k), S)
      BY <1>1, <1>4, <1>9, <2>8, <3>1, Zenon DEF TrackInv
    <3>3. Frames(Shifted(k), S) = Frames(Shifted(j), S)
      <4>1. j \in Int
        OBVIOUS
      <4> QED
        BY <4>1, FramesShift, Zenon
    <3>4. Frames(Shifted(j), S) \in Int
      BY FramesAdds
    <3>5. Frames(Shifted(j), S) + 0 = Frames(Shifted(j), S)
      BY <3>4
    <3> QED
      BY <1>1, <1>4, <2>1, <2>7, <3>1, <3>2, <3>3, <3>5, Zenon
  <2>9. /\ audex.index \in Tracks
        /\ thread.track = IF audex.rip.single_file THEN 0 ELSE audex.index
        /\ ~audex.rip.single_file => audex.index \in audex.rip.selection
    BY <1>9, Zenon DEF TrackInv
  <2> QED
    BY <1>1, <1>2, <1>7, <2>1, <2>3, <2>4, <2>7, <2>8, <2>9, Zenon DEF TrackInv
<1> QED
  BY <1>8, <1>9

(* Two steps that leave the rip's choices and the drive alone.             *)
LEMMA TrackRead ==
  ASSUME OnDisc, TypeInv, TrackInv, ReadSector
  PROVE  TrackInv'
<1>1. /\ thread.running /\ thread.reading /\ thread.current <= thread.last
      /\ UNCHANGED <<drive, audex, file>>
      /\ thread'.current = thread.current + 1 /\ thread'.overall = thread.overall + 1
      /\ thread'.running = thread.running /\ thread'.reading = thread.reading
      /\ thread'.offset_done = thread.offset_done /\ thread'.track = thread.track
      /\ thread'.last = thread.last
  BY ReadIs, Zenon
<1>2. audex.index # NTracks + 1
  BY <1>1, RipsOrStopped
<1>3. ProgressAddsUp'
  BY <1>1, <1>2, Zenon DEF ProgressAddsUp
<1>4. First' = First /\ Last' = Last /\ (Ripping' <=> Ripping) /\ Applied' = Applied
  BY <1>1, Zenon DEF First, Last, Ripping, Applied
<1>5. PICK c \in Int, o \in Nat, n \in Nat, l \in Int :
        /\ c = thread.current /\ o = thread.overall /\ n = First /\ l = Last
  <2>1. thread.track \in 0..NTracks /\ thread.current \in Int /\ thread.overall \in Nat
    BY ThreadsAre DEF TypeInv, Types
  <2>2. First \in Nat /\ Last \in Int
    BY <2>1, TocIs, SectorsAre DEF First, Last
  <2> QED
    BY <2>1, <2>2
<1>6. Ripping => thread'.last = Last' /\ thread'.current <= Last' + 1
  <2>1. Ripping => thread.last = l
    BY <1>1, <1>5, Zenon DEF TrackInv
  <2>2. c <= l => c + 1 <= l + 1
    OBVIOUS
  <2> QED
    BY <1>1, <1>4, <1>5, <2>1, <2>2, Zenon
<1>7. ASSUME Ripping, ~audex.rip.single_file
      PROVE  thread'.overall = Frames(drive'.toc, Below(audex'.rip.selection, audex'.index))
                                 + (thread'.current - First')
  <2>1. PICK S \in SUBSET Tracks : S = Below(audex.rip.selection, audex.index)
    BY AudexesAre DEF Below, TypeInv, Types
  <2>2. PICK k \in 0..MaxRips : drive.toc = Shifted(k)
    BY TocIs
  <2>3. PICK m \in Int : m = Frames(drive.toc, S)
    <3>1. Frames(Shifted(k), S) \in Int
      BY FramesAdds
    <3> QED
      BY <2>2, <3>1, Zenon
  <2>4. o = m + (c - n)
    BY <1>1, <1>5, <1>7, <2>1, <2>3, Zenon DEF TrackInv
  <2>5. o + 1 = m + ((c + 1) - n)
    BY <2>4
  <2> QED
    BY <1>1, <1>4, <1>5, <2>1, <2>3, <2>5, Zenon
<1> QED
  BY <1>1, <1>2, <1>3, <1>4, <1>6, <1>7, Zenon DEF TrackInv

LEMMA TrackFails ==
  ASSUME TypeInv, TrackInv, ReadFails
  PROVE  TrackInv'
<1>1. /\ thread.running /\ thread.reading /\ UNCHANGED <<drive, posted, audex, file>>
      /\ thread'.running = thread.running /\ thread'.reading = thread.reading
      /\ thread'.offset_done = thread.offset_done
      /\ thread'.track = thread.track /\ thread'.last = thread.last
      /\ thread'.current = thread.current /\ thread'.overall = thread.overall
  BY FailsIs, Zenon
<1>2. First' = First /\ Last' = Last /\ (Ripping' <=> Ripping) /\ (Applied' <=> Applied)
      /\ (NoError' <=> NoError)
  BY <1>1, Zenon DEF First, Last, Ripping, Applied, NoError
<1> QED
  BY <1>1, <1>2, Zenon DEF TrackInv, ProgressAddsUp

(* If no error is queued none was before a signal that is none, and a      *)
(* thread that ended read its last sector.                                 *)
LEMMA NoErrorBefore ==
  ASSUME TypeInv, posted # <<>>, posted' = Tail(posted), Head(posted).signal # "error",
         NoError'
  PROVE  NoError
<1>1. posted \in Seq(Signals)
  BY DEF TypeInv, Types
<1>2. PICK n \in Nat : n = Len(posted) - 1 /\ Len(posted) = n + 1
  BY <1>1, TailIs
<1>3. Len(posted') = n /\ \A i \in 1..n : posted'[i] = posted[i + 1]
  BY <1>1, <1>2, TailIs, Zenon
<1>4. posted[1].signal # "error"
  BY <1>1, TailIs
<1>5. \A i \in 1..n : posted[i + 1].signal # "error"
  BY <1>3, Zenon DEF NoError
<1>6. \A i \in 1..(n + 1) : i = 1 \/ (i - 1 \in 1..n /\ (i - 1) + 1 = i)
  OBVIOUS
<1>7. \A i \in 1..(n + 1) : posted[i].signal # "error"
  BY <1>4, <1>5, <1>6, Zenon
<1> QED
  BY <1>2, <1>7, Zenon DEF NoError

LEMMA NoErrorEnd ==
  ASSUME TypeInv, EndRun, NoError'
  PROVE  posted' = Append(posted, Fin) /\ ~thread.interrupt /\ ~thread.error
<1>1. PICK q : /\ posted' = Append(q, Fin)
               /\ \/ q = posted /\ ~thread.interrupt /\ ~thread.error
                  \/ q = Append(posted, Err)
                  \/ q = Append(Append(posted, Err), Err)
  BY EndIs, Zenon
<1>2. posted \in Seq(Signals)
  BY DEF TypeInv, Types
<1>3. ASSUME NEW p \in Seq(Signals), q = Append(p, Err)
      PROVE  FALSE
  <2>1. PICK r \in Seq(Signals), l \in Nat : /\ r = Append(p, Err) /\ Len(r) = l + 1
                                             /\ r[l + 1] = Err
    BY SignalsAre, AppendIs
  <2>2. PICK z \in Seq(Signals), m \in Nat : /\ z = Append(r, Fin) /\ Len(r) = m /\ Len(z) = m + 1
                                             /\ \A i \in 1..m : z[i] = r[i]
    <3>1. Fin \in Signals
      BY SignalsAre
    <3>2. \E z \in Seq(Signals), m \in Nat : /\ z = Append(r, Fin) /\ Len(r) = m /\ Len(z) = m + 1
                                             /\ (\A i \in 1..m : z[i] = r[i]) /\ z[m + 1] = Fin
      BY <3>1, AppendIs
    <3> QED
      BY <3>2
  <2>3. l + 1 \in 1..m /\ l + 1 \in 1..(m + 1) /\ m = l + 1
    BY <2>1, <2>2
  <2>4. z[l + 1].signal = "error"
    BY <2>1, <2>2, <2>3, SignalsAre, Zenon
  <2> QED
    BY <1>1, <1>3, <2>1, <2>2, <2>3, <2>4, Zenon DEF NoError
<1>4. Append(posted, Err) \in Seq(Signals)
  BY <1>2, SignalsAre, AppendProperties
<1> QED
  BY <1>1, <1>2, <1>3, <1>4, Zenon

LEMMA TrackEnd ==
  ASSUME OnDisc, TypeInv, TrackInv, EndRun
  PROVE  TrackInv'
<1>1. /\ thread.running /\ thread.reading /\ UNCHANGED <<drive, audex, file>>
      /\ thread.interrupt \/ thread.error \/ thread.current > thread.last
      /\ thread'.running = FALSE /\ thread'.reading = FALSE
      /\ thread'.offset_done = thread.offset_done
      /\ thread'.track = thread.track /\ thread'.overall = thread.overall
  BY EndIs, Zenon
<1>2. audex.index # NTracks + 1
  BY <1>1, RipsOrStopped
<1>3. First' = First /\ Last' = Last /\ (Ripping' <=> Ripping) /\ (Applied' <=> Applied)
  BY <1>1, Zenon DEF First, Last, Ripping, Applied
<1>4. posted' # <<>>
  <2>1. PICK q : /\ posted' = Append(q, Fin)
                 /\ q = posted \/ q = Append(posted, Err) \/ q = Append(Append(posted, Err), Err)
    BY EndIs, Zenon
  <2>2. posted \in Seq(Signals) /\ thread.running = TRUE
    BY <1>1, ThreadsAre DEF TypeInv, Types
  <2>3. Shape(posted, TRUE)
    BY <2>2, Zenon DEF TypeInv, Stream
  <2>4. q \in Seq(Signals)
    BY <2>1, <2>2, <2>3, ShapeEnd
  <2> QED
    BY <2>1, <2>4, SignalsAre, AppendProperties
<1>5. ASSUME Ripping, ~audex.rip.single_file, NoError'
      PROVE  thread'.overall = Frames(drive'.toc, Below(audex'.rip.selection, audex'.index))
                                 + (Last' + 1 - First')
  <2>1. thread.current > thread.last
    BY <1>1, <1>5, NoErrorEnd
  <2>2. /\ thread.last = Last /\ thread.current <= Last + 1
        /\ thread.overall = Frames(drive.toc, Below(audex.rip.selection, audex.index))
                              + (thread.current - First)
    BY <1>1, <1>5, Zenon DEF TrackInv
  <2>3. Last \in Int /\ First \in Int /\ thread.current \in Int
    <3>1. thread.track \in 0..NTracks /\ thread.current \in Int
      BY ThreadsAre DEF TypeInv, Types
    <3> QED
      BY <3>1, TocIs, SectorsAre DEF First, Last
  <2>4. thread.current = Last + 1
    BY <2>1, <2>2, <2>3
  <2>5. thread.overall = Frames(drive.toc, Below(audex.rip.selection, audex.index))
                           + (Last + 1 - First)
    <3>1. thread.current - First = Last + 1 - First
      BY <2>3, <2>4
    <3> QED
      BY <2>2, <3>1, Zenon
  <2> QED
    BY <1>1, <1>3, <2>5, Zenon
<1>6. ProgressAddsUp'
  BY <1>1, <1>2, Zenon DEF ProgressAddsUp
<1> QED
  BY <1>1, <1>2, <1>3, <1>4, <1>5, <1>6, Zenon DEF TrackInv

LEMMA TrackOutput ==
  ASSUME TypeInv, TrackInv, Delivers("output")
  PROVE  TrackInv'
<1>1. /\ posted # <<>> /\ posted' = Tail(posted) /\ drive' = drive
  BY DeliveryIs, Zenon DEF Delivers
<1>2. /\ UNCHANGED <<audex, thread>>
      /\ ~thread.running => posted' # <<>>
  BY OutputIs, Zenon
<1>3. NoError' => NoError
  <2>1. Head(posted).signal # "error"
    BY DEF Delivers
  <2> QED
    BY <1>1, <2>1, NoErrorBefore, Zenon
<1>4. /\ First' = First /\ Last' = Last /\ (Ripping' <=> Ripping) /\ (Applied' <=> Applied)
      /\ (ProgressAddsUp' <=> ProgressAddsUp)
  BY <1>1, <1>2, Zenon DEF First, Last, Ripping, Applied, ProgressAddsUp
<1>5. audex.index # NTracks + 1
  BY <1>1, RipsOrStopped
<1> QED
  BY <1>1, <1>2, <1>3, <1>4, <1>5, Zenon DEF TrackInv

LEMMA TrackError ==
  ASSUME TypeInv, TrackInv, Delivers("error")
  PROVE  TrackInv'
<1>1. posted # <<>> /\ drive' = drive
  BY DeliveryIs, Zenon DEF Delivers
<1>2. /\ audex'.finished = TRUE /\ audex'.index = audex.index /\ audex'.jobs = audex.jobs
      /\ thread'.reading = thread.reading /\ thread'.offset_done = thread.offset_done
  BY ErrorIs, Zenon
<1>3. audex.index # NTracks + 1
  BY <1>1, RipsOrStopped
<1> QED
  BY <1>2, <1>3, Zenon DEF TrackInv, Ripping, Applied, ProgressAddsUp

LEMMA TrackEncoded ==
  ASSUME TypeInv, TrackInv, Encoded
  PROVE  TrackInv'
<1>1. /\ audex.jobs # <<>> /\ UNCHANGED <<drive, thread, posted>>
      /\ audex' = [audex EXCEPT !.jobs = Tail(audex.jobs)]
  BY DEF Encoded
<1>2. audex \in Audexes
  BY DEF TypeInv, Types
<1>3. /\ audex'.rip = audex.rip /\ audex'.rips = audex.rips
      /\ audex'.finished = audex.finished /\ audex'.index = audex.index
  BY <1>1, <1>2, ZenonT(60) DEF Audexes
<1>4. /\ First' = First /\ Last' = Last /\ (Ripping' <=> Ripping) /\ (Applied' <=> Applied)
      /\ (ProgressAddsUp' <=> ProgressAddsUp) /\ (NoError' <=> NoError)
  BY <1>1, <1>3, Zenon DEF First, Last, Ripping, Applied, ProgressAddsUp, NoError
<1> QED
  BY <1>1, <1>3, <1>4, Zenon DEF TrackInv

LEMMA TrackFinished ==
  ASSUME OnDisc, TypeInv, TrackInv, Delivers("finished")
  PROVE  TrackInv'
<1>1. posted # <<>> /\ drive' = drive
  BY DeliveryIs, Zenon DEF Delivers
<1>2. /\ ~thread.running /\ ~thread.reading /\ posted' = <<>> /\ Len(posted) = 1
      /\ CloseWave(file) \in Files
      /\ WithJob \in Audexes /\ WithJob.rip = audex.rip /\ WithJob.index = audex.index
      /\ IF audex.finished
         THEN file' = RemoveWave(CloseWave(file)) /\ UNCHANGED <<audex, thread>>
         ELSE StartExtract(WithJob, thread, NoFile(CloseWave(file).free))
  BY FinishIs, Zenon
<1>3. /\ audex.rips > 0 /\ audex.index # NTracks + 1
      /\ ~Ripping => audex.finished
  BY <1>1, RipsOrStopped, Zenon
<1>4. CASE audex.finished
  BY <1>1, <1>2, <1>3, <1>4, Zenon DEF TrackInv, Ripping, Applied, ProgressAddsUp
<1>5. CASE ~audex.finished
  <2>1. Ripping
    BY <1>3, <1>5, Zenon
  <2>2. PICK a \in Audexes, f \in Files :
          a = WithJob /\ f = NoFile(CloseWave(file).free) /\ StartExtract(a, thread, f)
    BY <1>2, <1>5, NoFileIs, FilesAre
  <2>3. a.rip = audex.rip /\ a.index = audex.index /\ thread \in Threads
    BY <1>2, <2>2 DEF TypeInv, Types
  <2>4. PICK k \in 0..MaxRips : drive.toc = Shifted(k)
    BY TocIs
  <2>5. SampleOffset # 0 => thread.offset_done
    BY <1>1, <2>1, Zenon DEF TrackInv, Applied
  <2>6. PICK t \in Tracks, sel \in SUBSET Tracks :
          /\ t = audex.index /\ sel = audex.rip.selection
          /\ thread.track = IF audex.rip.single_file THEN 0 ELSE t
          /\ ~audex.rip.single_file => t \in sel
    BY <2>1, AudexesAre DEF TrackInv, TypeInv, Types
  <2>7. PICK x \in {0, 1} : x = IF t = NTracks THEN 1 ELSE 0
    OBVIOUS
  <2>8. Tracks = 1..NTracks /\ NTracks \in Nat
    BY ExtractionAssumption DEF Tracks
  <2>9. x = 1 => Rest(a) = {}
    <3>1. Rest(a) = {s \in sel : s > t}
      BY <2>3, <2>6, Zenon DEF Rest
    <3>2. \A s \in Tracks : ~(s > NTracks)
      BY <2>8
    <3>3. x = 1 => t = NTracks
      BY <2>7
    <3> QED
      BY <3>1, <3>2, <3>3
  <2>10. NoError
    <3>1. posted[1].signal = "finished"
      BY <1>1, DeliveryIs, TailIs DEF Delivers
    <3>2. \A i \in 1..1 : i = 1
      OBVIOUS
    <3> QED
      BY <1>2, <3>1, <3>2 DEF NoError
  <2>11. ASSUME ~a.rip.single_file
         PROVE  thread.overall =
                  Frames(drive.toc, {s \in a.rip.selection : s <= a.index}) + x
    <3>1. ~audex.rip.single_file
      BY <2>3, <2>11, Zenon
    <3>2. thread.overall = Frames(drive.toc, Below(sel, t)) + (Last + 1 - First)
      BY <1>2, <2>1, <2>6, <2>10, <3>1, Zenon DEF TrackInv
    <3>3. thread.track = t /\ t # 0 /\ t \in 0..NTracks
      BY <2>6, <2>8, <3>1
    <3>4. Last + 1 - First = Shifted(k)[t + 1] - Shifted(k)[t]
      BY <2>4, <3>3, SectorsAre DEF First, Last
    <3>5. /\ Shifted(k)[t] \in Int /\ Shifted(k)[t + 1] \in Int
          /\ NumOfFramesOfTrack(Shifted(k), t) =
               Shifted(k)[t + 1] - Shifted(k)[t] - (IF t = NTracks THEN 1 ELSE 0)
      <4>1. k \in Int
        OBVIOUS
      <4> QED
        BY <4>1, NumOfFrames, Zenon
    <3>6. PICK low \in SUBSET Tracks, all \in SUBSET Tracks :
            /\ low = {s \in sel : s < t} /\ all = {s \in sel : s <= t}
      OBVIOUS
    <3>7. all \ {t} = low /\ t \in all
      BY <2>6, <2>8, <3>1, <3>6
    <3>8. Frames(Shifted(k), all) = NumOfFramesOfTrack(Shifted(k), t) + Frames(Shifted(k), low)
      <4>1. k \in Int
        OBVIOUS
      <4> QED
        BY <4>1, <3>7, FramesAdds, Zenon
    <3>9. PICK m \in Int : m = Frames(Shifted(k), low)
      <4>1. k \in Int
        OBVIOUS
      <4> QED
        BY <4>1, FramesAdds
    <3>10. PICK p \in Int, q \in Int : p = Shifted(k)[t] /\ q = Shifted(k)[t + 1]
      BY <3>5
    <3>11. thread.overall = m + (q - p)
      BY <2>4, <3>2, <3>4, <3>6, <3>9, <3>10, Zenon DEF Below
    <3>12. Frames(drive.toc, {s \in a.rip.selection : s <= a.index}) = (q - p - x) + m
      BY <2>3, <2>4, <2>6, <2>7, <3>5, <3>6, <3>8, <3>9, <3>10, Zenon
    <3>13. m + (q - p) = ((q - p - x) + m) + x
      OBVIOUS
    <3> QED
      BY <3>11, <3>12, <3>13, Zenon
  <2>12. k \in Int /\ a.index # NTracks + 1
    BY <1>3, <2>3
  <2> QED
    BY <1>1, <1>2, <2>2, <2>3, <2>4, <2>5, <2>9, <2>11, <2>12, TrackAfterStart, Zenon
<1> QED
  BY <1>4, <1>5

LEMMA TrackNext ==
  ASSUME OnDisc, TypeInv, TrackInv, [Next]_vars
  PROVE  TrackInv'
<1>1. CASE \E rip \in RipChoices : Start(rip)
  BY <1>1, TrackStart
<1>2. CASE Cancel
  BY <1>2, TrackCancel
<1>c. CASE CheckInterrupt
  BY <1>c, TrackCheck
<1>3. CASE BeginRun
  BY <1>3, TrackBegin
<1>4. CASE ReadSector
  BY <1>4, TrackRead
<1>5. CASE ReadFails
  BY <1>5, TrackFails
<1>6. CASE EndRun
  BY <1>6, TrackEnd
<1>7. CASE Deliver
  BY <1>7, DeliveryIs, TrackOutput, TrackError, TrackFinished
<1>8. CASE Encoded
  BY <1>8, TrackEncoded
<1>9. CASE UNCHANGED vars
  BY <1>9, Zenon DEF vars, TrackInv, Ripping, Applied, First, Last, NoError, ProgressAddsUp
<1> QED
  BY <1>1, <1>2, <1>c, <1>3, <1>4, <1>5, <1>6, <1>7, <1>8, <1>9, Zenon DEF Next, Thread

(* At the end of a rip that was not stopped the progress has counted every *)
(* frame of the selected tracks, but the one the total lacks when the last *)
(* track is among them: whichever tracks were skipped, and whatever rips   *)
(* went before, as long as the sample offset leaves the disc on the disc.  *)
THEOREM SectorsAddUp ==
  ASSUME OnDisc
  PROVE  Spec => []ProgressAddsUp
<1>1. TrackInv /\ TypeInv /\ [Next]_vars => TrackInv'
  BY TrackNext
<1>2. TrackInv => ProgressAddsUp
  BY DEF TrackInv
<1> QED
  BY TypeInvHolds, TrackInit, <1>1, <1>2, PTL DEF Spec

-----------------------------------------------------------------------------
(* The third layer: what is in the wave files.                             *)

LEMMA Fits ==
  ASSUME OnDisc, Room, NEW k \in 0..MaxRips
  PROVE  /\ Shifted(k)[NTracks + 1] \in Nat /\ Shifted(k)[NTracks + 1] <= Free
         /\ \A t \in Tracks : /\ Shifted(k)[t] \in Nat /\ Shifted(k)[t + 1] \in Nat
                              /\ Shifted(k)[1] \in Nat
                              /\ Shifted(k)[t + 1] - Shifted(k)[1] <= Free
                              /\ Shifted(k)[1] <= Shifted(k)[t]
<1> DEFINE toc == Shifted(k)
<1>1. NTracks \in Nat \ {0} /\ Free \in Nat /\ k \in Int /\ 0 \in 0..NTracks
  BY ExtractionAssumption
<1>2. \A i \in 1..(NTracks + 1) : toc[i] \in Nat
  BY <1>1, SectorsAre
<1>3. \A s, t \in 1..(NTracks + 1) : s < t => toc[s] < toc[t]
  BY <1>1, ShiftedGrows
<1>4. toc[NTracks + 1] <= Free
  <2>1. NTracks + 1 \in 1..(NTracks + 1)
    BY <1>1
  <2>2. toc[NTracks + 1] = Toc[NTracks + 1] + k * Shift
    BY <2>1 DEF Shifted
  <2>3. Toc[NTracks + 1] + k * Shift \in Int
    BY <1>2, <2>1, <2>2
  <2> HIDE DEF toc
  <2> QED
    BY <1>1, <2>2, <2>3 DEF Room
<1> HIDE DEF toc
<1>5. ASSUME NEW t \in Tracks
      PROVE  /\ toc[t] \in Nat /\ toc[t + 1] \in Nat /\ toc[1] \in Nat
             /\ toc[t + 1] - toc[1] <= Free /\ toc[1] <= toc[t]
  <2>1. /\ t \in 1..(NTracks + 1) /\ t + 1 \in 1..(NTracks + 1) /\ 1 \in 1..(NTracks + 1)
        /\ NTracks + 1 \in 1..(NTracks + 1)
        /\ t + 1 = NTracks + 1 \/ t + 1 < NTracks + 1
        /\ t = 1 \/ 1 < t
    BY <1>1 DEF Tracks
  <2>2. /\ toc[t] \in Nat /\ toc[t + 1] \in Nat /\ toc[1] \in Nat /\ toc[NTracks + 1] \in Nat
        /\ t + 1 = NTracks + 1 \/ toc[t + 1] < toc[NTracks + 1]
        /\ t = 1 \/ toc[1] < toc[t]
    BY <1>2, <1>3, <2>1
  <2> QED
    BY <1>1, <1>4, <2>2
<1>6. toc[NTracks + 1] \in Nat
  BY <1>1, <1>2
<1> QED
  BY <1>4, <1>5, <1>6 DEF toc

(* A job that holds its track.                                             *)
Whole(job, toc) ==
  LET first == FirstSector(toc, job.track)
      last  == LastSector(toc, job.track)
  IN  /\ job.header = Len(job.data)
      /\ job.data = IF job.opened
                    THEN [n \in 1..(last - first + 1) |-> first + n - 1]
                    ELSE <<>>

LEMMA WholeJobs ==
  ASSUME TypeInv
  PROVE  WaveIsTheTrack <=> \A i \in 1..Len(audex.jobs) : Whole(audex.jobs[i], drive.toc)
<1>1. DOMAIN audex.jobs = 1..Len(audex.jobs)
  BY AudexesAre, LenProperties DEF TypeInv, Types
<1> QED
  BY <1>1, Zenon DEF WaveIsTheTrack, Whole

LEMMA WholeStays ==
  ASSUME WaveIsTheTrack, audex'.jobs = audex.jobs, drive'.toc = drive.toc \/ audex.jobs = <<>>
  PROVE  WaveIsTheTrack'
<1>1. CASE drive'.toc = drive.toc
  BY <1>1, Zenon DEF WaveIsTheTrack
<1>2. CASE audex.jobs = <<>>
  <2>1. DOMAIN <<>> = {}
    OBVIOUS
  <2> QED
    BY <1>2, <2>1, Zenon DEF WaveIsTheTrack
<1> QED
  BY <1>1, <1>2

LEMMA WaveInit == Init => WaveInv
<1> SUFFICES ASSUME Init
             PROVE  WaveInv
  OBVIOUS
<1>1. audex.rips = 0 /\ audex.jobs = <<>>
  BY DEF Init
<1>2. ~(0 > 0) /\ DOMAIN <<>> = {}
  OBVIOUS
<1> QED
  BY <1>1, <1>2, Zenon DEF WaveInv, Writing, Ripping, WaveIsTheTrack

(* What a new or next track leaves.                                        *)
LEMMA WaveAfterStart ==
  ASSUME OnDisc,
         NEW a \in Audexes, NEW th \in Threads, NEW f \in Files,
         NEW k \in 0..MaxRips, drive.toc = Shifted(k), drive' = drive, posted' = <<>>,
         StartExtract(a, th, f), ~th.reading,
         f.data = <<>>, f.buffer = <<>>, f.written = 0,
         a.rip.single_file /\ a.index = 0 => f.free >= Free,
         \A t \in Tracks : ~a.rip.single_file /\ t > a.index =>
           f.free + (drive.toc[t] - drive.toc[1]) >= Free,
         \A i \in DOMAIN a.jobs : Whole(a.jobs[i], drive.toc)
  PROVE  WaveInv'
<1>0. k \in Int
  OBVIOUS
<1>1. /\ audex' \in Audexes /\ thread' \in Threads /\ Unmoved(a, th)
      /\ NothingLeft(a, th, f) \/ NextTrack(a, th, f)
  BY <1>0, StartExtractIs
<1>2. /\ audex'.rip = a.rip /\ audex'.rips = a.rips /\ audex'.finished = a.finished
      /\ audex'.jobs = a.jobs /\ ~thread'.reading
  BY <1>1, Zenon DEF Unmoved
<1>3. WaveIsTheTrack'
  <2>1. drive'.toc = drive.toc
    BY Zenon
  <2>2. \A i \in DOMAIN audex'.jobs : Whole(audex'.jobs[i], drive'.toc)
    <3>1. SUFFICES ASSUME NEW i \in DOMAIN audex'.jobs
                   PROVE  Whole(audex'.jobs[i], drive'.toc)
      OBVIOUS
    <3>2. i \in DOMAIN a.jobs /\ Whole(a.jobs[i], drive.toc)
      BY <1>2, <3>1
    <3>3. audex'.jobs[i] = a.jobs[i]
      BY <1>2
    <3> QED
      BY <2>1, <3>2, <3>3
  <2> QED
    BY <2>2, Zenon DEF WaveIsTheTrack, Whole
<1>4. CASE NothingLeft(a, th, f)
  <2>1. ~Ripping'
    BY <1>4, Zenon DEF NothingLeft, Ripping
  <2> QED
    BY <1>3, <2>1, Zenon DEF WaveInv, Writing
<1>5. CASE NextTrack(a, th, f)
  <2>1. /\ audex'.index \in Tracks /\ thread'.running
        /\ \E opens \in BOOLEAN : file' = OpenWave(f, opens)
        /\ ~a.rip.single_file => audex'.index \in Rest(a)
    BY <1>5 DEF NextTrack
  <2>2. /\ file'.free = f.free /\ file'.written = 0 /\ file'.data = <<>> /\ file'.buffer = <<>>
    <3>1. PICK opens \in BOOLEAN : file' = OpenWave(f, opens)
      BY <2>1
    <3>2. PICK g : g = OpenWave(f, opens)
      OBVIOUS
    <3>3. g.free = f.free /\ g.written = 0 /\ g.data = <<>> /\ g.buffer = <<>>
      BY <3>2, OpenWaveIs
    <3> QED
      BY <3>1, <3>2, <3>3, Zenon
  <2>3. Consecutive(file', First')
    BY <2>2, EmptyFile
  <2>4. 1..Len(posted') = {}
    BY EmptySeq
  <2>5. a.rip.single_file => a.index = 0
    BY <1>5, Zenon DEF NextTrack
  <2>6. file'.free + Len(file'.data) + Base' >= Free
    <3>1. PICK t \in Tracks : t = audex'.index
      BY <2>1
    <3>2. Len(file'.data) = 0
      BY <2>2, EmptySeq
    <3>3. f.free \in Nat /\ f.free + 0 + 0 = f.free
      BY FilesAre
    <3>4. CASE a.rip.single_file
      <4>1. Base' = 0
        BY <1>2, <3>4, Zenon DEF Base
      <4> QED
        BY <2>2, <2>5, <3>2, <3>3, <3>4, <4>1, Zenon
    <3>5. CASE ~a.rip.single_file
      <4>1. Base' = drive.toc[t] - drive.toc[1]
        BY <1>2, <3>1, <3>5, Zenon DEF Base
      <4>2. t > a.index
        BY <2>1, <3>1, <3>5 DEF Rest
      <4>3. f.free + (drive.toc[t] - drive.toc[1]) >= Free
        BY <3>5, <4>2
      <4>4. f.free + 0 = f.free
        BY <3>3
      <4> QED
        BY <2>2, <3>2, <4>1, <4>3, <4>4, Zenon
    <3> QED
      BY <3>4, <3>5
  <2> QED
    BY <1>2, <1>3, <2>1, <2>2, <2>3, <2>4, <2>6, Zenon DEF WaveInv, Writing
<1> QED
  BY <1>1, <1>4, <1>5

(* The folder has room for the rest of the track.                          *)
LEMMA TrackFits ==
  ASSUME OnDisc, Room, TypeInv, TrackInv, Ripping
  PROVE  /\ First \in Nat /\ Last \in Int /\ Base \in Int
         /\ First <= Last /\ Base + (Last + 1 - First) <= Free
<1>1. PICK k \in 0..MaxRips : drive.toc = Shifted(k)
  BY TocIs
<1>2. PICK t \in Tracks : /\ t = audex.index
                          /\ thread.track = IF audex.rip.single_file THEN 0 ELSE t
  BY DEF TrackInv
<1>3. Tracks = 1..NTracks /\ NTracks \in Nat \ {0} /\ Free \in Nat /\ thread.track \in 0..NTracks
  BY ThreadsAre, ExtractionAssumption DEF Tracks, TypeInv, Types
<1>4. /\ First \in Nat /\ Last \in Int /\ First <= Last
      /\ thread.track # 0 => Last + 1 - First = Shifted(k)[thread.track + 1] - Shifted(k)[thread.track]
  <2>1. /\ FirstSector(Shifted(k), thread.track) \in Nat
        /\ LastSector(Shifted(k), thread.track) \in Nat
        /\ FirstSector(Shifted(k), thread.track) <= LastSector(Shifted(k), thread.track)
        /\ thread.track # 0 =>
             /\ FirstSector(Shifted(k), thread.track) = Shifted(k)[thread.track]
             /\ LastSector(Shifted(k), thread.track) + 1 - FirstSector(Shifted(k), thread.track)
                  = Shifted(k)[thread.track + 1] - Shifted(k)[thread.track]
    BY <1>3, SectorsAre
  <2>2. \A n \in Nat : n \in Int
    OBVIOUS
  <2> QED
    BY <1>1, <2>1, <2>2, Zenon DEF First, Last
<1>5. /\ Shifted(k)[NTracks + 1] \in Nat /\ Shifted(k)[NTracks + 1] <= Free
      /\ Shifted(k)[t] \in Nat /\ Shifted(k)[t + 1] \in Nat /\ Shifted(k)[1] \in Nat
      /\ Shifted(k)[t + 1] - Shifted(k)[1] <= Free
  BY Fits
<1>6. CASE audex.rip.single_file
  <2>1. thread.track = 0 /\ Base = 0
    BY <1>2, <1>6, Zenon DEF Base
  <2>2. First = 0 /\ Last = Shifted(k)[NTracks + 1] - 1
    BY <1>1, <2>1 DEF First, Last, FirstSector, LastSector
  <2> QED
    BY <1>3, <1>4, <1>5, <2>1, <2>2
<1>7. CASE ~audex.rip.single_file
  <2>1. thread.track = t /\ t # 0 /\ Base = Shifted(k)[t] - Shifted(k)[1]
    BY <1>1, <1>2, <1>3, <1>7 DEF Base
  <2>2. Last + 1 - First = Shifted(k)[t + 1] - Shifted(k)[t]
    BY <1>4, <2>1, Zenon
  <2> QED
    BY <1>3, <1>4, <1>5, <2>1, <2>2
<1> QED
  BY <1>6, <1>7

LEMMA RoomLeft ==
  ASSUME OnDisc, Room, TypeInv, TrackInv, WaveInv, Writing, file.written <= Last + 1 - First
  PROVE  file.free >= Len(file.buffer)
<1>1. PICK n \in Nat, l \in Int, b \in Int :
        n = First /\ l = Last /\ b = Base /\ b + (l + 1 - n) <= Free
  BY TrackFits DEF Writing
<1>2. PICK fr \in Nat, w \in Nat, ld \in Nat, lb \in Nat :
        fr = file.free /\ w = file.written /\ ld = Len(file.data) /\ lb = Len(file.buffer)
  BY FilesAre DEF TypeInv, Types
<1>3. w = ld + lb /\ fr + ld + b >= Free
  BY <1>1, <1>2, Zenon DEF WaveInv, Writing, Consecutive
<1>4. w <= l + 1 - n
  BY <1>1, <1>2, Zenon
<1>5. fr >= lb
  BY <1>1, <1>3, <1>4, ExtractionAssumption
<1> QED
  BY <1>2, <1>5

LEMMA WaveStart ==
  ASSUME OnDisc, TypeInv, NEW rip \in RipChoices, Start(rip)
  PROVE  WaveInv'
<1>1. /\ StartExtract(NewAudex(rip), NewThread, NoFile(file.free))
      /\ NewAudex(rip) \in Audexes /\ NewThread \in Threads /\ NoFile(file.free) \in Files
      /\ UNCHANGED <<drive, posted>>
  BY NewRip
<1>2. posted = <<>> /\ file.free = Free
  BY NothingPending
<1>3. PICK k \in 0..MaxRips : drive.toc = Shifted(k)
  BY TocIs
<1>4. PICK a \in Audexes, th \in Threads, f \in Files :
        a = NewAudex(rip) /\ th = NewThread /\ f = NoFile(file.free)
  BY <1>1
<1>5. a.jobs = <<>> /\ ~th.reading
  BY <1>4 DEF NewAudex, NewThread
<1>6. DOMAIN <<>> = {}
  OBVIOUS
<1>7. /\ f.data = <<>> /\ f.buffer = <<>> /\ f.written = 0 /\ f.free = Free
  <2>1. Free \in Nat
    BY ExtractionAssumption
  <2> QED
    BY <1>2, <1>4, <2>1, NoFileIs
<1>8. f.free >= Free
  BY <1>7, ExtractionAssumption
<1>9. ASSUME NEW t \in Tracks
      PROVE  f.free + (drive.toc[t] - drive.toc[1]) >= Free
  <2>1. 1 \in 1..(NTracks + 1) /\ t \in 1..(NTracks + 1) /\ (t = 1 \/ 1 < t) /\ k \in Int
    BY ExtractionAssumption DEF Tracks
  <2>2. Shifted(k)[1] \in Int /\ Shifted(k)[t] \in Int
    BY <2>1, ShiftedType
  <2>3. t = 1 \/ Shifted(k)[1] < Shifted(k)[t]
    BY <2>1, ShiftedGrows
  <2>4. Shifted(k)[1] <= Shifted(k)[t]
    BY <2>2, <2>3
  <2>5. f.free = Free /\ Free \in Nat
    BY <1>7, ExtractionAssumption
  <2> HIDE DEF Shifted
  <2>6. f.free + (Shifted(k)[t] - Shifted(k)[1]) >= Free
    BY <2>2, <2>4, <2>5
  <2> QED
    BY <1>3, <2>6
<1>10. StartExtract(a, th, f) /\ drive' = drive /\ posted' = <<>> /\ a.index = 0
  BY <1>1, <1>2, <1>4 DEF NewAudex
<1>11. \A i \in DOMAIN a.jobs : Whole(a.jobs[i], drive.toc)
  BY <1>5, <1>6
<1> QED
  BY <1>3, <1>5, <1>7, <1>8, <1>9, <1>10, <1>11, WaveAfterStart, Zenon

LEMMA WaveStopped ==
  ASSUME WaveInv, audex'.finished, audex'.jobs = audex.jobs, drive' = drive
  PROVE  WaveInv'
<1>1. WaveIsTheTrack'
  BY WholeStays DEF WaveInv
<1> QED
  BY <1>1, Zenon DEF WaveInv, Writing, Ripping

LEMMA WaveCancel ==
  ASSUME TypeInv, WaveInv, Cancel
  PROVE  WaveInv'
<1>1. /\ audex' = [audex EXCEPT !.finished = TRUE] /\ drive' = drive /\ audex \in Audexes
  BY DEF Cancel, Stopped, TypeInv, Types
<1>2. audex'.finished = TRUE /\ audex'.jobs = audex.jobs
  BY <1>1, ZenonT(60) DEF Audexes
<1> QED
  BY <1>1, <1>2, WaveStopped

LEMMA WaveError ==
  ASSUME TypeInv, WaveInv, Delivers("error")
  PROVE  WaveInv'
<1>1. drive' = drive
  BY DeliveryIs, Zenon DEF Delivers
<1>2. audex'.finished = TRUE /\ audex'.jobs = audex.jobs
  BY ErrorIs, Zenon
<1> QED
  BY <1>1, <1>2, WaveStopped

LEMMA WaveCheck ==
  ASSUME TypeInv, TrackInv, WaveInv, CheckInterrupt
  PROVE  WaveInv'
<1>1. /\ thread.running /\ ~thread.reading /\ posted = <<>>
      /\ UNCHANGED <<drive, audex, file>>
      /\ ~thread'.reading /\ thread'.track = thread.track
      /\ audex.finished \/ (thread'.running = thread.running /\ posted' = <<>>)
  BY CheckIs, Zenon
<1>2. CASE audex.finished
  BY <1>1, <1>2, WaveStopped
<1>3. CASE thread'.running = thread.running /\ posted' = <<>>
  <2>1. First' = First /\ Last' = Last /\ (Ripping' <=> Ripping) /\ Base' = Base
    BY <1>1, Zenon DEF First, Last, Ripping, Base
  <2>2. WaveIsTheTrack'
    BY <1>1, WholeStays DEF WaveInv
  <2> QED
    BY <1>1, <1>3, <2>1, <2>2, Zenon DEF WaveInv, Writing
<1> QED
  BY <1>1, <1>2, <1>3

LEMMA WaveBegin ==
  ASSUME OnDisc, TypeInv, TrackInv, WaveInv, BeginRun
  PROVE  WaveInv'
<1>1. /\ thread.running /\ ~thread.reading /\ posted = <<>>
      /\ UNCHANGED <<audex, file>> /\ thread'.track = thread.track
  BY BeginIs, Zenon
<1>11. PICK k \in 0..MaxRips, j \in 0..MaxRips : drive.toc = Shifted(k) /\ DriveOf.toc = Shifted(j)
  <2>1. \E j \in 0..audex.rips : DriveOf.toc = Shifted(j)
    BY <1>1, BeginShift
  <2>2. 0..audex.rips \subseteq 0..MaxRips
    BY AudexesAre, ExtractionAssumption DEF TypeInv, Types
  <2> QED
    BY <2>1, <2>2, TocIs
<1>12. thread.track \in 0..NTracks
  BY ThreadsAre DEF TypeInv, Types
<1>13. /\ FirstSector(Shifted(j), thread.track) \in Nat
      /\ LastSector(Shifted(j), thread.track) \in Nat
  BY <1>12, SectorsAre
<1>14. \A n \in Nat : ~(n < 0)
  OBVIOUS
<1>15. /\ drive'.toc = Shifted(j) /\ thread'.running /\ thread'.reading /\ posted' = <<>>
      /\ thread'.current = FirstSector(Shifted(j), thread.track)
  BY <1>11, <1>13, <1>14, BeginIs, Zenon
<1>16. WaveIsTheTrack'
  <2>1. CASE audex.jobs = <<>>
    BY <1>1, <2>1, WholeStays DEF WaveInv
  <2>2. CASE audex.jobs # <<>>
    <3>1. Applied
      BY <2>2, Zenon DEF TrackInv
    <3>2. DriveOf = drive
      BY <1>1, <3>1, BeginShift
    <3>3. drive'.toc = drive.toc
      BY <1>11, <1>15, <3>2, Zenon
    <3> QED
      BY <1>1, <3>3, WholeStays DEF WaveInv
  <2> QED
    BY <2>1, <2>2
<1>17. ASSUME Ripping
      PROVE  /\ Consecutive(file', First')
             /\ thread'.current = First' + file'.written + Len(posted')
             /\ file'.free + Len(file'.data) + Base' >= Free
  <2>1. file.data = <<>> /\ file.buffer = <<>> /\ file.written = 0
    BY <1>1, Zenon DEF TypeInv, Stream
  <2>2. Consecutive(file', First')
    BY <1>1, <2>1, EmptyFile
  <2>3. First' = FirstSector(Shifted(j), thread.track)
    BY <1>1, <1>15, Zenon DEF First
  <2>4. \A n \in Nat : n = n + 0 + 0
    OBVIOUS
  <2>5. thread'.current = First' + file'.written + Len(posted')
    <3>1. Len(<<>>) = 0
      BY EmptySeq
    <3> QED
      BY <1>1, <1>13, <1>15, <2>1, <2>3, <2>4, <3>1, Zenon
  <2>6. PICK t \in Tracks : t = audex.index
    BY <1>17, Zenon DEF TrackInv
  <2>7. Shifted(k)[t] - Shifted(k)[1] = Shifted(j)[t] - Shifted(j)[1]
    <3>1. PICK x \in Int, y \in Int : x = k * Shift /\ y = j * Shift
      BY ShiftType
    <3>2. t \in 1..(NTracks + 1) /\ 1 \in 1..(NTracks + 1)
      BY ExtractionAssumption DEF Tracks
    <3>3. /\ Shifted(k)[t] = Toc[t] + x /\ Shifted(k)[1] = Toc[1] + x
          /\ Shifted(j)[t] = Toc[t] + y /\ Shifted(j)[1] = Toc[1] + y
          /\ Toc[t] \in Nat /\ Toc[1] \in Nat
      BY <3>1, <3>2, ExtractionAssumption DEF Shifted
    <3> HIDE DEF Shifted
    <3> QED
      BY <3>3
  <2>8. Base' = Base
    BY <1>1, <1>11, <1>15, <2>6, <2>7, Zenon DEF Base
  <2>9. file'.free + Len(file'.data) + Base' >= Free
    BY <1>1, <1>17, <2>8, Zenon DEF WaveInv
  <2> QED
    BY <2>2, <2>5, <2>9
<1>18. Ripping' <=> Ripping
  BY <1>1, Zenon DEF Ripping
<1>19. 1..Len(posted') = {}
  BY <1>15, EmptySeq
<1>20. file'.data = <<>> /\ file'.buffer = <<>> /\ file'.written = 0
  BY <1>1, Zenon DEF TypeInv, Stream
<1> QED
  BY <1>15, <1>16, <1>17, <1>18, <1>19, <1>20, Zenon DEF WaveInv, Writing

LEMMA WaveFails ==
  ASSUME TypeInv, WaveInv, ReadFails
  PROVE  WaveInv'
<1>1. /\ thread.running /\ thread.reading /\ UNCHANGED <<drive, posted, audex, file>>
      /\ thread'.running = thread.running /\ thread'.reading = thread.reading
      /\ thread'.track = thread.track /\ thread'.current = thread.current
  BY FailsIs, Zenon
<1>2. First' = First /\ Last' = Last /\ (Ripping' <=> Ripping) /\ (NoError' <=> NoError)
      /\ Base' = Base
  BY <1>1, Zenon DEF First, Last, Ripping, NoError, Base
<1>3. WaveIsTheTrack'
  BY <1>1, WholeStays DEF WaveInv
<1> QED
  BY <1>1, <1>2, <1>3, Zenon DEF WaveInv, Writing

LEMMA WaveRead ==
  ASSUME OnDisc, TypeInv, TrackInv, WaveInv, ReadSector
  PROVE  WaveInv'
<1>1. /\ thread.running /\ thread.reading /\ thread.current <= thread.last
      /\ posted' = Append(posted, Out(thread.current))
      /\ UNCHANGED <<drive, audex, file>>
      /\ thread'.current = thread.current + 1
      /\ thread'.running = thread.running /\ thread'.reading = thread.reading
      /\ thread'.track = thread.track
  BY ReadIs, Zenon
<1>2. First' = First /\ Last' = Last /\ (Ripping' <=> Ripping) /\ Base' = Base
  BY <1>1, Zenon DEF First, Last, Ripping, Base
<1>3. WaveIsTheTrack'
  BY <1>1, WholeStays DEF WaveInv
<1>4. PICK c \in Int : c = thread.current /\ posted \in Seq(Signals)
  BY ThreadsAre DEF TypeInv, Types
<1>5. PICK q \in Seq(Signals), l \in Nat :
        /\ q = posted' /\ Len(posted) = l /\ Len(q) = l + 1
        /\ \A i \in 1..l : q[i] = posted[i]
        /\ q[l + 1] = Out(c)
  <2>1. Out(c) \in Signals
    BY SignalsAre
  <2> QED
    BY <1>1, <1>4, <2>1, AppendIs, Zenon
<1>6. ASSUME Writing
      PROVE  /\ \A i \in 1..Len(posted') : posted'[i].signal = "output" =>
                  posted'[i].sector = First + file.written + i - 1 /\ posted'[i].sector <= Last
             /\ thread'.current = First + file.written + Len(posted')
  <2>1. PICK n \in Int, w \in Nat : n = First /\ w = file.written
    <3>1. First \in Int /\ file.written \in Nat
      <4>1. thread.track \in 0..NTracks
        BY ThreadsAre DEF TypeInv, Types
      <4>2. \A k \in 0..MaxRips : FirstSector(Shifted(k), thread.track) \in Nat
        BY <4>1, SectorsAre
      <4>3. First \in Nat
        BY <4>2, TocIs, Zenon DEF First
      <4> QED
        BY <4>3, FilesAre DEF TypeInv, Types
    <3> QED
      BY <3>1
  <2>2. c = n + w + l
    BY <1>1, <1>4, <1>5, <1>6, <2>1, Zenon DEF WaveInv
  <2>3. c <= Last
    BY <1>1, <1>4, <1>6, Zenon DEF TrackInv, Writing
  <2>4. \A i \in 1..l : q[i].signal = "output" =>
          q[i].sector = n + w + i - 1 /\ q[i].sector <= Last
    BY <1>5, <1>6, <2>1, Zenon DEF WaveInv
  <2>5. q[l + 1].sector = n + w + (l + 1) - 1 /\ q[l + 1].sector <= Last
    <3>1. q[l + 1].sector = c
      BY <1>5, SignalsAre
    <3> QED
      BY <2>2, <2>3, <3>1
  <2>6. \A i \in 1..(l + 1) : i \in 1..l \/ i = l + 1
    OBVIOUS
  <2>7. c + 1 = n + w + (l + 1)
    BY <2>2
  <2> QED
    BY <1>1, <1>4, <1>5, <2>1, <2>4, <2>5, <2>6, <2>7, Zenon
<1> QED
  BY <1>1, <1>2, <1>3, <1>6, Zenon DEF WaveInv, Writing

(* The sectors queued in z are those of p.                                 *)
SameOutputs(p, z) ==
  \A i \in 1..Len(z) : z[i].signal = "output" => i \in 1..Len(p) /\ z[i] = p[i]

LEMMA OutputsKept ==
  ASSUME NEW p \in Seq(Signals), NEW x \in Seq(Signals), NEW y \in Signals,
         SameOutputs(p, x), y.signal # "output"
  PROVE  Append(x, y) \in Seq(Signals) /\ SameOutputs(p, Append(x, y))
<1>1. PICK z \in Seq(Signals), l \in Nat :
           /\ z = Append(x, y) /\ Len(x) = l /\ Len(z) = l + 1
           /\ \A i \in 1..l : z[i] = x[i]
           /\ z[l + 1] = y
  BY AppendIs
<1>2. \A i \in 1..(l + 1) : i \in 1..l \/ i = l + 1
  OBVIOUS
<1>3. ASSUME NEW i \in 1..(l + 1), z[i].signal = "output"
      PROVE  i \in 1..Len(p) /\ z[i] = p[i]
  <2>1. i \in 1..l
    BY <1>1, <1>2, <1>3
  <2> QED
    BY <1>1, <1>3, <2>1, Zenon DEF SameOutputs
<1> QED
  BY <1>1, <1>3, Zenon DEF SameOutputs

LEMMA WaveEnd ==
  ASSUME OnDisc, TypeInv, TrackInv, WaveInv, EndRun
  PROVE  WaveInv'
<1>1. /\ thread.running /\ thread.reading /\ UNCHANGED <<drive, audex, file>>
      /\ thread.interrupt \/ thread.error \/ thread.current > thread.last
      /\ thread'.running = FALSE /\ thread'.reading = FALSE
      /\ thread'.track = thread.track
  BY EndIs, Zenon
<1>2. First' = First /\ Last' = Last /\ (Ripping' <=> Ripping) /\ Base' = Base
  BY <1>1, Zenon DEF First, Last, Ripping, Base
<1>3. WaveIsTheTrack'
  BY <1>1, WholeStays DEF WaveInv
<1>4. posted \in Seq(Signals)
  BY DEF TypeInv, Types
<1>5. SameOutputs(posted, posted')
  <2>1. /\ Err \in Signals /\ Err.signal # "output" /\ Fin \in Signals /\ Fin.signal # "output"
    BY SignalsAre
  <2>2. SameOutputs(posted, posted)
    BY DEF SameOutputs
  <2>3. /\ Append(posted, Err) \in Seq(Signals) /\ SameOutputs(posted, Append(posted, Err))
    BY <1>4, <2>1, <2>2, OutputsKept
  <2>4. /\ Append(Append(posted, Err), Err) \in Seq(Signals)
        /\ SameOutputs(posted, Append(Append(posted, Err), Err))
    BY <1>4, <2>1, <2>3, OutputsKept
  <2>5. PICK q : /\ posted' = Append(q, Fin)
                 /\ q = posted \/ q = Append(posted, Err) \/ q = Append(Append(posted, Err), Err)
    BY EndIs, Zenon
  <2>6. q \in Seq(Signals) /\ SameOutputs(posted, q)
    BY <1>4, <2>2, <2>3, <2>4, <2>5, Zenon
  <2> QED
    BY <1>4, <2>1, <2>5, <2>6, OutputsKept
<1>6. ASSUME Writing, NoError'
      PROVE  Last + 1 = First + file.written + Len(posted') - 1
  <2>1. posted' = Append(posted, Fin) /\ thread.current > thread.last
    BY <1>1, <1>6, NoErrorEnd
  <2>2. PICK l \in Nat : Len(posted) = l /\ Len(posted') = l + 1
    <3>1. Fin \in Signals
      BY SignalsAre
    <3> QED
      BY <1>4, <2>1, <3>1, AppendIs
  <2>3. PICK c \in Int, n \in Int, x \in Int, w \in Nat :
          c = thread.current /\ n = First /\ x = Last /\ w = file.written
    <3>1. First \in Int /\ Last \in Int
      <4>1. thread.track \in 0..NTracks
        BY ThreadsAre DEF TypeInv, Types
      <4>2. \A k \in 0..MaxRips : /\ FirstSector(Shifted(k), thread.track) \in Nat
                                  /\ LastSector(Shifted(k), thread.track) \in Nat
        BY <4>1, SectorsAre
      <4>3. First \in Nat /\ Last \in Nat
        BY <4>2, TocIs, Zenon DEF First, Last
      <4> QED
        BY <4>3
    <3> QED
      BY <3>1, ThreadsAre, FilesAre DEF TypeInv, Types
  <2>4. c = n + w + l /\ thread.last = x /\ c <= x + 1
    BY <1>1, <1>6, <2>2, <2>3, Zenon DEF WaveInv, TrackInv, Writing
  <2>5. x + 1 = n + w + (l + 1) - 1
    BY <2>1, <2>3, <2>4
  <2> QED
    BY <2>2, <2>3, <2>5, Zenon
<1>7. ASSUME Writing
      PROVE  \A i \in 1..Len(posted') : posted'[i].signal = "output" =>
               posted'[i].sector = First + file.written + i - 1 /\ posted'[i].sector <= Last
  BY <1>5, <1>7, Zenon DEF SameOutputs, WaveInv
<1> QED
  BY <1>1, <1>2, <1>3, <1>6, <1>7, Zenon DEF WaveInv, Writing

LEMMA WaveOutput ==
  ASSUME OnDisc, Room, TypeInv, TrackInv, WaveInv, Delivers("output")
  PROVE  WaveInv'
<1>1. /\ posted # <<>> /\ posted' = Tail(posted) /\ drive' = drive
      /\ posted \in Seq(Signals) /\ Head(posted).signal = "output"
  BY DeliveryIs, Zenon DEF Delivers
<1>2. PICK s \in Int : s = Head(posted).sector /\ file' = WriteSector(file, s)
  BY OutputIs, Zenon
<1>3. UNCHANGED <<audex, thread>>
  BY OutputIs, Zenon
<1>4. First' = First /\ Last' = Last /\ (Ripping' <=> Ripping) /\ Base' = Base
  BY <1>1, <1>3, Zenon DEF First, Last, Ripping, Base
<1>5. WaveIsTheTrack'
  BY <1>1, <1>3, WholeStays DEF WaveInv
<1>6. NoError' => NoError
  <2>1. "output" # "error"
    OBVIOUS
  <2> QED
    BY <1>1, <2>1, NoErrorBefore, Zenon
<1>7. PICK q \in Seq(Signals), m \in Nat :
        /\ q = posted' /\ Len(q) = m /\ Len(posted) = m + 1
        /\ \A i \in 1..m : q[i] = posted[i + 1]
        /\ posted[1] = Head(posted)
  <2>1. PICK m \in Nat : m = Len(posted) - 1 /\ Len(posted) = m + 1
    BY <1>1, TailIs
  <2> QED
    BY <1>1, <2>1, TailIs, Zenon
<1>o. file \in Files /\ Len(file.buffer) <= Chunk
  BY DEF TypeInv, Types, Stream
<1>w. /\ file' \in Files /\ file'.open = file.open /\ (~file.open => file' = file)
      /\ file'.free + Len(file'.data) = file.free + Len(file.data)
  BY <1>2, <1>o, WriteIs
<1>8. CASE ~Writing
  <2>1. ~Writing'
    BY <1>4, <1>8, <1>w, Zenon DEF Writing
  <2>2. Ripping' => file' = file
    BY <1>4, <1>8, <1>w, Zenon DEF Writing
  <2>3. Ripping' => file'.free + Len(file'.data) + Base' >= Free
    BY <1>4, <2>2, Zenon DEF WaveInv
  <2>4. Ripping' /\ ~file'.open => file'.data = <<>> /\ file'.buffer = <<>> /\ file'.written = 0
    BY <1>4, <2>2, Zenon DEF WaveInv
  <2> QED
    BY <1>5, <2>1, <2>3, <2>4, Zenon DEF WaveInv
<1>9. CASE Writing
  <2>1. PICK n \in Nat, x \in Int, b \in Int :
          n = First /\ x = Last /\ b = Base
    BY <1>9, TrackFits DEF Writing
  <2>2. PICK fr \in Nat, w \in Nat, ld \in Nat :
          fr = file.free /\ w = file.written /\ ld = Len(file.data)
    BY FilesAre DEF TypeInv, Types
  <2>3. \A i \in 1..(m + 1) : posted[i].signal = "output" =>
          posted[i].sector = n + w + i - 1 /\ posted[i].sector <= x
    BY <1>7, <1>9, <2>1, <2>2, Zenon DEF WaveInv
  <2>4. s = n + w /\ s <= x
    <3>1. s = n + w + 1 - 1 /\ s <= x
      BY <1>1, <1>2, <1>7, <2>3
    <3> QED
      BY <3>1
  <2>5. file.free >= Len(file.buffer)
    <3>1. w <= x + 1 - n
      BY <2>4
    <3> QED
      BY <1>9, <2>1, <2>2, <3>1, RoomLeft, Zenon
  <2>6. /\ file' \in Files /\ Consecutive(file', First) /\ file'.written = w + 1
        /\ file'.free + Len(file'.data) = fr + ld
    <3>1. Consecutive(file, First)
      BY <1>9, Zenon DEF WaveInv
    <3>2. n \in Int
      OBVIOUS
    <3>3. file.open
      BY <1>9 DEF Writing
    <3> QED
      BY <1>2, <1>o, <2>1, <2>2, <2>4, <2>5, <3>1, <3>2, <3>3, WriteIs, Zenon
  <2>7. ASSUME NEW i \in 1..m, q[i].signal = "output"
        PROVE  q[i].sector = n + (w + 1) + i - 1 /\ q[i].sector <= x
    <3>1. i + 1 \in 1..(m + 1)
      OBVIOUS
    <3>2. q[i].sector = n + w + (i + 1) - 1 /\ q[i].sector <= x
      BY <1>7, <2>3, <2>7, <3>1, Zenon
    <3> QED
      BY <3>2
  <2>8. thread'.reading => thread'.current = n + (w + 1) + m
    <3>1. thread.reading => thread.current = n + w + (m + 1)
      BY <1>7, <1>9, <2>1, <2>2, Zenon DEF WaveInv
    <3> QED
      BY <1>3, <3>1
  <2>9. ~thread'.running /\ NoError' => x + 1 = n + (w + 1) + m - 1
    <3>1. ~thread.running /\ NoError => x + 1 = n + w + (m + 1) - 1
      BY <1>7, <1>9, <2>1, <2>2, Zenon DEF WaveInv
    <3>2. n + w + (m + 1) - 1 = n + (w + 1) + m - 1
      OBVIOUS
    <3> QED
      BY <1>3, <1>6, <3>1, <3>2, Zenon
  <2>10. file'.free + Len(file'.data) + Base' >= Free
    <3>1. fr + ld + b >= Free
      BY <1>9, <2>1, <2>2, Zenon DEF WaveInv, Writing
    <3> QED
      BY <1>4, <2>1, <2>6, <3>1, Zenon
  <2>11. file'.open
    BY <1>9, <1>w DEF Writing
  <2> QED
    BY <1>4, <1>5, <1>7, <2>1, <2>6, <2>7, <2>8, <2>9, <2>10, <2>11, Zenon DEF WaveInv
<1> QED
  BY <1>8, <1>9

(* The wave file that is closed holds its track, if it could be opened.    *)
LEMMA JobIsWhole ==
  ASSUME OnDisc, Room, TypeInv, TrackInv, WaveInv, Ripping, Delivers("finished")
  PROVE  /\ Whole(Job, drive.toc)
         /\ Len(CloseWave(file).data) <= Last + 1 - First
<1>1. /\ ~thread.running /\ Len(posted) = 1 /\ Job \in Jobs /\ Job.track = thread.track
      /\ Job.opened = file.open
      /\ Job.data = CloseWave(file).data /\ Job.header = CloseWave(file).header
  BY FinishIs, Zenon
<1>2. NoError
  <2>1. posted[1].signal = "finished"
    BY DeliveryIs, TailIs DEF Delivers
  <2>2. \A i \in 1..1 : i = 1
    OBVIOUS
  <2> QED
    BY <1>1, <2>1, <2>2 DEF NoError
<1>3. PICK n \in Int, x \in Int, w \in Nat :
        n = First /\ x = Last /\ w = file.written /\ n <= x
  BY TrackFits, FilesAre DEF TypeInv, Types
<1>4. PICK d \in Seq(Int) : d = CloseWave(file).data
  <2>1. file \in Files
    BY DEF TypeInv, Types
  <2> QED
    BY <2>1, CloseIs, FilesAre
<1>5. CASE file.open
  <2>0. Writing
    BY <1>5 DEF Writing
  <2>1. w = x + 1 - n
    <3>1. x + 1 = n + w + 1 - 1
      BY <1>1, <1>2, <1>3, <2>0, Zenon DEF WaveInv
    <3> QED
      BY <3>1
  <2>2. file.free >= Len(file.buffer)
    <3>1. w <= x + 1 - n
      BY <2>1
    <3> QED
      BY <1>3, <2>0, <3>1, RoomLeft, Zenon
  <2>3. /\ Job.header = Len(d) /\ Len(d) = w
        /\ \A i \in 1..Len(d) : d[i] = n + i - 1
    <3>1. Consecutive(file, First)
      BY <2>0, Zenon DEF WaveInv
    <3>2. file \in Files
      BY DEF TypeInv, Types
    <3> QED
      BY <1>1, <1>3, <1>4, <2>2, <3>1, <3>2, CloseIs, Zenon
  <2>4. d = [i \in 1..(x - n + 1) |-> n + i - 1]
    <3>1. w = x - n + 1
      BY <2>1
    <3>2. d \in [1..w -> Int]
      BY <2>3, LenProperties
    <3>3. d = [i \in 1..w |-> n + i - 1]
      BY <2>3, <3>2
    <3> QED
      BY <3>1, <3>3, Zenon
  <2>5. Whole(Job, drive.toc)
    BY <1>1, <1>3, <1>4, <1>5, <2>3, <2>4, Zenon DEF Whole, First, Last
  <2>6. Len(d) <= x + 1 - n
    BY <2>1, <2>3
  <2> QED
    BY <1>3, <1>4, <2>5, <2>6, Zenon
<1>6. CASE ~file.open
  <2>1. file.data = <<>> /\ file.written = 0
    BY <1>6, Zenon DEF WaveInv
  <2>2. PICK s \in Nat : CloseWave(file) = NoFile(s)
    <3>1. file.free \in Nat /\ Len(file.data) \in Nat
      BY FilesAre DEF TypeInv, Types
    <3>2. file.free + Len(file.data) \in Nat
      BY <3>1
    <3> QED
      BY <2>1, <3>2, Zenon DEF CloseWave
  <2>3. d = <<>> /\ Job.header = 0 /\ Len(d) = 0
    BY <1>1, <1>4, <2>2, NoFileIs, EmptySeq
  <2>4. Whole(Job, drive.toc)
    BY <1>1, <1>4, <1>6, <2>3, Zenon DEF Whole
  <2>5. Len(d) <= x + 1 - n
    BY <1>3, <2>3
  <2> QED
    BY <1>3, <1>4, <2>4, <2>5, Zenon
<1> QED
  BY <1>5, <1>6

LEMMA WaveFinished ==
  ASSUME OnDisc, Room, TypeInv, TrackInv, WaveInv, Delivers("finished")
  PROVE  WaveInv'
<1>1. posted # <<>> /\ drive' = drive
  BY DeliveryIs, Zenon DEF Delivers
<1>2. /\ ~thread.running /\ ~thread.reading /\ posted' = <<>>
      /\ CloseWave(file) \in Files
      /\ WithJob \in Audexes /\ WithJob.jobs = Append(audex.jobs, Job)
      /\ WithJob.rip = audex.rip /\ WithJob.index = audex.index
      /\ Job \in Jobs
      /\ IF audex.finished
         THEN file' = RemoveWave(CloseWave(file)) /\ UNCHANGED <<audex, thread>>
         ELSE StartExtract(WithJob, thread, NoFile(CloseWave(file).free))
  BY FinishIs, Zenon
<1>3. ~Ripping => audex.finished
  BY <1>1, RipsOrStopped, Zenon
<1>4. CASE audex.finished
  BY <1>1, <1>2, <1>4, WaveStopped
<1>5. CASE ~audex.finished
  <2>1. Ripping
    BY <1>3, <1>5, Zenon
  <2>2. /\ Whole(Job, drive.toc) /\ Len(CloseWave(file).data) <= Last + 1 - First
    BY <2>1, JobIsWhole
  <2>3. PICK k \in 0..MaxRips : drive.toc = Shifted(k)
    BY TocIs
  <2>4. PICK a \in Audexes, f \in Files :
          a = WithJob /\ f = NoFile(CloseWave(file).free) /\ StartExtract(a, thread, f)
    BY <1>2, <1>5, NoFileIs, FilesAre
  <2>5. PICK t \in Tracks : t = audex.index /\ a.index = t
    BY <1>2, <2>1, <2>4, Zenon DEF TrackInv
  <2>6. f.data = <<>> /\ f.buffer = <<>> /\ f.written = 0 /\ f.free = CloseWave(file).free
    BY <1>2, <2>4, NoFileIs, FilesAre
  <2>7. a.rip.single_file /\ a.index = 0 => f.free >= Free
    <3>1. t # 0
      BY ExtractionAssumption DEF Tracks
    <3> QED
      BY <2>5, <3>1
  <2>8. ASSUME NEW s \in Tracks, ~a.rip.single_file, s > a.index
        PROVE  f.free + (drive.toc[s] - drive.toc[1]) >= Free
    <3>1. PICK fr \in Nat, ld \in Nat, gf \in Nat, gd \in Nat :
            /\ fr = file.free /\ ld = Len(file.data)
            /\ gf = CloseWave(file).free /\ gd = Len(CloseWave(file).data)
      BY <1>2, FilesAre DEF TypeInv, Types
    <3>2. gf + gd = fr + ld
      <4>1. file \in Files
        BY DEF TypeInv, Types
      <4> QED
        BY <3>1, <4>1, CloseIs
    <3>3. /\ 1 \in 1..(NTracks + 1) /\ t \in 1..(NTracks + 1) /\ t + 1 \in 1..(NTracks + 1)
          /\ s \in 1..(NTracks + 1) /\ (t + 1 = s \/ t + 1 < s) /\ k \in Int /\ t # 0
          /\ t \in 0..NTracks
      <4>1. s > t
        BY <2>5, <2>8, Zenon
      <4> QED
        BY <4>1, ExtractionAssumption DEF Tracks
    <3>4. PICK p \in Int, q \in Int, r \in Int, z \in Int :
            /\ p = Shifted(k)[1] /\ q = Shifted(k)[t] /\ r = Shifted(k)[t + 1] /\ z = Shifted(k)[s]
      BY <3>3, ShiftedType
    <3>5. r <= z
      <4>1. t + 1 = s \/ r < z
        BY <3>3, <3>4, ShiftedGrows
      <4> QED
        BY <3>4, <4>1
    <3>6. gd <= r - q
      <4>1. thread.track = t
        BY <1>2, <2>1, <2>4, <2>5, <2>8, Zenon DEF TrackInv
      <4>2. LastSector(Shifted(k), t) + 1 - FirstSector(Shifted(k), t) = r - q
        BY <3>3, <3>4, SectorsAre
      <4> QED
        BY <2>2, <2>3, <3>1, <4>1, <4>2, Zenon DEF First, Last
    <3>7. fr + ld + (q - p) >= Free
      <4>1. Base = q - p
        BY <1>2, <2>3, <2>4, <2>5, <2>8, <3>4, Zenon DEF Base
      <4> QED
        BY <2>1, <3>1, <4>1, Zenon DEF WaveInv
    <3>8. gf + (z - p) >= Free
      BY <3>2, <3>5, <3>6, <3>7, ExtractionAssumption
    <3> QED
      BY <2>3, <2>6, <3>1, <3>4, <3>8, Zenon
  <2>9. ASSUME NEW i \in DOMAIN a.jobs
        PROVE  Whole(a.jobs[i], drive.toc)
    <3>1. audex.jobs \in Seq(Jobs)
      BY AudexesAre DEF TypeInv, Types
    <3>2. PICK l \in Nat : Len(audex.jobs) = l
      BY <3>1, LenProperties
    <3>3. /\ Append(audex.jobs, Job) \in Seq(Jobs) /\ Len(Append(audex.jobs, Job)) = l + 1
          /\ \A y \in 1..l : Append(audex.jobs, Job)[y] = audex.jobs[y]
          /\ Append(audex.jobs, Job)[l + 1] = Job
      BY <1>2, <3>1, <3>2, AppendProperties
    <3>4. i \in 1..(l + 1)
      BY <1>2, <2>4, <3>3, LenProperties
    <3>5. CASE i \in 1..l
      <4>1. Whole(audex.jobs[i], drive.toc)
        BY <3>2, <3>5, WholeJobs, Zenon DEF WaveInv
      <4> QED
        BY <1>2, <2>4, <3>3, <3>5, <4>1, Zenon
    <3>6. CASE i = l + 1
      BY <1>2, <2>2, <2>4, <3>3, <3>6, Zenon
    <3> QED
      BY <3>4, <3>5, <3>6
  <2>10. thread \in Threads
    BY DEF TypeInv, Types
  <2> QED
    BY <1>1, <1>2, <2>3, <2>4, <2>6, <2>7, <2>8, <2>9, <2>10, WaveAfterStart, Zenon
<1> QED
  BY <1>4, <1>5

LEMMA WaveEncoded ==
  ASSUME TypeInv, TrackInv, WaveInv, Encoded
  PROVE  WaveInv'
<1>1. /\ audex.jobs # <<>> /\ UNCHANGED <<drive, thread, posted>>
      /\ audex' = [audex EXCEPT !.jobs = Tail(audex.jobs)]
      /\ file' = [file EXCEPT !.free = file.free + Len(Head(audex.jobs).data)]
  BY DEF Encoded
<1>2. audex \in Audexes /\ file \in Files /\ audex.jobs \in Seq(Jobs)
  BY AudexesAre DEF TypeInv, Types
<1>3. PICK l \in Nat : l = Len(Head(audex.jobs).data)
  <2>1. Head(audex.jobs) \in Jobs
    BY <1>1, <1>2, HeadTailProperties
  <2>2. Head(audex.jobs).data \in Seq(Int)
    BY <2>1 DEF Jobs
  <2> QED
    BY <2>2, LenProperties
<1>4. PICK js \in Seq(Jobs), m \in Nat :
        /\ js = Tail(audex.jobs) /\ Len(js) = m /\ Len(audex.jobs) = m + 1
        /\ \A i \in 1..m : js[i] = audex.jobs[i + 1]
  <2>1. /\ Tail(audex.jobs) \in Seq(Jobs) /\ Len(Tail(audex.jobs)) = Len(audex.jobs) - 1
        /\ \A i \in 1..Len(Tail(audex.jobs)) : Tail(audex.jobs)[i] = audex.jobs[i + 1]
    BY <1>1, <1>2, HeadTailProperties
  <2>2. PICK m \in Nat : m = Len(Tail(audex.jobs))
    BY <2>1, LenProperties
  <2>3. Len(audex.jobs) = m + 1
    BY <1>2, <2>1, <2>2, LenProperties
  <2> QED
    BY <2>1, <2>2, <2>3, Zenon
<1>5. /\ audex'.jobs = js /\ audex'.rips = audex.rips /\ audex'.finished = audex.finished
      /\ audex'.rip = audex.rip /\ audex'.index = audex.index
  <2>1. audex' = [audex EXCEPT !.jobs = js]
    BY <1>1, <1>4, Zenon
  <2> QED
    BY <1>2, <2>1, ZenonT(60) DEF Audexes
<1>6. PICK fr \in Nat : fr = file.free + l
  BY <1>2, FilesAre
<1>7. /\ file'.open = file.open /\ file'.free = fr /\ file'.data = file.data
      /\ file'.buffer = file.buffer /\ file'.written = file.written
  <2>1. file' = [file EXCEPT !.free = fr]
    BY <1>1, <1>3, <1>6, Zenon
  <2> QED
    BY <1>2, <2>1, ZenonT(60) DEF Files
<1>8. /\ First' = First /\ Last' = Last /\ (Ripping' <=> Ripping) /\ Base' = Base
      /\ (NoError' <=> NoError)
  <2>1. First' = First /\ Last' = Last /\ (NoError' <=> NoError)
    BY <1>1, Zenon DEF First, Last, NoError
  <2>2. Ripping' <=> Ripping
    BY <1>5, Zenon DEF Ripping
  <2>3. Base' = Base
    <3>1. drive' = drive
      BY <1>1
    <3>2. audex'.rip = audex.rip /\ audex'.index = audex.index
      BY <1>5
    <3> QED
      BY <3>1, <3>2 DEF Base
  <2> QED
    BY <2>1, <2>2, <2>3
<1>9. WaveIsTheTrack'
  <2>1. \A i \in 1..(m + 1) : Whole(audex.jobs[i], drive.toc)
    BY <1>4, WholeJobs, Zenon DEF WaveInv
  <2>2. \A i \in 1..m : i + 1 \in 1..(m + 1)
    OBVIOUS
  <2>3. \A i \in 1..m : Whole(js[i], drive.toc)
    BY <1>4, <2>1, <2>2, Zenon
  <2>4. DOMAIN js = 1..m
    BY <1>4, LenProperties
  <2>5. \A i \in DOMAIN js : Whole(js[i], drive'.toc)
    BY <1>1, <2>3, <2>4
  <2>6. \A i \in DOMAIN audex'.jobs : Whole(audex'.jobs[i], drive'.toc)
    BY <1>5, <2>5
  <2> QED
    BY <2>6, Zenon DEF WaveIsTheTrack, Whole
<1>10. Consecutive(file, First) => Consecutive(file', First)
  BY <1>7, Zenon DEF Consecutive
<1>11. ASSUME Ripping
       PROVE  file'.free + Len(file'.data) + Base' >= Free
  <2>1. PICK ld \in Nat, f0 \in Nat : ld = Len(file.data) /\ f0 = file.free
    BY <1>2, FilesAre
  <2>2. f0 + ld + Base >= Free
    BY <1>11, <2>1, Zenon DEF WaveInv
  <2>3. Base \in Int /\ Free \in Nat
    <3>1. drive.toc \in [1..(NTracks + 1) -> Int]
      BY DEF TypeInv, Types, Drives
    <3>2. audex.index \in 1..(NTracks + 1) /\ 1 \in 1..(NTracks + 1)
      BY <1>11, ExtractionAssumption DEF TrackInv, Tracks
    <3>3. drive.toc[audex.index] \in Int /\ drive.toc[1] \in Int
      BY <3>1, <3>2
    <3> QED
      BY <3>3, ExtractionAssumption DEF Base
  <2>4. fr + ld + Base >= Free
    <3>1. PICK b \in Int : b = Base
      BY <2>3
    <3>2. f0 + ld + b >= Free /\ fr = f0 + l /\ Free \in Nat
      BY <1>6, <2>1, <2>2, <2>3, <3>1, Zenon
    <3>3. fr + ld + b >= Free
      BY <3>2
    <3> QED
      BY <3>1, <3>3, Zenon
  <2> QED
    BY <1>7, <1>8, <2>1, <2>4, Zenon
<1> QED
  BY <1>1, <1>7, <1>8, <1>9, <1>10, <1>11, Zenon DEF WaveInv, Writing

LEMMA WaveNext ==
  ASSUME OnDisc, Room, TypeInv, TrackInv, WaveInv, [Next]_vars
  PROVE  WaveInv'
<1>1. CASE \E rip \in RipChoices : Start(rip)
  BY <1>1, WaveStart
<1>2. CASE Cancel
  BY <1>2, WaveCancel
<1>c. CASE CheckInterrupt
  BY <1>c, WaveCheck
<1>3. CASE BeginRun
  BY <1>3, WaveBegin
<1>4. CASE ReadSector
  BY <1>4, WaveRead
<1>5. CASE ReadFails
  BY <1>5, WaveFails
<1>6. CASE EndRun
  BY <1>6, WaveEnd
<1>7. CASE Deliver
  BY <1>7, DeliveryIs, WaveOutput, WaveError, WaveFinished
<1>8. CASE Encoded
  BY <1>8, WaveEncoded
<1>9. CASE UNCHANGED vars
  <2>1. UNCHANGED <<drive, thread, posted, audex, file>>
    BY <1>9 DEF vars
  <2>2. /\ First' = First /\ Last' = Last /\ (Ripping' <=> Ripping) /\ (NoError' <=> NoError)
        /\ Base' = Base
    BY <2>1, Zenon DEF First, Last, Ripping, NoError, Base
  <2>3. WaveIsTheTrack'
    BY <2>1, WholeStays DEF WaveInv
  <2> QED
    BY <2>1, <2>2, <2>3, Zenon DEF WaveInv, Writing
<1> QED
  BY <1>1, <1>2, <1>c, <1>3, <1>4, <1>5, <1>6, <1>7, <1>8, <1>9, Zenon DEF Next, Thread

(* Every wave file the encoder gets that could be opened holds its track,  *)
(* whole and in order, under a header that tells its length, and one that  *)
(* could not is not there at all: in every interleaving of the thread with *)
(* the delivery of its signals, after read errors and cancellations, those *)
(* that run() loses among them, and over all rips of the disc.  It needs a *)
(* folder with room for the disc, since nobody is told of a sector that    *)
(* does not fit.                                                           *)
THEOREM WavesAreTracks ==
  ASSUME OnDisc, Room
  PROVE  Spec => []WaveIsTheTrack
<1>1. WaveInv /\ TrackInv /\ TypeInv /\ [Next]_vars => WaveInv'
  BY WaveNext
<1>2. WaveInv => WaveIsTheTrack
  BY DEF WaveInv
<1>3. TrackInv /\ TypeInv /\ [Next]_vars => TrackInv'
  BY TrackNext
<1>4. Spec => []TrackInv
  BY TypeInvHolds, TrackInit, <1>3, PTL DEF Spec
<1> QED
  BY TypeInvHolds, WaveInit, <1>1, <1>2, <1>4, PTL DEF Spec
=============================================================================
