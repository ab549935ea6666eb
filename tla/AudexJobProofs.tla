---------------------------- MODULE AudexJobProofs ----------------------------
(***************************************************************************)
(* The pipeline implements the abstract rip, RipJob, for any disc all of   *)
(* whose selectable tracks are audio tracks, any selection and any naming  *)
(* scheme, and encoders that end by exiting.  On top of it, what becomes   *)
(* of the files of the rip.                                                *)
(***************************************************************************)
EXTENDS AudexProofs

InQueue(s, t) == \E i \in DOMAIN s.queue : s.queue[i] = t

(* StageOf of any state of the pipeline.                                   *)
Stage(s, t) ==
  IF t = s.reading THEN "extracting"
  ELSE IF t = s.proc THEN "encoding"
  ELSE IF InQueue(s, t) THEN "queued"
  ELSE IF t \in s.ripped THEN "through"
  ELSE IF config.single_file /\ t <= s.ex_index /\ AlreadyThere(s, t) THEN "through"
  ELSE IF t <= s.ex_index THEN "dropped"
  ELSE "waiting"

(* The pipeline is a line: ripped, encoded, queued, read, and what waits,  *)
(* in the order of the disc.                                               *)
Ordered(s) ==
  /\ \A i \in DOMAIN s.queue : s.queue[i] \in Wanted /\ s.queue[i] <= s.ex_index
  /\ \A i, j \in DOMAIN s.queue : i < j => s.queue[i] < s.queue[j]
  /\ s.reading # 0 => /\ s.reading \in Wanted /\ s.reading = s.ex_index
                      /\ ~InQueue(s, s.reading)
  /\ s.proc # 0 => /\ s.proc \in Wanted /\ s.proc <= s.ex_index /\ s.proc # s.reading
                   /\ s.en_index = s.proc /\ s.in_progress
                   /\ \A i \in DOMAIN s.queue : s.proc < s.queue[i]
  /\ \A t \in s.ripped : /\ t # 0 /\ t <= s.ex_index
                         /\ t # s.reading /\ t # s.proc /\ ~InQueue(s, t)

(* Until the rip is to finish no track is dropped.                         *)
Accounted(s) ==
  ~s.finished => \A t \in Wanted : t <= s.ex_index => Stage(s, t) # "dropped"

(* Success is claimed of a rip at rest whose tracks are all through.       *)
Just(s) ==
  s.successful => /\ s.finished /\ s.reading = 0 /\ s.proc = 0
                  /\ \A t \in Wanted : Stage(s, t) = "through"

Placed(s) == Ordered(s) /\ Accounted(s) /\ Just(s)

JobInv == FlowInv /\ Placed(rip)

(* Every track goes forward, or stays where it is.                         *)
Ahead(s, r) == \A t \in Wanted : Stage(r, t) \in Job!Next1[Stage(s, t)]

StageNames == {"waiting", "extracting", "queued", "encoding", "through", "dropped"}

-----------------------------------------------------------------------------
(* Stages.                                                                 *)

LEMMA WantedTracks ==
  ASSUME config \in Config
  PROVE  /\ Wanted \subseteq Tracks
         /\ \A t \in Wanted : t \in Nat /\ t # 0
         /\ config.single_file \in BOOLEAN
         /\ config.single_file => Wanted = {1}
         /\ ~config.single_file => Wanted = config.selection
<1>1. config.selection \subseteq Tracks /\ config.single_file \in BOOLEAN
  BY SelectedTracks
<1>2. Wanted \subseteq Tracks
  BY <1>1, ConstantsAssumption DEF Wanted, Tracks
<1> QED
  BY <1>1, <1>2, ConstantsAssumption DEF Wanted, Tracks

LEMMA Numbers ==
  ASSUME NEW s \in Rip
  PROVE  /\ s.ex_index \in Nat /\ s.reading \in Nat /\ s.proc \in Nat
         /\ s.queue \in Seq(Tracks) /\ \A i \in DOMAIN s.queue : s.queue[i] \in Nat
         /\ \A t \in s.ripped : t \in Nat
         /\ s.successful \in BOOLEAN /\ s.finished \in BOOLEAN
<1>1. /\ s.ex_index \in Nat /\ s.reading \in 0..NTracks /\ s.proc \in 0..NTracks
      /\ s.queue \in Seq(Tracks) /\ s.ripped \in SUBSET (0..NTracks)
      /\ s.successful \in BOOLEAN /\ s.finished \in BOOLEAN
  BY Zenon DEF Rip
<1>2. \A i \in DOMAIN s.queue : s.queue[i] \in Tracks
  BY <1>1
<1> QED
  BY <1>1, <1>2, ConstantsAssumption DEF Tracks

LEMMA StageType == \A s, t : Stage(s, t) \in StageNames
BY DEF Stage, StageNames

LEMMA NextTable ==
  LET N1 == Job!Next1
  IN  /\ N1["waiting"] = StageNames
      /\ N1["extracting"] = {"extracting", "queued", "encoding", "through", "dropped"}
      /\ N1["queued"] = {"queued", "encoding", "through"}
      /\ N1["encoding"] = {"encoding", "through"}
      /\ N1["through"] = {"through"}
      /\ N1["dropped"] = {"dropped"}
BY DEF Job!Next1, Job!Stages, StageNames

LEMMA AheadOfItself ==
  ASSUME NEW s, NEW r, \A t \in Wanted : Stage(r, t) = Stage(s, t)
  PROVE  Ahead(s, r)
<1>1. \A x \in StageNames : x \in Job!Next1[x]
  BY NextTable DEF StageNames
<1> QED
  BY <1>1, StageType, Zenon DEF Ahead

LEMMA AheadFurther ==
  ASSUME NEW s, NEW q, NEW r, Ahead(s, q), Ahead(q, r)
  PROVE  Ahead(s, r)
<1>1. ASSUME NEW x \in StageNames, NEW y \in Job!Next1[x], NEW z \in Job!Next1[y]
      PROVE  z \in Job!Next1[x]
  BY NextTable DEF StageNames
<1> QED
  BY <1>1, StageType, Zenon DEF Ahead

(* Nothing moves.                                                          *)
Same(r, s) ==
  /\ r.reading = s.reading /\ r.proc = s.proc /\ r.queue = s.queue
  /\ r.ripped = s.ripped /\ r.ex_index = s.ex_index
  /\ r.en_index = s.en_index /\ r.in_progress = s.in_progress
  /\ s.proc = 0 => r.files = s.files

LEMMA SamePlaced ==
  ASSUME config \in Config, NEW s, NEW r, Ordered(s), Same(r, s)
  PROVE  /\ Ordered(r)
         /\ \A t \in Wanted : Stage(r, t) = Stage(s, t)
         /\ Ahead(s, r)
<1>1. Ordered(r)
  BY Zenon DEF Ordered, Same, InQueue
<1>2. ASSUME NEW t \in Wanted
      PROVE  Stage(r, t) = Stage(s, t)
  <2>1. CASE s.proc = 0
    BY <2>1, Zenon DEF Stage, Same, InQueue, AlreadyThere
  <2>2. CASE ~config.single_file
    BY <2>2, Zenon DEF Stage, Same, InQueue
  <2>3. CASE config.single_file /\ s.proc # 0
    <3>1. t = s.proc
      BY <2>3, WantedTracks, Zenon DEF Ordered
    <3> QED
      BY <3>1, Zenon DEF Stage, Same
  <2> QED
    BY <2>1, <2>2, <2>3
<1> QED
  BY <1>1, <1>2, AheadOfItself

-----------------------------------------------------------------------------
(* The end of the rip.                                                     *)

LEMMA RequestFinishKeeps ==
  ASSUME NEW s \in Rip, NEW ok \in BOOLEAN, s.processing => s.proc # 0
  PROVE  LET r == RequestFinish(s, ok)
         IN  /\ r \in Rip /\ Same(r, s) /\ r.finished
             /\ r.successful = IF s.finished THEN s.successful ELSE ok
<1>1. CASE s.finished
  BY <1>1, Zenon DEF RequestFinish, Same
<1>2. CASE ~s.finished
  <2>1. PICK q : q = [s EXCEPT !.finished = TRUE, !.successful = ok]
    OBVIOUS
  <2>2. q \in Rip
    BY <2>1, ZenonT(60) DEF Rip
  <2>3. Same(q, s) /\ q.finished /\ q.successful = ok /\ q.files = s.files
        /\ q.processing = s.processing
    BY <2>1, ZenonT(60) DEF Rip, Same
  <2>4. PICK c : c = CancelEncoder(q)
    OBVIOUS
  <2>5. c \in Rip /\ Same(c, s) /\ c.finished /\ c.successful = ok
    <3>1. CASE ~q.processing
      BY <2>2, <2>3, <2>4, <3>1, Zenon DEF CancelEncoder
    <3>2. CASE q.processing
      <4>1. PICK f : f = IF config.delete_fraction_files /\ q.filename # 0
                         THEN [q.files EXCEPT ![TargetOf[q.filename]] = Absent]
                         ELSE q.files
        OBVIOUS
      <4>2. c = [q EXCEPT !.termination = TRUE, !.files = f]
        BY <2>4, <3>2, <4>1, Zenon DEF CancelEncoder
      <4>3. c \in Rip
        BY <2>2, <2>4, CancelEncoderEffect, Zenon DEF CancelsEncoder
      <4>4. /\ c.reading = q.reading /\ c.proc = q.proc /\ c.queue = q.queue
            /\ c.ripped = q.ripped /\ c.ex_index = q.ex_index
            /\ c.en_index = q.en_index /\ c.in_progress = q.in_progress
            /\ c.finished = q.finished /\ c.successful = q.successful
        BY <2>2, <4>2, ZenonT(60) DEF Rip
      <4> QED
        BY <2>3, <3>2, <4>3, <4>4, Zenon DEF Same
    <3> QED
      BY <3>1, <3>2
  <2>6. PICK e : e = CancelExtract(c)
    OBVIOUS
  <2>7. e \in Rip /\ Same(e, s) /\ e.finished /\ e.successful = ok
    BY <2>5, <2>6, ZenonT(60) DEF CancelExtract, Rip, Same
  <2>8. PICK x : x = ExecuteFinish(q)
    OBVIOUS
  <2>9. x \in Rip /\ Same(x, s) /\ x.finished /\ x.successful = ok
    <3>1. x \in Rip
      BY <2>2, <2>8, ExecuteFinishEffect, Zenon DEF ExecutesFinish
    <3> QED
      BY <2>2, <2>3, <2>8, <3>1, ZenonT(60) DEF ExecuteFinish, Rip, Same
  <2>10. RequestFinish(s, ok) \in {e, x}
    BY <1>2, <2>1, <2>4, <2>6, <2>8, Zenon DEF RequestFinish
  <2> QED
    BY <1>2, <2>7, <2>9, <2>10, Zenon
<1> QED
  BY <1>1, <1>2

LEMMA RequestFinishPlaced ==
  ASSUME config \in Config, NEW s \in Rip, NEW ok \in BOOLEAN, s.processing => s.proc # 0,
         Ordered(s), Just(s),
         ok /\ ~s.finished => /\ s.reading = 0 /\ s.proc = 0
                              /\ \A t \in Wanted : Stage(s, t) = "through"
  PROVE  LET r == RequestFinish(s, ok)
         IN  r \in Rip /\ Placed(r) /\ Ahead(s, r)
<1>1. PICK r : r = RequestFinish(s, ok)
  OBVIOUS
<1>2. /\ r \in Rip /\ Same(r, s) /\ r.finished
      /\ r.successful = IF s.finished THEN s.successful ELSE ok
  BY <1>1, RequestFinishKeeps, Zenon
<1>3. Ordered(r) /\ Ahead(s, r) /\ \A t \in Wanted : Stage(r, t) = Stage(s, t)
  BY <1>2, SamePlaced, Zenon
<1>4. Accounted(r)
  BY <1>2, Zenon DEF Accounted
<1>5. Just(r)
  BY <1>2, <1>3, Zenon DEF Just, Same
<1> QED
  BY <1>1, <1>2, <1>3, <1>4, <1>5, Zenon DEF Placed

(* With nothing read, encoded or queued, every track reached is through.   *)
LEMMA AllThrough ==
  ASSUME config \in Config, NEW s, Accounted(s), ~s.finished,
         s.reading = 0, s.proc = 0, s.queue = <<>>, \A t \in Wanted : t <= s.ex_index
  PROVE  \A t \in Wanted : Stage(s, t) = "through"
<1>1. \A t : ~InQueue(s, t)
  BY DEF InQueue
<1> QED
  BY <1>1, WantedTracks, Zenon DEF Accounted, Stage

LEMMA SuccessIfNoJobsPlaced ==
  ASSUME config \in Config, NEW s \in Rip, s.processing => s.proc # 0,
         Placed(s), ~s.finished, s.reading = 0, \A t \in Wanted : t <= s.ex_index
  PROVE  LET r == SuccessIfNoJobs(s)
         IN  Placed(r) /\ Ahead(s, r)
<1>1. CASE NoJobs(s)
  <2>1. s.proc = 0 /\ s.queue = <<>>
    BY <1>1, Zenon DEF NoJobs, Placed, Ordered
  <2>2. \A t \in Wanted : Stage(s, t) = "through"
    BY <2>1, AllThrough, Zenon DEF Placed
  <2> QED
    BY <1>1, <2>1, <2>2, RequestFinishPlaced, Zenon DEF SuccessIfNoJobs, Placed
<1>2. CASE ~NoJobs(s)
  BY <1>2, AheadOfItself, Zenon DEF SuccessIfNoJobs
<1> QED
  BY <1>1, <1>2

-----------------------------------------------------------------------------
(* The extraction.                                                         *)

LEMMA Waits ==
  ASSUME config \in Config, NEW s \in Rip, Ordered(s), NEW t \in Wanted, t > s.ex_index
  PROVE  Stage(s, t) = "waiting"
<1>1. /\ t \in Nat /\ t # 0 /\ s.ex_index \in Nat
      /\ ~(t <= s.ex_index) /\ t # s.ex_index
  BY WantedTracks, Numbers
<1>2. t # s.reading /\ t # s.proc /\ ~InQueue(s, t) /\ t \notin s.ripped
  BY <1>1, Zenon DEF Ordered, InQueue
<1> QED
  BY <1>1, <1>2, Zenon DEF Stage

(* Everything but the extraction is as before; it goes on to track m.      *)
Moves(s, r, m) ==
  /\ m \in Wanted /\ s.ex_index < m /\ r.ex_index = m
  /\ \A t \in Wanted : t <= s.ex_index \/ t >= m
  /\ r.proc = s.proc /\ r.queue = s.queue /\ r.ripped = s.ripped
  /\ r.en_index = s.en_index /\ r.in_progress = s.in_progress /\ r.files = s.files
  /\ r.successful = s.successful /\ r.reading \in {0, m}

LEMMA MovesOrdered ==
  ASSUME config \in Config, NEW s \in Rip, Ordered(s), s.reading = 0, NEW r, NEW m,
         Moves(s, r, m)
  PROVE  /\ Ordered(r) /\ Ahead(s, r)
         /\ \A t \in Wanted : Stage(r, t) = Stage(s, t) \/ t = m
<1>1. /\ m \in Nat /\ m # 0 /\ s.ex_index \in Nat /\ \A t \in Wanted : t \in Nat /\ t # 0
      /\ s.proc \in Nat /\ \A t \in s.ripped : t \in Nat
      /\ \A i \in DOMAIN s.queue : s.queue[i] \in Nat
  BY WantedTracks, Numbers DEF Moves
<1>2. /\ \A i \in DOMAIN s.queue : s.queue[i] <= m /\ s.queue[i] # m
      /\ s.proc # 0 => s.proc <= m /\ s.proc # m
      /\ \A t \in s.ripped : t <= m /\ t # m
  BY <1>1 DEF Ordered, Moves
<1>3. Ordered(r)
  <2>1. ~InQueue(r, m)
    BY <1>2, Zenon DEF InQueue, Moves
  <2>2. \A t : InQueue(r, t) <=> InQueue(s, t)
    BY Zenon DEF InQueue, Moves
  <2>3. \A t \in s.ripped : t # r.reading
    <3>1. 0 \notin s.ripped
      BY Zenon DEF Ordered
    <3> QED
      BY <1>2, <3>1, Zenon DEF Moves
  <2>4. s.proc # 0 => s.proc # r.reading
    BY <1>2, Zenon DEF Moves
  <2> QED
    BY <1>1, <1>2, <2>1, <2>2, <2>3, <2>4, Zenon DEF Ordered, Moves
<1>4. ASSUME NEW t \in Wanted, t # m
      PROVE  Stage(r, t) = Stage(s, t)
  <2>1. t <= s.ex_index <=> t <= r.ex_index
    <3>1. t \in Nat /\ (t <= s.ex_index \/ t >= m) /\ s.ex_index < m /\ r.ex_index = m
      BY <1>1, Zenon DEF Moves
    <3> QED
      BY <1>1, <1>4, <3>1
  <2>2. t # r.reading /\ t # s.reading
    BY <1>1, <1>4, Zenon DEF Moves
  <2> QED
    BY <2>1, <2>2, Zenon DEF Stage, InQueue, AlreadyThere, Moves
<1>5. Stage(s, m) = "waiting"
  BY <1>1, Waits DEF Moves
<1>6. Ahead(s, r)
  <2>1. \A x \in StageNames : x \in Job!Next1[x] /\ x \in Job!Next1["waiting"]
    BY NextTable DEF StageNames
  <2> QED
    BY <1>4, <1>5, <2>1, StageType, Zenon DEF Ahead
<1> QED
  BY <1>3, <1>4, <1>6, Zenon

LEMMA MovesPlaced ==
  ASSUME config \in Config, NEW s \in Rip, Placed(s), ~s.finished, s.reading = 0,
         NEW r, NEW m, Moves(s, r, m), ~r.finished,
         r.reading = m \/ Stage(r, m) = "through"
  PROVE  Placed(r) /\ Ahead(s, r)
<1>1. /\ Ordered(r) /\ Ahead(s, r)
      /\ \A t \in Wanted : Stage(r, t) = Stage(s, t) \/ t = m
  BY MovesOrdered, Zenon DEF Placed
<1>2. Stage(r, m) # "dropped"
  BY Zenon DEF Stage
<1>3. ASSUME NEW t \in Wanted, t <= r.ex_index, t # m
      PROVE  t <= s.ex_index
  BY <1>3, WantedTracks, Numbers DEF Moves
<1>4. Accounted(r)
  BY <1>1, <1>2, <1>3, Zenon DEF Placed, Accounted
<1>5. Just(r)
  BY Zenon DEF Placed, Just, Moves
<1> QED
  BY <1>1, <1>4, <1>5, Zenon DEF Placed

(* The folder of track m cannot be created.                                *)
LEMMA MovesFails ==
  ASSUME config \in Config, NEW s \in Rip, Placed(s), ~s.finished, s.reading = 0,
         NEW x \in Rip, NEW m, Moves(s, x, m), ~x.finished, x.processing => x.proc # 0
  PROVE  Placed(RequestFinish(x, FALSE)) /\ Ahead(s, RequestFinish(x, FALSE))
<1>1. PICK r : r = RequestFinish(x, FALSE)
  OBVIOUS
<1>2. Ordered(x) /\ Ahead(s, x)
  BY MovesOrdered, Zenon DEF Placed
<1>3. Just(x)
  BY Zenon DEF Placed, Just, Moves
<1>4. Placed(r) /\ Ahead(x, r)
  BY <1>1, <1>2, <1>3, RequestFinishPlaced, Zenon
<1> QED
  BY <1>1, <1>2, <1>4, AheadFurther, Zenon

LEMMA BeginReadingFields ==
  ASSUME NEW s \in Rip, NEW m
  PROVE  LET r == BeginReading(s, m)
         IN  /\ r.ex_index = m /\ r.reading = m
             /\ r.proc = s.proc /\ r.queue = s.queue /\ r.ripped = s.ripped
             /\ r.en_index = s.en_index /\ r.in_progress = s.in_progress
             /\ r.files = s.files /\ r.finished = s.finished
             /\ r.successful = s.successful
BY ZenonT(60) DEF BeginReading, Rip

LEMMA SkipsPlaced ==
  ASSUME config \in Config, ~config.single_file, NEW s \in Rip, Placed(s), ~s.finished,
         s.reading = 0, NEW q, NEW S, Skips(s, q, S)
  PROVE  Placed(q) /\ Ahead(s, q)
<1>1. /\ Wanted = config.selection /\ s.ex_index \in Nat /\ q.ex_index \in Nat
      /\ s.ex_index <= q.ex_index /\ \A t \in Wanted : t \in Nat /\ t # 0
      /\ s.proc \in Nat /\ \A t \in s.ripped : t \in Nat
      /\ \A i \in DOMAIN s.queue : s.queue[i] \in Nat
  BY WantedTracks, Numbers, Zenon DEF Skips
<1>2. \A t \in S : t \in Wanted /\ t > s.ex_index /\ t <= q.ex_index
  <2>1. \A t \in S : t \in Wanted /\ s.ex_index < t /\ t <= q.ex_index
    BY <1>1, Zenon DEF Skips
  <2> QED
    BY <1>1, <2>1
<1>3. \A t \in S : Stage(s, t) = "waiting"
  BY <1>2, Waits, Zenon DEF Placed
<1>4. \A t \in S : t # s.proc /\ t # 0 /\ ~InQueue(s, t)
  <2>1. \A t \in S : t # s.reading /\ t # s.proc /\ ~InQueue(s, t)
    BY <1>3, Zenon DEF Stage
  <2> QED
    BY <1>1, <1>2, <2>1, Zenon
<1>5. \A t : InQueue(q, t) <=> InQueue(s, t)
  BY Zenon DEF InQueue, Skips
<1>6. Ordered(q)
  <2>1. /\ \A i \in DOMAIN s.queue : s.queue[i] <= q.ex_index
        /\ s.proc # 0 => s.proc <= q.ex_index
        /\ \A t \in s.ripped : t <= q.ex_index
    BY <1>1 DEF Placed, Ordered
  <2> QED
    BY <1>2, <1>4, <1>5, <2>1, Zenon DEF Placed, Ordered, Skips
<1>7. \A t \in S : Stage(q, t) = "through"
  BY <1>4, <1>5, Zenon DEF Stage, Skips
<1>8. ASSUME NEW t \in Wanted, t \notin S
      PROVE  Stage(q, t) = Stage(s, t) /\ (t <= q.ex_index => t <= s.ex_index)
  <2>1. t <= s.ex_index <=> t <= q.ex_index
    <3>1. ~(s.ex_index < t /\ t <= q.ex_index)
      BY <1>1, <1>8, Zenon DEF Skips
    <3> QED
      BY <1>1, <3>1
  <2> QED
    BY <1>5, <1>8, <2>1, Zenon DEF Stage, Skips
<1>9. Accounted(q)
  <2>1. \A t \in S : Stage(q, t) # "dropped"
    BY <1>7
  <2> QED
    BY <1>8, <2>1, Zenon DEF Placed, Accounted
<1>10. Just(q)
  BY Zenon DEF Placed, Just, Skips
<1>11. Ahead(s, q)
  <2>1. \A x \in StageNames : x \in Job!Next1[x] /\ x \in Job!Next1["waiting"]
    BY NextTable DEF StageNames
  <2> QED
    BY <1>3, <1>8, <2>1, StageType, Zenon DEF Ahead
<1> QED
  BY <1>6, <1>9, <1>10, <1>11, Zenon DEF Placed

LEMMA StartExtractTracksPlaced ==
  ASSUME OnlyAudio, config \in Config, ~config.single_file, NEW s \in Rip, Ready(s),
         s.processing => s.proc # 0, Placed(s), ~s.finished, NEW bad \in Bad
  PROVE  Placed(StartExtractTracks(s, bad)) /\ Ahead(s, StartExtractTracks(s, bad))
<1>1. PICK r : r = StartExtractTracks(s, bad)
  OBVIOUS
<1>2. SkipsTracks(s, r) /\ GoesOn(r)
  BY <1>1, StartExtractTracksSkips, StartExtractTracksGoesOn, Zenon
<1>3. PICK q, S : Skips(s, q, S) /\ (Passes(s, q, r) \/ \E x, m : Halts(s, q, x, m, r))
  BY <1>2, Zenon DEF SkipsTracks
<1>4. /\ q \in Rip /\ q.reading = 0 /\ ~q.finished /\ ~q.runaway
      /\ q.processing => q.proc # 0
  BY <1>3, Zenon DEF Skips, Ready, Balanced
<1>5. Placed(q) /\ Ahead(s, q) /\ Wanted = config.selection
  BY <1>3, SkipsPlaced, WantedTracks, Zenon DEF Ready
<1>6. CASE Passes(s, q, r)
  <2>1. r = SuccessIfNoJobs(q)
    <3>1. CASE ~(q.ex_count >= Limit)
      <4>1. r = [q EXCEPT !.runaway = TRUE]
        BY <1>6, <3>1, Zenon DEF Passes
      <4>2. r.runaway /\ ~r.finished
        BY <1>4, <4>1, ZenonT(60) DEF Rip
      <4> QED
        BY <1>2, <4>2, Zenon DEF GoesOn, Flows, Balanced
    <3> QED
      BY <1>6, <3>1, Zenon DEF Passes
  <2>2. Placed(r) /\ Ahead(q, r)
    BY <1>4, <1>5, <1>6, <2>1, SuccessIfNoJobsPlaced, Zenon DEF Passes
  <2> QED
    BY <1>1, <1>5, <2>2, AheadFurther, Zenon
<1>7. ASSUME NEW x, NEW m, Halts(s, q, x, m, r)
      PROVE  Placed(r) /\ Ahead(q, r)
  <2>1. CASE r = RequestFinish(x, FALSE)
    <3>1. x \in Rip /\ ~x.finished /\ (x.processing => x.proc # 0)
      BY <1>4, <1>7, Zenon DEF Halts, Elsewhere
    <3>2. Moves(q, x, m)
      BY <1>4, <1>5, <1>7, Zenon DEF Halts, Elsewhere, Moves
    <3> QED
      BY <1>4, <1>5, <1>7, <2>1, <3>1, <3>2, MovesFails, Zenon DEF Halts, Elsewhere
  <2>2. CASE r = BeginReading(q, m)
    <3>1. /\ r.ex_index = m /\ r.reading = m
          /\ r.proc = q.proc /\ r.queue = q.queue /\ r.ripped = q.ripped
          /\ r.en_index = q.en_index /\ r.in_progress = q.in_progress
          /\ r.files = q.files /\ r.finished = q.finished
          /\ r.successful = q.successful
      BY <1>4, <2>2, BeginReadingFields, Zenon
    <3>2. Moves(q, r, m)
      BY <1>5, <1>7, <3>1, Zenon DEF Halts, Moves
    <3> QED
      BY <1>4, <1>5, <3>1, <3>2, MovesPlaced, Zenon
  <2> QED
    BY <1>7, <2>1, <2>2, Zenon DEF Halts
<1> QED
  BY <1>1, <1>3, <1>5, <1>6, <1>7, AheadFurther, Zenon

LEMMA StartExtractDiscPlaced ==
  ASSUME config \in Config, config.single_file, NEW s \in Rip, Ready(s),
         s.processing => s.proc # 0, Placed(s), ~s.finished, NEW bad \in Bad
  PROVE  Placed(StartExtractDisc(s, bad)) /\ Ahead(s, StartExtractDisc(s, bad))
<1>0. PICK q : q = [s EXCEPT !.ex_index = s.ex_index + 1]
  OBVIOUS
<1>1. /\ s.ex_count = s.ex_index /\ s.ex_index \in {0, 1} /\ s.reading = 0
      /\ Wanted = {1} /\ s.ex_index + 1 \in Nat
  BY WantedTracks DEF Ready, Counts
<1>2. CASE s.ex_count >= 1
  <2>1. StartExtractDisc(s, bad) = SuccessIfNoJobs(s)
    BY <1>2, Zenon DEF StartExtractDisc
  <2>2. \A t \in Wanted : t <= s.ex_index
    BY <1>1, <1>2
  <2> QED
    BY <1>1, <2>1, <2>2, SuccessIfNoJobsPlaced, Zenon
<1>3. CASE ~(s.ex_count >= 1)
  <2>1. s.ex_index = 0 /\ s.ex_index + 1 = 1 /\ s.ex_index < 1 /\ 1 >= 1 /\ 1 <= 1
    BY <1>1, <1>3
  <2>2. q \in Rip
    BY <1>0, <1>1, ZenonT(60) DEF Rip
  <2>3. /\ q.ex_index = 1 /\ q.reading = s.reading
        /\ q.proc = s.proc /\ q.processing = s.processing
        /\ q.queue = s.queue /\ q.ripped = s.ripped
        /\ q.en_index = s.en_index /\ q.in_progress = s.in_progress
        /\ q.files = s.files /\ q.finished = s.finished
        /\ q.successful = s.successful
    BY <1>0, <2>1, ZenonT(60) DEF Rip
  <2>4. Moves(s, q, 1)
    BY <1>1, <2>1, <2>3, Zenon DEF Moves
  <2>5. CASE bad # 0
    <3>1. StartExtractDisc(s, bad) = RequestFinish(q, FALSE)
      BY <1>0, <1>3, <2>5, Zenon DEF StartExtractDisc
    <3> QED
      BY <1>1, <2>2, <2>3, <2>4, <3>1, MovesFails, Zenon
  <2>6. CASE bad = 0 /\ AlreadyThere(q, 1)
    <3>1. StartExtractDisc(s, bad) = SuccessIfNoJobs(q)
      BY <1>0, <1>3, <2>6, Zenon DEF StartExtractDisc
    <3>2. NoJobs(s) /\ s.ex_count = 0
      BY <1>1, <2>1, Zenon DEF Ready
    <3>3. /\ ~InQueue(q, 1) /\ q.reading # 1 /\ q.proc # 1
      BY <1>1, <2>3, <3>2 DEF NoJobs, InQueue, Placed, Ordered
    <3>4. Stage(q, 1) = "through"
      BY <2>1, <2>3, <2>6, <3>3, Zenon DEF Stage
    <3>5. Placed(q) /\ Ahead(s, q)
      BY <1>1, <2>3, <2>4, <3>4, MovesPlaced, Zenon
    <3>6. \A t \in Wanted : t <= q.ex_index
      BY <1>1, <2>1, <2>3, Zenon
    <3>7. Placed(SuccessIfNoJobs(q)) /\ Ahead(q, SuccessIfNoJobs(q))
      BY <1>1, <2>2, <2>3, <3>5, <3>6, SuccessIfNoJobsPlaced, Zenon
    <3> QED
      BY <3>1, <3>5, <3>7, AheadFurther, Zenon
  <2>7. CASE bad = 0 /\ ~AlreadyThere(q, 1)
    <3>1. PICK r : r = BeginReading(q, 1)
      OBVIOUS
    <3>2. StartExtractDisc(s, bad) = r
      BY <1>0, <1>3, <2>7, <3>1, Zenon DEF StartExtractDisc
    <3>3. /\ r.ex_index = 1 /\ r.reading = 1
          /\ r.proc = q.proc /\ r.queue = q.queue /\ r.ripped = q.ripped
          /\ r.en_index = q.en_index /\ r.in_progress = q.in_progress
          /\ r.files = q.files /\ r.finished = q.finished
          /\ r.successful = q.successful
      BY <2>2, <3>1, BeginReadingFields, Zenon
    <3>4. Moves(s, r, 1)
      BY <1>1, <2>1, <2>3, <3>3, Zenon DEF Moves
    <3> QED
      BY <1>1, <2>3, <3>2, <3>3, <3>4, MovesPlaced, Zenon
  <2> QED
    BY <2>5, <2>6, <2>7
<1> QED
  BY <1>2, <1>3

LEMMA StartExtractPlaced ==
  ASSUME OnlyAudio, config \in Config, NEW s \in Rip, ~s.finished => Ready(s),
         s.processing => s.proc # 0, Placed(s), NEW bad \in Bad
  PROVE  Placed(StartExtract(s, bad)) /\ Ahead(s, StartExtract(s, bad))
<1>1. CASE s.finished
  BY <1>1, AheadOfItself, Zenon DEF StartExtract
<1>2. CASE ~s.finished /\ config.single_file
  BY <1>2, StartExtractDiscPlaced, Zenon DEF StartExtract
<1>3. CASE ~s.finished /\ ~config.single_file
  BY <1>3, StartExtractTracksPlaced, Zenon DEF StartExtract
<1> QED
  BY <1>1, <1>2, <1>3

-----------------------------------------------------------------------------
(* The encoding.                                                           *)

LEMMA PopsPlaced ==
  ASSUME config \in Config, NEW s \in Rip, Placed(s), ~s.finished, s.proc = 0,
         s.queue # <<>>, NEW r, Pops(s, r)
  PROVE  Placed(r) /\ Ahead(s, r)
<1>1. PICK h : h = Head(s.queue)
  OBVIOUS
<1>2. /\ s.queue \in Seq(Tracks) /\ r.queue = Tail(s.queue) /\ r.proc = h /\ r.en_index = h
      /\ r.in_progress /\ r.reading = s.reading /\ r.ex_index = s.ex_index
      /\ r.ripped = s.ripped /\ r.files = s.files
      /\ r.finished = s.finished /\ r.successful = s.successful
  BY <1>1, Numbers, Zenon DEF Pops
<1>3. /\ 1 \in DOMAIN s.queue /\ s.queue[1] = h
      /\ \A i \in DOMAIN r.queue : i + 1 \in DOMAIN s.queue /\ 1 < i + 1
                                   /\ r.queue[i] = s.queue[i + 1]
      /\ \A i \in DOMAIN s.queue : i = 1 \/ (i - 1 \in DOMAIN r.queue
                                             /\ r.queue[i - 1] = s.queue[i])
      /\ \A i, j \in DOMAIN r.queue : i < j => i + 1 < j + 1
  BY <1>1, <1>2
<1>4. /\ \A i \in DOMAIN s.queue : s.queue[i] \in Wanted /\ s.queue[i] <= s.ex_index
      /\ \A i, j \in DOMAIN s.queue : i < j => s.queue[i] < s.queue[j]
  BY Zenon DEF Placed, Ordered
<1>5. /\ \A i \in DOMAIN r.queue : r.queue[i] \in Wanted /\ r.queue[i] <= s.ex_index
      /\ \A i, j \in DOMAIN r.queue : i < j => r.queue[i] < r.queue[j]
      /\ \A i \in DOMAIN r.queue : h < r.queue[i]
  BY <1>3, <1>4, Zenon
<1>6. /\ InQueue(s, h) /\ \A t : InQueue(r, t) => InQueue(s, t)
      /\ \A t : InQueue(s, t) => t = h \/ InQueue(r, t)
  BY <1>3, Zenon DEF InQueue
<1>7. h \in Wanted /\ h <= s.ex_index /\ h # s.reading /\ h # 0
  <2>1. h \in Wanted /\ h <= s.ex_index
    BY <1>3, <1>4, Zenon
  <2>2. h # 0
    BY <2>1, WantedTracks, Zenon
  <2> QED
    BY <1>6, <2>1, <2>2, Zenon DEF Placed, Ordered
<1>8. Ordered(r)
  <2>1. \A t \in s.ripped : /\ t # 0 /\ t <= s.ex_index
                            /\ t # s.reading /\ t # h /\ ~InQueue(r, t)
    BY <1>6, Zenon DEF Placed, Ordered
  <2>2. s.reading # 0 => /\ s.reading \in Wanted /\ s.reading = s.ex_index
                         /\ ~InQueue(r, s.reading)
    BY <1>6, Zenon DEF Placed, Ordered
  <2> QED
    BY <1>2, <1>5, <1>7, <2>1, <2>2, Zenon DEF Ordered
<1>9. ASSUME NEW t \in Wanted
      PROVE  Stage(r, t) = Stage(s, t) \/ (Stage(s, t) = "queued" /\ Stage(r, t) = "encoding")
  <2>1. CASE t = h
    BY <1>2, <1>6, <1>7, <2>1, Zenon DEF Stage
  <2>2. CASE t # h
    <3>1. t # s.proc /\ t # r.proc /\ (InQueue(r, t) <=> InQueue(s, t))
      BY <1>2, <1>6, <2>2, WantedTracks, Zenon
    <3> QED
      BY <1>2, <3>1, Zenon DEF Stage, AlreadyThere
  <2> QED
    BY <2>1, <2>2
<1>10. Accounted(r)
  <2>1. "encoding" # "dropped"
    OBVIOUS
  <2> QED
    BY <1>2, <1>9, <2>1, Zenon DEF Placed, Accounted
<1>11. Just(r)
  BY <1>2, Zenon DEF Placed, Just
<1>12. Ahead(s, r)
  <2>1. "encoding" \in Job!Next1["queued"] /\ \A x \in StageNames : x \in Job!Next1[x]
    BY NextTable DEF StageNames
  <2> QED
    BY <1>9, <2>1, StageType, Zenon DEF Ahead
<1> QED
  BY <1>8, <1>10, <1>11, <1>12, Zenon DEF Placed

(* When the encoding has counted every track, each has been read, nothing  *)
(* is queued and nothing read (n: the tracks being read).                  *)
LEMMA AllCounted ==
  ASSUME config \in Config, NEW s \in Rip, Counts(s), NEW n \in Nat,
         s.en_count + Len(s.queue) + n = s.ex_count, s.en_count >= Limit
  PROVE  /\ n = 0 /\ s.queue = <<>>
         /\ \A t \in Wanted : t <= s.ex_index
<1>1. s.en_count \in Nat /\ s.ex_count \in Nat /\ s.queue \in Seq(Tracks) /\ s.ex_index \in Nat
  BY Zenon DEF Rip
<1>2. Len(s.queue) \in Nat
  BY <1>1
<1>3. Limit \in Nat /\ s.ex_count <= Limit /\ (s.ex_count = Limit => \A t \in Wanted : t <= s.ex_index)
  <2>1. CASE config.single_file
    BY <1>1, <2>1, WantedTracks DEF Counts, Limit
  <2>2. CASE ~config.single_file
    <3>1. /\ IsFiniteSet(config.selection) /\ UpTo(s.ex_index) \subseteq config.selection
          /\ Limit = Cardinality(config.selection) /\ Limit \in Nat
          /\ s.ex_count = Cardinality(UpTo(s.ex_index)) /\ Wanted = config.selection
      BY <2>2, SelectedTracks, WantedTracks DEF Counts, Limit, UpTo
    <3>2. /\ Cardinality(UpTo(s.ex_index)) <= Cardinality(config.selection)
          /\ Cardinality(UpTo(s.ex_index)) = Cardinality(config.selection)
               => UpTo(s.ex_index) = config.selection
      BY <3>1, FS_Subset, Zenon
    <3>3. UpTo(s.ex_index) = config.selection => \A t \in config.selection : t <= s.ex_index
      BY DEF UpTo
    <3> QED
      BY <3>1, <3>2, <3>3, Zenon
  <2> QED
    BY <2>1, <2>2
<1>4. n = 0 /\ Len(s.queue) = 0 /\ s.ex_count = Limit
  BY <1>1, <1>2, <1>3
<1> QED
  BY <1>1, <1>3, <1>4

LEMMA StartEncodePlaced ==
  ASSUME Regular, config \in Config, NEW s \in Rip, Placed(s), Counts(s), NEW n \in Nat,
         n = 0 => s.reading = 0, s.proc = 0 \/ s.queue # <<>>,
         s.processing <=> s.proc # 0,
         s.en_count + Len(s.queue) + n = s.ex_count, ~s.finished
  PROVE  LET r == StartEncode(s, TRUE)
         IN  Placed(r) /\ Ahead(s, r) /\ (r.processing => r.proc # 0)
<1>1. CASE s.en_count >= Limit
  <2>1. n = 0 /\ s.queue = <<>> /\ \A t \in Wanted : t <= s.ex_index
    BY <1>1, AllCounted, Zenon
  <2>2. s.reading = 0 /\ s.proc = 0
    BY <2>1, Zenon
  <2>3. \A t \in Wanted : Stage(s, t) = "through"
    BY <2>1, <2>2, AllThrough, Zenon DEF Placed
  <2>4. PICK r : r = RequestFinish(s, TRUE)
    OBVIOUS
  <2>5. StartEncode(s, TRUE) = r
    BY <1>1, <2>4, Zenon DEF StartEncode
  <2>6. Placed(r) /\ Ahead(s, r)
    BY <2>2, <2>3, <2>4, RequestFinishPlaced, Zenon DEF Placed
  <2>7. r.processing => r.proc # 0
    BY <2>4, RequestFinishEffect, Zenon DEF RequestsFinish, SameProcesses
  <2> QED
    BY <2>5, <2>6, <2>7, Zenon
<1>2. CASE ~(s.en_count >= Limit) /\ (s.processing \/ s.queue = <<>>)
  BY <1>2, AheadOfItself, Zenon DEF StartEncode
<1>3. CASE ~(s.en_count >= Limit) /\ ~s.processing /\ s.queue # <<>>
  <2>1. PICK r : r = StartEncode(s, TRUE)
    OBVIOUS
  <2>2. Pops(s, r) /\ Head(s.queue) \in Tracks
    BY <1>3, <2>1, StartEncodePops, Zenon
  <2>3. Placed(r) /\ Ahead(s, r)
    BY <1>3, <2>2, PopsPlaced, Zenon
  <2>4. r.proc # 0
    BY <2>2, ConstantsAssumption DEF Pops, Tracks
  <2> QED
    BY <2>1, <2>3, <2>4, Zenon
<1> QED
  BY <1>1, <1>2, <1>3

LEMMA AddsPlaced ==
  ASSUME config \in Config, NEW s \in Rip, Placed(s), s.reading # 0, ~s.finished,
         NEW j, Adds(s, j)
  PROVE  Placed(j) /\ Ahead(s, j)
<1>1. /\ s.queue \in Seq(Tracks) /\ s.ex_index \in Nat /\ s.proc \in Nat
      /\ s.reading = s.ex_index /\ s.ex_index \in Wanted /\ ~InQueue(s, s.ex_index)
      /\ s.proc # s.ex_index /\ s.ex_index # 0
      /\ \A i \in DOMAIN s.queue : s.queue[i] \in Nat
  BY Numbers, Zenon DEF Placed, Ordered
<1>2. /\ j.queue = Append(s.queue, s.ex_index) /\ j.reading = 0 /\ j.proc = s.proc
      /\ j.ex_index = s.ex_index /\ j.ripped = s.ripped /\ j.files = s.files
      /\ j.en_index = s.en_index /\ j.in_progress = s.in_progress
      /\ j.finished = s.finished /\ j.successful = s.successful
  BY Zenon DEF Adds
<1>3. /\ \A i \in DOMAIN s.queue : s.queue[i] < s.ex_index
      /\ s.proc # 0 => s.proc < s.ex_index
  BY <1>1 DEF Placed, Ordered, InQueue
<1>4. /\ \A i \in DOMAIN j.queue : \/ i \in DOMAIN s.queue /\ j.queue[i] = s.queue[i]
                                   \/ i = Len(s.queue) + 1 /\ j.queue[i] = s.ex_index
      /\ \A i \in DOMAIN s.queue : i \in DOMAIN j.queue /\ j.queue[i] = s.queue[i]
      /\ Len(s.queue) + 1 \in DOMAIN j.queue /\ j.queue[Len(s.queue) + 1] = s.ex_index
      /\ \A i \in DOMAIN s.queue : ~(Len(s.queue) + 1 < i)
      /\ ~(Len(s.queue) + 1 < Len(s.queue) + 1)
  BY <1>1, <1>2
<1>5. /\ \A t : InQueue(s, t) => InQueue(j, t)
      /\ \A t : InQueue(j, t) => InQueue(s, t) \/ t = s.ex_index
      /\ InQueue(j, s.ex_index)
  BY <1>4, Zenon DEF InQueue
<1>6. s.ex_index <= s.ex_index
  BY <1>1
<1>7. Ordered(j)
  <2>1. /\ \A i \in DOMAIN j.queue : j.queue[i] \in Wanted /\ j.queue[i] <= s.ex_index
        /\ \A i, k \in DOMAIN j.queue : i < k => j.queue[i] < j.queue[k]
    <3>1. /\ \A i \in DOMAIN s.queue : s.queue[i] \in Wanted /\ s.queue[i] <= s.ex_index
          /\ \A i, k \in DOMAIN s.queue : i < k => s.queue[i] < s.queue[k]
      BY Zenon DEF Placed, Ordered
    <3>2. \A i \in DOMAIN j.queue : j.queue[i] \in Wanted /\ j.queue[i] <= s.ex_index
      BY <1>1, <1>4, <1>6, <3>1, Zenon
    <3>3. ASSUME NEW i \in DOMAIN j.queue, NEW k \in DOMAIN j.queue, i < k
          PROVE  j.queue[i] < j.queue[k]
      <4>1. PICK l : l = Len(s.queue) + 1
        OBVIOUS
      <4>2. /\ \/ i \in DOMAIN s.queue /\ j.queue[i] = s.queue[i]
               \/ i = l /\ j.queue[i] = s.ex_index
            /\ \/ k \in DOMAIN s.queue /\ j.queue[k] = s.queue[k]
               \/ k = l /\ j.queue[k] = s.ex_index
            /\ i = l => ~(k \in DOMAIN s.queue) /\ k # l
        BY <1>4, <3>3, <4>1, Zenon
      <4> QED
        BY <1>3, <3>1, <3>3, <4>2, Zenon
    <3> QED
      BY <3>2, <3>3, Zenon
  <2>2. s.proc # 0 => /\ s.proc \in Wanted /\ s.proc <= s.ex_index
                      /\ s.en_index = s.proc /\ s.in_progress
                      /\ \A i \in DOMAIN j.queue : s.proc < j.queue[i]
    BY <1>3, <1>4, Zenon DEF Placed, Ordered
  <2>3. \A t \in s.ripped : /\ t <= s.ex_index /\ t # 0 /\ t # s.proc
                            /\ ~InQueue(j, t)
    <3>1. \A t \in s.ripped : /\ t # 0 /\ t <= s.ex_index
                              /\ t # s.ex_index /\ t # s.proc /\ ~InQueue(s, t)
      BY <1>1, Zenon DEF Placed, Ordered
    <3> QED
      BY <1>5, <3>1, Zenon
  <2> QED
    BY <1>2, <2>1, <2>2, <2>3, Zenon DEF Ordered
<1>8. ASSUME NEW t \in Wanted
      PROVE  \/ Stage(j, t) = Stage(s, t)
             \/ Stage(s, t) = "extracting" /\ Stage(j, t) = "queued"
  <2>1. t # 0
    BY WantedTracks
  <2>2. CASE t = s.reading
    BY <1>1, <1>2, <1>5, <2>1, <2>2, Zenon DEF Stage
  <2>3. CASE t # s.reading
    <3>1. InQueue(s, t) <=> InQueue(j, t)
      BY <1>1, <1>5, <2>3, Zenon
    <3> QED
      BY <1>2, <2>1, <2>3, <3>1, Zenon DEF Stage, AlreadyThere
  <2> QED
    BY <2>2, <2>3
<1>9. Accounted(j)
  BY <1>2, <1>8 DEF Placed, Accounted
<1>10. Just(j)
  BY <1>2, Zenon DEF Placed, Just
<1>11. Ahead(s, j)
  <2>1. "queued" \in Job!Next1["extracting"] /\ \A x \in StageNames : x \in Job!Next1[x]
    BY NextTable DEF StageNames
  <2> QED
    BY <1>8, <2>1, StageType, Zenon DEF Ahead
<1> QED
  BY <1>7, <1>9, <1>10, <1>11, Zenon DEF Placed

(* A track has been read: the next job is started and the next track read. *)
LEMMA FinishExtractPlaced ==
  ASSUME Regular, OnlyAudio, config \in Config, NEW s, Good(s), s.reading # 0, ~s.finished,
         Flows(s), Placed(s), NEW bad \in Bad
  PROVE  Placed(FinishExtract(s, TRUE, bad)) /\ Ahead(s, FinishExtract(s, TRUE, bad))
<1>1. /\ s \in Rip /\ s.reading = s.ex_index /\ s.reading \in 0..NTracks
      /\ s.processing <=> s.proc # 0
  BY Zenon DEF Good, Consistent, ThreadInv, Rip
<1>2. s.ex_index \in Tracks
  BY <1>1, ConstantsAssumption DEF Tracks
<1>3. PICK j : /\ Adds(s, j)
               /\ FinishExtract(s, TRUE, bad) = StartExtract(StartEncode(j, TRUE), bad)
  BY <1>1, <1>2, FinishExtractAdds, Zenon
<1>4. Placed(j) /\ Ahead(s, j)
  BY <1>1, <1>3, AddsPlaced, Zenon
<1>5. /\ j.processing <=> j.proc # 0
      /\ j.en_count + Len(j.queue) + 0 = j.ex_count
      /\ Counts(j) /\ 0 \in Nat
  BY <1>1, <1>2, <1>3, AddedFlows DEF Adds, Counts
<1>6. j \in Rip /\ j.reading = 0 /\ j.queue # <<>> /\ ~j.finished
  <2>1. j.queue # <<>>
    <3>1. s.queue \in Seq(Tracks) /\ j.queue = Append(s.queue, s.ex_index)
      BY <1>1, <1>3, Numbers, Zenon DEF Adds
    <3> QED
      BY <1>2, <3>1
  <2> QED
    BY <1>3, <2>1, Zenon DEF Adds
<1>7. PICK r : r = StartEncode(j, TRUE)
  OBVIOUS
<1>8. Placed(r) /\ Ahead(j, r) /\ (r.processing => r.proc # 0)
  BY <1>4, <1>5, <1>6, <1>7, StartEncodePlaced, Zenon
<1>9. r \in Rip /\ (~r.finished => Ready(r))
  BY <1>1, <1>2, <1>3, <1>7, ReadyAgain, Zenon
<1>10. PICK e : e = StartExtract(r, bad)
  OBVIOUS
<1>11. Placed(e) /\ Ahead(r, e)
  BY <1>8, <1>9, <1>10, StartExtractPlaced, Zenon
<1>12. Ahead(s, e)
  BY <1>4, <1>8, <1>11, AheadFurther, Zenon
<1> QED
  BY <1>3, <1>7, <1>10, <1>11, <1>12, Zenon

LEMMA ConcludeIfIdlePlaced ==
  ASSUME config \in Config, NEW s \in Rip, s.finished, Ordered(s), Just(s)
  PROVE  Placed(ConcludeIfIdle(s)) /\ Ahead(s, ConcludeIfIdle(s))
<1>1. PICK r : r = ConcludeIfIdle(s)
  OBVIOUS
<1>2. Same(r, s) /\ r.finished /\ r.successful = s.successful
  <2>1. PICK x : x = ExecuteFinish(s)
    OBVIOUS
  <2>2. x \in Rip
    BY <2>1, ExecuteFinishEffect, Zenon DEF ExecutesFinish
  <2>3. Same(x, s) /\ x.finished /\ x.successful = s.successful
    BY <2>1, <2>2, ZenonT(60) DEF ExecuteFinish, Rip, Same
  <2> QED
    BY <1>1, <2>1, <2>3, Zenon DEF ConcludeIfIdle, Same
<1>3. Ordered(r) /\ Ahead(s, r) /\ \A t \in Wanted : Stage(r, t) = Stage(s, t)
  BY <1>2, SamePlaced, Zenon
<1>4. Accounted(r) /\ Just(r)
  BY <1>2, <1>3, Zenon DEF Accounted, Just, Same
<1> QED
  BY <1>1, <1>3, <1>4, Zenon DEF Placed

(* What was being read is given up.                                        *)
LEMMA FinishedExtractPlaced ==
  ASSUME config \in Config, NEW s \in Rip, s.reading # 0, s.finished, Placed(s),
         NEW bad \in Bad
  PROVE  Placed(FinishExtract(s, TRUE, bad)) /\ Ahead(s, FinishExtract(s, TRUE, bad))
<1>1. PICK n : n = s.process_counter - 1
  OBVIOUS
<1>2. PICK w : w = IF s.empty THEN s.wav \ {s.ex_index} ELSE s.wav
  OBVIOUS
<1>3. PICK c : c = [s EXCEPT !.process_counter = n, !.reading = 0, !.wav = w]
  OBVIOUS
<1>4. PICK f : f = [c EXCEPT !.wav = w \ {s.ex_index}]
  OBVIOUS
<1>5. s.process_counter \in Int /\ s.wav \in SUBSET (0..NTracks)
  BY Zenon DEF Rip
<1>6. /\ w \in SUBSET (0..NTracks) /\ w \ {s.ex_index} \in SUBSET (0..NTracks)
      /\ n \in Int /\ 0 \in 0..NTracks
  <2>1. /\ w \in SUBSET (0..NTracks) /\ w \ {s.ex_index} \in SUBSET (0..NTracks)
    BY <1>2, <1>5, Zenon
  <2> QED
    BY <1>1, <1>5, <2>1, ConstantsAssumption
<1>7. c \in Rip
  BY <1>3, <1>5, <1>6, ZenonT(60) DEF Rip
<1>8. f \in Rip
  BY <1>4, <1>6, <1>7, ZenonT(60) DEF Rip
<1>9. /\ c.reading = 0 /\ c.proc = s.proc /\ c.queue = s.queue /\ c.ripped = s.ripped
      /\ c.ex_index = s.ex_index /\ c.en_index = s.en_index /\ c.in_progress = s.in_progress
      /\ c.files = s.files /\ c.finished = s.finished /\ c.successful = s.successful
      /\ c.wav = w
  BY <1>3, <1>5, <1>6, ZenonT(60) DEF Rip
<1>10. /\ f.reading = 0 /\ f.proc = s.proc /\ f.queue = s.queue /\ f.ripped = s.ripped
       /\ f.ex_index = s.ex_index /\ f.en_index = s.en_index /\ f.in_progress = s.in_progress
       /\ f.files = s.files /\ f.finished = s.finished /\ f.successful = s.successful
  BY <1>4, <1>7, <1>9, ZenonT(60) DEF Rip
<1>11. FinishExtract(s, TRUE, bad) = ConcludeIfIdle(f)
  BY <1>1, <1>2, <1>3, <1>4, <1>9, Zenon DEF FinishExtract
<1>12. \A t : InQueue(f, t) <=> InQueue(s, t)
  BY <1>10, Zenon DEF InQueue
<1>13. Ordered(f)
  BY <1>10, <1>12, Zenon DEF Placed, Ordered
<1>14. Just(f)
  BY <1>10, Zenon DEF Placed, Just
<1>15. ASSUME NEW t \in Wanted
       PROVE  \/ Stage(f, t) = Stage(s, t)
              \/ Stage(s, t) = "extracting" /\ Stage(f, t) \in {"through", "dropped"}
  <2>1. t # 0
    BY WantedTracks
  <2>2. CASE t = s.reading
    <3>1. t # s.proc /\ ~InQueue(s, t) /\ t = s.ex_index /\ t <= s.ex_index
      <4>1. t # s.proc /\ ~InQueue(s, t) /\ t = s.ex_index
        BY <2>2, Zenon DEF Placed, Ordered
      <4> QED
        BY <4>1, Numbers
    <3> QED
      BY <1>10, <1>12, <2>1, <2>2, <3>1 DEF Stage
  <2>3. CASE t # s.reading
    BY <1>10, <1>12, <2>1, <2>3, Zenon DEF Stage, AlreadyThere
  <2> QED
    BY <2>2, <2>3
<1>16. Ahead(s, f)
  <2>1. /\ "through" \in Job!Next1["extracting"] /\ "dropped" \in Job!Next1["extracting"]
        /\ \A x \in StageNames : x \in Job!Next1[x]
    BY NextTable DEF StageNames
  <2> QED
    BY <1>15, <2>1, StageType, Zenon DEF Ahead
<1>17. PICK r : r = ConcludeIfIdle(f)
  OBVIOUS
<1>18. Placed(r) /\ Ahead(f, r)
  BY <1>8, <1>10, <1>13, <1>14, <1>17, ConcludeIfIdlePlaced, Zenon
<1> QED
  BY <1>11, <1>16, <1>17, <1>18, AheadFurther, Zenon

(* The encoder has exited; its track is through.                           *)
Exits(s, d) ==
  /\ d.proc = 0 /\ d.ripped = s.ripped \cup {s.proc}
  /\ d.queue = s.queue /\ d.reading = s.reading /\ d.ex_index = s.ex_index
  /\ s.finished => d.finished
  /\ ~d.successful

LEMMA ExitsPlaced ==
  ASSUME config \in Config, NEW s \in Rip, Placed(s), s.proc # 0, NEW d, Exits(s, d)
  PROVE  Placed(d) /\ Ahead(s, d)
<1>1. \A t : InQueue(d, t) <=> InQueue(s, t)
  BY Zenon DEF InQueue, Exits
<1>2. s.proc \in Wanted /\ s.proc <= s.ex_index /\ s.proc # s.reading /\ ~InQueue(s, s.proc)
  <2>1. /\ s.proc \in Wanted /\ s.proc <= s.ex_index /\ s.proc # s.reading
        /\ \A i \in DOMAIN s.queue : s.proc < s.queue[i]
    BY Zenon DEF Placed, Ordered
  <2>2. \A i \in DOMAIN s.queue : s.proc # s.queue[i]
    BY <2>1, Numbers
  <2> QED
    BY <2>1, <2>2, Zenon DEF InQueue
<1>3. Ordered(d)
  BY <1>1, <1>2, Zenon DEF Placed, Ordered, Exits
<1>4. ASSUME NEW t \in Wanted
      PROVE  \/ Stage(d, t) = Stage(s, t)
             \/ Stage(s, t) = "encoding" /\ Stage(d, t) = "through"
  <2>1. t # 0
    BY WantedTracks
  <2>2. CASE t = s.proc
    BY <1>1, <1>2, <2>1, <2>2, Zenon DEF Stage, Exits
  <2>3. CASE t # s.proc
    <3>1. ~config.single_file
      BY <1>2, <2>3, WantedTracks
    <3>2. /\ t \in d.ripped <=> t \in s.ripped
          /\ t # d.proc /\ d.reading = s.reading /\ d.ex_index = s.ex_index
          /\ InQueue(d, t) <=> InQueue(s, t)
      BY <1>1, <2>1, <2>3, Zenon DEF Exits
    <3> QED
      BY <2>3, <3>1, <3>2, Zenon DEF Stage
  <2> QED
    BY <2>2, <2>3
<1>5. Accounted(d)
  <2>1. ASSUME ~d.finished, NEW t \in Wanted, t <= d.ex_index
        PROVE  Stage(d, t) # "dropped"
    <3>1. Stage(s, t) # "dropped"
      BY <2>1, Zenon DEF Placed, Accounted, Exits
    <3> QED
      BY <1>4, <3>1
  <2> QED
    BY <2>1, Zenon DEF Accounted
<1>6. Just(d)
  BY Zenon DEF Just, Exits
<1>7. Ahead(s, d)
  <2>1. /\ "through" \in Job!Next1["encoding"] /\ \A x \in StageNames : x \in Job!Next1[x]
    BY NextTable DEF StageNames
  <2> QED
    BY <1>4, <2>1, StageType, Zenon DEF Ahead
<1> QED
  BY <1>3, <1>5, <1>6, <1>7, Zenon DEF Placed

-----------------------------------------------------------------------------
(* Every action.                                                           *)

LEMMA PrepareFailsPlaced ==
  ASSUME JobInv, PrepareFails
  PROVE  Placed(rip') /\ Ahead(rip, rip')
<1>1. PICK s : s = [rip EXCEPT !.started = TRUE]
  OBVIOUS
<1>2. /\ Good(s) /\ s \in Rip /\ rip \in Rip /\ config \in Config
      /\ s.processing => s.proc # 0
  BY <1>1, StartsReady, Zenon DEF JobInv, FlowInv, Inv, TypeOK, PrepareFails, Good, Consistent
<1>3. Same(s, rip) /\ s.successful = rip.successful /\ s.finished = rip.finished
  BY <1>1, <1>2, ZenonT(60) DEF Rip, Same
<1>4. Ordered(s) /\ Ahead(rip, s) /\ Just(s)
  BY <1>2, <1>3, SamePlaced, Zenon DEF JobInv, Placed, Just, Same
<1>5. PICK r : r = RequestFinish(s, FALSE)
  OBVIOUS
<1>6. Placed(r) /\ Ahead(s, r)
  BY <1>2, <1>4, <1>5, RequestFinishPlaced, Zenon
<1>7. rip' = r
  BY <1>1, <1>5, Zenon DEF PrepareFails, SlotError
<1> QED
  BY <1>4, <1>6, <1>7, AheadFurther, Zenon

LEMMA StartPlaced ==
  ASSUME OnlyAudio, JobInv, NEW bad \in Bad, Start(bad)
  PROVE  Placed(rip') /\ Ahead(rip, rip')
<1>1. PICK s : s = [rip EXCEPT !.started = TRUE]
  OBVIOUS
<1>2. /\ Good(s) /\ Ready(s) /\ s \in Rip /\ rip \in Rip /\ config \in Config
      /\ s.processing => s.proc # 0
  BY <1>1, StartsReady, Zenon DEF JobInv, FlowInv, Inv, TypeOK, Start, Good, Consistent
<1>3. Same(s, rip) /\ s.successful = rip.successful /\ s.finished = rip.finished
  BY <1>1, <1>2, ZenonT(60) DEF Rip, Same
<1>4. Placed(s) /\ Ahead(rip, s)
  BY <1>2, <1>3, SamePlaced, Zenon DEF JobInv, Placed, Just, Accounted, Same
<1>5. CASE CheckPasses(config.free)
  <2>1. rip' = StartExtract(s, bad)
    BY <1>1, <1>5, Zenon DEF Start
  <2> QED
    BY <1>2, <1>4, <2>1, StartExtractPlaced, AheadFurther, Zenon
<1>6. CASE ~CheckPasses(config.free)
  <2>1. PICK q : q = RequestFinish(s, FALSE)
    OBVIOUS
  <2>2. Placed(q) /\ Ahead(s, q) /\ q \in Rip
    BY <1>2, <1>4, <2>1, RequestFinishPlaced, Zenon DEF Placed
  <2>3. q.finished
    BY <1>2, <2>1, RequestFinishEffect, Zenon DEF RequestsFinish
  <2>4. rip' = RequestFinish(q, FALSE)
    BY <1>1, <1>6, <2>1, Zenon DEF Start, SlotError
  <2>5. rip' = q
    BY <2>3, <2>4, Zenon DEF RequestFinish
  <2> QED
    BY <1>4, <2>2, <2>5, AheadFurther, Zenon
<1> QED
  BY <1>5, <1>6

LEMMA DeliverPlaced ==
  ASSUME Regular, OnlyAudio, JobInv, NEW bad \in Bad, Deliver(TRUE, bad)
  PROVE  Placed(rip') /\ Ahead(rip, rip')
<1>1. PICK s : /\ Takes(rip, s) /\ rip.reading # 0
               /\ rip' = IF Head(rip.events) = "error" THEN SlotError(s)
                         ELSE FinishExtract(s, TRUE, bad)
  BY DeliverTakes, Zenon DEF JobInv
<1>2. /\ Good(s) /\ s \in Rip /\ GoesOn(s) /\ s.reading # 0 /\ config \in Config
      /\ s.processing => s.proc # 0
  BY <1>1, SameFlowGoesOn, Zenon
     DEF Takes, SameFlow, Good, Consistent, Deliver, Alive, JobInv, FlowInv, Inv, TypeOK
<1>3. Same(s, rip) /\ s.successful = rip.successful /\ s.finished = rip.finished
  BY <1>1, Zenon DEF Takes, SameFlow, Same
<1>4. Placed(s) /\ Ahead(rip, s)
  BY <1>2, <1>3, SamePlaced, Zenon DEF JobInv, Placed, Just, Accounted, Same
<1>5. Placed(rip') /\ Ahead(s, rip')
  <2>1. CASE Head(rip.events) = "error"
    BY <1>1, <1>2, <1>4, <2>1, RequestFinishPlaced, Zenon DEF SlotError, Placed
  <2>2. CASE Head(rip.events) # "error" /\ s.finished
    BY <1>1, <1>2, <1>4, <2>2, FinishedExtractPlaced, Zenon
  <2>3. CASE Head(rip.events) # "error" /\ ~s.finished
    BY <1>1, <1>2, <1>4, <2>3, FinishExtractPlaced, Zenon DEF GoesOn
  <2> QED
    BY <2>1, <2>2, <2>3
<1> QED
  BY <1>4, <1>5, AheadFurther, Zenon

LEMMA EncoderExitsPlaced ==
  ASSUME Regular, JobInv, NEW ok \in BOOLEAN, EncoderExits(ok, TRUE)
  PROVE  Placed(rip') /\ Ahead(rip, rip')
<1>1. PICK x : /\ Ends(rip, x)
               /\ rip' = IF rip.termination \/ ok THEN FinishEncode(x, TRUE)
                         ELSE FinishEncode(SlotError(x), TRUE)
  BY EncoderExitsEnds, Zenon DEF JobInv
<1>2. /\ rip.started /\ config \in Config /\ rip \in Rip /\ x \in Rip
      /\ rip.proc # 0 /\ rip.en_index = rip.proc /\ ~rip.successful
  BY <1>1, Zenon
     DEF EncoderExits, Alive, JobInv, FlowInv, Inv, TypeOK, Ends, Placed, Ordered, Just
<1>3. PICK z : /\ z = IF rip.termination \/ ok THEN x ELSE SlotError(x)
               /\ rip' = FinishEncode(z, TRUE)
  BY <1>1
<1>4. /\ z \in Rip /\ z.proc = 0 /\ z.queue = rip.queue /\ z.reading = rip.reading
      /\ z.ex_index = rip.ex_index /\ z.en_index = rip.en_index
      /\ z.ripped = rip.ripped /\ ~z.successful /\ (rip.finished => z.finished)
      /\ z.finished \/ (z = x /\ ~rip.finished)
  <2>1. CASE rip.termination \/ ok
    BY <1>1, <1>2, <1>3, <2>1, Zenon DEF Ends
  <2>2. CASE ~(rip.termination \/ ok)
    <3>1. z = RequestFinish(x, FALSE)
      BY <1>3, <2>2, Zenon DEF SlotError
    <3>2. /\ z \in Rip /\ Same(z, x) /\ z.finished
          /\ z.successful = IF x.finished THEN x.successful ELSE FALSE
      BY <1>1, <3>1, RequestFinishKeeps, Zenon DEF Ends
    <3> QED
      BY <1>1, <1>2, <3>2, Zenon DEF Ends, Same
  <2> QED
    BY <2>1, <2>2
<1>5. PICK d : d = EncodeDone(z)
  OBVIOUS
<1>6. Done(z, d)
  BY <1>4, <1>5, EncodeDoneEffect, Zenon
<1>7. Exits(rip, d)
  BY <1>2, <1>4, <1>6, Zenon DEF Done, Exits
<1>8. Placed(d) /\ Ahead(rip, d)
  BY <1>2, <1>7, ExitsPlaced, Zenon DEF JobInv
<1>9. Placed(rip') /\ Ahead(d, rip')
  <2>1. CASE z.finished
    <3>1. d.finished /\ d \in Rip /\ rip' = ConcludeIfIdle(d)
      BY <1>3, <1>5, <1>6, <2>1, Zenon DEF Done, FinishEncode
    <3> QED
      BY <1>2, <1>8, <3>1, ConcludeIfIdlePlaced, Zenon DEF Placed
  <2>2. CASE ~z.finished
    <3>1. z = x /\ ~rip.finished /\ Flows(rip)
      BY <1>2, <1>4, <2>2, Zenon DEF JobInv, FlowInv, GoesOn
    <3>2. /\ ~d.finished /\ d \in Rip /\ rip' = StartEncode(d, TRUE)
          /\ d.proc = 0 /\ d.processing = FALSE
      BY <1>1, <1>3, <1>5, <1>6, <2>2, <3>1, Zenon DEF Done, FinishEncode, Ends
    <3>3. PICK n : n = N(rip.reading # 0)
      OBVIOUS
    <3>4. n \in Nat /\ (n = 0 => d.reading = 0)
      BY <1>4, <1>6, <3>3 DEF N, Done
    <3>5. d.en_count + Len(d.queue) + n = d.ex_count /\ Counts(d)
      BY <1>1, <1>6, <3>1, <3>3, Zenon DEF Flows, Balanced, Counts, Ends, Done
    <3> QED
      BY <1>2, <1>8, <3>2, <3>4, <3>5, StartEncodePlaced, Zenon
  <2> QED
    BY <2>1, <2>2
<1> QED
  BY <1>8, <1>9, AheadFurther, Zenon

LEMMA SameStatePlaced ==
  ASSUME JobInv, NEW r, Same(r, rip), r.finished = rip.finished, r.successful = rip.successful
  PROVE  Placed(r) /\ Ahead(rip, r)
<1>1. config \in Config
  BY Zenon DEF JobInv, FlowInv, Inv, TypeOK
<1> QED
  BY <1>1, SamePlaced, Zenon DEF JobInv, Placed, Just, Accounted, Same

LEMMA ThreadEndsPlaced ==
  ASSUME JobInv, NEW outcome, ThreadEnds(outcome)
  PROVE  Placed(rip') /\ Ahead(rip, rip')
<1>1. PICK e : e = IF outcome = "error" THEN <<"error", "finished">> ELSE <<"finished">>
  OBVIOUS
<1>2. PICK m : m = (outcome = "nothing")
  OBVIOUS
<1>3. rip \in Rip /\ rip' = [rip EXCEPT !.events = e, !.empty = m]
  BY <1>1, <1>2, Zenon DEF ThreadEnds, JobInv, FlowInv, Inv, TypeOK
<1>4. /\ Same(rip', rip) /\ rip'.finished = rip.finished
      /\ rip'.successful = rip.successful
  BY <1>3, ZenonT(60) DEF Rip, Same
<1> QED
  BY <1>4, SameStatePlaced, Zenon

LEMMA ThreadStartsPlaced ==
  ASSUME JobInv, ThreadStarts
  PROVE  Placed(rip') /\ Ahead(rip, rip')
<1>1. rip \in Rip
  BY Zenon DEF JobInv, FlowInv, Inv, TypeOK
<1>2. SameButRun(rip', rip)
  BY <1>1, ThreadStartsEffect, Zenon
<1>3. /\ Same(rip', rip) /\ rip'.finished = rip.finished
      /\ rip'.successful = rip.successful
  BY <1>2, Zenon DEF SameButRun, Same
<1> QED
  BY <1>3, SameStatePlaced, Zenon

LEMMA EncoderOpensPlaced ==
  ASSUME JobInv, EncoderOpens
  PROVE  Placed(rip') /\ Ahead(rip, rip')
<1>1. PICK f : f = [rip.files EXCEPT ![TargetOf[rip.proc]] = Partial(rip.proc)]
  OBVIOUS
<1>2. rip \in Rip /\ rip.proc # 0
  BY Zenon DEF EncoderOpens, JobInv, FlowInv, Inv, TypeOK
<1>3. rip' = [rip EXCEPT !.opened = TRUE, !.files = f]
  BY <1>1, <1>2, ZenonT(60) DEF EncoderOpens, Rip
<1>4. /\ Same(rip', rip) /\ rip'.finished = rip.finished
      /\ rip'.successful = rip.successful
  BY <1>2, <1>3, ZenonT(60) DEF Rip, Same
<1> QED
  BY <1>4, SameStatePlaced, Zenon

LEMMA CancelPlaced ==
  ASSUME JobInv, Cancel
  PROVE  Placed(rip') /\ Ahead(rip, rip')
<1>1. /\ config \in Config /\ rip \in Rip /\ (rip.processing => rip.proc # 0)
      /\ Ordered(rip) /\ Just(rip) /\ rip' = RequestFinish(rip, FALSE)
  BY Zenon DEF Cancel, JobInv, FlowInv, Inv, TypeOK, Good, Consistent, Placed
<1> QED
  BY <1>1, RequestFinishPlaced, Zenon

LEMMA NextPlaced ==
  ASSUME Regular, OnlyAudio, JobInv, Next
  PROVE  Placed(rip') /\ Ahead(rip, rip') /\ (rip.concluded = 0 \/ UNCHANGED rip)
<1>1. TRUE \in Starts /\ \A x \in Starts : x = TRUE
  BY DEF Starts, Regular
<1>2. /\ rip.concluded = N(rip.finished /\ rip.reading = 0 /\ rip.proc = 0)
      /\ rip.events # <<>> => rip.reading # 0
      /\ ~rip.started => ~rip.finished
  BY Zenon DEF JobInv, FlowInv, Inv, Good, Conclusive, Consistent, ThreadInv
<1>3. CASE PrepareFails
  <2>1. rip.concluded = 0
    BY <1>2, <1>3, Zenon DEF PrepareFails, N
  <2> QED
    BY <1>3, <2>1, PrepareFailsPlaced
<1>4. ASSUME NEW bad \in Bad, Start(bad)
      PROVE  Placed(rip') /\ Ahead(rip, rip') /\ rip.concluded = 0
  <2>1. rip.concluded = 0
    BY <1>2, <1>4, Zenon DEF Start, N
  <2> QED
    BY <1>4, <2>1, StartPlaced
<1>5. CASE ThreadStep
  <2>1. rip.concluded = 0
    BY <1>2, <1>5, Zenon DEF ThreadStep, ThreadChecks, ThreadResets, ThreadEnds, N
  <2> QED
    BY <1>5, <2>1, ThreadEndsPlaced, ThreadStartsPlaced, Zenon DEF ThreadStep, ThreadStarts
<1>6. CASE LoopStep
  <2>1. PICK bad \in Bad : Deliver(TRUE, bad)
    BY <1>1, <1>6, Zenon DEF LoopStep
  <2>2. rip.concluded = 0
    BY <1>2, <2>1, Zenon DEF Deliver, N
  <2> QED
    BY <2>1, <2>2, DeliverPlaced
<1>7. CASE EncoderOpens
  <2>1. rip.concluded = 0
    BY <1>2, <1>7, Zenon DEF EncoderOpens, N
  <2> QED
    BY <1>7, <2>1, EncoderOpensPlaced
<1>8. CASE EncoderStep
  <2>1. ~EncoderCrashes(TRUE)
    BY DEF Regular, EncoderCrashes
  <2>2. PICK ok \in BOOLEAN : EncoderExits(ok, TRUE)
    BY <1>1, <1>8, <2>1, Zenon DEF EncoderStep
  <2>3. rip.concluded = 0
    BY <1>2, <2>2, Zenon DEF EncoderExits, N
  <2> QED
    BY <2>2, <2>3, EncoderExitsPlaced
<1>9. CASE Cancel
  BY <1>9, CancelPlaced DEF Cancel
<1>10. CASE Rest
  <2>1. rip' = rip
    BY <1>10, Zenon DEF Rest, vars
  <2>2. Ahead(rip, rip)
    BY AheadOfItself, Zenon
  <2> QED
    BY <2>1, <2>2, Zenon DEF JobInv
<1> QED
  BY <1>3, <1>4, <1>5, <1>6, <1>7, <1>8, <1>9, <1>10, Zenon DEF Next

LEMMA InitJob ==
  ASSUME Init
  PROVE  JobInv /\ Job!JobInit
<1>1. PICK f : rip = NewRip(f)
  BY Zenon DEF Init
<1>2. /\ rip.queue = <<>> /\ rip.reading = 0 /\ rip.proc = 0 /\ rip.ripped = {}
      /\ rip.ex_index = 0 /\ ~rip.finished /\ ~rip.successful /\ rip.concluded = 0
  BY <1>1, ZenonT(60) DEF NewRip
<1>3. config \in Config /\ rip \in Rip /\ FlowInv
  BY InitFlow, Zenon DEF FlowInv, Inv, TypeOK
<1>4. Ordered(rip)
  BY <1>2 DEF Ordered
<1>5. \A t \in Wanted : t > rip.ex_index
  BY <1>2, <1>3, WantedTracks
<1>6. \A t \in Wanted : Stage(rip, t) = "waiting"
  BY <1>3, <1>4, <1>5, Waits, Zenon
<1>7. Placed(rip)
  <2>1. "waiting" # "dropped"
    OBVIOUS
  <2> QED
    BY <1>2, <1>4, <1>6, <2>1, Zenon DEF Placed, Accounted, Just
<1>8. [t \in Wanted |-> StageOf(t)] = [t \in Wanted |-> "waiting"]
  <2>1. \A t \in Wanted : StageOf(t) = Stage(rip, t)
    BY Zenon DEF StageOf, Stage, InQueue
  <2> QED
    BY <1>6, <2>1
<1> QED
  BY <1>2, <1>3, <1>7, <1>8 DEF JobInv, Job!JobInit

LEMMA NextJobInv ==
  ASSUME Regular, OnlyAudio, JobInv, [Next]_vars
  PROVE  JobInv'
<1>1. FlowInv' /\ config' = config
  BY NextFlow, NextKeeps, Zenon DEF JobInv, FlowInv, Keeps
<1>2. Placed(rip')
  BY NextPlaced, Zenon DEF JobInv, vars
<1>3. Placed(rip)'
  BY <1>1, <1>2, Zenon
     DEF Placed, Ordered, Accounted, Just, Stage, InQueue, AlreadyThere, Wanted
<1> QED
  BY <1>1, <1>3 DEF JobInv

(* The orders and the rest of the abstract rip.                            *)
LEMMA StagesInOrder ==
  ASSUME config \in Config, NEW s \in Rip, Ordered(s)
  PROVE  LET st == [t \in Wanted |-> Stage(s, t)]
         IN  Job!InOrder(st) /\ Job!OneEach(st)
             /\ (s.reading = 0 /\ s.proc = 0 => Job!AtRest(st))
<1> DEFINE st == [t \in Wanted |-> Stage(s, t)]
<1>1. \A t \in Wanted : t \in Nat /\ t # 0
  BY WantedTracks
<1>2. \A t \in Wanted : /\ st[t] = "extracting" => t = s.reading
                        /\ st[t] = "encoding" => t = s.proc
                        /\ st[t] = "queued" => InQueue(s, t)
                        /\ st[t] = "waiting" => ~(t <= s.ex_index)
                        /\ t > s.ex_index => st[t] = "waiting"
  <2>1. ASSUME NEW t \in Wanted
        PROVE  /\ Stage(s, t) = "extracting" => t = s.reading
               /\ Stage(s, t) = "encoding" => t = s.proc
               /\ Stage(s, t) = "queued" => InQueue(s, t)
               /\ Stage(s, t) = "waiting" => ~(t <= s.ex_index)
               /\ t > s.ex_index => Stage(s, t) = "waiting"
    <3>1. Stage(s, t) = "extracting" => t = s.reading
      BY DEF Stage
    <3>2. Stage(s, t) = "encoding" => t = s.proc
      BY DEF Stage
    <3>3. Stage(s, t) = "queued" => InQueue(s, t)
      BY DEF Stage
    <3>4. Stage(s, t) = "waiting" => ~(t <= s.ex_index)
      BY DEF Stage
    <3> QED
      BY <3>1, <3>2, <3>3, <3>4, Waits, Zenon
  <2> QED
    BY <2>1
<1> HIDE DEF st
<1>3. ASSUME NEW t \in Wanted, NEW u \in Wanted, t < u, st[t] = "waiting"
      PROVE  st[u] = "waiting"
  BY <1>1, <1>2, <1>3, Numbers
<1>4. ASSUME NEW t \in Wanted, NEW u \in Wanted, t < u, st[t] = "queued", st[u] = "encoding"
      PROVE  FALSE
  <2>1. InQueue(s, t) /\ u = s.proc /\ s.proc # 0
    BY <1>1, <1>2, <1>4, Zenon
  <2>2. u < t
    BY <2>1, Zenon DEF InQueue, Ordered
  <2> QED
    BY <1>1, <1>4, <2>2
<1>5. Job!InOrder(st)
  BY <1>3, <1>4, Zenon DEF Job!InOrder
<1>6. Job!OneEach(st)
  BY <1>2 DEF Job!OneEach
<1>7. s.reading = 0 /\ s.proc = 0 => Job!AtRest(st)
  BY <1>1, <1>2 DEF Job!AtRest
<1> QED
  BY <1>5, <1>6, <1>7 DEF st

LEMMA NextJob ==
  ASSUME Regular, OnlyAudio, JobInv, [Next]_vars
  PROVE  [Job!Step]_(Job!jobvars)
<1>1. CASE UNCHANGED <<config, rip>>
  BY <1>1 DEF Job!jobvars, Wanted, StageOf, AlreadyThere
<1>2. CASE ~UNCHANGED <<config, rip>>
  <2>1. config' = config /\ config \in Config /\ JobInv'
    BY NextJobInv, NextKeeps, Zenon DEF JobInv, FlowInv, Inv, TypeOK, Keeps
  <2>2. Next
    BY <1>2 DEF vars
  <2>3. Placed(rip') /\ Ahead(rip, rip') /\ rip.concluded = 0
    BY <1>2, <2>1, <2>2, NextPlaced
  <2>4. rip' \in Rip /\ (rip'.concluded # 0 => rip'.reading = 0 /\ rip'.proc = 0)
    <3>1. rip' \in Rip /\ rip'.concluded = N(rip'.finished /\ rip'.reading = 0 /\ rip'.proc = 0)
      BY <2>1, Zenon DEF JobInv, FlowInv, Inv, Good, Consistent, Conclusive
    <3> QED
      BY <3>1 DEF N
  <2>5. Wanted' = Wanted
    BY <2>1 DEF Wanted
  <2> DEFINE st == [t \in Wanted |-> Stage(rip', t)]
  <2>6. [t \in Wanted |-> StageOf(t)] = [t \in Wanted |-> Stage(rip, t)]
    BY DEF StageOf, Stage, InQueue
  <2>7. [t \in Wanted |-> StageOf(t)]' = st
    BY <2>1, <2>5 DEF StageOf, Stage, InQueue, AlreadyThere
  <2>8. /\ Job!InOrder(st) /\ Job!OneEach(st)
        /\ rip'.reading = 0 /\ rip'.proc = 0 => Job!AtRest(st)
    BY <2>1, <2>3, <2>4, StagesInOrder, Zenon DEF Placed
  <2>9. /\ st \in [Wanted -> Job!Stages]
        /\ \A t \in Wanted : st[t] \in Job!Next1[[u \in Wanted |-> Stage(rip, u)][t]]
    BY <2>3, StageType DEF Ahead, StageNames, Job!Stages
  <2>10. rip'.successful => \A t \in Wanted : st[t] = "through"
    BY <2>3 DEF Placed, Just
  <2> HIDE DEF st
  <2>11. Job!Step
    BY <2>3, <2>4, <2>5, <2>6, <2>7, <2>8, <2>9, <2>10 DEF Job!Step
  <2> QED
    BY <2>11
<1> QED
  BY <1>1, <1>2

(* A rip is what RipJob says, for any disc whose selectable tracks are     *)
(* audio tracks: each wanted track goes forward through the pipeline, one  *)
(* at a time is extracted and one encoded, in the order of the disc, and   *)
(* there is one verdict, of a rip at rest; a success is claimed only when  *)
(* every track is through.                                                 *)
THEOREM RefinesRipJob ==
  ASSUME Regular, OnlyAudio
  PROVE  Spec => ImplementsRipJob
<1>1. Init => JobInv /\ Job!JobInit
  BY InitJob
<1>2. JobInv /\ [Next]_vars => JobInv'
  BY NextJobInv
<1>3. JobInv /\ [Next]_vars => [Job!Step]_(Job!jobvars)
  BY NextJob
<1> QED
  BY <1>1, <1>2, <1>3, PTL DEF Spec, ImplementsRipJob, Job!Spec

-----------------------------------------------------------------------------
(* What a rip does to the target files, for any naming scheme that gives   *)
(* every track a file of its own and any existing files.  And when it      *)
(* removes the temporary wave files, for any naming scheme.                *)

OwnFiles == \A t, u \in Tracks : TargetOf[t] = TargetOf[u] => t = u

File(s, t) == s.files[TargetOf[t]]

(* A file that an encoder may be started for, and one that is as it should *)
(* be when its track is through.                                           *)
Free(c)    == c = Absent \/ (c = Old /\ config.overwrite)
Kept(c, t) == c = Complete(t) \/ (c = Old /\ ~config.overwrite)

Lost(s) == s.finished /\ ~s.successful

(* The file of a track not yet encoded is as it was before the rip.        *)
Coming(s) ==
  \A t \in Wanted :
    /\ t # s.proc /\ t \notin s.ripped => File(s, t) \in {Absent, Old}
    /\ t = s.reading \/ InQueue(s, t) => Free(File(s, t))

(* An encoder writes its own file, which is removed when it is told to     *)
(* stop and partial files are not wanted.                                  *)
Encoding(s) ==
  s.proc # 0 =>
    /\ s.filename = s.proc
    /\ s.termination => Lost(s)
    /\ ~s.opened => Free(File(s, s.proc))
    /\ s.opened => \/ File(s, s.proc) = Partial(s.proc)
                   \/ s.termination /\ File(s, s.proc) = Absent
    /\ s.opened /\ s.termination /\ config.delete_fraction_files =>
         File(s, s.proc) = Absent

(* Until the rip is lost, a track that is through has its file.            *)
Through(s) == \A t \in s.ripped : Kept(File(s, t), t) \/ Lost(s)

(* A partial file is the encoder's, or what a lost rip leaves.             *)
Strays(s) ==
  \A f \in Files : s.files[f].state = "partial" =>
    \/ s.proc # 0 /\ f = TargetOf[s.proc]
    \/ s.finished /\ ~(s.termination /\ config.delete_fraction_files)

(* The verdict comes with the list of what was ripped.                     *)
Listed(s) ==
  /\ ~s.finished => s.concluded = 0
  /\ s.successful /\ s.concluded # 0 /\ ~config.single_file => s.listed = config.selection

Filed(s) == Coming(s) /\ Encoding(s) /\ Through(s) /\ Strays(s) /\ Listed(s)

FileInv ==
  /\ JobInv
  /\ Filed(rip)
  /\ cancelled => Lost(rip)
  /\ \A t \in encoded : File(rip, t) = Complete(t)

(* No step touches what is complete, or was there and is to be kept; and   *)
(* none takes back a verdict.                                              *)
Spares(s, r) ==
  \A f \in Files : \/ s.files[f].state = "complete"
                   \/ s.files[f].state = "old" /\ ~config.overwrite
                   => r.files[f] = s.files[f]

Final(s, r) == s.finished => r.finished /\ r.successful = s.successful

Onward(s, r) == Spares(s, r) /\ Final(s, r)

-----------------------------------------------------------------------------
(* Files.                                                                  *)

LEMMA Contents ==
  /\ Absent.state = "absent" /\ Old.state = "old" /\ Absent # Old
  /\ \A t : /\ Partial(t).state = "partial" /\ Complete(t).state = "complete"
            /\ Partial(t) # Absent /\ Partial(t) # Old /\ Partial(t) # Complete(t)
BY DEF Absent, Old, Partial, Complete

LEMMA Targets ==
  ASSUME OwnFiles
  PROVE  \A t, u \in Tracks : TargetOf[t] \in Files /\ (TargetOf[t] = TargetOf[u] => t = u)
BY ConstantsAssumption DEF OwnFiles

LEMMA RippedTracks ==
  ASSUME NEW s \in Rip, Ordered(s)
  PROVE  \A t \in s.ripped : t \in Tracks
<1>1. s.ripped \subseteq 0..NTracks /\ \A t \in s.ripped : t # 0
  BY Zenon DEF Rip, Ordered
<1> QED
  BY <1>1, ConstantsAssumption DEF Tracks

LEMMA OnwardFurther ==
  ASSUME NEW s, NEW q, NEW r, Onward(s, q), Onward(q, r)
  PROVE  Onward(s, r)
<1>1. Final(s, r)
  BY Zenon DEF Onward, Final
<1>2. ASSUME NEW f \in Files, \/ s.files[f].state = "complete"
                              \/ s.files[f].state = "old" /\ ~config.overwrite
      PROVE  r.files[f] = s.files[f]
  <2>1. q.files[f] = s.files[f]
    BY <1>2, Zenon DEF Onward, Spares
  <2>2. \/ q.files[f].state = "complete"
        \/ q.files[f].state = "old" /\ ~config.overwrite
    BY <1>2, <2>1, Zenon
  <2>3. r.files[f] = q.files[f]
    BY <2>2, Zenon DEF Onward, Spares
  <2> QED
    BY <2>1, <2>3, Zenon
<1> QED
  BY <1>1, <1>2, Zenon DEF Onward, Spares

(* The tracks move on and no file is touched.                              *)
Shifts(s, r) ==
  /\ r.files = s.files /\ r.proc = s.proc /\ SameRest(r, s)
  /\ r.finished = s.finished /\ r.successful = s.successful
  /\ \A t \in Wanted : t = r.reading \/ InQueue(r, t) =>
       t = s.reading \/ InQueue(s, t) \/ Free(File(s, t))
  /\ s.ripped \subseteq r.ripped
  /\ \A t \in r.ripped : t \in s.ripped \/ Kept(File(s, t), t)

LEMMA ShiftsFiled ==
  ASSUME NEW s, NEW r, Filed(s), Shifts(s, r)
  PROVE  Filed(r) /\ Onward(s, r)
<1>1. \A t : File(r, t) = File(s, t)
  BY Zenon DEF File, Shifts
<1>2. Lost(r) <=> Lost(s)
  BY Zenon DEF Lost, Shifts
<1>3. Coming(r)
  BY <1>1, Zenon DEF Filed, Coming, Shifts
<1>4. Encoding(r)
  BY <1>1, <1>2, Zenon DEF Filed, Encoding, Shifts, SameRest
<1>5. Through(r)
  BY <1>1, <1>2, Zenon DEF Filed, Through, Shifts
<1>6. Strays(r)
  BY Zenon DEF Filed, Strays, Shifts, SameRest
<1>7. Listed(r)
  BY Zenon DEF Filed, Listed, Shifts, SameRest
<1>8. Onward(s, r)
  BY Zenon DEF Onward, Spares, Final, Shifts
<1> QED
  BY <1>3, <1>4, <1>5, <1>6, <1>7, <1>8 DEF Filed

-----------------------------------------------------------------------------
(* The end of the rip.                                                     *)

(* A first request to finish.                                              *)
Stops(s, r, ok) ==
  /\ r.finished /\ r.successful = ok
  /\ r.proc = s.proc /\ r.ripped = s.ripped /\ r.reading = s.reading /\ r.queue = s.queue
  /\ r.filename = s.filename /\ r.opened = s.opened
  /\ \/ r.files = s.files /\ r.termination = s.termination
     \/ /\ s.processing /\ r.termination
        /\ r.files = IF config.delete_fraction_files /\ s.filename # 0
                     THEN [s.files EXCEPT ![TargetOf[s.filename]] = Absent]
                     ELSE s.files
  /\ \/ r.concluded = s.concluded
     \/ r.listed = IF ok THEN s.ripped \cap AudioTracks \cap config.selection ELSE {}

LEMMA RequestFinishStops ==
  ASSUME NEW s \in Rip, NEW ok \in BOOLEAN, ~s.finished
  PROVE  Stops(s, RequestFinish(s, ok), ok)
<1>1. PICK q : q = [s EXCEPT !.finished = TRUE, !.successful = ok]
  OBVIOUS
<1>2. q \in Rip
  BY <1>1, ZenonT(60) DEF Rip
<1>3. /\ q.finished /\ q.successful = ok
      /\ q.proc = s.proc /\ q.ripped = s.ripped /\ q.reading = s.reading
      /\ q.queue = s.queue /\ q.filename = s.filename /\ q.opened = s.opened
      /\ q.files = s.files /\ q.termination = s.termination
      /\ q.concluded = s.concluded /\ q.processing = s.processing
  BY <1>1, ZenonT(60) DEF Rip
<1>4. PICK c : c = CancelEncoder(q)
  OBVIOUS
<1>5. c \in Rip
  BY <1>2, <1>4, CancelEncoderEffect, Zenon DEF CancelsEncoder
<1>6. PICK e : e = CancelExtract(c)
  OBVIOUS
<1>7. Stops(s, c, ok) /\ c.concluded = s.concluded
  <2>1. CASE ~q.processing
    BY <1>3, <1>4, <2>1, Zenon DEF CancelEncoder, Stops
  <2>2. CASE q.processing
    <3>1. PICK f : f = IF config.delete_fraction_files /\ q.filename # 0
                       THEN [q.files EXCEPT ![TargetOf[q.filename]] = Absent]
                       ELSE q.files
      OBVIOUS
    <3>2. c = [q EXCEPT !.termination = TRUE, !.files = f]
      BY <1>4, <2>2, <3>1, Zenon DEF CancelEncoder
    <3>3. /\ c.finished = q.finished /\ c.successful = q.successful
          /\ c.proc = q.proc /\ c.ripped = q.ripped /\ c.reading = q.reading
          /\ c.queue = q.queue /\ c.filename = q.filename /\ c.opened = q.opened
          /\ c.files = f /\ c.termination /\ c.concluded = q.concluded
      BY <1>2, <3>2, ZenonT(60) DEF Rip
    <3> QED
      BY <1>3, <2>2, <3>1, <3>3, Zenon DEF Stops
  <2> QED
    BY <2>1, <2>2
<1>8. Stops(s, e, ok)
  <2>1. /\ e.finished = c.finished /\ e.successful = c.successful
        /\ e.proc = c.proc /\ e.ripped = c.ripped /\ e.reading = c.reading
        /\ e.queue = c.queue /\ e.filename = c.filename /\ e.opened = c.opened
        /\ e.files = c.files /\ e.termination = c.termination /\ e.concluded = c.concluded
    BY <1>5, <1>6, ZenonT(60) DEF CancelExtract, Rip
  <2> QED
    BY <1>7, <2>1, Zenon DEF Stops
<1>9. PICK x : x = ExecuteFinish(q)
  OBVIOUS
<1>10. Stops(s, x, ok)
  <2>1. /\ x.finished = q.finished /\ x.successful = q.successful
        /\ x.proc = q.proc /\ x.ripped = q.ripped /\ x.reading = q.reading
        /\ x.queue = q.queue /\ x.filename = q.filename /\ x.opened = q.opened
        /\ x.files = q.files /\ x.termination = q.termination
        /\ x.listed = IF q.successful
                      THEN q.ripped \cap AudioTracks \cap config.selection ELSE {}
    BY <1>2, <1>9, ZenonT(60) DEF ExecuteFinish, Rip
  <2> QED
    BY <1>3, <2>1, Zenon DEF Stops
<1>11. RequestFinish(s, ok) \in {e, x}
  BY <1>1, <1>4, <1>6, <1>9, Zenon DEF RequestFinish
<1> QED
  BY <1>8, <1>10, <1>11, Zenon

(* What the files are after a first request to finish.                     *)
LEMMA StopsFiles ==
  ASSUME OwnFiles, config \in Config, NEW s \in Rip, NEW ok \in BOOLEAN, NEW r,
         s.processing => s.proc # 0, Ordered(s), Filed(s), ~s.finished, Stops(s, r, ok)
  PROVE  /\ \A f \in Files : r.files[f] \in {s.files[f], Absent}
         /\ s.proc = 0 => r.files = s.files /\ r.termination = s.termination
         /\ \A f \in Files : r.files[f] # s.files[f] => s.proc # 0 /\ f = TargetOf[s.proc]
         /\ r.termination => \/ s.proc = 0 \/ ~config.delete_fraction_files
                             \/ File(r, s.proc) = Absent
<1>1. s.files \in [Files -> Content] /\ s.proc \in 0..NTracks /\ s.proc \in Nat
  BY Numbers, Zenon DEF Rip
<1>2. CASE r.files = s.files /\ r.termination = s.termination
  <2>1. s.proc # 0 => ~s.termination
    BY Zenon DEF Filed, Encoding, Lost
  <2> QED
    BY <1>2, <2>1, Zenon
<1>3. CASE /\ s.processing /\ r.termination
           /\ r.files = IF config.delete_fraction_files /\ s.filename # 0
                        THEN [s.files EXCEPT ![TargetOf[s.filename]] = Absent]
                        ELSE s.files
  <2>1. s.proc # 0 /\ s.filename = s.proc
    BY <1>3, Zenon DEF Filed, Encoding
  <2>2. s.proc \in Tracks /\ TargetOf[s.proc] \in Files
    BY <1>1, <2>1, ConstantsAssumption DEF Tracks
  <2>3. CASE config.delete_fraction_files
    <3>1. r.files = [s.files EXCEPT ![TargetOf[s.proc]] = Absent]
      BY <1>3, <2>1, <2>3, Zenon
    <3>2. /\ \A f \in Files : r.files[f] = IF f = TargetOf[s.proc] THEN Absent ELSE s.files[f]
      BY <1>1, <2>2, <3>1
    <3> QED
      BY <2>1, <2>2, <3>2, Zenon DEF File
  <2>4. CASE ~config.delete_fraction_files
    BY <1>3, <2>1, <2>4, Zenon
  <2> QED
    BY <2>3, <2>4
<1> QED
  BY <1>2, <1>3, Zenon DEF Stops

LEMMA StopsFiled ==
  ASSUME OwnFiles, OnlyAudio, config \in Config, NEW s \in Rip, NEW ok \in BOOLEAN, NEW r,
         s.processing => s.proc # 0, Ordered(s), Filed(s), ~s.finished, Stops(s, r, ok),
         ok => /\ s.reading = 0 /\ s.proc = 0
               /\ \A t \in Wanted : Stage(s, t) = "through"
  PROVE  Filed(r) /\ Onward(s, r)
<1>1. /\ \A f \in Files : r.files[f] \in {s.files[f], Absent}
      /\ s.proc = 0 => r.files = s.files /\ r.termination = s.termination
      /\ \A f \in Files : r.files[f] # s.files[f] => s.proc # 0 /\ f = TargetOf[s.proc]
      /\ r.termination => \/ s.proc = 0 \/ ~config.delete_fraction_files
                          \/ File(r, s.proc) = Absent
  BY StopsFiles, Zenon
<1>2. /\ r.finished /\ r.successful = ok
      /\ r.proc = s.proc /\ r.ripped = s.ripped /\ r.reading = s.reading
      /\ r.queue = s.queue /\ r.filename = s.filename /\ r.opened = s.opened
  BY Zenon DEF Stops
<1>3. /\ \A t \in Wanted : t \in Tracks /\ TargetOf[t] \in Files
      /\ \A t \in s.ripped : TargetOf[t] \in Files
      /\ s.proc # 0 => s.proc \in Wanted
  BY WantedTracks, RippedTracks, Targets, Zenon DEF Ordered
<1>4. Coming(r)
  <2>1. ASSUME NEW t \in Wanted PROVE File(r, t) \in {File(s, t), Absent}
    BY <1>1, <1>3, Zenon DEF File
  <2>2. ASSUME NEW t \in Wanted, t # r.proc /\ t \notin r.ripped
        PROVE  File(r, t) \in {Absent, Old}
    BY <1>2, <2>1, <2>2, Zenon DEF Filed, Coming
  <2>3. ASSUME NEW t \in Wanted, t = r.reading \/ InQueue(r, t)
        PROVE  Free(File(r, t))
    <3>1. Free(File(s, t))
      BY <1>2, <2>3, Zenon DEF Filed, Coming, InQueue
    <3> QED
      BY <2>1, <3>1, Zenon DEF Free
  <2> QED
    BY <2>2, <2>3, Zenon DEF Coming
<1>5. Encoding(r)
  <2>1. CASE s.proc = 0
    BY <1>2, <2>1, Zenon DEF Encoding
  <2>2. CASE s.proc # 0
    <3>1. File(r, s.proc) \in {File(s, s.proc), Absent} /\ ~ok /\ Lost(r)
      BY <1>1, <1>2, <1>3, <2>2, Zenon DEF File, Lost
    <3>2. ~s.termination
      BY <2>2, Zenon DEF Filed, Encoding, Lost
    <3>3. File(r, s.proc) # File(s, s.proc) => r.termination
      BY <3>1, <3>2, Zenon DEF Stops, File
    <3>4. ~s.opened => Free(File(r, s.proc))
      BY <2>2, <3>1, Zenon DEF Filed, Encoding, Free
    <3>5. s.opened => \/ File(r, s.proc) = Partial(s.proc)
                      \/ r.termination /\ File(r, s.proc) = Absent
      BY <2>2, <3>1, <3>2, <3>3, Zenon DEF Filed, Encoding
    <3> QED
      BY <1>1, <1>2, <2>2, <3>1, <3>4, <3>5, Zenon DEF Filed, Encoding
  <2> QED
    BY <2>1, <2>2
<1>6. Through(r)
  <2>1. CASE ok
    <3>1. r.files = s.files
      BY <1>1, <2>1, Zenon
    <3> QED
      BY <1>2, <3>1, Zenon DEF Filed, Through, Lost, File
  <2>2. CASE ~ok
    BY <1>2, <2>2, Zenon DEF Through, Lost
  <2> QED
    BY <2>1, <2>2
<1>7. Strays(r)
  <2>1. ASSUME NEW f \in Files, r.files[f].state = "partial"
        PROVE  s.proc # 0 /\ f = TargetOf[s.proc]
    <3>1. r.files[f] = s.files[f]
      <4>1. r.files[f] # Absent
        BY <2>1, Contents
      <4> QED
        BY <1>1, <4>1, Zenon
    <3> QED
      BY <2>1, <3>1, Zenon DEF Filed, Strays
  <2> QED
    BY <1>2, <2>1, Zenon DEF Strays
<1>8. Listed(r)
  <2>1. ASSUME ok, ~config.single_file
        PROVE  s.ripped \cap AudioTracks \cap config.selection = config.selection
    <3>1. ASSUME NEW t \in config.selection PROVE t \in s.ripped /\ t \in AudioTracks
      <4>1. t \in Wanted /\ t \in AudioTracks
        BY <2>1, WantedTracks, SelectedTracks DEF OnlyAudio
      <4>2. Stage(s, t) = "through"
        BY <2>1, <4>1, Zenon
      <4> QED
        BY <2>1, <4>1, <4>2 DEF Stage
    <3> QED
      BY <3>1
  <2>2. s.concluded = 0
    BY Zenon DEF Filed, Listed
  <2> QED
    BY <1>2, <2>1, <2>2, Zenon DEF Listed, Stops
<1>9. Onward(s, r)
  <2>1. ASSUME NEW f \in Files, r.files[f] # s.files[f],
               \/ s.files[f].state = "complete"
               \/ s.files[f].state = "old" /\ ~config.overwrite
        PROVE  FALSE
    <3>1. s.proc # 0 /\ f = TargetOf[s.proc] /\ s.files[f] = File(s, s.proc)
      BY <1>1, <2>1, Zenon DEF File
    <3>2. Free(s.files[f]) \/ s.files[f] = Partial(s.proc) \/ s.files[f] = Absent
      BY <3>1, Zenon DEF Filed, Encoding
    <3> QED
      BY <2>1, <3>2, Contents DEF Free
  <2> QED
    BY <2>1, Zenon DEF Onward, Spares, Final
<1> QED
  BY <1>4, <1>5, <1>6, <1>7, <1>8, <1>9 DEF Filed

LEMMA RequestFinishFiled ==
  ASSUME OwnFiles, OnlyAudio, config \in Config, NEW s \in Rip, NEW ok \in BOOLEAN,
         s.processing => s.proc # 0, Ordered(s), Filed(s),
         ok /\ ~s.finished => /\ s.reading = 0 /\ s.proc = 0
                              /\ \A t \in Wanted : Stage(s, t) = "through"
  PROVE  Filed(RequestFinish(s, ok)) /\ Onward(s, RequestFinish(s, ok))
<1>1. CASE s.finished
  <2>1. Onward(s, s)
    BY Zenon DEF Onward, Spares, Final
  <2> QED
    BY <1>1, <2>1, Zenon DEF RequestFinish
<1>2. CASE ~s.finished
  BY <1>2, RequestFinishStops, StopsFiled, Zenon
<1> QED
  BY <1>1, <1>2

LEMMA SuccessIfNoJobsFiled ==
  ASSUME OwnFiles, OnlyAudio, config \in Config, NEW s \in Rip, s.processing => s.proc # 0,
         Placed(s), Filed(s), ~s.finished, s.reading = 0, \A t \in Wanted : t <= s.ex_index
  PROVE  Filed(SuccessIfNoJobs(s)) /\ Onward(s, SuccessIfNoJobs(s))
<1>1. CASE NoJobs(s)
  <2>1. s.proc = 0 /\ s.queue = <<>>
    BY <1>1, Zenon DEF NoJobs, Placed, Ordered
  <2>2. \A t \in Wanted : Stage(s, t) = "through"
    BY <2>1, AllThrough, Zenon DEF Placed
  <2> QED
    BY <1>1, <2>1, <2>2, RequestFinishFiled, Zenon DEF SuccessIfNoJobs, Placed
<1>2. CASE ~NoJobs(s)
  BY <1>2, Zenon DEF SuccessIfNoJobs, Onward, Spares, Final
<1> QED
  BY <1>1, <1>2

-----------------------------------------------------------------------------
(* The extraction.                                                         *)

LEMMA WaitingFile ==
  ASSUME config \in Config, NEW s \in Rip, Ordered(s), Filed(s), NEW t \in Wanted,
         t > s.ex_index
  PROVE  /\ File(s, t) \in {Absent, Old}
         /\ AlreadyThere(s, t) => Kept(File(s, t), t)
         /\ ~AlreadyThere(s, t) => Free(File(s, t))
<1>1. Stage(s, t) = "waiting"
  BY Waits, Zenon
<1>2. t # s.proc /\ t \notin s.ripped
  BY <1>1, Zenon DEF Stage
<1>3. File(s, t) \in {Absent, Old}
  BY <1>2, Zenon DEF Filed, Coming
<1>4. AlreadyThere(s, t) <=> ~config.overwrite /\ File(s, t).state # "absent"
  BY Zenon DEF AlreadyThere, File
<1> QED
  BY <1>3, <1>4, Contents, Zenon DEF Kept, Free

LEMMA SkipsFiled ==
  ASSUME config \in Config, ~config.single_file, NEW s \in Rip, Placed(s), Filed(s),
         NEW q, NEW S, Skips(s, q, S)
  PROVE  Filed(q) /\ Onward(s, q)
<1>1. Wanted = config.selection /\ s.ex_index \in Nat /\ \A t \in Wanted : t \in Nat
  BY WantedTracks, Numbers, Zenon
<1>2. \A t \in S : t \in Wanted /\ t > s.ex_index /\ AlreadyThere(s, t)
  <2>1. \A t \in S : t \in Wanted /\ s.ex_index < t /\ AlreadyThere(s, t)
    BY <1>1, Zenon DEF Skips
  <2> QED
    BY <1>1, <2>1
<1>3. \A t \in S : Kept(File(s, t), t)
  BY <1>2, WaitingFile, Zenon DEF Placed
<1>4. \A t : InQueue(q, t) <=> InQueue(s, t)
  BY Zenon DEF InQueue, Skips
<1>5. Shifts(s, q)
  BY <1>3, <1>4, Zenon DEF Skips, Shifts
<1> QED
  BY <1>5, ShiftsFiled, Zenon

(* The extraction goes on to a track that it may read.                     *)
LEMMA MovesFiled ==
  ASSUME config \in Config, NEW s \in Rip, Ordered(s), Filed(s), s.reading = 0,
         NEW r, NEW m, Moves(s, r, m), r.finished = s.finished, SameRest(r, s),
         r.reading = m => ~AlreadyThere(s, m)
  PROVE  Filed(r) /\ Onward(s, r)
<1>1. m \in Wanted /\ m > s.ex_index
  BY WantedTracks, Numbers DEF Moves
<1>2. r.reading = m => Free(File(s, m))
  BY <1>1, WaitingFile, Zenon
<1>3. \A t : InQueue(r, t) <=> InQueue(s, t)
  BY Zenon DEF InQueue, Moves
<1>4. \A t \in Wanted : t # 0
  BY WantedTracks
<1>5. Shifts(s, r)
  BY <1>2, <1>3, <1>4, Zenon DEF Moves, Shifts
<1> QED
  BY <1>5, ShiftsFiled, Zenon

LEMMA BeginReadingRest ==
  ASSUME NEW s \in Rip, NEW m
  PROVE  SameRest(BeginReading(s, m), s)
BY ZenonT(60) DEF BeginReading, Rip, SameRest

LEMMA StartExtractTracksFiled ==
  ASSUME OwnFiles, OnlyAudio, config \in Config, ~config.single_file, NEW s \in Rip, Ready(s),
         s.processing => s.proc # 0, Placed(s), Filed(s), ~s.finished, NEW bad \in Bad
  PROVE  /\ Filed(StartExtractTracks(s, bad))
         /\ Onward(s, StartExtractTracks(s, bad))
<1>1. PICK r : r = StartExtractTracks(s, bad)
  OBVIOUS
<1>2. SkipsTracks(s, r) /\ GoesOn(r)
  BY <1>1, StartExtractTracksSkips, StartExtractTracksGoesOn, Zenon
<1>3. PICK q, S : Skips(s, q, S) /\ (Passes(s, q, r) \/ \E x, m : Halts(s, q, x, m, r))
  BY <1>2, Zenon DEF SkipsTracks
<1>4. /\ q \in Rip /\ q.reading = 0 /\ ~q.finished /\ ~q.runaway
      /\ q.processing => q.proc # 0
  BY <1>3, Zenon DEF Skips, Ready, Balanced
<1>5. /\ Placed(q) /\ Wanted = config.selection
      /\ Filed(q) /\ Onward(s, q)
  BY <1>3, SkipsPlaced, SkipsFiled, WantedTracks, Zenon DEF Ready
<1>6. CASE Passes(s, q, r)
  <2>1. r = SuccessIfNoJobs(q)
    <3>1. CASE ~(q.ex_count >= Limit)
      <4>1. r = [q EXCEPT !.runaway = TRUE]
        BY <1>6, <3>1, Zenon DEF Passes
      <4>2. r.runaway /\ ~r.finished
        BY <1>4, <4>1, ZenonT(60) DEF Rip
      <4> QED
        BY <1>2, <4>2, Zenon DEF GoesOn, Flows, Balanced
    <3> QED
      BY <1>6, <3>1, Zenon DEF Passes
  <2>2. Filed(r) /\ Onward(q, r)
    BY <1>4, <1>5, <1>6, <2>1, SuccessIfNoJobsFiled, Zenon DEF Passes
  <2> QED
    BY <1>1, <1>5, <2>2, OnwardFurther, Zenon
<1>7. ASSUME NEW x, NEW m, Halts(s, q, x, m, r)
      PROVE  Filed(r) /\ Onward(q, r)
  <2>1. CASE r = RequestFinish(x, FALSE)
    <3>1. x \in Rip /\ ~x.finished /\ (x.processing => x.proc # 0)
      BY <1>4, <1>7, Zenon DEF Halts, Elsewhere
    <3>2. /\ Moves(q, x, m) /\ x.finished = q.finished /\ SameRest(x, q)
          /\ x.reading # m
      <4>1. m # 0
        BY <1>5, <1>7, WantedTracks, Zenon DEF Halts
      <4> QED
        BY <1>4, <1>5, <1>7, <4>1, Zenon DEF Halts, Elsewhere, Moves
    <3>3. Filed(x) /\ Onward(q, x) /\ Ordered(x)
      BY <1>4, <1>5, <3>2, MovesFiled, MovesOrdered, Zenon DEF Placed
    <3>4. Filed(r) /\ Onward(x, r)
      BY <2>1, <3>1, <3>3, RequestFinishFiled, Zenon
    <3> QED
      BY <3>3, <3>4, OnwardFurther, Zenon
  <2>2. CASE r = BeginReading(q, m) /\ ~AlreadyThere(s, m)
    <3>1. /\ r.ex_index = m /\ r.reading = m
          /\ r.proc = q.proc /\ r.queue = q.queue /\ r.ripped = q.ripped
          /\ r.en_index = q.en_index /\ r.in_progress = q.in_progress
          /\ r.files = q.files /\ r.finished = q.finished
          /\ r.successful = q.successful /\ SameRest(r, q)
      BY <1>4, <2>2, BeginReadingFields, BeginReadingRest, Zenon
    <3>2. Moves(q, r, m)
      BY <1>5, <1>7, <3>1, Zenon DEF Halts, Moves
    <3>3. ~AlreadyThere(q, m)
      BY <1>3, <2>2, Zenon DEF AlreadyThere, Skips
    <3> QED
      BY <1>4, <1>5, <3>1, <3>2, <3>3, MovesFiled, Zenon DEF Placed
  <2> QED
    BY <1>7, <2>1, <2>2, Zenon DEF Halts
<1> QED
  BY <1>1, <1>3, <1>5, <1>6, <1>7, OnwardFurther, Zenon

LEMMA StartExtractDiscFiled ==
  ASSUME OwnFiles, OnlyAudio, config \in Config, config.single_file, NEW s \in Rip, Ready(s),
         s.processing => s.proc # 0, Placed(s), Filed(s), ~s.finished, NEW bad \in Bad
  PROVE  Filed(StartExtractDisc(s, bad)) /\ Onward(s, StartExtractDisc(s, bad))
<1>0. PICK q : q = [s EXCEPT !.ex_index = s.ex_index + 1]
  OBVIOUS
<1>1. /\ s.ex_count = s.ex_index /\ s.ex_index \in {0, 1} /\ s.reading = 0
      /\ Wanted = {1} /\ s.ex_index + 1 \in Nat
  BY WantedTracks DEF Ready, Counts
<1>2. CASE s.ex_count >= 1
  <2>1. StartExtractDisc(s, bad) = SuccessIfNoJobs(s)
    BY <1>2, Zenon DEF StartExtractDisc
  <2>2. \A t \in Wanted : t <= s.ex_index
    BY <1>1, <1>2
  <2> QED
    BY <1>1, <2>1, <2>2, SuccessIfNoJobsFiled, Zenon
<1>3. CASE ~(s.ex_count >= 1)
  <2>1. s.ex_index = 0 /\ s.ex_index + 1 = 1 /\ s.ex_index < 1 /\ 1 >= 1 /\ 1 <= 1
    BY <1>1, <1>3
  <2>2. q \in Rip
    BY <1>0, <1>1, ZenonT(60) DEF Rip
  <2>3. /\ q.ex_index = 1 /\ q.reading = s.reading
        /\ q.proc = s.proc /\ q.processing = s.processing
        /\ q.queue = s.queue /\ q.ripped = s.ripped
        /\ q.en_index = s.en_index /\ q.in_progress = s.in_progress
        /\ q.files = s.files /\ q.finished = s.finished
        /\ q.successful = s.successful /\ SameRest(q, s)
    BY <1>0, <2>1, ZenonT(60) DEF Rip, SameRest
  <2>4. Moves(s, q, 1) /\ q.reading # 1
    <3>1. 0 # 1
      OBVIOUS
    <3> QED
      BY <1>1, <2>1, <2>3, <3>1, Zenon DEF Moves
  <2>5. Filed(q) /\ Onward(s, q) /\ Ordered(q)
    BY <1>1, <2>3, <2>4, MovesFiled, MovesOrdered, Zenon DEF Placed
  <2>6. CASE bad # 0
    <3>1. StartExtractDisc(s, bad) = RequestFinish(q, FALSE)
      BY <1>0, <1>3, <2>6, Zenon DEF StartExtractDisc
    <3>2. Filed(RequestFinish(q, FALSE)) /\ Onward(q, RequestFinish(q, FALSE))
      BY <2>2, <2>3, <2>5, RequestFinishFiled, Zenon
    <3> QED
      BY <2>5, <3>1, <3>2, OnwardFurther, Zenon
  <2>7. CASE bad = 0 /\ AlreadyThere(q, 1)
    <3>1. StartExtractDisc(s, bad) = SuccessIfNoJobs(q)
      BY <1>0, <1>3, <2>7, Zenon DEF StartExtractDisc
    <3>2. NoJobs(s) /\ s.ex_count = 0
      BY <1>1, <2>1, Zenon DEF Ready
    <3>3. /\ ~InQueue(q, 1) /\ q.reading # 1 /\ q.proc # 1
      BY <1>1, <2>3, <3>2 DEF NoJobs, InQueue, Placed, Ordered
    <3>4. Stage(q, 1) = "through"
      BY <2>1, <2>3, <2>7, <3>3, Zenon DEF Stage
    <3>5. Placed(q)
      BY <1>1, <2>3, <2>4, <3>4, MovesPlaced, Zenon
    <3>6. \A t \in Wanted : t <= q.ex_index
      BY <1>1, <2>1, <2>3, Zenon
    <3>7. Filed(SuccessIfNoJobs(q)) /\ Onward(q, SuccessIfNoJobs(q))
      BY <1>1, <2>2, <2>3, <2>5, <3>5, <3>6, SuccessIfNoJobsFiled, Zenon
    <3> QED
      BY <2>5, <3>1, <3>7, OnwardFurther, Zenon
  <2>8. CASE bad = 0 /\ ~AlreadyThere(q, 1)
    <3>1. PICK r : r = BeginReading(q, 1)
      OBVIOUS
    <3>2. StartExtractDisc(s, bad) = r
      BY <1>0, <1>3, <2>8, <3>1, Zenon DEF StartExtractDisc
    <3>3. /\ r.ex_index = 1 /\ r.reading = 1
          /\ r.proc = q.proc /\ r.queue = q.queue /\ r.ripped = q.ripped
          /\ r.en_index = q.en_index /\ r.in_progress = q.in_progress
          /\ r.files = q.files /\ r.finished = q.finished
          /\ r.successful = q.successful /\ SameRest(r, q)
      BY <2>2, <3>1, BeginReadingFields, BeginReadingRest, Zenon
    <3>4. Moves(s, r, 1) /\ r.finished = s.finished /\ SameRest(r, s)
      BY <1>1, <2>1, <2>3, <3>3, Zenon DEF Moves, SameRest
    <3>5. ~AlreadyThere(s, 1)
      BY <2>3, <2>8, Zenon DEF AlreadyThere
    <3> QED
      BY <1>1, <3>2, <3>4, <3>5, MovesFiled, Zenon DEF Placed
  <2> QED
    BY <2>6, <2>7, <2>8
<1> QED
  BY <1>2, <1>3

LEMMA StartExtractFiled ==
  ASSUME OwnFiles, OnlyAudio, config \in Config, NEW s \in Rip, ~s.finished => Ready(s),
         s.processing => s.proc # 0, Placed(s), Filed(s), NEW bad \in Bad
  PROVE  Filed(StartExtract(s, bad)) /\ Onward(s, StartExtract(s, bad))
<1>1. CASE s.finished
  BY <1>1, Zenon DEF StartExtract, Onward, Spares, Final
<1>2. CASE ~s.finished /\ config.single_file
  BY <1>2, StartExtractDiscFiled, Zenon DEF StartExtract
<1>3. CASE ~s.finished /\ ~config.single_file
  BY <1>3, StartExtractTracksFiled, Zenon DEF StartExtract
<1> QED
  BY <1>1, <1>2, <1>3

-----------------------------------------------------------------------------
(* The encoding.                                                           *)

LEMMA PopsFiled ==
  ASSUME config \in Config, NEW s \in Rip, Placed(s), Filed(s), ~s.finished, s.proc = 0,
         s.queue # <<>>, NEW r, Pops(s, r)
  PROVE  Filed(r) /\ Onward(s, r)
<1>1. PICK h : h = Head(s.queue)
  OBVIOUS
<1>2. /\ s.queue \in Seq(Tracks) /\ r.queue = Tail(s.queue) /\ r.proc = h
      /\ r.reading = s.reading /\ r.ripped = s.ripped /\ r.files = s.files
      /\ r.finished = s.finished /\ r.successful = s.successful
      /\ r.filename = h /\ ~r.opened /\ ~r.termination
      /\ r.concluded = s.concluded /\ r.listed = s.listed
  BY <1>1, Numbers, Zenon DEF Pops
<1>3. /\ 1 \in DOMAIN s.queue /\ s.queue[1] = h
      /\ \A i \in DOMAIN r.queue : i + 1 \in DOMAIN s.queue
                                   /\ r.queue[i] = s.queue[i + 1]
  BY <1>1, <1>2
<1>4. /\ InQueue(s, h) /\ \A t : InQueue(r, t) => InQueue(s, t)
      /\ h \in Wanted
  BY <1>3, Zenon DEF InQueue, Placed, Ordered
<1>5. \A t : File(r, t) = File(s, t)
  BY <1>2, Zenon DEF File
<1>6. \A t \in Wanted : t # 0
  BY WantedTracks
<1>7. Coming(r)
  BY <1>2, <1>4, <1>5, <1>6, Zenon DEF Filed, Coming
<1>8. Encoding(r)
  BY <1>2, <1>4, <1>5, Zenon DEF Filed, Coming, Encoding
<1>9. Through(r)
  BY <1>2, <1>5, Zenon DEF Filed, Through, Lost
<1>10. Strays(r)
  BY <1>2, Zenon DEF Filed, Strays
<1>11. Listed(r)
  BY <1>2, Zenon DEF Filed, Listed
<1>12. Onward(s, r)
  BY <1>2, Zenon DEF Onward, Spares, Final
<1> QED
  BY <1>7, <1>8, <1>9, <1>10, <1>11, <1>12 DEF Filed

LEMMA StartEncodeFiled ==
  ASSUME OwnFiles, OnlyAudio, Regular, config \in Config, NEW s \in Rip, Placed(s), Filed(s),
         Counts(s), NEW n \in Nat, n = 0 => s.reading = 0, s.proc = 0 \/ s.queue # <<>>,
         s.processing <=> s.proc # 0,
         s.en_count + Len(s.queue) + n = s.ex_count, ~s.finished
  PROVE  Filed(StartEncode(s, TRUE)) /\ Onward(s, StartEncode(s, TRUE))
<1>1. CASE s.en_count >= Limit
  <2>1. n = 0 /\ s.queue = <<>> /\ \A t \in Wanted : t <= s.ex_index
    BY <1>1, AllCounted, Zenon
  <2>2. s.reading = 0 /\ s.proc = 0
    BY <2>1, Zenon
  <2>3. \A t \in Wanted : Stage(s, t) = "through"
    BY <2>1, <2>2, AllThrough, Zenon DEF Placed
  <2>4. StartEncode(s, TRUE) = RequestFinish(s, TRUE)
    BY <1>1, Zenon DEF StartEncode
  <2> QED
    BY <2>2, <2>3, <2>4, RequestFinishFiled, Zenon DEF Placed
<1>2. CASE ~(s.en_count >= Limit) /\ (s.processing \/ s.queue = <<>>)
  BY <1>2, Zenon DEF StartEncode, Onward, Spares, Final
<1>3. CASE ~(s.en_count >= Limit) /\ ~s.processing /\ s.queue # <<>>
  BY <1>3, StartEncodePops, PopsFiled, Zenon
<1> QED
  BY <1>1, <1>2, <1>3

LEMMA AddsFiled ==
  ASSUME config \in Config, NEW s \in Rip, Placed(s), Filed(s), s.reading # 0, NEW j, Adds(s, j)
  PROVE  Filed(j) /\ Onward(s, j)
<1>1. s.queue \in Seq(Tracks) /\ s.reading = s.ex_index /\ j.queue = Append(s.queue, s.ex_index)
  BY Numbers, Zenon DEF Placed, Ordered, Adds
<1>2. \A i \in DOMAIN j.queue : \/ i \in DOMAIN s.queue /\ j.queue[i] = s.queue[i]
                                \/ j.queue[i] = s.ex_index
  BY <1>1
<1>3. \A t : InQueue(j, t) => InQueue(s, t) \/ t = s.reading
  BY <1>1, <1>2, Zenon DEF InQueue
<1>4. \A t \in Wanted : t # j.reading
  <2>1. j.reading = 0
    BY Zenon DEF Adds
  <2> QED
    BY <2>1, WantedTracks
<1>5. Shifts(s, j)
  BY <1>3, <1>4, Zenon DEF Adds, Shifts
<1> QED
  BY <1>5, ShiftsFiled, Zenon

LEMMA FinishExtractFiled ==
  ASSUME OwnFiles, OnlyAudio, Regular, config \in Config, NEW s, Good(s), s.reading # 0,
         ~s.finished, Flows(s), Placed(s), Filed(s), NEW bad \in Bad
  PROVE  Filed(FinishExtract(s, TRUE, bad)) /\ Onward(s, FinishExtract(s, TRUE, bad))
<1>1. /\ s \in Rip /\ s.reading = s.ex_index /\ s.reading \in 0..NTracks
      /\ s.processing <=> s.proc # 0
  BY Zenon DEF Good, Consistent, ThreadInv, Rip
<1>2. s.ex_index \in Tracks
  BY <1>1, ConstantsAssumption DEF Tracks
<1>3. PICK j : /\ Adds(s, j)
               /\ FinishExtract(s, TRUE, bad) = StartExtract(StartEncode(j, TRUE), bad)
  BY <1>1, <1>2, FinishExtractAdds, Zenon
<1>4. Placed(j) /\ Filed(j) /\ Onward(s, j)
  BY <1>1, <1>3, AddsPlaced, AddsFiled, Zenon
<1>5. /\ j.processing <=> j.proc # 0
      /\ j.en_count + Len(j.queue) + 0 = j.ex_count
      /\ Counts(j) /\ 0 \in Nat
  BY <1>1, <1>2, <1>3, AddedFlows DEF Adds, Counts
<1>6. j \in Rip /\ j.reading = 0 /\ j.queue # <<>> /\ ~j.finished
  <2>1. j.queue # <<>>
    <3>1. s.queue \in Seq(Tracks) /\ j.queue = Append(s.queue, s.ex_index)
      BY <1>1, <1>3, Numbers, Zenon DEF Adds
    <3> QED
      BY <1>2, <3>1
  <2> QED
    BY <1>3, <2>1, Zenon DEF Adds
<1>7. PICK r : r = StartEncode(j, TRUE)
  OBVIOUS
<1>8. /\ Placed(r) /\ (r.processing => r.proc # 0)
      /\ Filed(r) /\ Onward(j, r)
  BY <1>4, <1>5, <1>6, <1>7, StartEncodePlaced, StartEncodeFiled, Zenon
<1>9. r \in Rip /\ (~r.finished => Ready(r))
  BY <1>1, <1>2, <1>3, <1>7, ReadyAgain, Zenon
<1>10. PICK e : e = StartExtract(r, bad)
  OBVIOUS
<1>11. Filed(e) /\ Onward(r, e)
  BY <1>8, <1>9, <1>10, StartExtractFiled, Zenon
<1>12. Onward(s, e)
  BY <1>4, <1>8, <1>11, OnwardFurther, Zenon
<1> QED
  BY <1>3, <1>7, <1>10, <1>11, <1>12, Zenon

LEMMA ConcludeIfIdleFiled ==
  ASSUME NEW s \in Rip, s.finished, ~s.successful, Filed(s)
  PROVE  Filed(ConcludeIfIdle(s)) /\ Onward(s, ConcludeIfIdle(s))
<1>1. PICK x : x = ExecuteFinish(s)
  OBVIOUS
<1>2. /\ x.finished /\ ~x.successful /\ x.successful = s.successful
      /\ x.proc = s.proc /\ x.ripped = s.ripped /\ x.reading = s.reading
      /\ x.queue = s.queue /\ x.filename = s.filename /\ x.opened = s.opened
      /\ x.files = s.files /\ x.termination = s.termination
  BY <1>1, ZenonT(60) DEF ExecuteFinish, Rip
<1>3. \A t : File(x, t) = File(s, t) /\ (InQueue(x, t) <=> InQueue(s, t))
  BY <1>2, Zenon DEF File, InQueue
<1>4. Coming(x)
  BY <1>2, <1>3, Zenon DEF Filed, Coming
<1>5. Encoding(x)
  BY <1>2, <1>3, Zenon DEF Filed, Encoding, Lost
<1>6. Through(x) /\ Listed(x)
  BY <1>2, Zenon DEF Through, Lost, Listed
<1>7. Strays(x)
  BY <1>2, Zenon DEF Filed, Strays
<1>8. Onward(s, x)
  BY <1>2, Zenon DEF Onward, Spares, Final
<1>9. Onward(s, s)
  BY Zenon DEF Onward, Spares, Final
<1>10. ConcludeIfIdle(s) \in {x, s}
  BY <1>1, Zenon DEF ConcludeIfIdle
<1> QED
  BY <1>4, <1>5, <1>6, <1>7, <1>8, <1>9, <1>10, Zenon DEF Filed

(* What was being read is given up.                                        *)
LEMMA FinishedExtractFiled ==
  ASSUME config \in Config, NEW s \in Rip, s.reading # 0, s.finished, Placed(s), Filed(s),
         NEW bad \in Bad
  PROVE  Filed(FinishExtract(s, TRUE, bad)) /\ Onward(s, FinishExtract(s, TRUE, bad))
<1>1. PICK n : n = s.process_counter - 1
  OBVIOUS
<1>2. PICK w : w = IF s.empty THEN s.wav \ {s.ex_index} ELSE s.wav
  OBVIOUS
<1>3. PICK c : c = [s EXCEPT !.process_counter = n, !.reading = 0, !.wav = w]
  OBVIOUS
<1>4. PICK f : f = [c EXCEPT !.wav = w \ {s.ex_index}]
  OBVIOUS
<1>5. s.process_counter \in Int /\ s.wav \in SUBSET (0..NTracks)
  BY Zenon DEF Rip
<1>6. /\ w \in SUBSET (0..NTracks) /\ w \ {s.ex_index} \in SUBSET (0..NTracks)
      /\ n \in Int /\ 0 \in 0..NTracks
  <2>1. /\ w \in SUBSET (0..NTracks) /\ w \ {s.ex_index} \in SUBSET (0..NTracks)
    BY <1>2, <1>5, Zenon
  <2> QED
    BY <1>1, <1>5, <2>1, ConstantsAssumption
<1>7. c \in Rip
  BY <1>3, <1>5, <1>6, ZenonT(60) DEF Rip
<1>8. f \in Rip
  BY <1>4, <1>6, <1>7, ZenonT(60) DEF Rip
<1>9. /\ c.reading = 0 /\ c.proc = s.proc /\ c.queue = s.queue /\ c.ripped = s.ripped
      /\ c.files = s.files /\ c.finished = s.finished /\ c.successful = s.successful
      /\ c.wav = w /\ SameRest(c, s)
  BY <1>3, <1>5, <1>6, ZenonT(60) DEF Rip, SameRest
<1>10. /\ f.reading = 0 /\ f.proc = s.proc /\ f.queue = s.queue /\ f.ripped = s.ripped
       /\ f.files = s.files /\ f.finished = s.finished /\ f.successful = s.successful
       /\ SameRest(f, s)
  BY <1>4, <1>7, <1>9, ZenonT(60) DEF Rip, SameRest
<1>11. FinishExtract(s, TRUE, bad) = ConcludeIfIdle(f)
  BY <1>1, <1>2, <1>3, <1>4, <1>9, Zenon DEF FinishExtract
<1>12. Shifts(s, f)
  <2>1. \A t \in Wanted : t # 0
    BY WantedTracks
  <2> QED
    BY <1>10, <2>1, Zenon DEF Shifts, InQueue
<1>13. Filed(f) /\ Onward(s, f)
  BY <1>12, ShiftsFiled, Zenon
<1>14. f.finished /\ ~f.successful
  BY <1>10, Zenon DEF Placed, Just
<1>15. PICK r : r = ConcludeIfIdle(f)
  OBVIOUS
<1>16. Filed(r) /\ Onward(f, r)
  BY <1>8, <1>13, <1>14, <1>15, ConcludeIfIdleFiled, Zenon
<1> QED
  BY <1>11, <1>13, <1>15, <1>16, OnwardFurther, Zenon

(* The encoder of s has exited, with success or not.                       *)
Quits(s, d, ok) ==
  /\ d.proc = 0 /\ d.ripped = s.ripped \cup {s.proc}
  /\ d.queue = s.queue /\ d.reading = s.reading /\ d.termination = s.termination
  /\ d.files = [s.files EXCEPT ![TargetOf[s.proc]] =
                  IF ok /\ s.files[TargetOf[s.proc]] = Partial(s.proc)
                  THEN Complete(s.proc) ELSE @]
  /\ ~d.successful
  /\ s.finished => d.finished /\ d.successful = s.successful
  /\ d.finished \/ d.concluded = s.concluded
  /\ s.termination \/ ok \/ d.finished

LEMMA QuitsFiled ==
  ASSUME OwnFiles, config \in Config, NEW s \in Rip, Ordered(s), Filed(s), s.proc # 0,
         NEW ok \in BOOLEAN, ok => s.opened, NEW d, Quits(s, d, ok)
  PROVE  Filed(d) /\ Onward(s, d)
<1> DEFINE p == s.proc
           c == s.files[TargetOf[p]]
<1>1. /\ \A t \in Wanted : t \in Tracks
      /\ \A t \in s.ripped : t \in Tracks /\ t # p
      /\ p \in Tracks /\ p \in Wanted /\ TargetOf[p] \in Files
      /\ \A t \in Tracks : TargetOf[t] \in Files /\ (TargetOf[t] = TargetOf[p] => t = p)
  BY WantedTracks, RippedTracks, Targets, Zenon DEF Ordered
<1>2. \A f \in Files : d.files[f] = IF f = TargetOf[p]
                                    THEN IF ok /\ c = Partial(p) THEN Complete(p) ELSE c
                                    ELSE s.files[f]
  <2>1. s.files \in [Files -> Content]
    BY Zenon DEF Rip
  <2> QED
    BY <1>1, <2>1 DEF Quits
<1>3. /\ \A t \in Tracks : t # p => File(d, t) = File(s, t)
      /\ File(s, p) = c
      /\ File(d, p) = IF ok /\ c = Partial(p) THEN Complete(p) ELSE c
  BY <1>1, <1>2, Zenon DEF File
<1>4. /\ s.termination => Lost(s)
      /\ ~s.opened => Free(c)
      /\ s.opened => c = Partial(p) \/ (s.termination /\ c = Absent)
      /\ s.opened /\ s.termination /\ config.delete_fraction_files => c = Absent
  BY <1>3, Zenon DEF Filed, Encoding
<1>5. /\ d.proc = 0 /\ d.ripped = s.ripped \cup {p}
      /\ d.queue = s.queue /\ d.reading = s.reading /\ d.termination = s.termination
      /\ ~d.successful
      /\ s.finished => d.finished /\ d.successful = s.successful
      /\ d.finished \/ d.concluded = s.concluded
      /\ s.termination \/ ok \/ d.finished
  BY Zenon DEF Quits
<1> HIDE DEF p, c
<1>6. Coming(d)
  <2>1. ASSUME NEW t \in Wanted, t \notin d.ripped
        PROVE  File(d, t) \in {Absent, Old}
    <3>1. t # p /\ t \notin s.ripped
      BY <1>5, <2>1, Zenon
    <3>2. File(s, t) \in {Absent, Old}
      BY <3>1, Zenon DEF Filed, Coming, p
    <3> QED
      BY <1>1, <1>3, <3>1, <3>2, Zenon
  <2>2. ASSUME NEW t \in Wanted, t = d.reading \/ InQueue(d, t)
        PROVE  Free(File(d, t))
    <3>1. t = s.reading \/ InQueue(s, t)
      BY <1>5, <2>2, Zenon DEF InQueue
    <3>2. t # p
      <4>1. \A i \in DOMAIN s.queue : s.queue[i] # p
        <5>1. \A i \in DOMAIN s.queue : p < s.queue[i]
          BY Zenon DEF Ordered, p
        <5> QED
          BY <5>1, Numbers DEF p
      <4>2. p # s.reading
        BY Zenon DEF Ordered, p
      <4> QED
        BY <3>1, <4>1, <4>2, Zenon DEF InQueue
    <3>3. Free(File(s, t))
      BY <3>1, Zenon DEF Filed, Coming
    <3> QED
      BY <1>1, <1>3, <3>2, <3>3, Zenon
  <2> QED
    BY <2>1, <2>2, Zenon DEF Coming
<1>7. Encoding(d)
  BY <1>5, Zenon DEF Encoding
<1>8. Lost(s) => Lost(d)
  BY <1>5, Zenon DEF Lost
<1>9. Through(d)
  <2>1. ASSUME NEW t \in s.ripped PROVE Kept(File(d, t), t) \/ Lost(d)
    BY <1>1, <1>3, <1>8, Zenon DEF Filed, Through
  <2>2. Kept(File(d, p), p) \/ Lost(d)
    <3>1. CASE s.termination
      BY <1>4, <1>8, <3>1, Zenon
    <3>2. CASE ~s.termination /\ ok
      BY <1>3, <1>4, <3>2, Zenon DEF Kept
    <3>3. CASE ~s.termination /\ ~ok
      BY <1>5, <3>3, Zenon DEF Lost
    <3> QED
      BY <3>1, <3>2, <3>3, Zenon
  <2> QED
    BY <1>5, <2>1, <2>2, Zenon DEF Through
<1>10. Strays(d)
  <2>1. ASSUME NEW f \in Files, d.files[f].state = "partial"
        PROVE  d.finished /\ ~(d.termination /\ config.delete_fraction_files)
    <3>1. CASE f # TargetOf[p]
      <4>1. s.finished /\ ~(s.termination /\ config.delete_fraction_files)
        BY <1>2, <2>1, <3>1, Zenon DEF Filed, Strays, p
      <4> QED
        BY <1>5, <4>1, Zenon
    <3>2. CASE f = TargetOf[p]
      <4>1. c.state = "partial" /\ ~(ok /\ c = Partial(p))
        BY <1>2, <2>1, <3>2, Contents
      <4>2. ~Free(c) /\ c # Absent
        BY <4>1, Contents DEF Free
      <4>3. ~ok /\ ~(s.termination /\ config.delete_fraction_files)
        BY <1>4, <4>1, <4>2, Zenon
      <4>4. d.finished
        BY <1>4, <1>5, <4>3, Zenon DEF Lost
      <4> QED
        BY <1>5, <4>3, <4>4, Zenon
    <3> QED
      BY <3>1, <3>2
  <2> QED
    BY <2>1, Zenon DEF Strays
<1>11. Listed(d)
  BY <1>5, Zenon DEF Filed, Listed
<1>12. Spares(s, d)
  <2>1. ASSUME NEW f \in Files, d.files[f] # s.files[f]
        PROVE  s.files[f].state = "partial"
    <3>1. f = TargetOf[p] /\ c = Partial(p) /\ s.files[f] = c
      BY <1>2, <2>1, Zenon DEF c
    <3> QED
      BY <3>1, Contents
  <2>2. \A f \in Files : \/ s.files[f].state = "complete"
                         \/ s.files[f].state = "old" /\ ~config.overwrite
                         => s.files[f].state # "partial"
    OBVIOUS
  <2> QED
    BY <2>1, <2>2, Zenon DEF Spares
<1>13. Onward(s, d)
  BY <1>5, <1>12, Zenon DEF Onward, Final
<1> QED
  BY <1>6, <1>7, <1>9, <1>10, <1>11, <1>13 DEF Filed

-----------------------------------------------------------------------------
(* Every action.                                                           *)

LEMMA EncoderExitsFiled ==
  ASSUME OwnFiles, OnlyAudio, Regular, FileInv, NEW ok \in BOOLEAN, EncoderExits(ok, TRUE)
  PROVE  /\ Filed(rip') /\ Onward(rip, rip')
         /\ ok /\ File(rip, rip.proc) = Partial(rip.proc) =>
              File(rip', rip.proc) = Complete(rip.proc)
<1>1. PICK x : /\ Ends(rip, x)
               /\ x.files = [rip.files EXCEPT ![TargetOf[rip.proc]] =
                               IF ok /\ rip.files[TargetOf[rip.proc]] = Partial(rip.proc)
                               THEN Complete(rip.proc) ELSE @]
               /\ rip' = IF rip.termination \/ ok THEN FinishEncode(x, TRUE)
                         ELSE FinishEncode(SlotError(x), TRUE)
  BY EncoderExitsEnds, Zenon DEF FileInv, JobInv
<1>2. /\ rip.started /\ config \in Config /\ rip \in Rip /\ x \in Rip
      /\ rip.proc # 0 /\ rip.en_index = rip.proc /\ ~rip.successful
      /\ Placed(rip) /\ Ordered(rip) /\ Filed(rip) /\ (ok => rip.opened)
  BY <1>1, Zenon
     DEF EncoderExits, Alive, FileInv, JobInv, FlowInv, Inv, TypeOK, Ends, Placed, Ordered, Just
<1>3. PICK z : /\ z = IF rip.termination \/ ok THEN x ELSE SlotError(x)
               /\ rip' = FinishEncode(z, TRUE)
  BY <1>1
<1>4. /\ z \in Rip /\ z.proc = 0 /\ z.queue = rip.queue /\ z.reading = rip.reading
      /\ z.ex_index = rip.ex_index /\ z.en_index = rip.en_index
      /\ z.ripped = rip.ripped /\ ~z.successful
      /\ rip.finished => z.finished /\ z.successful = rip.successful
      /\ z.finished \/ z = x
      /\ z.finished \/ z.concluded = rip.concluded
      /\ z.files = x.files /\ z.termination = rip.termination
      /\ rip.termination \/ ok \/ z.finished
  <2>1. CASE rip.termination \/ ok
    BY <1>1, <1>2, <1>3, <2>1, Zenon DEF Ends, SameRest
  <2>2. CASE ~(rip.termination \/ ok)
    <3>1. z = RequestFinish(x, FALSE)
      BY <1>3, <2>2, Zenon DEF SlotError
    <3>2. /\ z \in Rip /\ Same(z, x) /\ z.finished
          /\ z.successful = IF x.finished THEN x.successful ELSE FALSE
      BY <1>1, <3>1, RequestFinishKeeps, Zenon DEF Ends
    <3>3. z.files = x.files /\ z.termination = x.termination
      <4>1. CASE x.finished
        BY <3>1, <4>1, Zenon DEF RequestFinish
      <4>2. CASE ~x.finished
        BY <1>1, <3>1, <4>2, RequestFinishStops, Zenon DEF Ends, Stops
      <4> QED
        BY <4>1, <4>2
    <3> QED
      BY <1>1, <1>2, <3>2, <3>3, Zenon DEF Ends, Same, SameRest
  <2> QED
    BY <2>1, <2>2
<1>5. PICK d : d = EncodeDone(z)
  OBVIOUS
<1>6. Done(z, d)
  BY <1>4, <1>5, EncodeDoneEffect, Zenon
<1>7. Exits(rip, d) /\ Quits(rip, d, ok)
  BY <1>1, <1>2, <1>4, <1>6, Zenon DEF Done, Exits, Quits, SameRest
<1>8. Placed(d) /\ Filed(d) /\ Onward(rip, d)
  BY <1>2, <1>7, ExitsPlaced, QuitsFiled, Zenon
<1>9. Filed(rip') /\ Onward(d, rip')
  <2>1. CASE z.finished
    <3>1. d.finished /\ ~d.successful /\ d \in Rip /\ rip' = ConcludeIfIdle(d)
      BY <1>3, <1>4, <1>5, <1>6, <2>1, Zenon DEF Done, FinishEncode
    <3> QED
      BY <1>8, <3>1, ConcludeIfIdleFiled, Zenon
  <2>2. CASE ~z.finished
    <3>1. z = x /\ ~rip.finished /\ Flows(rip)
      BY <1>2, <1>4, <2>2, Zenon DEF FileInv, JobInv, FlowInv, GoesOn
    <3>2. /\ ~d.finished /\ d \in Rip /\ rip' = StartEncode(d, TRUE)
          /\ d.proc = 0 /\ d.processing = FALSE
      BY <1>1, <1>3, <1>5, <1>6, <2>2, <3>1, Zenon DEF Done, FinishEncode, Ends
    <3>3. PICK n : n = N(rip.reading # 0)
      OBVIOUS
    <3>4. n \in Nat /\ (n = 0 => d.reading = 0)
      BY <1>4, <1>6, <3>3 DEF N, Done
    <3>5. d.en_count + Len(d.queue) + n = d.ex_count /\ Counts(d)
      <4>1. Ends(rip, x)
        BY <1>1, Zenon
      <4> QED
        BY <1>6, <3>1, <3>3, <4>1, Zenon DEF Flows, Balanced, Counts, Ends, Done
    <3> QED
      BY <1>2, <1>8, <3>2, <3>4, <3>5, StartEncodeFiled, Zenon
  <2> QED
    BY <2>1, <2>2
<1>10. ASSUME ok, File(rip, rip.proc) = Partial(rip.proc)
       PROVE  File(rip', rip.proc) = Complete(rip.proc)
  <2>1. TargetOf[rip.proc] \in Files
    BY <1>2, WantedTracks, Targets, Zenon DEF Ordered
  <2>2. d.files[TargetOf[rip.proc]] = Complete(rip.proc)
    <3>1. rip.files \in [Files -> Content]
      BY <1>2, Zenon DEF Rip
    <3> QED
      BY <1>7, <1>10, <2>1, <3>1 DEF Quits, File
  <2>3. d.files[TargetOf[rip.proc]].state = "complete"
    BY <2>2, Contents
  <2> QED
    BY <1>9, <2>1, <2>2, <2>3, Zenon DEF Onward, Spares, File
<1> QED
  BY <1>8, <1>9, <1>10, OnwardFurther, Zenon

LEMMA SameStateFiled ==
  ASSUME FileInv, NEW r, Same(r, rip), r.files = rip.files, SameRest(r, rip),
         r.finished = rip.finished, r.successful = rip.successful
  PROVE  Filed(r) /\ Onward(rip, r)
<1>1. Shifts(rip, r)
  BY Zenon DEF Same, Shifts, InQueue
<1> QED
  BY <1>1, ShiftsFiled, Zenon DEF FileInv

LEMMA PrepareFailsFiled ==
  ASSUME OwnFiles, OnlyAudio, FileInv, PrepareFails
  PROVE  Filed(rip') /\ Onward(rip, rip')
<1>1. PICK s : s = [rip EXCEPT !.started = TRUE]
  OBVIOUS
<1>2. /\ s \in Rip /\ rip \in Rip /\ config \in Config
      /\ s.processing => s.proc # 0
  BY <1>1, StartsReady, Zenon
     DEF FileInv, JobInv, FlowInv, Inv, TypeOK, PrepareFails, Good, Consistent
<1>3. /\ Same(s, rip) /\ s.files = rip.files /\ SameRest(s, rip)
      /\ s.successful = rip.successful /\ s.finished = rip.finished
  BY <1>1, <1>2, ZenonT(60) DEF Rip, Same, SameRest
<1>4. Filed(s) /\ Onward(rip, s) /\ Ordered(s)
  BY <1>2, <1>3, SameStateFiled, SamePlaced, Zenon DEF FileInv, JobInv, Placed
<1>5. PICK r : r = RequestFinish(s, FALSE)
  OBVIOUS
<1>6. Filed(r) /\ Onward(s, r)
  BY <1>2, <1>4, <1>5, RequestFinishFiled, Zenon
<1>7. rip' = r
  BY <1>1, <1>5, Zenon DEF PrepareFails, SlotError
<1> QED
  BY <1>4, <1>6, <1>7, OnwardFurther, Zenon

LEMMA StartFiled ==
  ASSUME OwnFiles, OnlyAudio, FileInv, NEW bad \in Bad, Start(bad)
  PROVE  Filed(rip') /\ Onward(rip, rip')
<1>1. PICK s : s = [rip EXCEPT !.started = TRUE]
  OBVIOUS
<1>2. /\ Ready(s) /\ s \in Rip /\ rip \in Rip /\ config \in Config
      /\ s.processing => s.proc # 0
  BY <1>1, StartsReady, Zenon
     DEF FileInv, JobInv, FlowInv, Inv, TypeOK, Start, Good, Consistent
<1>3. /\ Same(s, rip) /\ s.files = rip.files /\ SameRest(s, rip)
      /\ s.successful = rip.successful /\ s.finished = rip.finished
  BY <1>1, <1>2, ZenonT(60) DEF Rip, Same, SameRest
<1>4. Placed(s)
  BY <1>2, <1>3, SamePlaced, Zenon DEF FileInv, JobInv, Placed, Just, Accounted, Same
<1>5. Filed(s) /\ Onward(rip, s)
  BY <1>3, SameStateFiled, Zenon
<1>6. CASE CheckPasses(config.free)
  <2>1. rip' = StartExtract(s, bad)
    BY <1>1, <1>6, Zenon DEF Start
  <2> QED
    BY <1>2, <1>4, <1>5, <2>1, StartExtractFiled, OnwardFurther, Zenon
<1>7. CASE ~CheckPasses(config.free)
  <2>1. PICK q : q = RequestFinish(s, FALSE)
    OBVIOUS
  <2>2. Filed(q) /\ Onward(s, q)
    BY <1>2, <1>4, <1>5, <2>1, RequestFinishFiled, Zenon DEF Placed
  <2>3. q.finished
    BY <1>2, <2>1, RequestFinishEffect, Zenon DEF RequestsFinish
  <2>4. rip' = RequestFinish(q, FALSE)
    BY <1>1, <1>7, <2>1, Zenon DEF Start, SlotError
  <2>5. rip' = q
    BY <2>3, <2>4, Zenon DEF RequestFinish
  <2> QED
    BY <1>5, <2>2, <2>5, OnwardFurther, Zenon
<1> QED
  BY <1>6, <1>7

LEMMA DeliverFiled ==
  ASSUME OwnFiles, OnlyAudio, Regular, FileInv, NEW bad \in Bad, Deliver(TRUE, bad)
  PROVE  Filed(rip') /\ Onward(rip, rip')
<1>1. PICK s : /\ Takes(rip, s) /\ rip.reading # 0
               /\ rip' = IF Head(rip.events) = "error" THEN SlotError(s)
                         ELSE FinishExtract(s, TRUE, bad)
  BY DeliverTakes, Zenon DEF FileInv, JobInv
<1>2. /\ Good(s) /\ s \in Rip /\ GoesOn(s) /\ s.reading # 0 /\ config \in Config
      /\ s.processing => s.proc # 0
  BY <1>1, SameFlowGoesOn, Zenon
     DEF Takes, SameFlow, Good, Consistent, Deliver, Alive, FileInv, JobInv, FlowInv, Inv, TypeOK
<1>3. /\ Same(s, rip) /\ s.files = rip.files /\ SameRest(s, rip)
      /\ s.successful = rip.successful /\ s.finished = rip.finished
  BY <1>1, Zenon DEF Takes, SameFlow, Same
<1>4. Placed(s)
  BY <1>2, <1>3, SamePlaced, Zenon DEF FileInv, JobInv, Placed, Just, Accounted, Same
<1>5. Filed(s) /\ Onward(rip, s)
  BY <1>3, SameStateFiled, Zenon
<1>6. Filed(rip') /\ Onward(s, rip')
  <2>1. CASE Head(rip.events) = "error"
    BY <1>1, <1>2, <1>4, <1>5, <2>1, RequestFinishFiled, Zenon DEF SlotError, Placed
  <2>2. CASE Head(rip.events) # "error" /\ s.finished
    BY <1>1, <1>2, <1>4, <1>5, <2>2, FinishedExtractFiled, Zenon
  <2>3. CASE Head(rip.events) # "error" /\ ~s.finished
    BY <1>1, <1>2, <1>4, <1>5, <2>3, FinishExtractFiled, Zenon DEF GoesOn
  <2> QED
    BY <2>1, <2>2, <2>3
<1> QED
  BY <1>5, <1>6, OnwardFurther, Zenon

LEMMA ThreadEndsFiled ==
  ASSUME FileInv, NEW outcome, ThreadEnds(outcome)
  PROVE  Filed(rip') /\ Onward(rip, rip')
<1>1. PICK e : e = IF outcome = "error" THEN <<"error", "finished">> ELSE <<"finished">>
  OBVIOUS
<1>2. PICK m : m = (outcome = "nothing")
  OBVIOUS
<1>3. rip \in Rip /\ rip' = [rip EXCEPT !.events = e, !.empty = m]
  BY <1>1, <1>2, Zenon DEF ThreadEnds, FileInv, JobInv, FlowInv, Inv, TypeOK
<1>4. /\ Same(rip', rip) /\ rip'.files = rip.files /\ SameRest(rip', rip)
      /\ rip'.successful = rip.successful /\ rip'.finished = rip.finished
  BY <1>3, ZenonT(60) DEF Rip, Same, SameRest
<1> QED
  BY <1>4, SameStateFiled, Zenon

LEMMA ThreadStartsFiled ==
  ASSUME FileInv, ThreadStarts
  PROVE  Filed(rip') /\ Onward(rip, rip')
<1>1. rip \in Rip
  BY Zenon DEF FileInv, JobInv, FlowInv, Inv, TypeOK
<1>2. SameButRun(rip', rip)
  BY <1>1, ThreadStartsEffect, Zenon
<1>3. /\ Same(rip', rip) /\ rip'.files = rip.files /\ SameRest(rip', rip)
      /\ rip'.successful = rip.successful /\ rip'.finished = rip.finished
  BY <1>2, Zenon DEF SameButRun, Same, SameRest
<1> QED
  BY <1>3, SameStateFiled, Zenon

LEMMA EncoderOpensFiled ==
  ASSUME Regular, OwnFiles, FileInv, EncoderOpens
  PROVE  Filed(rip') /\ Onward(rip, rip')
<1>1. PICK f : f = [rip.files EXCEPT ![TargetOf[rip.proc]] = Partial(rip.proc)]
  OBVIOUS
<1>2. PICK p : p = rip.proc
  OBVIOUS
<1>0. ~rip.termination
  BY DEF Regular, EncoderOpens
<1>3. /\ rip \in Rip /\ config \in Config /\ p # 0 /\ ~rip.opened /\ ~rip.termination
      /\ Ordered(rip) /\ Filed(rip)
  BY <1>0, <1>2, Zenon DEF EncoderOpens, FileInv, JobInv, FlowInv, Inv, TypeOK, Placed
<1>4. rip' = [rip EXCEPT !.opened = TRUE, !.files = f]
  BY <1>1, <1>3, ZenonT(60) DEF EncoderOpens, Rip
<1>5. /\ Same(rip', rip) /\ rip'.finished = rip.finished
      /\ rip'.successful = rip.successful /\ rip'.files = f /\ rip'.opened
      /\ rip'.filename = rip.filename /\ rip'.termination = rip.termination
      /\ rip'.concluded = rip.concluded /\ rip'.listed = rip.listed
  BY <1>2, <1>3, <1>4, ZenonT(60) DEF Rip, Same
<1>6. /\ \A t \in Wanted : t \in Tracks
      /\ \A t \in rip.ripped : t \in Tracks /\ t # p
      /\ p \in Tracks /\ p \in Wanted /\ TargetOf[p] \in Files
      /\ \A t \in Tracks : TargetOf[t] \in Files /\ (TargetOf[t] = TargetOf[p] => t = p)
  BY <1>2, <1>3, WantedTracks, RippedTracks, Targets, Zenon DEF Ordered
<1>7. /\ \A g \in Files : f[g] = IF g = TargetOf[p] THEN Partial(p) ELSE rip.files[g]
      /\ \A t \in Tracks : t # p => File(rip', t) = File(rip, t)
      /\ File(rip', p) = Partial(p)
  <2>1. rip.files \in [Files -> Content]
    BY <1>3, Zenon DEF Rip
  <2>2. \A g \in Files : f[g] = IF g = TargetOf[p] THEN Partial(p) ELSE rip.files[g]
    BY <1>1, <1>2, <1>6, <2>1
  <2> QED
    BY <1>5, <1>6, <2>2, Zenon DEF File
<1>8. /\ rip'.proc = p /\ rip'.reading = rip.reading /\ rip'.ripped = rip.ripped
      /\ \A t : InQueue(rip', t) <=> InQueue(rip, t)
      /\ Lost(rip') <=> Lost(rip)
  BY <1>2, <1>5, Zenon DEF Same, InQueue, Lost
<1>9. Coming(rip')
  <2>1. p # rip.reading /\ ~InQueue(rip, p)
    <3>1. p # rip.reading /\ \A i \in DOMAIN rip.queue : p < rip.queue[i]
      BY <1>2, <1>3, Zenon DEF Ordered
    <3>2. \A i \in DOMAIN rip.queue : rip.queue[i] # p
      BY <1>2, <1>3, <3>1, Numbers
    <3> QED
      BY <3>1, <3>2, Zenon DEF InQueue
  <2>2. ASSUME NEW t \in Wanted, t # p
        PROVE  File(rip', t) = File(rip, t)
    BY <1>6, <1>7, <2>2, Zenon
  <2>3. \A t \in Wanted : /\ t # p /\ t \notin rip.ripped => File(rip, t) \in {Absent, Old}
                          /\ t = rip.reading \/ InQueue(rip, t) => Free(File(rip, t))
    BY <1>2, <1>3, Zenon DEF Filed, Coming
  <2> QED
    BY <1>8, <2>1, <2>2, <2>3, Zenon DEF Coming
<1>10. Encoding(rip')
  BY <1>2, <1>3, <1>5, <1>7, <1>8, Zenon DEF Filed, Encoding
<1>11. Through(rip')
  <2>1. \A t \in rip.ripped : File(rip', t) = File(rip, t)
    BY <1>6, <1>7, Zenon
  <2> QED
    BY <1>3, <1>8, <2>1, Zenon DEF Filed, Through
<1>12. Strays(rip')
  BY <1>2, <1>3, <1>5, <1>7, <1>8, Zenon DEF Filed, Strays
<1>13. Listed(rip')
  BY <1>3, <1>5, Zenon DEF Filed, Listed
<1>14. Spares(rip, rip')
  <2>1. Free(rip.files[TargetOf[p]])
    BY <1>2, <1>3, Zenon DEF Filed, Encoding, File
  <2>2. ~(\/ rip.files[TargetOf[p]].state = "complete"
          \/ rip.files[TargetOf[p]].state = "old" /\ ~config.overwrite)
    BY <2>1, Contents DEF Free
  <2> QED
    BY <1>5, <1>7, <2>2, Zenon DEF Spares
<1>15. Onward(rip, rip')
  BY <1>5, <1>14, Zenon DEF Onward, Final
<1> QED
  BY <1>9, <1>10, <1>11, <1>12, <1>13, <1>15 DEF Filed

LEMMA CancelFiled ==
  ASSUME OwnFiles, OnlyAudio, FileInv, Cancel
  PROVE  Filed(rip') /\ Onward(rip, rip') /\ Lost(rip')
<1>1. /\ config \in Config /\ rip \in Rip /\ (rip.processing => rip.proc # 0)
      /\ Ordered(rip) /\ Just(rip) /\ Filed(rip) /\ rip' = RequestFinish(rip, FALSE)
      /\ rip.concluded = 0
      /\ rip.concluded = N(rip.finished /\ rip.reading = 0 /\ rip.proc = 0)
  BY Zenon
     DEF Cancel, FileInv, JobInv, FlowInv, Inv, TypeOK, Good, Consistent, Conclusive, Placed
<1>2. Filed(rip') /\ Onward(rip, rip')
  BY <1>1, RequestFinishFiled, Zenon
<1>3. ~rip.successful
  BY <1>1 DEF Just, N
<1>4. rip'.finished /\ ~rip'.successful
  BY <1>1, <1>3, RequestFinishKeeps, Zenon
<1> QED
  BY <1>2, <1>4, Zenon DEF Lost

LEMMA NextFiled ==
  ASSUME OwnFiles, OnlyAudio, Regular, FileInv, Next
  PROVE  /\ Filed(rip') /\ Onward(rip, rip')
         /\ cancelled' => cancelled \/ Lost(rip')
         /\ \A t \in encoded' : t \in encoded \/ (t \in Tracks /\ File(rip', t) = Complete(t))
<1>1. TRUE \in Starts /\ \A x \in Starts : x = TRUE
  BY DEF Starts, Regular
<1>2. CASE PrepareFails
  BY <1>2, PrepareFailsFiled, Zenon DEF PrepareFails
<1>3. ASSUME NEW bad \in Bad, Start(bad)
      PROVE  /\ Filed(rip') /\ Onward(rip, rip')
             /\ cancelled' = cancelled /\ encoded' = encoded
  BY <1>3, StartFiled, Zenon DEF Start
<1>4. CASE ThreadStep
  <2>1. cancelled' = cancelled /\ encoded' = encoded
    BY <1>4, Zenon DEF ThreadStep, ThreadChecks, ThreadResets, ThreadEnds
  <2> QED
    BY <1>4, <2>1, ThreadEndsFiled, ThreadStartsFiled, Zenon DEF ThreadStep, ThreadStarts
<1>5. CASE LoopStep
  <2>1. PICK bad \in Bad : Deliver(TRUE, bad)
    BY <1>1, <1>5, Zenon DEF LoopStep
  <2>2. cancelled' = cancelled /\ encoded' = encoded
    BY <2>1, Zenon DEF Deliver
  <2> QED
    BY <2>1, <2>2, DeliverFiled, Zenon
<1>6. CASE EncoderOpens
  <2>1. cancelled' = cancelled /\ encoded' = encoded
    BY <1>6, Zenon DEF EncoderOpens
  <2> QED
    BY <1>6, <2>1, EncoderOpensFiled, Zenon
<1>7. CASE EncoderStep
  <2>1. ~EncoderCrashes(TRUE)
    BY DEF Regular, EncoderCrashes
  <2>2. PICK ok \in BOOLEAN : EncoderExits(ok, TRUE)
    BY <1>1, <1>7, <2>1, Zenon DEF EncoderStep
  <2>3. /\ Filed(rip') /\ Onward(rip, rip')
        /\ ok /\ File(rip, rip.proc) = Partial(rip.proc) =>
             File(rip', rip.proc) = Complete(rip.proc)
    BY <2>2, EncoderExitsFiled, Zenon
  <2>4. /\ cancelled' = cancelled
        /\ encoded' = IF ok /\ File(rip, rip.proc) = Partial(rip.proc)
                      THEN encoded \cup {rip.proc} ELSE encoded
    BY <2>2 DEF EncoderExits, File
  <2>5. rip.proc \in Tracks
    <3>1. rip.proc \in 0..NTracks /\ rip.proc # 0
      BY <2>2, Zenon DEF EncoderExits, FileInv, JobInv, FlowInv, Inv, TypeOK, Rip
    <3> QED
      BY <3>1, ConstantsAssumption DEF Tracks
  <2> QED
    BY <2>3, <2>4, <2>5, Zenon
<1>8. CASE Cancel
  <2>1. encoded' = encoded
    BY <1>8, Zenon DEF Cancel
  <2> QED
    BY <1>8, <2>1, CancelFiled, Zenon
<1>9. CASE Rest
  <2>1. rip' = rip /\ cancelled' = cancelled /\ encoded' = encoded
    BY <1>9, Zenon DEF Rest, vars
  <2>2. Onward(rip, rip)
    BY Zenon DEF Onward, Spares, Final
  <2> QED
    BY <2>1, <2>2, Zenon DEF FileInv
<1> QED
  BY <1>2, <1>3, <1>4, <1>5, <1>6, <1>7, <1>8, <1>9, Zenon DEF Next

LEMMA InitFile ==
  ASSUME Init
  PROVE  FileInv
<1>1. PICK old \in SUBSET Files : rip = NewRip([f \in Files |-> IF f \in old THEN Old ELSE Absent])
  BY Zenon DEF Init
<1>2. PICK g : g = [f \in Files |-> IF f \in old THEN Old ELSE Absent]
  OBVIOUS
<1>3. rip = NewRip(g)
  BY <1>1, <1>2, Zenon
<1>4. /\ rip.files = g /\ rip.proc = 0 /\ rip.ripped = {} /\ rip.reading = 0
      /\ rip.queue = <<>> /\ rip.concluded = 0 /\ ~rip.successful
  BY <1>3, ZenonT(60) DEF NewRip
<1>5. JobInv /\ cancelled = FALSE /\ encoded = {} /\ config \in Config
  BY InitJob, Zenon DEF Init
<1>6. \A f \in Files : rip.files[f] \in {Absent, Old}
  BY <1>2, <1>4
<1>7. Coming(rip)
  <2>1. \A t \in Wanted : TargetOf[t] \in Files /\ t # 0
    BY <1>5, WantedTracks, ConstantsAssumption
  <2>2. \A t : ~InQueue(rip, t)
    BY <1>4 DEF InQueue
  <2> QED
    BY <1>4, <1>6, <2>1, <2>2, Zenon DEF Coming, File
<1>8. Encoding(rip) /\ Through(rip)
  BY <1>4, Zenon DEF Encoding, Through
<1>9. Strays(rip)
  <2>1. \A f \in Files : rip.files[f].state # "partial"
    BY <1>6, Contents
  <2> QED
    BY <2>1, Zenon DEF Strays
<1>10. Listed(rip)
  BY <1>4, Zenon DEF Listed
<1> QED
  BY <1>5, <1>7, <1>8, <1>9, <1>10, Zenon DEF FileInv, Filed

LEMMA NextFile ==
  ASSUME OwnFiles, OnlyAudio, Regular, FileInv, [Next]_vars
  PROVE  FileInv' /\ Onward(rip, rip')
<1>1. JobInv' /\ config' = config
  BY NextJobInv, NextKeeps, Zenon DEF FileInv, JobInv, FlowInv, Keeps
<1>2. /\ Filed(rip') /\ Onward(rip, rip')
      /\ cancelled' => cancelled \/ Lost(rip')
      /\ \A t \in encoded' : t \in encoded \/ (t \in Tracks /\ File(rip', t) = Complete(t))
  <2>1. CASE UNCHANGED vars
    <3>1. rip' = rip /\ cancelled' = cancelled /\ encoded' = encoded
      BY <2>1 DEF vars
    <3> QED
      BY <3>1, Zenon DEF FileInv, Onward, Spares, Final
  <2> QED
    BY <2>1, NextFiled, Zenon
<1>3. Filed(rip)'
  BY <1>1, <1>2, Zenon
     DEF Filed, Coming, Encoding, Through, Strays, Listed, Wanted, Free, Kept, Lost, File,
         InQueue
<1>4. (cancelled => Lost(rip))'
  BY <1>2, Zenon DEF FileInv, Onward, Final, Lost
<1>5. ASSUME NEW t \in encoded'
      PROVE  File(rip', t) = Complete(t)
  <2>1. CASE t \in encoded
    <3>1. TargetOf[t] \in Files
      <4>1. t \in Tracks
        BY <2>1, Zenon DEF FileInv, JobInv, FlowInv, Inv, TypeOK
      <4> QED
        BY <4>1, ConstantsAssumption
    <3>2. rip.files[TargetOf[t]] = Complete(t)
      BY <2>1, Zenon DEF FileInv, File
    <3>3. rip.files[TargetOf[t]].state = "complete"
      BY <3>2, Contents
    <3> QED
      BY <1>2, <3>1, <3>2, <3>3, Zenon DEF Onward, Spares, File
  <2> QED
    BY <1>2, <2>1, Zenon
<1>6. (\A t \in encoded : File(rip, t) = Complete(t))'
  BY <1>5, Zenon DEF File
<1> QED
  BY <1>1, <1>2, <1>3, <1>4, <1>6 DEF FileInv

-----------------------------------------------------------------------------
(* What follows.                                                           *)

LEMMA FileSuccess ==
  ASSUME FileInv
  PROVE  SuccessIsTrue
<1> SUFFICES ASSUME rip.concluded > 0, rip.successful
             PROVE  /\ ~cancelled
                    /\ \A t \in Wanted : Kept(File(rip, t), t)
                    /\ ~config.single_file => rip.listed = config.selection
  BY Zenon DEF SuccessIsTrue, Wanted, Kept, File
<1>1. /\ config \in Config /\ Placed(rip) /\ Filed(rip) /\ ~Lost(rip)
      /\ rip.proc = 0 /\ (cancelled => Lost(rip))
      /\ \A t \in Wanted : Stage(rip, t) = "through"
  BY Zenon DEF FileInv, JobInv, FlowInv, Inv, TypeOK, Placed, Just, Lost
<1>2. ASSUME NEW t \in Wanted
      PROVE  Kept(File(rip, t), t)
  <2>1. t \in rip.ripped \/ AlreadyThere(rip, t)
    BY <1>1 DEF Stage
  <2>2. CASE t \in rip.ripped
    BY <1>1, <2>2, Zenon DEF Filed, Through
  <2>3. CASE t \notin rip.ripped /\ AlreadyThere(rip, t)
    <3>1. t # rip.proc
      BY <1>1, WantedTracks
    <3>2. File(rip, t) \in {Absent, Old}
      BY <1>1, <2>3, <3>1, Zenon DEF Filed, Coming
    <3>3. ~config.overwrite /\ File(rip, t).state # "absent"
      BY <2>3, Zenon DEF AlreadyThere, File
    <3> QED
      BY <3>2, <3>3, Contents, Zenon DEF Kept
  <2> QED
    BY <2>1, <2>2, <2>3
<1>3. ~config.single_file => rip.listed = config.selection
  <2>1. rip.concluded # 0
    OBVIOUS
  <2> QED
    BY <1>1, <2>1, Zenon DEF Filed, Listed
<1> QED
  BY <1>1, <1>2, <1>3, Zenon

LEMMA FileRemoved ==
  ASSUME FileInv
  PROVE  StoppedLeavesNoPartial
<1>1. rip.concluded > 0 => rip.proc = 0
  <2>1. rip.concluded = N(rip.finished /\ rip.reading = 0 /\ rip.proc = 0)
    BY Zenon DEF FileInv, JobInv, FlowInv, Inv, Good, Conclusive
  <2> QED
    BY <2>1 DEF N
<1> QED
  BY <1>1, Zenon DEF StoppedLeavesNoPartial, FileInv, Filed, Strays

(* A success that is announced is one: every wanted track has its complete *)
(* file, or one that was to be kept, nobody cancelled, and the list is     *)
(* that of the selection; for any disc, any selection, any files that were *)
(* there before and any scheme that names no file twice.                   *)
THEOREM SuccessIsHonest ==
  ASSUME Regular, OnlyAudio, OwnFiles
  PROVE  Spec => []SuccessIsTrue
<1>1. Init => FileInv
  BY InitFile
<1>2. FileInv /\ [Next]_vars => FileInv'
  BY NextFile
<1>3. FileInv => SuccessIsTrue
  BY FileSuccess
<1> QED
  BY <1>1, <1>2, <1>3, PTL DEF Spec

(* Stopping an encoder, however late it ends, removes the file it was      *)
(* writing and no partial file is left, when none is wanted.               *)
THEOREM NoPartialIsLeft ==
  ASSUME Regular, OnlyAudio, OwnFiles
  PROVE  Spec => []StoppedLeavesNoPartial
<1>1. Init => FileInv
  BY InitFile
<1>2. FileInv /\ [Next]_vars => FileInv'
  BY NextFile
<1>3. FileInv => StoppedLeavesNoPartial
  BY FileRemoved
<1> QED
  BY <1>1, <1>2, <1>3, PTL DEF Spec

(* A track whose encoder succeeded keeps its file to the end of the rip,   *)
(* whatever is cancelled or fails after it.                                *)
THEOREM EncodedStays ==
  ASSUME Regular, OnlyAudio, OwnFiles
  PROVE  Spec => []EncodedIsKept
<1>1. Init => FileInv
  BY InitFile
<1>2. FileInv /\ [Next]_vars => FileInv'
  BY NextFile
<1>3. FileInv => EncodedIsKept
  BY Zenon DEF FileInv, EncodedIsKept, File
<1> QED
  BY <1>1, <1>2, <1>3, PTL DEF Spec

(* With overwriting off no step changes a file that was there before or is *)
(* complete: neither an encoder that opens its output nor the removal of a *)
(* partial file.                                                           *)
THEOREM NoFileIsOverwritten ==
  ASSUME Regular, OnlyAudio, OwnFiles
  PROVE  Spec => ExistingFilesKept
<1> DEFINE Keeping == ~config.overwrite =>
                        \A f \in Files : rip.files[f].state \in {"old", "complete"} =>
                                           rip'.files[f] = rip.files[f]
<1>1. Init => FileInv
  BY InitFile
<1>2. FileInv /\ [Next]_vars => FileInv'
  BY NextFile
<1>3. FileInv /\ [Next]_vars => [Keeping]_vars
  <2>1. ASSUME FileInv, [Next]_vars
        PROVE  Keeping
    BY <2>1, NextFile, Zenon DEF Onward, Spares
  <2> QED
    BY <2>1
<1> QED
  BY <1>1, <1>2, <1>3, PTL DEF Spec, ExistingFilesKept

-----------------------------------------------------------------------------
(* The temporary wave files.                                               *)

(* From s on no wave file is removed before the conclusion.                *)
Holds(s, r) ==
  /\ s.ripped \subseteq r.ripped
  /\ 0 \notin s.wav => 0 \notin r.wav
  /\ s.concluded # 0 => r.concluded # 0
  /\ s.wav \subseteq r.wav \/ r.concluded # 0

LEMMA HoldsFurther ==
  ASSUME NEW s, NEW q, NEW r, Holds(s, q), Holds(q, r)
  PROVE  Holds(s, r)
BY Zenon DEF Holds

LEMMA ExecuteFinishHolds ==
  ASSUME NEW s \in Rip
  PROVE  Holds(s, ExecuteFinish(s))
<1>1. PICK x : x = ExecuteFinish(s)
  OBVIOUS
<1>2. x.ripped = s.ripped /\ x.wav = {}
  BY <1>1, ZenonT(60) DEF ExecuteFinish, Rip
<1>3. x.concluded # 0
  <2>1. x.concluded = s.concluded + 1 /\ s.concluded \in Nat
    BY <1>1, ExecuteFinishEffect, Zenon DEF ExecutesFinish, Rip
  <2> QED
    BY <2>1
<1> QED
  BY <1>1, <1>2, <1>3, Zenon DEF Holds

LEMMA RequestFinishHolds ==
  ASSUME NEW s \in Rip, NEW ok \in BOOLEAN
  PROVE  Holds(s, RequestFinish(s, ok))
<1>1. CASE s.finished
  BY <1>1, Zenon DEF RequestFinish, Holds
<1>2. CASE ~s.finished
  <2>1. PICK q : q = [s EXCEPT !.finished = TRUE, !.successful = ok]
    OBVIOUS
  <2>2. q \in Rip
    BY <2>1, ZenonT(60) DEF Rip
  <2>3. q.ripped = s.ripped /\ q.wav = s.wav /\ q.concluded = s.concluded
    BY <2>1, ZenonT(60) DEF Rip
  <2>4. PICK c : c = CancelEncoder(q)
    OBVIOUS
  <2>5. c \in Rip /\ c.ripped = s.ripped /\ c.wav = s.wav /\ c.concluded = s.concluded
    <3>1. c \in Rip
      BY <2>2, <2>4, CancelEncoderEffect, Zenon DEF CancelsEncoder
    <3>2. CASE ~q.processing
      BY <2>2, <2>3, <2>4, <3>2, Zenon DEF CancelEncoder
    <3>3. CASE q.processing
      <4>1. PICK f : f = IF config.delete_fraction_files /\ q.filename # 0
                         THEN [q.files EXCEPT ![TargetOf[q.filename]] = Absent]
                         ELSE q.files
        OBVIOUS
      <4>2. c = [q EXCEPT !.termination = TRUE, !.files = f]
        BY <2>4, <3>3, <4>1, Zenon DEF CancelEncoder
      <4>3. c.ripped = q.ripped /\ c.wav = q.wav /\ c.concluded = q.concluded
        BY <2>2, <4>2, ZenonT(60) DEF Rip
      <4> QED
        BY <2>3, <3>1, <4>3, Zenon
    <3> QED
      BY <3>2, <3>3
  <2>6. PICK e : e = CancelExtract(c)
    OBVIOUS
  <2>7. e.ripped = s.ripped /\ e.wav = s.wav /\ e.concluded = s.concluded
    BY <2>5, <2>6, ZenonT(60) DEF CancelExtract, Rip
  <2>8. Holds(s, e)
    BY <2>7, Zenon DEF Holds
  <2>9. Holds(s, ExecuteFinish(q))
    <3>1. Holds(s, q)
      BY <2>3, Zenon DEF Holds
    <3> QED
      BY <2>2, <3>1, ExecuteFinishHolds, HoldsFurther
  <2>10. RequestFinish(s, ok) \in {e, ExecuteFinish(q)}
    BY <1>2, <2>1, <2>4, <2>6, Zenon DEF RequestFinish
  <2> QED
    BY <2>8, <2>9, <2>10, Zenon
<1> QED
  BY <1>1, <1>2

LEMMA SuccessIfNoJobsHolds ==
  ASSUME NEW s \in Rip
  PROVE  Holds(s, SuccessIfNoJobs(s))
<1>1. Holds(s, s)
  BY Zenon DEF Holds
<1> QED
  BY <1>1, RequestFinishHolds, Zenon DEF SuccessIfNoJobs

LEMMA BeginReadingHolds ==
  ASSUME NEW s \in Rip, NEW t, t # 0
  PROVE  Holds(s, BeginReading(s, t))
<1>1. PICK w : w = s.wav \cup {t}
  OBVIOUS
<1>2. PICK r : r = BeginReading(s, t)
  OBVIOUS
<1>3. r.wav = w /\ r.ripped = s.ripped /\ r.concluded = s.concluded
  BY <1>1, <1>2, ZenonT(60) DEF BeginReading, Rip
<1> QED
  BY <1>1, <1>2, <1>3, Zenon DEF Holds

LEMMA StartExtractTracksHolds ==
  ASSUME OnlyAudio, config \in Config, ~config.single_file, NEW s \in Rip, NEW bad \in Bad
  PROVE  Holds(s, StartExtractTracks(s, bad))
<1>1. PICK r : r = StartExtractTracks(s, bad)
  OBVIOUS
<1>2. PICK q, S : Skips(s, q, S) /\ (Passes(s, q, r) \/ \E x, m : Halts(s, q, x, m, r))
  BY <1>1, StartExtractTracksSkips, Zenon DEF SkipsTracks
<1>3. q \in Rip /\ Holds(s, q)
  BY <1>2, Zenon DEF Skips, SameRest, Holds
<1>4. CASE Passes(s, q, r)
  <2>1. PICK y : y = [q EXCEPT !.runaway = TRUE]
    OBVIOUS
  <2>2. y.ripped = q.ripped /\ y.wav = q.wav /\ y.concluded = q.concluded
    BY <1>3, <2>1, ZenonT(60) DEF Rip
  <2>3. Holds(q, y)
    BY <2>2, Zenon DEF Holds
  <2>4. r \in {y, SuccessIfNoJobs(q)}
    BY <1>4, <2>1, Zenon DEF Passes
  <2>5. Holds(q, r)
    BY <1>3, <2>3, <2>4, SuccessIfNoJobsHolds, Zenon
  <2> QED
    BY <1>1, <1>3, <2>5, HoldsFurther, Zenon
<1>5. ASSUME NEW x, NEW m, Halts(s, q, x, m, r)
      PROVE  Holds(q, r)
  <2>1. m # 0
    BY <1>5, WantedTracks, Zenon DEF Halts
  <2>2. x \in Rip /\ Holds(q, x)
    BY <1>5, Zenon DEF Halts, Elsewhere, SameRest, Holds
  <2>3. Holds(q, RequestFinish(x, FALSE))
    BY <2>2, RequestFinishHolds, HoldsFurther, Zenon
  <2>4. Holds(q, BeginReading(q, m))
    BY <1>3, <2>1, BeginReadingHolds
  <2> QED
    BY <1>5, <2>3, <2>4, Zenon DEF Halts
<1> QED
  BY <1>1, <1>2, <1>3, <1>4, <1>5, HoldsFurther, Zenon

LEMMA StartExtractHolds ==
  ASSUME OnlyAudio, config \in Config, NEW s \in Rip, NEW bad \in Bad
  PROVE  Holds(s, StartExtract(s, bad))
<1>1. CASE s.finished
  BY <1>1, Zenon DEF StartExtract, Holds
<1>2. CASE ~s.finished /\ config.single_file
  <2>1. PICK i : i = s.ex_index + 1
    OBVIOUS
  <2>2. i \in Nat
    <3>1. s.ex_index \in Nat
      BY Zenon DEF Rip
    <3> QED
      BY <2>1, <3>1
  <2>3. PICK q : q = [s EXCEPT !.ex_index = i]
    OBVIOUS
  <2>4. q \in Rip
    BY <2>2, <2>3, ZenonT(60) DEF Rip
  <2>5. q.ripped = s.ripped /\ q.wav = s.wav /\ q.concluded = s.concluded
    BY <2>3, ZenonT(60) DEF Rip
  <2>6. Holds(s, q)
    BY <2>5, Zenon DEF Holds
  <2>7. /\ Holds(s, RequestFinish(q, FALSE)) /\ Holds(s, SuccessIfNoJobs(q))
        /\ Holds(s, BeginReading(q, 1)) /\ Holds(s, SuccessIfNoJobs(s))
    <3>1. 1 # 0
      OBVIOUS
    <3> QED
      BY <2>4, <2>6, <3>1, RequestFinishHolds, SuccessIfNoJobsHolds, BeginReadingHolds,
         HoldsFurther, Zenon
  <2>8. StartExtract(s, bad) \in {RequestFinish(q, FALSE), SuccessIfNoJobs(q),
                                  BeginReading(q, 1), SuccessIfNoJobs(s)}
    BY <1>2, <2>1, <2>3, Zenon DEF StartExtract, StartExtractDisc
  <2> QED
    BY <2>7, <2>8, Zenon
<1>3. CASE ~s.finished /\ ~config.single_file
  BY <1>3, StartExtractTracksHolds, Zenon DEF StartExtract
<1> QED
  BY <1>1, <1>2, <1>3

LEMMA StartEncodeHolds ==
  ASSUME Regular, config \in Config, NEW s \in Rip
  PROVE  Holds(s, StartEncode(s, TRUE))
<1>1. CASE s.finished
  BY <1>1, Zenon DEF StartEncode, Holds
<1>2. CASE ~s.finished
  <2>1. CASE s.en_count >= Limit
    BY <1>2, <2>1, RequestFinishHolds, Zenon DEF StartEncode
  <2>2. CASE ~(s.en_count >= Limit)
    <3>1. CASE s.processing \/ s.queue = <<>>
      BY <1>2, <2>2, <3>1, Zenon DEF StartEncode, Holds
    <3>2. CASE ~(s.processing \/ s.queue = <<>>)
      BY <1>2, <2>2, <3>2, StartEncodePops, Zenon DEF Pops, Holds
    <3> QED
      BY <3>1, <3>2, Zenon
  <2> QED
    BY <2>1, <2>2, Zenon
<1> QED
  BY <1>1, <1>2, Zenon

LEMMA ConcludeIfIdleHolds ==
  ASSUME NEW s \in Rip
  PROVE  Holds(s, ConcludeIfIdle(s))
<1>1. Holds(s, s)
  BY Zenon DEF Holds
<1> QED
  BY <1>1, ExecuteFinishHolds, Zenon DEF ConcludeIfIdle

(* What a step does to the wave files: one that is removed before the      *)
(* conclusion is of a track that is through, holds no data, or was given   *)
(* up by a rip that is to finish.                                          *)
Spends(s, r) ==
  /\ 0 \notin s.wav => 0 \notin r.wav
  /\ \A t \in s.wav \ r.wav :
        \/ r.concluded # 0
        \/ t \in r.ripped
        \/ s.empty /\ t = s.ex_index
        \/ r.finished /\ t # 0 /\ r.reading = 0 /\ t # r.proc

LEMMA HoldsSpends ==
  ASSUME NEW s, NEW q, NEW r, q.wav = s.wav, Holds(q, r)
  PROVE  Spends(s, r)
BY Zenon DEF Holds, Spends

(* The thread ended after the rip was asked to finish: what it wrote goes. *)
LEMMA FinishedExtractSpends ==
  ASSUME NEW s \in Rip, s.reading # 0, s.finished, NEW bad \in Bad,
         s.reading = s.ex_index, s.proc # 0 => s.proc # s.reading
  PROVE  Spends(s, FinishExtract(s, TRUE, bad))
<1>1. PICK n : n = s.process_counter - 1
  OBVIOUS
<1>2. PICK w : w = IF s.empty THEN s.wav \ {s.ex_index} ELSE s.wav
  OBVIOUS
<1>3. PICK c : c = [s EXCEPT !.process_counter = n, !.reading = 0, !.wav = w]
  OBVIOUS
<1>4. PICK v : v = w \ {s.ex_index}
  OBVIOUS
<1>5. PICK f : f = [c EXCEPT !.wav = v]
  OBVIOUS
<1>6. s.process_counter \in Int /\ s.wav \in SUBSET (0..NTracks)
  BY Zenon DEF Rip
<1>7. w \in SUBSET (0..NTracks) /\ v \in SUBSET (0..NTracks) /\ n \in Int /\ 0 \in 0..NTracks
  <2>1. w \in SUBSET (0..NTracks) /\ v \in SUBSET (0..NTracks)
    BY <1>2, <1>4, <1>6, Zenon
  <2> QED
    BY <1>1, <1>6, <2>1, ConstantsAssumption
<1>8. c \in Rip
  BY <1>3, <1>7, ZenonT(60) DEF Rip
<1>9. f \in Rip
  BY <1>5, <1>7, <1>8, ZenonT(60) DEF Rip
<1>10. c.reading = 0 /\ c.proc = s.proc /\ c.finished = s.finished /\ c.wav = w
  BY <1>3, <1>7, ZenonT(60) DEF Rip
<1>11. f.reading = 0 /\ f.proc = s.proc /\ f.finished = s.finished /\ f.wav = v
  BY <1>5, <1>8, <1>10, ZenonT(60) DEF Rip
<1>12. PICK r : r = FinishExtract(s, TRUE, bad)
  OBVIOUS
<1>13. r = ConcludeIfIdle(f)
  BY <1>1, <1>2, <1>3, <1>4, <1>5, <1>10, <1>12, Zenon DEF FinishExtract
<1>14. CASE r.concluded # 0
  <2>1. Holds(f, r)
    BY <1>9, <1>13, ConcludeIfIdleHolds
  <2> QED
    BY <1>2, <1>4, <1>11, <1>12, <1>14, <2>1, Zenon DEF Holds, Spends
<1>15. CASE r.concluded = 0
  <2>1. r = f
    <3>1. ExecuteFinish(f).concluded # 0
      <4>1. /\ ExecuteFinish(f).concluded = f.concluded + 1
            /\ f.concluded \in Nat
        BY <1>9, ExecuteFinishEffect, Zenon DEF ExecutesFinish, Rip
      <4> QED
        BY <4>1
    <3> QED
      BY <1>13, <1>15, <3>1, Zenon DEF ConcludeIfIdle
  <2>2. \A t \in s.wav \ v : t = s.ex_index
    BY <1>2, <1>4, Zenon
  <2>3. \A t \in s.wav \ v : t # 0 /\ t # f.proc
    BY <1>11, <2>2, Zenon
  <2>4. 0 \notin s.wav => 0 \notin v
    BY <1>2, <1>4, Zenon
  <2> QED
    BY <1>11, <1>12, <2>1, <2>3, <2>4, Zenon DEF Spends
<1> QED
  BY <1>14, <1>15

LEMMA FinishExtractSpends ==
  ASSUME Regular, OnlyAudio, config \in Config, NEW s, Good(s), s.reading # 0,
         ~s.finished, Flows(s), NEW bad \in Bad
  PROVE  Spends(s, FinishExtract(s, TRUE, bad))
<1>1. /\ s \in Rip /\ s.reading = s.ex_index /\ s.reading \in 0..NTracks
      /\ (s.processing <=> s.proc # 0)
  BY Zenon DEF Good, Consistent, ThreadInv, Rip
<1>2. s.ex_index \in Tracks
  BY <1>1, ConstantsAssumption DEF Tracks
<1>3. PICK j : /\ Adds(s, j)
               /\ FinishExtract(s, TRUE, bad) = StartExtract(StartEncode(j, TRUE), bad)
  BY <1>1, <1>2, FinishExtractAdds
<1>4. PICK q : q = StartEncode(j, TRUE)
  OBVIOUS
<1>5. q \in Rip
  BY <1>1, <1>2, <1>3, <1>4, ReadyAgain, Zenon
<1>6. j \in Rip /\ j.wav = IF s.empty THEN s.wav \ {s.ex_index} ELSE s.wav
  BY <1>3, Zenon DEF Adds
<1>7. Holds(j, q)
  BY <1>4, <1>6, StartEncodeHolds
<1>8. PICK r : r = StartExtract(q, bad)
  OBVIOUS
<1>9. Holds(q, r)
  BY <1>5, <1>8, StartExtractHolds
<1>10. Holds(j, r)
  BY <1>7, <1>9, HoldsFurther, Zenon
<1>11. Spends(s, r)
  BY <1>6, <1>10, Zenon DEF Holds, Spends
<1> QED
  BY <1>3, <1>4, <1>8, <1>11, Zenon

LEMMA StartSpends ==
  ASSUME OnlyAudio, JobInv, PrepareFails \/ \E bad \in Bad : Start(bad)
  PROVE  Spends(rip, rip')
<1>1. PICK s : s = [rip EXCEPT !.started = TRUE]
  OBVIOUS
<1>2. s \in Rip /\ rip \in Rip /\ config \in Config
  BY <1>1, StartsReady, Zenon
     DEF JobInv, FlowInv, Inv, TypeOK, PrepareFails, Start, Good, Consistent
<1>3. s.wav = rip.wav
  BY <1>1, <1>2, ZenonT(60) DEF Rip
<1>4. PICK q : q = RequestFinish(s, FALSE)
  OBVIOUS
<1>5. Holds(s, q)
  BY <1>2, <1>4, RequestFinishHolds
<1>6. CASE PrepareFails
  BY <1>1, <1>3, <1>4, <1>5, <1>6, HoldsSpends, Zenon DEF PrepareFails, SlotError
<1>7. ASSUME NEW bad \in Bad, Start(bad)
      PROVE  Spends(rip, rip')
  <2>1. CASE CheckPasses(config.free)
    <3>1. rip' = StartExtract(s, bad)
      BY <1>1, <1>7, <2>1, Zenon DEF Start
    <3> QED
      BY <1>2, <1>3, <3>1, StartExtractHolds, HoldsSpends
  <2>2. CASE ~CheckPasses(config.free)
    <3>1. q.finished
      BY <1>2, <1>4, RequestFinishEffect, Zenon DEF RequestsFinish
    <3>2. rip' = RequestFinish(q, FALSE)
      BY <1>1, <1>4, <1>7, <2>2, Zenon DEF Start, SlotError
    <3>3. rip' = q
      BY <3>1, <3>2, Zenon DEF RequestFinish
    <3> QED
      BY <1>3, <1>5, <3>3, HoldsSpends
  <2> QED
    BY <2>1, <2>2
<1> QED
  BY <1>6, <1>7

LEMMA DeliverSpends ==
  ASSUME OnlyAudio, Regular, JobInv, NEW bad \in Bad, Deliver(TRUE, bad)
  PROVE  Spends(rip, rip')
<1>1. PICK s : /\ Takes(rip, s) /\ rip.reading # 0
               /\ rip' = IF Head(rip.events) = "error" THEN SlotError(s)
                         ELSE FinishExtract(s, TRUE, bad)
  BY DeliverTakes, Zenon DEF JobInv
<1>2. /\ Good(s) /\ s \in Rip /\ GoesOn(s) /\ s.reading # 0 /\ config \in Config
      /\ s.reading = s.ex_index /\ (s.proc # 0 => s.proc # s.reading)
  BY <1>1, SameFlowGoesOn, Zenon
     DEF Takes, SameFlow, Good, Consistent, ThreadInv, Deliver, Alive, JobInv, FlowInv, Inv,
         TypeOK, Placed, Ordered
<1>3. s.wav = rip.wav /\ s.empty = rip.empty /\ s.ex_index = rip.ex_index
  BY <1>1, Zenon DEF Takes, SameFlow
<1>4. CASE Head(rip.events) = "error"
  BY <1>1, <1>2, <1>3, <1>4, RequestFinishHolds, HoldsSpends, Zenon DEF SlotError
<1>5. CASE Head(rip.events) # "error"
  <2>1. Spends(s, rip')
    BY <1>1, <1>2, <1>5, FinishedExtractSpends, FinishExtractSpends, Zenon DEF GoesOn
  <2> QED
    BY <1>3, <2>1, Zenon DEF Spends
<1> QED
  BY <1>4, <1>5

LEMMA EncoderExitsSpends ==
  ASSUME Regular, JobInv, NEW ok \in BOOLEAN, EncoderExits(ok, TRUE)
  PROVE  Spends(rip, rip')
<1>1. PICK x : /\ Ends(rip, x)
               /\ rip' = IF rip.termination \/ ok THEN FinishEncode(x, TRUE)
                         ELSE FinishEncode(SlotError(x), TRUE)
  BY EncoderExitsEnds, Zenon DEF JobInv
<1>2. config \in Config /\ x \in Rip /\ x.wav = rip.wav /\ (x.processing => x.proc # 0)
  BY <1>1, Zenon DEF JobInv, FlowInv, Inv, TypeOK, Ends
<1>3. PICK z : /\ z = IF rip.termination \/ ok THEN x ELSE SlotError(x)
               /\ rip' = FinishEncode(z, TRUE)
  BY <1>1
<1>4. z \in Rip /\ Holds(x, z)
  <2>1. Holds(x, x)
    BY Zenon DEF Holds
  <2> QED
    BY <1>2, <1>3, <2>1, RequestFinishHolds, RequestFinishKeeps, Zenon DEF SlotError
<1>5. PICK d : d = EncodeDone(z)
  OBVIOUS
<1>6. Done(z, d)
  BY <1>4, <1>5, EncodeDoneEffect, Zenon
<1>7. /\ d \in Rip /\ d.wav = z.wav \ {z.en_index} /\ d.concluded = z.concluded
      /\ d.ripped = z.ripped \cup {z.en_index}
  BY <1>6, Zenon DEF Done, SameRest
<1>8. Holds(d, rip')
  BY <1>2, <1>3, <1>5, <1>7, ConcludeIfIdleHolds, StartEncodeHolds, Zenon DEF FinishEncode
<1> QED
  BY <1>2, <1>4, <1>7, <1>8, Zenon DEF Holds, Spends

LEMMA NextSpends ==
  ASSUME OnlyAudio, Regular, JobInv, [Next]_vars
  PROVE  Spends(rip, rip')
<1>1. TRUE \in Starts /\ \A x \in Starts : x = TRUE
  BY DEF Starts, Regular
<1>2. rip \in Rip /\ config \in Config
  BY Zenon DEF JobInv, FlowInv, Inv, TypeOK
<1>3. CASE PrepareFails \/ \E bad \in Bad : Start(bad)
  BY <1>3, StartSpends
<1>4. CASE ThreadStep
  <2>1. ASSUME NEW o, ThreadEnds(o)
        PROVE  rip'.wav = rip.wav
    <3>1. PICK e, m : rip' = [rip EXCEPT !.events = e, !.empty = m]
      BY <2>1, Zenon DEF ThreadEnds
    <3> QED
      BY <1>2, <3>1, ZenonT(60) DEF Rip
  <2>2. ASSUME ThreadStarts
        PROVE  rip'.wav = rip.wav
    BY <1>2, <2>2, ThreadStartsEffect, Zenon DEF SameButRun
  <2>3. rip'.wav = rip.wav
    BY <1>4, <2>1, <2>2, Zenon DEF ThreadStep, ThreadStarts
  <2> QED
    BY <2>3, Zenon DEF Spends
<1>5. CASE LoopStep
  BY <1>1, <1>5, DeliverSpends, Zenon DEF LoopStep
<1>6. CASE EncoderOpens
  <2>1. PICK f : f = [rip.files EXCEPT ![TargetOf[rip.proc]] = Partial(rip.proc)]
    OBVIOUS
  <2>2. rip' = [rip EXCEPT !.opened = TRUE, !.files = f]
    BY <1>2, <1>6, <2>1, ZenonT(60) DEF EncoderOpens, Rip
  <2>3. rip'.wav = rip.wav
    BY <1>2, <2>2, ZenonT(60) DEF Rip
  <2> QED
    BY <2>3, Zenon DEF Spends
<1>7. CASE EncoderStep
  <2>1. ~EncoderCrashes(TRUE)
    BY DEF Regular, EncoderCrashes
  <2> QED
    BY <1>1, <1>7, <2>1, EncoderExitsSpends, Zenon DEF EncoderStep
<1>8. CASE Cancel
  BY <1>2, <1>8, RequestFinishHolds, HoldsSpends, Zenon DEF Cancel
<1>9. CASE Rest \/ UNCHANGED vars
  <2>1. rip' = rip
    BY <1>9 DEF Rest, vars
  <2> QED
    BY <2>1, Zenon DEF Spends
<1> QED
  BY <1>3, <1>4, <1>5, <1>6, <1>7, <1>8, <1>9, Zenon DEF Next

(* A wave file is removed only when nobody needs it any more: the thread   *)
(* does not write it, no encoder reads it and no job that will be ordered  *)
(* waits for it, unless it holds no data.                                  *)
THEOREM SourcesOutlive ==
  ASSUME Regular, OnlyAudio
  PROVE  Spec => SourceOutlivesItsUsers
<1> DEFINE SInv == JobInv /\ 0 \notin rip.wav
           Spent(t) == \/ rip.empty /\ t = rip.ex_index
                       \/ /\ t # rip'.reading
                          /\ t # rip'.proc
                          /\ rip'.finished \/ \A i \in DOMAIN rip'.queue : rip'.queue[i] # t
           Outlive == \A t \in rip.wav \ rip'.wav : Spent(t)
<1>1. Init => SInv
  <2> SUFFICES ASSUME Init
               PROVE  SInv
    OBVIOUS
  <2>1. PICK f : rip = NewRip(f)
    BY Zenon DEF Init
  <2>2. rip.wav = {}
    BY <2>1, ZenonT(60) DEF NewRip
  <2> QED
    BY <2>2, InitJob, Zenon
<1>2. SInv /\ [Next]_vars => SInv'
  BY NextJobInv, NextSpends, Zenon DEF Spends
<1>3. SInv /\ [Next]_vars => Outlive
  <2> SUFFICES ASSUME SInv, [Next]_vars, NEW t \in rip.wav \ rip'.wav
               PROVE  Spent(t)
    BY Zenon
  <2>1. t # 0 /\ Spends(rip, rip') /\ JobInv'
    BY NextSpends, NextJobInv, Zenon
  <2>2. rip'.concluded = N(rip'.finished /\ rip'.reading = 0 /\ rip'.proc = 0)
    BY <2>1, Zenon DEF JobInv, FlowInv, Inv, Good, Conclusive
  <2>3. CASE rip'.concluded # 0
    BY <2>1, <2>2, <2>3 DEF N
  <2>4. CASE t \in rip'.ripped
    <3>1. Ordered(rip)'
      BY <2>1, Zenon DEF JobInv, Placed
    <3>2. t # rip'.reading /\ t # rip'.proc
          /\ \A i \in DOMAIN rip'.queue : rip'.queue[i] # t
      BY <2>4, <3>1, Zenon DEF Ordered, InQueue
    <3> QED
      BY <3>2
  <2>5. CASE rip'.finished /\ t # 0 /\ rip'.reading = 0 /\ t # rip'.proc
    BY <2>5
  <2>6. CASE rip.empty /\ t = rip.ex_index
    BY <2>6
  <2> QED
    BY <2>1, <2>3, <2>4, <2>5, <2>6, Zenon DEF Spends
<1>4. SInv /\ [Next]_vars => [Outlive]_vars
  BY <1>3
<1> QED
  BY <1>1, <1>2, <1>4, PTL DEF Spec, SourceOutlivesItsUsers
=============================================================================
