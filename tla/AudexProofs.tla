----------------------------- MODULE AudexProofs -----------------------------
(***************************************************************************)
(* Proofs about Audex, for any disc, any selection and any naming scheme,  *)
(* for encoders that start and then exit by themselves or when told to.    *)
(***************************************************************************)
EXTENDS Audex, FiniteSetTheorems, WellFoundedInduction, TLAPS

(* The environment the theorems are about: no fault of the encoder beyond  *)
(* an exit with an error, before or after its output is complete; one that *)
(* was told to terminate creates no output any more.                       *)
Regular == Faults = {}

N(b) == IF b THEN 1 ELSE 0

(* The counter counts the processes that run.                              *)
Counted(s) == s.process_counter = N(s.reading # 0) + N(s.proc # 0)

(* The thread reads the track Audex counts as the current one; its signals *)
(* are queued only until Audex has handled its end.                        *)
ThreadInv(s) ==
  /\ s.reading # 0 => s.reading = s.ex_index
  /\ s.events \in {<<>>, <<"finished">>, <<"error", "finished">>}
  /\ s.events # <<>> => s.reading # 0

Consistent(s) ==
  /\ s \in Rip
  /\ Counted(s)
  /\ s.processing <=> s.proc # 0
  /\ ThreadInv(s)

(* Whatever still runs once the rip is to finish was told to stop, and did *)
(* not forget it unless it was told between its check and its reset.       *)
Told(s) ==
  s.finished => /\ s.reading # 0 => s.interrupt \/ (s.missed /\ s.run = "reading")
                /\ s.proc # 0 => s.termination

(* The conclusion has been drawn when the rip is to finish and nothing     *)
(* runs any more, and only then.                                           *)
Conclusive(s) == s.concluded = N(s.finished /\ s.reading = 0 /\ s.proc = 0)

Good(s) == Consistent(s) /\ Told(s) /\ Conclusive(s)

(* The inductive invariant.                                                *)
Inv ==
  /\ TypeOK
  /\ Good(rip)
  /\ ~rip.started => rip.reading = 0 /\ rip.proc = 0 /\ ~rip.finished

-----------------------------------------------------------------------------
(* Every non-empty set of tracks has a least and a greatest element.       *)
LEMMA LeastNatural ==
  ASSUME NEW S, S \subseteq Nat, S # {}
  PROVE  \E x \in S : \A y \in S : x <= y
<1> DEFINE R == OpToRel(<, Nat)
<1>1. IsWellFoundedOn(R, Nat)
  BY NatLessThanWellFounded
<1>2. \A x, y \in Nat : x < y => <<x, y>> \in R
  BY DEF OpToRel
<1> HIDE DEF R
<1>3. PICK x \in S : \A y \in S : ~(<<y, x>> \in R)
  BY <1>1, WFMin, Zenon
<1>4. ASSUME NEW y \in S PROVE x <= y
  <2>1. x \in Nat /\ y \in Nat /\ ~(<<y, x>> \in R)
    BY <1>3
  <2>2. ~(y < x)
    BY <1>2, <2>1, Zenon
  <2>3. QED
    BY <2>1, <2>2
<1>5. QED
  BY <1>4

LEMMA MinTrack ==
  ASSUME NEW S, S \subseteq Nat, S # {}
  PROVE  Min(S) \in S /\ \A y \in S : Min(S) <= y
BY LeastNatural, Zenon DEF Min

LEMMA MaxTrack ==
  ASSUME NEW S, S \subseteq Tracks, S # {}
  PROVE  Max(S) \in S /\ \A y \in S : y <= Max(S)
<1> DEFINE T == {NTracks - x : x \in S}
<1>1. NTracks \in Nat /\ \A y \in S : y \in Nat /\ NTracks - y \in Nat
  BY ConstantsAssumption DEF Tracks
<1>2. T \subseteq Nat /\ T # {}
  BY <1>1
<1>3. PICK x \in T : \A y \in T : x <= y
  BY <1>2, LeastNatural, Zenon
<1>4. PICK m \in S : x = NTracks - m
  BY <1>3
<1>5. \A y \in S : NTracks - m <= NTracks - y
  BY <1>3, <1>4
<1>6. \A y \in S : m >= y
  BY <1>1, <1>5
<1>7. Max(S) \in S /\ \A y \in S : Max(S) >= y
  BY <1>6, Zenon DEF Max
<1>8. QED
  BY <1>1, <1>7

-----------------------------------------------------------------------------
(* What the handlers do to the state.                                      *)

(* What most handlers leave alone.                                         *)
SameProcesses(r, s) ==
  /\ r.reading = s.reading /\ r.proc = s.proc /\ r.processing = s.processing
  /\ r.events = s.events /\ r.ex_index = s.ex_index
  /\ r.process_counter = s.process_counter
  /\ r.started = s.started

SameOrders(r, s) ==
  r.finished = s.finished /\ r.interrupt = s.interrupt /\ r.run = s.run /\ r.missed = s.missed /\ r.termination = s.termination

(* What each of the next handlers does, before it and after it.            *)
ExecutesFinish(s, r) ==
  /\ r \in Rip /\ SameProcesses(r, s) /\ SameOrders(r, s)
  /\ r.concluded = s.concluded + 1

CancelsEncoder(s, r) ==
  /\ r \in Rip /\ SameProcesses(r, s)
  /\ r.finished = s.finished /\ r.interrupt = s.interrupt /\ r.run = s.run /\ r.missed = s.missed
  /\ r.concluded = s.concluded
  /\ s.processing => r.termination
  /\ ~s.processing => r = s

CancelsExtract(s, r) ==
  /\ r \in Rip /\ SameProcesses(r, s)
  /\ r.finished = s.finished /\ r.termination = s.termination
  /\ r.concluded = s.concluded
  /\ r.interrupt

(* A first request to finish concludes the rip at once when nothing runs,  *)
(* and else tells what runs to stop; a later one does nothing.             *)
RequestsFinish(s, r) ==
  /\ r \in Rip /\ SameProcesses(r, s) /\ r.finished
  /\ s.finished => r = s
  /\ ~s.finished /\ s.process_counter > 0 =>
       /\ r.concluded = s.concluded
       /\ r.interrupt
       /\ s.processing => r.termination
  /\ ~s.finished /\ ~(s.process_counter > 0) => r.concluded = s.concluded + 1

LEMMA ExecuteFinishEffect ==
  ASSUME NEW s \in Rip
  PROVE  ExecutesFinish(s, ExecuteFinish(s))
<1> DEFINE l == IF s.successful
                THEN s.ripped \cap AudioTracks \cap config.selection ELSE {}
<1>1. l \in SUBSET (0..NTracks) /\ {} \in SUBSET (0..NTracks) /\ s.concluded + 1 \in Nat
  BY DEF Rip
<1>2. ExecuteFinish(s) = [s EXCEPT !.listed = l, !.wav = {}, !.concluded = s.concluded + 1]
  BY Zenon DEF ExecuteFinish
<1> HIDE DEF l
<1>3. ExecuteFinish(s) \in Rip
  BY <1>1, <1>2, Zenon DEF Rip
<1>4. QED
  BY <1>2, <1>3, Zenon DEF Rip, ExecutesFinish, SameProcesses, SameOrders

LEMMA CancelEncoderEffect ==
  ASSUME NEW s \in Rip
  PROVE  CancelsEncoder(s, CancelEncoder(s))
<1>1. CASE ~s.processing
  BY <1>1, Zenon DEF CancelEncoder, CancelsEncoder, SameProcesses
<1>2. CASE s.processing
  <2> DEFINE f == IF config.delete_fraction_files /\ s.filename # 0
                  THEN [s.files EXCEPT ![TargetOf[s.filename]] = Absent]
                  ELSE s.files
  <2>1. f \in [Files -> Content]
    <3>1. s.files \in [Files -> Content] /\ s.filename \in 0..NTracks
      BY Zenon DEF Rip
    <3>2. Absent \in Content
      BY ConstantsAssumption DEF Absent, Content
    <3>3. QED
      BY <3>1, <3>2
  <2>2. CancelEncoder(s) = [s EXCEPT !.termination = TRUE, !.files = f]
    BY <1>2, Zenon DEF CancelEncoder
  <2> HIDE DEF f
  <2>3. CancelEncoder(s) \in Rip
    BY <2>1, <2>2, Zenon DEF Rip
  <2>4. PICK r : r = CancelEncoder(s)
    OBVIOUS
  <2>5. SameProcesses(r, s) /\ r.finished = s.finished
    BY <2>2, <2>4, ZenonT(60) DEF Rip, SameProcesses
  <2>6. r.interrupt = s.interrupt /\ r.run = s.run /\ r.missed = s.missed
        /\ r.concluded = s.concluded /\ r.termination
    BY <2>2, <2>4, ZenonT(60) DEF Rip
  <2>7. QED
    BY <1>2, <2>3, <2>4, <2>5, <2>6, Zenon DEF CancelsEncoder
<1>3. QED
  BY <1>1, <1>2, Zenon

LEMMA CancelExtractEffect ==
  ASSUME NEW s \in Rip
  PROVE  CancelsExtract(s, CancelExtract(s))
BY Zenon DEF CancelExtract, Rip, CancelsExtract, SameProcesses

LEMMA RequestFinishEffect ==
  ASSUME NEW s \in Rip, NEW ok \in BOOLEAN
  PROVE  RequestsFinish(s, RequestFinish(s, ok))
<1>0. PICK q : q = [s EXCEPT !.finished = TRUE, !.successful = ok]
  OBVIOUS
<1>1. /\ q \in Rip /\ SameProcesses(q, s)
      /\ q.finished /\ q.concluded = s.concluded
  BY <1>0, Zenon DEF Rip, SameProcesses
<1>2. CASE s.finished
  BY <1>2, Zenon DEF RequestFinish, RequestsFinish, SameProcesses
<1>3. CASE ~s.finished /\ s.process_counter > 0
  <2>1. RequestFinish(s, ok) = CancelExtract(CancelEncoder(q))
    BY <1>0, <1>1, <1>3, Zenon DEF RequestFinish, SameProcesses
  <2>2. CancelsEncoder(q, CancelEncoder(q))
    BY <1>1, CancelEncoderEffect, Zenon
  <2>3. CancelsExtract(CancelEncoder(q), CancelExtract(CancelEncoder(q)))
    BY <2>2, CancelExtractEffect, Zenon DEF CancelsEncoder
  <2>4. QED
    BY <1>1, <1>3, <2>1, <2>2, <2>3, Zenon
       DEF RequestsFinish, CancelsEncoder, CancelsExtract, SameProcesses
<1>4. CASE ~s.finished /\ ~(s.process_counter > 0)
  <2>1. RequestFinish(s, ok) = ExecuteFinish(q)
    BY <1>0, <1>1, <1>4, Zenon DEF RequestFinish, SameProcesses
  <2>2. ExecutesFinish(q, ExecuteFinish(q))
    BY <1>1, ExecuteFinishEffect, Zenon
  <2>3. QED
    BY <1>1, <1>4, <2>1, <2>2, Zenon
       DEF RequestsFinish, ExecutesFinish, SameProcesses, SameOrders
<1>5. QED
  BY <1>2, <1>3, <1>4, Zenon

LEMMA RequestFinishGood ==
  ASSUME NEW s, Good(s), NEW ok \in BOOLEAN
  PROVE  /\ Good(RequestFinish(s, ok))
         /\ RequestsFinish(s, RequestFinish(s, ok))
<1>0. PICK r : r = RequestFinish(s, ok)
  OBVIOUS
<1>1. s \in Rip
  BY Zenon DEF Good, Consistent
<1>2. RequestsFinish(s, r)
  BY <1>0, <1>1, RequestFinishEffect, Zenon
<1>3. Consistent(r)
  BY <1>2, Zenon DEF RequestsFinish, Good, Consistent, SameProcesses, Counted, ThreadInv
<1>4. s.process_counter > 0 <=> ~(s.reading = 0 /\ s.proc = 0)
  BY DEF Good, Consistent, Counted, N
<1>5. Told(r)
  BY <1>2, <1>4, Zenon DEF RequestsFinish, Good, Consistent, Told, SameProcesses
<1>6. Conclusive(r)
  BY <1>2, <1>4 DEF RequestsFinish, Good, Conclusive, N, SameProcesses
<1>7. QED
  BY <1>0, <1>2, <1>3, <1>5, <1>6, Zenon DEF Good

-----------------------------------------------------------------------------
(* Each handler leads from a good state to a good one.                     *)

(* A handler that only counts and skips, between two extractions.          *)
LEMMA SkippingIsGood ==
  ASSUME NEW s, NEW r \in Rip, Good(s), s.reading = 0,
         r.reading = s.reading, r.proc = s.proc, r.processing = s.processing,
         r.events = s.events, r.process_counter = s.process_counter,
         r.finished = s.finished, r.concluded = s.concluded,
         r.interrupt = s.interrupt /\ r.run = s.run /\ r.missed = s.missed, r.termination = s.termination
  PROVE  Good(r)
BY Zenon DEF Good, Consistent, Counted, ThreadInv, Told, Conclusive

LEMMA BeginReadingGood ==
  ASSUME NEW s, Good(s), s.reading = 0, ~s.finished, NEW t \in Tracks
  PROVE  /\ Good(BeginReading(s, t))
         /\ BeginReading(s, t).started = s.started
<1>0. PICK r : r = BeginReading(s, t)
  OBVIOUS
<1>1. /\ s \in Rip /\ s.wav \in SUBSET (0..NTracks)
      /\ s.process_counter \in Int /\ s.ex_count \in Nat
      /\ t \in Nat /\ t \in 0..NTracks /\ t # 0
  BY ConstantsAssumption DEF Good, Consistent, Rip, Tracks
<1>2. /\ "due" \in {"due", "checked", "reading"}
      /\ s.wav \cup {t} \in SUBSET (0..NTracks)
      /\ s.process_counter + 1 \in Int /\ s.ex_count + 1 \in Nat
  BY <1>1
<1>3. r = [s EXCEPT !.ex_index = t, !.ex_count = s.ex_count + 1, !.reading = t,
                    !.run = "due", !.empty = FALSE, !.wav = s.wav \cup {t},
                    !.process_counter = s.process_counter + 1]
  BY <1>0, Zenon DEF BeginReading
<1>4. r \in Rip
  BY <1>1, <1>2, <1>3, ZenonT(60) DEF Rip
<1>5. /\ r.reading = t /\ r.ex_index = t /\ r.proc = s.proc
      /\ r.processing = s.processing /\ r.events = s.events
      /\ r.process_counter = s.process_counter + 1
      /\ r.finished = s.finished /\ r.concluded = s.concluded
      /\ r.started = s.started
  BY <1>1, <1>3, ZenonT(60) DEF Rip
<1>6. Counted(r)
  BY <1>1, <1>5 DEF Counted, N, Good, Consistent
<1>7. Consistent(r)
  BY <1>1, <1>4, <1>5, <1>6, Zenon DEF Consistent, ThreadInv, Good
<1>8. Conclusive(r)
  BY <1>5, Zenon DEF Conclusive, N, Good
<1>9. Told(r)
  BY <1>5, Zenon DEF Told
<1>10. QED
  BY <1>0, <1>5, <1>7, <1>8, <1>9, Zenon DEF Good

LEMMA SuccessIfNoJobsGood ==
  ASSUME NEW s, Good(s)
  PROVE  /\ Good(SuccessIfNoJobs(s))
         /\ SuccessIfNoJobs(s).started = s.started
BY RequestFinishGood, Zenon DEF SuccessIfNoJobs, RequestsFinish, SameProcesses

LEMMA StartExtractDiscGood ==
  ASSUME NEW s, Good(s), s.reading = 0, ~s.finished, NEW bad \in Bad
  PROVE  /\ Good(StartExtractDisc(s, bad))
         /\ StartExtractDisc(s, bad).started = s.started
<1>0. PICK q : q = [s EXCEPT !.ex_index = s.ex_index + 1]
  OBVIOUS
<1>1. s \in Rip /\ s.ex_index + 1 \in Nat
  BY DEF Good, Consistent, Rip
<1>2. q \in Rip
  BY <1>0, <1>1, ZenonT(60) DEF Rip
<1>3. /\ q.reading = s.reading /\ q.proc = s.proc /\ q.processing = s.processing
      /\ q.events = s.events /\ q.process_counter = s.process_counter
      /\ q.finished = s.finished /\ q.concluded = s.concluded
      /\ q.interrupt = s.interrupt /\ q.run = s.run /\ q.missed = s.missed /\ q.termination = s.termination
      /\ q.started = s.started
  BY <1>0, <1>1, Zenon DEF Rip
<1>4. Good(q)
  BY <1>2, <1>3, SkippingIsGood, Zenon
<1>5. 1 \in Tracks
  BY ConstantsAssumption DEF Tracks
<1>6. \/ StartExtractDisc(s, bad) = SuccessIfNoJobs(s)
      \/ StartExtractDisc(s, bad) = RequestFinish(q, FALSE)
      \/ StartExtractDisc(s, bad) = SuccessIfNoJobs(q)
      \/ StartExtractDisc(s, bad) = BeginReading(q, 1)
  BY <1>0, Zenon DEF StartExtractDisc
<1>7. /\ Good(RequestFinish(q, FALSE))
      /\ RequestFinish(q, FALSE).started = s.started
  BY <1>3, <1>4, RequestFinishGood, Zenon DEF RequestsFinish, SameProcesses
<1>8. /\ Good(BeginReading(q, 1))
      /\ BeginReading(q, 1).started = s.started
  BY <1>3, <1>4, <1>5, BeginReadingGood, Zenon
<1>9. QED
  BY <1>3, <1>4, <1>6, <1>7, <1>8, SuccessIfNoJobsGood, Zenon

LEMMA StartExtractTracksGood ==
  ASSUME config \in Config, NEW s, Good(s), s.reading = 0, ~s.finished, NEW bad \in Bad
  PROVE  /\ Good(StartExtractTracks(s, bad))
         /\ StartExtractTracks(s, bad).started = s.started
<1> DEFINE ahead  == {t \in config.selection \cap AudioTracks : t > s.ex_index}
           stops  == {t \in ahead : t = bad \/ ~AlreadyThere(s, t)}
           passed == IF stops = {} THEN ahead ELSE {t \in ahead : t < Min(stops)}
           index  == IF passed = {} THEN s.ex_index ELSE Max(passed)
           skip   == [s EXCEPT !.ex_index = index,
                               !.ex_count = s.ex_count + Cardinality(passed),
                               !.en_count = s.en_count + Cardinality(passed),
                               !.ripped = s.ripped \cup passed]
<1>1. PICK q : q = skip
  OBVIOUS
<1>2. PICK x : x = [q EXCEPT !.ex_index = bad]
  OBVIOUS
<1>3. PICK y : y = [q EXCEPT !.runaway = TRUE]
  OBVIOUS
<1>4. /\ NTracks \in Nat /\ Tracks = 1..NTracks
      /\ AudioTracks \subseteq Tracks
      /\ bad \in Nat
  BY ConstantsAssumption DEF Tracks, Bad
<1>5. /\ s \in Rip /\ s.ex_index \in Nat /\ s.ex_count \in Nat /\ s.en_count \in Nat
      /\ s.ripped \in SUBSET (0..NTracks)
  BY Zenon DEF Good, Consistent, Rip
<1>6. passed \subseteq Tracks /\ stops \subseteq Tracks
  BY <1>4, Zenon
<1>7. stops # {} => Min(stops) \in Tracks
  <2>1. stops \subseteq Nat
    BY <1>4, <1>6
  <2> HIDE DEF stops
  <2>2. QED
    BY <1>6, <2>1, MinTrack
<1>8. StartExtractTracks(s, bad) =
        IF stops # {}
        THEN IF Min(stops) = bad THEN RequestFinish(x, FALSE)
             ELSE BeginReading(q, Min(stops))
        ELSE IF q.ex_count >= Limit THEN SuccessIfNoJobs(q) ELSE y
  BY <1>1, <1>2, <1>3, Zenon DEF StartExtractTracks
<1> HIDE DEF ahead, stops, passed
<1>9. Cardinality(passed) \in Nat
  <2>1. IsFiniteSet(Tracks)
    BY <1>4, FS_Interval
  <2>2. QED
    BY <1>6, <2>1, FS_Subset, FS_CardinalityType
<1>10. index \in Nat
  <2>1. passed # {} => Max(passed) \in Tracks
    BY <1>6, MaxTrack, Zenon
  <2>2. passed # {} => Max(passed) \in Nat
    BY <1>4, <2>1
  <2>3. QED
    BY <1>5, <2>2, Zenon
<1>11. /\ s.ex_count + Cardinality(passed) \in Nat
       /\ s.en_count + Cardinality(passed) \in Nat
       /\ s.ripped \cup passed \in SUBSET (0..NTracks)
  <2>1. s.ex_count + Cardinality(passed) \in Nat /\ s.en_count + Cardinality(passed) \in Nat
    BY <1>5, <1>9
  <2>2. Tracks \subseteq 0..NTracks
    BY <1>4
  <2>3. QED
    BY <1>5, <1>6, <2>1, <2>2, Zenon
<1> HIDE DEF index
<1>12. q \in Rip
  BY <1>1, <1>5, <1>10, <1>11, ZenonT(60) DEF Rip
<1>13. x \in Rip /\ y \in Rip
  BY <1>2, <1>3, <1>4, <1>12, ZenonT(60) DEF Rip
<1>14. /\ q.reading = s.reading /\ q.proc = s.proc /\ q.processing = s.processing
       /\ q.events = s.events /\ q.process_counter = s.process_counter
       /\ q.finished = s.finished /\ q.concluded = s.concluded
       /\ q.interrupt = s.interrupt /\ q.run = s.run /\ q.missed = s.missed /\ q.termination = s.termination
       /\ q.started = s.started
  BY <1>1, <1>5, ZenonT(60) DEF Rip
<1>15. /\ x.reading = q.reading /\ x.proc = q.proc /\ x.processing = q.processing
       /\ x.events = q.events /\ x.process_counter = q.process_counter
       /\ x.finished = q.finished /\ x.concluded = q.concluded
       /\ x.interrupt = q.interrupt /\ x.run = q.run /\ x.missed = q.missed /\ x.termination = q.termination
       /\ x.started = q.started
  BY <1>2, <1>12, ZenonT(60) DEF Rip
<1>16. /\ y.reading = q.reading /\ y.proc = q.proc /\ y.processing = q.processing
       /\ y.events = q.events /\ y.process_counter = q.process_counter
       /\ y.finished = q.finished /\ y.concluded = q.concluded
       /\ y.interrupt = q.interrupt /\ y.run = q.run /\ y.missed = q.missed /\ y.termination = q.termination
       /\ y.started = q.started
  BY <1>3, <1>12, ZenonT(60) DEF Rip
<1>17. Good(q)
  BY <1>12, <1>14, SkippingIsGood, Zenon
<1>18. Good(x) /\ Good(y)
  BY <1>13, <1>14, <1>15, <1>16, <1>17, SkippingIsGood, Zenon
<1>19. /\ Good(RequestFinish(x, FALSE))
       /\ RequestFinish(x, FALSE).started = s.started
  BY <1>14, <1>15, <1>18, RequestFinishGood, Zenon DEF RequestsFinish, SameProcesses
<1>20. CASE stops # {}
  <2>1. /\ Good(BeginReading(q, Min(stops)))
        /\ BeginReading(q, Min(stops)).started = s.started
    BY <1>7, <1>14, <1>17, <1>20, BeginReadingGood, Zenon
  <2>2. QED
    BY <1>8, <1>19, <1>20, <2>1, Zenon
<1>21. CASE stops = {}
  BY <1>8, <1>14, <1>16, <1>17, <1>18, <1>21, SuccessIfNoJobsGood, Zenon
<1>22. QED
  BY <1>20, <1>21, Zenon

LEMMA StartExtractGood ==
  ASSUME config \in Config, NEW s, Good(s), s.reading = 0, NEW bad \in Bad
  PROVE  /\ Good(StartExtract(s, bad))
         /\ StartExtract(s, bad).started = s.started
BY StartExtractDiscGood, StartExtractTracksGood, Zenon DEF StartExtract

(* An encoder that can be started is started when no other one runs.       *)
LEMMA StartEncodeGood ==
  ASSUME Regular, config \in Config, NEW s, Good(s)
  PROVE  LET r == StartEncode(s, TRUE)
         IN  /\ Good(r)
             /\ r.reading = s.reading /\ r.events = s.events
             /\ r.started = s.started
<1>1. CASE \/ s.finished
           \/ s.en_count >= Limit
           \/ s.processing \/ s.queue = <<>>
  BY <1>1, RequestFinishGood, Zenon DEF StartEncode, RequestsFinish, SameProcesses
<1>2. CASE /\ ~s.finished /\ ~(s.en_count >= Limit)
           /\ ~s.processing /\ s.queue # <<>>
  <2>1. PICK t : t = Head(s.queue)
    OBVIOUS
  <2>2. PICK q : q = Tail(s.queue)
    OBVIOUS
  <2>3. PICK c : c = s.process_counter + 1
    OBVIOUS
  <2>4. PICK e : e = s.en_count + 1
    OBVIOUS
  <2>5. s \in Rip /\ s.queue \in Seq(Tracks) /\ s.process_counter \in Int /\ s.en_count \in Nat
    BY Zenon DEF Good, Consistent, Rip
  <2>6. /\ q \in Seq(Tracks) /\ t \in Tracks /\ c \in Int /\ e \in Nat
    BY <1>2, <2>1, <2>2, <2>3, <2>4, <2>5
  <2>7. t \in 0..NTracks /\ t # 0
    BY <2>6, ConstantsAssumption DEF Tracks
  <2>8. config.no_command = FALSE
    BY Zenon DEF Regular, Config
  <2>9. PICK o : o = [s EXCEPT !.queue = q, !.in_progress = TRUE,
                               !.en_count = e, !.en_index = t]
    OBVIOUS
  <2>10. o \in Rip
    BY <2>5, <2>6, <2>7, <2>9, ZenonT(60) DEF Rip
  <2>11. PICK b : b = [o EXCEPT !.processing = TRUE, !.termination = FALSE]
    OBVIOUS
  <2>12. b \in Rip
    BY <2>10, <2>11, ZenonT(60) DEF Rip
  <2>13. PICK r : r = [[b EXCEPT !.filename = t, !.proc = t, !.opened = FALSE]
                       EXCEPT !.process_counter = c]
    OBVIOUS
  <2>14. r \in Rip
    BY <2>6, <2>7, <2>12, <2>13, ZenonT(60) DEF Rip
  <2>15. /\ o.reading = s.reading /\ o.events = s.events /\ o.ex_index = s.ex_index
         /\ o.process_counter = s.process_counter /\ o.finished = s.finished
         /\ o.concluded = s.concluded /\ o.started = s.started
    BY <2>5, <2>9, ZenonT(60) DEF Rip
  <2>16. /\ b.reading = o.reading /\ b.events = o.events /\ b.ex_index = o.ex_index
         /\ b.process_counter = o.process_counter /\ b.finished = o.finished
         /\ b.concluded = o.concluded /\ b.started = o.started
         /\ b.processing
    BY <2>10, <2>11, ZenonT(60) DEF Rip
  <2>17. /\ r.reading = b.reading /\ r.events = b.events /\ r.ex_index = b.ex_index
         /\ r.process_counter = c /\ r.finished = b.finished
         /\ r.concluded = b.concluded /\ r.started = b.started
         /\ r.processing /\ r.proc = t
    BY <2>12, <2>13, <2>16, ZenonT(60) DEF Rip
  <2>18. [Encode(o, t, TRUE) EXCEPT !.process_counter = @ + 1] = r
    <3>1. Encode(o, t, TRUE) = [b EXCEPT !.filename = t, !.proc = t, !.opened = FALSE]
      BY <2>8, <2>11, Zenon DEF Encode
    <3>2. Encode(o, t, TRUE).process_counter = s.process_counter
      BY <3>1, <2>12, <2>15, <2>16, ZenonT(60) DEF Rip
    <3>3. QED
      BY <3>1, <3>2, <2>3, <2>13, Zenon
  <2>19. StartEncode(s, TRUE) = r
    <3>1. o = [s EXCEPT !.queue = Tail(@), !.in_progress = TRUE,
                        !.en_count = @ + 1, !.en_index = t]
      BY <2>2, <2>4, <2>9, Zenon
    <3>2. QED
      BY <1>2, <2>1, <2>18, <3>1, Zenon DEF StartEncode
  <2>20. Counted(r)
    BY <1>2, <2>3, <2>5, <2>7, <2>15, <2>16, <2>17 DEF Good, Consistent, Counted, N
  <2>21. Consistent(r)
    BY <2>7, <2>14, <2>15, <2>16, <2>17, <2>20, Zenon DEF Good, Consistent, ThreadInv
  <2>22. Told(r) /\ Conclusive(r)
    BY <1>2, <2>15, <2>16, <2>17, Zenon DEF Good, Told, Conclusive, N
  <2>23. QED
    BY <2>15, <2>16, <2>17, <2>19, <2>21, <2>22, Zenon DEF Good
<1>3. QED
  BY <1>1, <1>2, Zenon

(* The last process to end draws the conclusion, and only the last.        *)
LEMMA ConcludeIfIdleGood ==
  ASSUME NEW s, Consistent(s), Told(s), s.finished, s.concluded = 0
  PROVE  /\ Good(ConcludeIfIdle(s))
         /\ ConcludeIfIdle(s).started = s.started
         /\ ConcludeIfIdle(s).finished
<1>1. s \in Rip
  BY Zenon DEF Consistent
<1>2. s.process_counter = 0 <=> s.reading = 0 /\ s.proc = 0
  BY DEF Consistent, Counted, N
<1>3. CASE s.process_counter = 0
  <2>1. PICK r : r = ExecuteFinish(s)
    OBVIOUS
  <2>2. ExecutesFinish(s, r)
    BY <1>1, <2>1, ExecuteFinishEffect, Zenon
  <2>3. Consistent(r) /\ Told(r)
    BY <2>2, Zenon DEF ExecutesFinish, SameProcesses, SameOrders, Consistent, Counted,
                       ThreadInv, Told
  <2>4. r.concluded = 1 /\ r.finished /\ r.reading = 0 /\ r.proc = 0
    BY <1>2, <1>3, <2>2 DEF ExecutesFinish, SameProcesses, SameOrders
  <2>5. QED
    BY <1>3, <2>1, <2>2, <2>3, <2>4, Zenon
       DEF Good, Conclusive, N, ConcludeIfIdle, ExecutesFinish, SameProcesses
<1>4. CASE s.process_counter # 0
  BY <1>2, <1>4, Zenon DEF Good, Conclusive, N, ConcludeIfIdle
<1>5. QED
  BY <1>3, <1>4, Zenon

(* An encoder has exited and Audex has not counted it down yet.            *)
Exited(s) ==
  /\ s \in Rip
  /\ s.process_counter = N(s.reading # 0) + 1
  /\ s.proc = 0 /\ s.processing = FALSE
  /\ ThreadInv(s) /\ Told(s)
  /\ s.concluded = 0

LEMMA ExitedError ==
  ASSUME NEW s, Exited(s)
  PROVE  /\ Exited(SlotError(s))
         /\ SlotError(s).started = s.started
         /\ SlotError(s).finished
<1>1. PICK r : r = SlotError(s)
  OBVIOUS
<1>2. RequestsFinish(s, r)
  BY <1>1, RequestFinishEffect, Zenon DEF SlotError, Exited
<1>3. s.process_counter > 0
  BY DEF Exited, N
<1>4. QED
  BY <1>1, <1>2, <1>3, Zenon
     DEF Exited, RequestsFinish, SameProcesses, ThreadInv, Told

LEMMA FinishEncodeGood ==
  ASSUME Regular, config \in Config, NEW s, Exited(s)
  PROVE  /\ Good(FinishEncode(s, TRUE))
         /\ FinishEncode(s, TRUE).started = s.started
         /\ s.finished => FinishEncode(s, TRUE).finished
<1>1. PICK d : d = EncodeDone(s)
  OBVIOUS
<1>2. PICK c : c = s.process_counter - 1
  OBVIOUS
<1>3. PICK w : w = s.wav \ {s.en_index}
  OBVIOUS
<1>4. PICK x : x = s.ripped \cup {s.en_index}
  OBVIOUS
<1>5. /\ s \in Rip /\ s.process_counter \in Int /\ s.en_index \in 0..NTracks
      /\ s.wav \in SUBSET (0..NTracks) /\ s.ripped \in SUBSET (0..NTracks)
  BY Zenon DEF Exited, Rip
<1>6. c \in Int /\ w \in SUBSET (0..NTracks) /\ x \in SUBSET (0..NTracks)
  <2>1. c \in Int
    BY <1>2, <1>5
  <2>2. QED
    BY <1>3, <1>4, <1>5, <2>1, Zenon
<1>7. d = [s EXCEPT !.process_counter = c, !.in_progress = FALSE, !.ripped = x, !.wav = w]
  BY <1>1, <1>2, <1>3, <1>4, Zenon DEF EncodeDone
<1>8. d \in Rip
  BY <1>5, <1>6, <1>7, ZenonT(60) DEF Rip
<1>9. /\ d.reading = s.reading /\ d.proc = s.proc /\ d.processing = s.processing
      /\ d.events = s.events /\ d.ex_index = s.ex_index
      /\ d.process_counter = c /\ d.started = s.started
      /\ d.finished = s.finished /\ d.interrupt = s.interrupt /\ d.run = s.run /\ d.missed = s.missed
      /\ d.termination = s.termination /\ d.concluded = s.concluded
  BY <1>5, <1>7, ZenonT(60) DEF Rip
<1>10. Counted(d)
  BY <1>2, <1>5, <1>9 DEF Exited, Counted, N
<1>11. Consistent(d) /\ Told(d)
  BY <1>8, <1>9, <1>10, Zenon DEF Exited, Consistent, ThreadInv, Told
<1>12. CASE d.finished
  BY <1>1, <1>9, <1>11, <1>12, ConcludeIfIdleGood, Zenon DEF FinishEncode, Exited
<1>13. CASE ~d.finished
  <2>1. Good(d)
    BY <1>9, <1>11, <1>13, Zenon DEF Good, Conclusive, N, Exited
  <2>2. QED
    BY <1>1, <1>9, <1>13, <2>1, StartEncodeGood, Zenon DEF FinishEncode
<1>14. QED
  BY <1>12, <1>13, Zenon

(* The thread's last signal: its wave file becomes a job, or is removed.   *)
LEMMA FinishExtractGood ==
  ASSUME Regular, config \in Config, NEW s, Good(s), s.reading # 0, s.events = <<>>,
         NEW bad \in Bad
  PROVE  /\ Good(FinishExtract(s, TRUE, bad))
         /\ FinishExtract(s, TRUE, bad).started = s.started
         /\ s.finished => FinishExtract(s, TRUE, bad).finished
<1>1. PICK n : n = s.process_counter - 1
  OBVIOUS
<1>2. PICK w : w = IF s.empty THEN s.wav \ {s.ex_index} ELSE s.wav
  OBVIOUS
<1>3. PICK q : q = Append(s.queue, s.ex_index)
  OBVIOUS
<1>4. PICK c : c = [s EXCEPT !.process_counter = n, !.reading = 0, !.wav = w]
  OBVIOUS
<1>5. PICK f : f = [c EXCEPT !.wav = w \ {s.ex_index}]
  OBVIOUS
<1>6. PICK j : j = [c EXCEPT !.queue = q]
  OBVIOUS
<1>7. /\ s \in Rip /\ s.process_counter \in Int /\ s.wav \in SUBSET (0..NTracks)
      /\ s.queue \in Seq(Tracks) /\ s.reading = s.ex_index /\ s.reading \in 0..NTracks
  BY Zenon DEF Good, Consistent, ThreadInv, Rip
<1>8. /\ w \in SUBSET (0..NTracks)
      /\ w \ {s.ex_index} \in SUBSET (0..NTracks)
  BY <1>2, <1>7, Zenon
<1>9. n \in Int /\ 0 \in 0..NTracks /\ s.ex_index \in Tracks
  BY <1>1, <1>7, ConstantsAssumption DEF Tracks
<1>10. q \in Seq(Tracks)
  BY <1>3, <1>7, <1>9
<1>11. c \in Rip
  BY <1>4, <1>7, <1>8, <1>9, ZenonT(60) DEF Rip
<1>12. f \in Rip
  BY <1>5, <1>8, <1>11, ZenonT(60) DEF Rip
<1>13. j \in Rip
  BY <1>6, <1>10, <1>11, ZenonT(60) DEF Rip
<1>14. /\ c.reading = 0 /\ c.proc = s.proc /\ c.processing = s.processing
       /\ c.events = s.events /\ c.ex_index = s.ex_index
       /\ c.process_counter = n /\ c.started = s.started
       /\ c.finished = s.finished /\ c.interrupt = s.interrupt /\ c.run = s.run /\ c.missed = s.missed
       /\ c.termination = s.termination /\ c.concluded = s.concluded
       /\ c.wav = w /\ c.queue = s.queue
  BY <1>4, <1>7, ZenonT(60) DEF Rip
<1>15. SameProcesses(f, c) /\ SameOrders(f, c) /\ f.concluded = c.concluded
  BY <1>5, <1>11, ZenonT(60) DEF Rip, SameProcesses, SameOrders
<1>16. SameProcesses(j, c) /\ SameOrders(j, c) /\ j.concluded = c.concluded
  BY <1>6, <1>11, ZenonT(60) DEF Rip, SameProcesses, SameOrders
<1>17. Counted(c)
  BY <1>1, <1>7, <1>14 DEF Good, Consistent, Counted, N
<1>18. s.concluded = 0
  BY Zenon DEF Good, Conclusive, N
<1>19. CASE s.finished
  <2>1. FinishExtract(s, TRUE, bad) = ConcludeIfIdle(f)
    BY <1>1, <1>2, <1>4, <1>5, <1>14, <1>19, Zenon DEF FinishExtract
  <2>2. Consistent(f) /\ Told(f)
    BY <1>12, <1>14, <1>15, <1>17, Zenon
       DEF Good, Consistent, Counted, ThreadInv, Told, SameProcesses, SameOrders
  <2>3. QED
    BY <1>14, <1>15, <1>18, <1>19, <2>1, <2>2, ConcludeIfIdleGood, Zenon
       DEF SameProcesses, SameOrders
<1>20. CASE ~s.finished
  <2>1. FinishExtract(s, TRUE, bad) = StartExtract(StartEncode(j, TRUE), bad)
    BY <1>1, <1>2, <1>3, <1>4, <1>6, <1>14, <1>20, Zenon DEF FinishExtract
  <2>2. Good(j)
    BY <1>13, <1>14, <1>16, <1>17, <1>18, <1>20, Zenon
       DEF Good, Consistent, Counted, ThreadInv, Told, Conclusive, N,
           SameProcesses, SameOrders
  <2>3. /\ Good(StartEncode(j, TRUE))
        /\ StartEncode(j, TRUE).reading = 0
        /\ StartEncode(j, TRUE).started = s.started
    BY <1>14, <1>16, <2>2, StartEncodeGood, Zenon DEF SameProcesses
  <2>4. QED
    BY <1>20, <2>1, <2>3, StartExtractGood, Zenon
<1>21. QED
  BY <1>19, <1>20, Zenon

-----------------------------------------------------------------------------
(* Every action preserves the invariant.                                   *)

(* What the queue of the thread's signals may hold.                        *)
LEMMA SignalSequences ==
  LET S == Seq({"error", "finished"})
  IN  /\ <<>> \in S /\ <<"finished">> \in S /\ <<"error", "finished">> \in S
      /\ Tail(<<"finished">>) = <<>> /\ Head(<<"finished">>) = "finished"
      /\ Tail(<<"error", "finished">>) = <<"finished">>
      /\ Head(<<"error", "finished">>) = "error"
<1>1. <<>> \in Seq({"error", "finished"})
  OBVIOUS
<1>2. <<"finished">> \in Seq({"error", "finished"})
  OBVIOUS
<1>3. <<"error", "finished">> \in Seq({"error", "finished"})
  OBVIOUS
<1>4. Tail(<<"finished">>) = <<>> /\ Head(<<"finished">>) = "finished"
  OBVIOUS
<1>5. Head(<<"error", "finished">>) = "error"
  OBVIOUS
<1>6. Tail(<<"error", "finished">>) = <<"finished">>
  OBVIOUS
<1>7. QED
  BY <1>1, <1>2, <1>3, <1>4, <1>5, <1>6

LEMMA InitInv ==
  ASSUME Init
  PROVE  Inv
<1>1. PICK old \in SUBSET Files :
        rip = NewRip([g \in Files |-> IF g \in old THEN Old ELSE Absent])
  BY Zenon DEF Init
<1>2. PICK f : f = [g \in Files |-> IF g \in old THEN Old ELSE Absent]
  OBVIOUS
<1>3. f \in [Files -> Content]
  <2>1. Old \in Content /\ Absent \in Content
    BY ConstantsAssumption DEF Old, Absent, Content
  <2>2. QED
    BY <1>2, <2>1
<1>4. /\ 0 \in 0..NTracks /\ 0 \in Nat /\ 0 \in Int
      /\ <<>> \in Seq({"error", "finished"}) /\ <<>> \in Seq(Tracks)
      /\ {} \in SUBSET (0..NTracks)
  BY ConstantsAssumption
<1>5. rip \in Rip
  BY <1>1, <1>2, <1>3, <1>4, ZenonT(60) DEF NewRip, Rip
<1>6. /\ rip.reading = 0 /\ rip.proc = 0 /\ rip.processing = FALSE
      /\ rip.events = <<>> /\ rip.process_counter = 0
      /\ rip.finished = FALSE /\ rip.concluded = 0
  BY <1>1, ZenonT(60) DEF NewRip
<1>7. Counted(rip)
  BY <1>6 DEF Counted, N
<1>8. Good(rip)
  BY <1>5, <1>6, <1>7, Zenon
     DEF Good, Consistent, ThreadInv, Told, Conclusive, N
<1>9. TypeOK
  BY <1>5 DEF Init, TypeOK
<1>10. QED
  BY <1>6, <1>8, <1>9, Zenon DEF Inv

(* The environment starts the rip once; the state is still the initial one.*)
LEMMA StartedIsGood ==
  ASSUME NEW s, Good(s), NEW r, r = [s EXCEPT !.started = TRUE]
  PROVE  Good(r) /\ r.started /\ r.reading = s.reading /\ r.proc = s.proc
<1>1. s \in Rip
  BY Zenon DEF Good, Consistent
<1>2. r \in Rip /\ r.started
  BY <1>1, ZenonT(60) DEF Rip
<1>3. /\ r.reading = s.reading /\ r.proc = s.proc /\ r.processing = s.processing
      /\ r.events = s.events /\ r.process_counter = s.process_counter
      /\ r.finished = s.finished /\ r.concluded = s.concluded
      /\ r.interrupt = s.interrupt /\ r.run = s.run /\ r.missed = s.missed /\ r.termination = s.termination
      /\ r.ex_index = s.ex_index
  BY <1>1, ZenonT(60) DEF Rip
<1>4. Good(r)
  BY <1>2, <1>3, Zenon DEF Good, Consistent, Counted, ThreadInv, Told, Conclusive
<1>5. QED
  BY <1>2, <1>3, <1>4, Zenon

LEMMA PrepareFailsInv ==
  ASSUME Inv, PrepareFails
  PROVE  Good(rip') /\ rip'.started
<1>1. PICK s : s = [rip EXCEPT !.started = TRUE]
  OBVIOUS
<1>2. Good(s) /\ s.started
  BY <1>1, StartedIsGood, Zenon DEF Inv
<1>3. rip' = RequestFinish(s, FALSE)
  BY <1>1, Zenon DEF PrepareFails, SlotError
<1>4. QED
  BY <1>2, <1>3, RequestFinishGood, Zenon DEF RequestsFinish, SameProcesses

LEMMA StartInv ==
  ASSUME Inv, NEW bad \in Bad, Start(bad)
  PROVE  Good(rip') /\ rip'.started
<1>1. PICK s : s = [rip EXCEPT !.started = TRUE]
  OBVIOUS
<1>2. Good(s) /\ s.started /\ s.reading = 0
  BY <1>1, StartedIsGood, Zenon DEF Inv, Start
<1>3. CASE CheckPasses(config.free)
  <2>1. rip' = StartExtract(s, bad)
    BY <1>1, <1>3, Zenon DEF Start
  <2>2. QED
    BY <1>2, <2>1, StartExtractGood, Zenon DEF Inv, TypeOK
<1>4. CASE ~CheckPasses(config.free)
  <2>1. rip' = RequestFinish(RequestFinish(s, FALSE), FALSE)
    BY <1>1, <1>4, Zenon DEF Start, SlotError
  <2>2. /\ Good(RequestFinish(s, FALSE))
        /\ RequestFinish(s, FALSE).started
    BY <1>2, RequestFinishGood, Zenon DEF RequestsFinish, SameProcesses
  <2>3. QED
    BY <2>1, <2>2, RequestFinishGood, Zenon DEF RequestsFinish, SameProcesses
<1>5. QED
  BY <1>3, <1>4, Zenon

(* What run() does before it reads concerns only the thread's own flags.   *)
ThreadStarts == ThreadChecks \/ ThreadResets

SameButRun(r, s) ==
  /\ r.started = s.started /\ r.finished = s.finished /\ r.successful = s.successful
  /\ r.concluded = s.concluded /\ r.process_counter = s.process_counter
  /\ r.ex_index = s.ex_index /\ r.ex_count = s.ex_count /\ r.reading = s.reading
  /\ r.events = s.events /\ r.empty = s.empty /\ r.runaway = s.runaway
  /\ r.queue = s.queue /\ r.in_progress = s.in_progress
  /\ r.en_index = s.en_index /\ r.en_count = s.en_count
  /\ r.processing = s.processing /\ r.termination = s.termination
  /\ r.filename = s.filename /\ r.proc = s.proc /\ r.opened = s.opened
  /\ r.wav = s.wav /\ r.files = s.files /\ r.ripped = s.ripped /\ r.listed = s.listed

LEMMA ThreadStartsEffect ==
  ASSUME rip \in Rip, ThreadStarts
  PROVE  /\ rip' \in Rip /\ SameButRun(rip', rip)
         /\ rip.started /\ rip.reading # 0
         /\ \/ /\ ~rip.interrupt /\ rip.run = "due"
               /\ rip'.interrupt = rip.interrupt /\ rip'.missed = rip.missed
            \/ /\ rip.run = "checked" /\ rip'.run = "reading"
               /\ rip'.missed = (rip.missed \/ rip.interrupt)
<1>1. CASE ThreadChecks
  <2>1. rip' = [rip EXCEPT !.run = "checked"] /\ rip.started
        /\ rip.reading # 0 /\ ~rip.interrupt /\ rip.run = "due"
    BY <1>1, Zenon DEF ThreadChecks, Alive
  <2>2. "checked" \in {"due", "checked", "reading"}
    OBVIOUS
  <2>3. rip' \in Rip
    BY <2>1, <2>2, ZenonT(60) DEF Rip
  <2>4. SameButRun(rip', rip) /\ rip'.interrupt = rip.interrupt /\ rip'.missed = rip.missed
    BY <2>1, ZenonT(60) DEF Rip, SameButRun
  <2>5. QED
    BY <2>1, <2>3, <2>4, Zenon
<1>2. CASE ThreadResets
  <2>1. PICK m, i : m = (rip.missed \/ rip.interrupt) /\ i = FALSE
    OBVIOUS
  <2>2. rip' = [rip EXCEPT !.run = "reading", !.interrupt = i, !.missed = m] /\ rip.started
        /\ rip.reading # 0 /\ rip.run = "checked"
    BY <1>2, <2>1, Zenon DEF ThreadResets, Alive
  <2>3. "reading" \in {"due", "checked", "reading"} /\ m \in BOOLEAN /\ i \in BOOLEAN
    BY <2>1
  <2>4. rip' \in Rip
    BY <2>2, <2>3, ZenonT(60) DEF Rip
  <2>5. SameButRun(rip', rip) /\ rip'.run = "reading" /\ rip'.missed = m
    BY <2>2, ZenonT(60) DEF Rip, SameButRun
  <2>6. QED
    BY <2>1, <2>2, <2>4, <2>5, Zenon
<1>3. QED
  BY <1>1, <1>2 DEF ThreadStarts

LEMMA ThreadStartsInv ==
  ASSUME Inv, ThreadStarts
  PROVE  Good(rip') /\ rip'.started /\ (rip.finished => rip'.finished)
<1>1. rip \in Rip /\ Good(rip)
  BY Zenon DEF Inv, Good, Consistent
<1>2. /\ rip' \in Rip /\ SameButRun(rip', rip)
      /\ rip.started /\ rip.reading # 0
      /\ \/ /\ ~rip.interrupt /\ rip.run = "due"
            /\ rip'.interrupt = rip.interrupt /\ rip'.missed = rip.missed
         \/ /\ rip.run = "checked" /\ rip'.run = "reading"
            /\ rip'.missed = (rip.missed \/ rip.interrupt)
  BY <1>1, ThreadStartsEffect, Zenon
<1>3. Consistent(rip') /\ Conclusive(rip')
  BY <1>1, <1>2, Zenon DEF Good, Consistent, Counted, ThreadInv, Conclusive, SameButRun
<1>4. rip'.finished = rip.finished /\ rip'.proc = rip.proc /\ rip'.termination = rip.termination
      /\ rip'.reading = rip.reading /\ rip'.started = rip.started
  BY <1>2, Zenon DEF SameButRun
<1>5. Told(rip')
  BY <1>1, <1>2, <1>4 DEF Good, Told
<1>6. QED
  BY <1>2, <1>3, <1>4, <1>5, Zenon DEF Good

LEMMA ThreadEndsInv ==
  ASSUME Inv, NEW outcome, ThreadEnds(outcome)
  PROVE  Good(rip') /\ rip'.started /\ (rip.finished => rip'.finished)
<1>1. PICK e : e = IF outcome = "error" THEN <<"error", "finished">> ELSE <<"finished">>
  OBVIOUS
<1>2. PICK m : m = (outcome = "nothing")
  OBVIOUS
<1>3. e \in Seq({"error", "finished"}) /\ e \in {<<>>, <<"finished">>, <<"error", "finished">>}
  BY <1>1, SignalSequences, Zenon
<1>4. m \in BOOLEAN
  BY <1>2
<1>5. /\ rip \in Rip /\ rip' = [rip EXCEPT !.events = e, !.empty = m]
      /\ rip.started /\ rip.reading # 0
  BY <1>1, <1>2, Zenon DEF ThreadEnds, Alive, Inv, Good, Consistent
<1>6. rip' \in Rip
  BY <1>3, <1>4, <1>5, ZenonT(60) DEF Rip
<1>7. /\ rip'.reading = rip.reading /\ rip'.proc = rip.proc
      /\ rip'.processing = rip.processing /\ rip'.events = e
      /\ rip'.process_counter = rip.process_counter
      /\ rip'.finished = rip.finished /\ rip'.concluded = rip.concluded
      /\ rip'.interrupt = rip.interrupt /\ rip'.run = rip.run /\ rip'.missed = rip.missed /\ rip'.termination = rip.termination
      /\ rip'.ex_index = rip.ex_index /\ rip'.started = rip.started
  BY <1>5, ZenonT(60) DEF Rip
<1>8. QED
  BY <1>3, <1>5, <1>6, <1>7, Zenon
     DEF Inv, Good, Consistent, Counted, ThreadInv, Told, Conclusive

LEMMA DeliverInv ==
  ASSUME Regular, Inv, NEW bad \in Bad, Deliver(TRUE, bad)
  PROVE  Good(rip') /\ rip'.started /\ (rip.finished => rip'.finished)
<1>1. PICK e : e = Tail(rip.events)
  OBVIOUS
<1>2. PICK s : s = [rip EXCEPT !.events = e]
  OBVIOUS
<1>3. /\ rip \in Rip /\ rip.started /\ rip.events # <<>> /\ rip.reading # 0
      /\ rip.events \in {<<>>, <<"finished">>, <<"error", "finished">>}
      /\ rip' = IF Head(rip.events) = "error" THEN SlotError(s)
                ELSE FinishExtract(s, TRUE, bad)
  BY <1>1, <1>2, Zenon DEF Deliver, Alive, Inv, Good, Consistent, ThreadInv
<1>4. /\ e \in Seq({"error", "finished"}) /\ e \in {<<>>, <<"finished">>}
      /\ Head(rip.events) # "error" => e = <<>>
  BY <1>1, <1>3, SignalSequences, Zenon
<1>5. s \in Rip
  BY <1>2, <1>3, <1>4, ZenonT(60) DEF Rip
<1>6. /\ s.reading = rip.reading /\ s.proc = rip.proc /\ s.processing = rip.processing
      /\ s.events = e /\ s.process_counter = rip.process_counter
      /\ s.finished = rip.finished /\ s.concluded = rip.concluded
      /\ s.interrupt = rip.interrupt /\ s.run = rip.run /\ s.missed = rip.missed /\ s.termination = rip.termination
      /\ s.ex_index = rip.ex_index /\ s.started = rip.started
  BY <1>2, <1>3, ZenonT(60) DEF Rip
<1>7. Good(s)
  BY <1>3, <1>4, <1>5, <1>6, Zenon
     DEF Inv, Good, Consistent, Counted, ThreadInv, Told, Conclusive
<1>8. CASE Head(rip.events) = "error"
  BY <1>3, <1>6, <1>7, <1>8, RequestFinishGood, Zenon
     DEF SlotError, RequestsFinish, SameProcesses
<1>9. CASE Head(rip.events) # "error"
  <2>1. config \in Config /\ s.events = <<>> /\ s.reading # 0 /\ s.started
    BY <1>3, <1>4, <1>6, <1>9, Zenon DEF Inv, TypeOK
  <2>2. rip' = FinishExtract(s, TRUE, bad)
    BY <1>3, <1>9, Zenon
  <2>3. QED
    BY <1>6, <1>7, <2>1, <2>2, FinishExtractGood, Zenon
<1>10. QED
  BY <1>8, <1>9, Zenon

LEMMA EncoderOpensInv ==
  ASSUME Inv, EncoderOpens
  PROVE  Good(rip') /\ rip'.started /\ (rip.finished => rip'.finished)
<1>1. PICK f : f = [rip.files EXCEPT ![TargetOf[rip.proc]] = Partial(rip.proc)]
  OBVIOUS
<1>2. rip \in Rip /\ rip.started /\ rip.proc # 0
  BY Zenon DEF EncoderOpens, Alive, Inv, Good, Consistent
<1>3. rip.proc \in 0..NTracks /\ rip.files \in [Files -> Content]
  BY <1>2, Zenon DEF Rip
<1>4. Partial(rip.proc) \in Content
  BY <1>3 DEF Partial, Content
<1>5. f \in [Files -> Content]
  BY <1>1, <1>3, <1>4
<1>6. rip' = [rip EXCEPT !.opened = TRUE, !.files = f]
  BY <1>1, <1>2, ZenonT(60) DEF EncoderOpens, Rip
<1>7. rip' \in Rip
  BY <1>2, <1>5, <1>6, ZenonT(60) DEF Rip
<1>8. /\ SameProcesses(rip', rip) /\ SameOrders(rip', rip)
      /\ rip'.concluded = rip.concluded
  BY <1>2, <1>6, ZenonT(60) DEF Rip, SameProcesses, SameOrders
<1>9. QED
  BY <1>2, <1>7, <1>8, Zenon
     DEF Inv, Good, Consistent, Counted, ThreadInv, Told, Conclusive,
         SameProcesses, SameOrders

LEMMA EncoderExitsInv ==
  ASSUME Regular, Inv, NEW ok \in BOOLEAN, EncoderExits(ok, TRUE)
  PROVE  /\ Good(rip') /\ rip'.started /\ (rip.finished => rip'.finished)
         /\ encoded' \subseteq Tracks
<1> DEFINE t == rip.proc
           l == rip.files[TargetOf[t]] = Partial(t)
<1>3. PICK f : f = [rip.files EXCEPT ![TargetOf[t]] = IF ok /\ l THEN Complete(t) ELSE @]
  OBVIOUS
<1>4. PICK x : x = [rip EXCEPT !.proc = 0, !.processing = FALSE, !.files = f]
  OBVIOUS
<1>5. rip \in Rip /\ rip.started /\ t # 0
  BY Zenon DEF EncoderExits, Alive, Inv, Good, Consistent
<1>6. /\ t \in 0..NTracks /\ t \in Tracks /\ 0 \in 0..NTracks
      /\ rip.files \in [Files -> Content]
  <2>1. t \in 0..NTracks /\ rip.files \in [Files -> Content]
    BY <1>5, Zenon DEF Rip
  <2>2. QED
    BY <1>5, <2>1, ConstantsAssumption DEF Tracks
<1>7. TargetOf[t] \in Files /\ Complete(t) \in Content
  BY <1>6, ConstantsAssumption DEF Complete, Content
<1>8. f \in [Files -> Content]
  BY <1>3, <1>6, <1>7
<1>9. x \in Rip
  BY <1>4, <1>5, <1>6, <1>8, ZenonT(60) DEF Rip
<1>10. /\ rip' = IF rip.termination \/ ok THEN FinishEncode(x, TRUE)
                 ELSE FinishEncode(SlotError(x), TRUE)
       /\ encoded' = IF ok /\ l THEN encoded \cup {t} ELSE encoded
  <2> DEFINE y == [rip EXCEPT !.proc = 0, !.processing = FALSE,
                              !.files[TargetOf[t]] = IF ok /\ l THEN Complete(t) ELSE @]
  <2>1. x = y
    BY <1>3, <1>4, <1>5, ZenonT(60) DEF Rip
  <2>2. rip' = IF rip.termination \/ ok THEN FinishEncode(y, TRUE)
               ELSE FinishEncode(SlotError(y), TRUE)
    BY DEF EncoderExits
  <2>3. encoded' = IF ok /\ l THEN encoded \cup {t} ELSE encoded
    BY DEF EncoderExits
  <2> HIDE DEF y
  <2>4. rip' = IF rip.termination \/ ok THEN FinishEncode(x, TRUE)
               ELSE FinishEncode(SlotError(x), TRUE)
    BY <2>1, <2>2
  <2>5. QED
    BY <2>3, <2>4, Zenon
<1>11. /\ x.reading = rip.reading /\ x.proc = 0 /\ x.processing = FALSE
       /\ x.events = rip.events /\ x.ex_index = rip.ex_index
       /\ x.process_counter = rip.process_counter /\ x.started = rip.started
       /\ SameOrders(x, rip) /\ x.concluded = rip.concluded
  BY <1>4, <1>5, <1>6, ZenonT(60) DEF Rip, SameOrders
<1>12. x.process_counter = N(x.reading # 0) + 1
  BY <1>5, <1>11 DEF Inv, Good, Consistent, Counted, N
<1>13. Exited(x)
  BY <1>5, <1>9, <1>11, <1>12, Zenon
     DEF Inv, Good, Consistent, ThreadInv, Told, Conclusive, N, Exited, SameOrders
<1>14. encoded' \subseteq Tracks
  BY <1>6, <1>10, Zenon DEF Inv, TypeOK
<1>15. config \in Config
  BY Zenon DEF Inv, TypeOK
<1>16. CASE rip.termination \/ ok
  <2>1. rip' = FinishEncode(x, TRUE)
    BY <1>10, <1>16, Zenon
  <2>2. x.started /\ x.finished = rip.finished
    BY <1>5, <1>11, Zenon DEF SameOrders
  <2>3. QED
    BY <1>13, <1>14, <1>15, <2>1, <2>2, FinishEncodeGood, Zenon
<1>17. CASE ~(rip.termination \/ ok)
  <2>1. /\ Exited(SlotError(x))
        /\ SlotError(x).started /\ SlotError(x).finished
    BY <1>5, <1>11, <1>13, ExitedError, Zenon
  <2>2. rip' = FinishEncode(SlotError(x), TRUE)
    BY <1>10, <1>17, Zenon
  <2>3. QED
    BY <1>14, <1>15, <2>1, <2>2, FinishEncodeGood, Zenon
<1>18. QED
  BY <1>16, <1>17, Zenon

LEMMA CancelInv ==
  ASSUME Inv, Cancel
  PROVE  Good(rip') /\ rip'.started /\ rip'.finished
BY RequestFinishGood, Zenon
   DEF Inv, Cancel, Alive, RequestsFinish, SameProcesses

(* What remains to be shown of each action.                                *)
Keeps ==
  /\ config' = config
  /\ cancelled' \in BOOLEAN
  /\ encoded' \subseteq Tracks
  /\ rip.finished => rip'.finished
  /\ rip' = rip \/ (Good(rip') /\ rip'.started)

LEMMA NextKeeps ==
  ASSUME Regular, Inv, [Next]_vars
  PROVE  Keeps
<1>1. TRUE \in Starts /\ \A x \in Starts : x = TRUE
  BY DEF Starts, Regular
<1>2. TypeOK /\ Good(rip)
  BY Zenon DEF Inv
<1>3. ~rip.started => ~rip.finished
  BY Zenon DEF Inv
<1>4. CASE PrepareFails
  BY <1>2, <1>3, <1>4, PrepareFailsInv, Zenon DEF PrepareFails, TypeOK, Keeps
<1>5. ASSUME NEW bad \in Bad, Start(bad)
      PROVE  Keeps
  BY <1>2, <1>3, <1>5, StartInv, Zenon DEF Start, TypeOK, Keeps
<1>6. CASE ThreadStep
  <2>1. ASSUME NEW o, ThreadEnds(o)
        PROVE  Keeps
    BY <1>2, <2>1, ThreadEndsInv, Zenon DEF ThreadEnds, TypeOK, Keeps
  <2>2. CASE ThreadStarts
    <3>1. UNCHANGED <<config, cancelled, encoded>>
      BY <2>2, Zenon DEF ThreadStarts, ThreadChecks, ThreadResets
    <3>2. QED
      BY <1>2, <2>2, <3>1, ThreadStartsInv, Zenon DEF TypeOK, Keeps
  <2>3. QED
    BY <1>6, <2>1, <2>2, Zenon DEF ThreadStep, ThreadStarts
<1>7. CASE LoopStep
  <2>1. PICK bad \in Bad : Deliver(TRUE, bad)
    BY <1>1, <1>7, Zenon DEF LoopStep
  <2>2. QED
    BY <1>2, <2>1, DeliverInv, Zenon DEF Deliver, TypeOK, Keeps
<1>8. CASE EncoderOpens
  BY <1>2, <1>8, EncoderOpensInv, Zenon DEF EncoderOpens, TypeOK, Keeps
<1>9. CASE EncoderStep
  <2>1. ~EncoderCrashes(TRUE)
    BY DEF Regular, EncoderCrashes
  <2>2. PICK ok \in BOOLEAN : EncoderExits(ok, TRUE)
    BY <1>1, <1>9, <2>1, Zenon DEF EncoderStep
  <2>3. config' = config /\ cancelled' = cancelled
    BY <2>2, Zenon DEF EncoderExits
  <2>4. QED
    BY <1>2, <2>2, <2>3, EncoderExitsInv, Zenon DEF TypeOK, Keeps
<1>10. CASE Cancel
  BY <1>2, <1>10, CancelInv, Zenon DEF Cancel, TypeOK, Keeps
<1>11. CASE Rest
  BY <1>2, <1>11, Zenon DEF Rest, vars, TypeOK, Keeps
<1>12. CASE UNCHANGED vars
  BY <1>2, <1>12, Zenon DEF vars, TypeOK, Keeps
<1>13. QED
  BY <1>4, <1>5, <1>6, <1>7, <1>8, <1>9, <1>10, <1>11, <1>12, Zenon DEF Next

LEMMA NextInv ==
  ASSUME Regular, Inv, [Next]_vars
  PROVE  Inv'
BY NextKeeps, Zenon DEF Keeps, Inv, TypeOK, Good, Consistent

-----------------------------------------------------------------------------
(* The types of the variables are kept.                                    *)
THEOREM TypeCorrect ==
  ASSUME Regular
  PROVE  Spec => []TypeOK
<1>1. Init => Inv
  BY InitInv
<1>2. Inv /\ [Next]_vars => Inv'
  BY NextInv
<1>3. Inv => TypeOK
  BY DEF Inv
<1>4. QED
  BY <1>1, <1>2, <1>3, PTL DEF Spec

(* finished() is emitted at most once, and only when nothing runs.         *)
THEOREM ConcludesIdleOnce ==
  ASSUME Regular
  PROVE  Spec => []ConcludedIdleOnce
<1>1. Init => Inv
  BY InitInv
<1>2. Inv /\ [Next]_vars => Inv'
  BY NextInv
<1>3. Inv => ConcludedIdleOnce
  <2>1. SUFFICES ASSUME Inv PROVE ConcludedIdleOnce
    OBVIOUS
  <2>2. CASE rip.concluded = 1 /\ rip.reading = 0 /\ rip.proc = 0
    BY <2>2 DEF ConcludedIdleOnce, Running
  <2>3. CASE rip.concluded = 0
    BY <2>3 DEF ConcludedIdleOnce
  <2>4. QED
    BY <2>1, <2>2, <2>3, Zenon DEF Inv, Good, Conclusive, N
<1>4. QED
  BY <1>1, <1>2, <1>3, PTL DEF Spec

(* Once the rip is to finish, an encoder that runs was told to terminate   *)
(* and a thread that reads has its flag set, unless its run() reset the    *)
(* flag of a request that came between its check and its reset.            *)
THEOREM StopReachesEverything ==
  ASSUME Regular
  PROVE  Spec => []StopReachesAll
<1>1. Init => Inv
  BY InitInv
<1>2. Inv /\ [Next]_vars => Inv'
  BY NextInv
<1>3. Inv => StopReachesAll
  BY Zenon DEF Inv, Good, Told, StopReachesAll
<1>4. QED
  BY <1>1, <1>2, <1>3, PTL DEF Spec

-----------------------------------------------------------------------------
(* Why a rip never waits for an event that will not come, for any disc all *)
(* of whose selectable tracks are audio tracks.                            *)

(* The user interface lets no data track be selected.                      *)
OnlyAudio == Selectable \subseteq AudioTracks

UpTo(i) == {t \in config.selection : t <= i}

(* Jobs are in progress or waiting only while an encoder runs, and a track *)
(* that was counted by the extraction and not yet by the encoding waits or *)
(* is being read (n: the tracks being read).                               *)
Balanced(s, n) ==
  /\ s.en_count + Len(s.queue) + n = s.ex_count
  /\ s.in_progress => s.proc # 0
  /\ s.queue # <<>> => s.proc # 0
  /\ ~s.runaway

(* The extraction has counted the tracks up to where it is.                *)
Counts(s) ==
  IF config.single_file THEN s.ex_count = s.ex_index /\ s.ex_index \in {0, 1}
  ELSE s.ex_count = Cardinality(UpTo(s.ex_index))

(* Between two extractions: start_extract() may be called.                 *)
Ready(s) ==
  /\ s.reading = 0
  /\ Balanced(s, 0)
  /\ Counts(s)
  /\ config.single_file /\ s.ex_count = 0 => NoJobs(s)

(* While a rip goes on something runs, and when nothing is read any more   *)
(* every track has been counted.                                           *)
Flows(s) ==
  /\ Balanced(s, N(s.reading # 0))
  /\ s.reading # 0 \/ s.proc # 0
  /\ s.reading = 0 => s.ex_count >= Limit
  /\ Counts(s)

GoesOn(s) == ~s.finished => Flows(s)

Fresh(s) ==
  /\ s.queue = <<>> /\ ~s.in_progress /\ ~s.runaway
  /\ s.ex_count = 0 /\ s.en_count = 0 /\ s.ex_index = 0

FlowInv ==
  /\ Inv
  /\ ~rip.started => Fresh(rip)
  /\ rip.started => GoesOn(rip)

-----------------------------------------------------------------------------
(* Sets of selected tracks are finite, and are counted.                    *)

LEMMA SelectedTracks ==
  ASSUME config \in Config
  PROVE  /\ config.selection \subseteq Tracks /\ config.selection \subseteq Selectable
         /\ IsFiniteSet(config.selection)
         /\ \A S \in SUBSET config.selection : IsFiniteSet(S) /\ Cardinality(S) \in Nat
         /\ config.single_file \in BOOLEAN
<1>1. config.selection \subseteq Selectable /\ config.single_file \in BOOLEAN
  BY DEF Config
<1>2. config.selection \subseteq Tracks
  BY <1>1, ConstantsAssumption
<1>3. IsFiniteSet(config.selection)
  BY <1>2, ConstantsAssumption, FS_Interval, FS_Subset DEF Tracks
<1>4. ASSUME NEW S \in SUBSET config.selection
      PROVE  IsFiniteSet(S) /\ Cardinality(S) \in Nat
  BY <1>3, FS_Subset, FS_CardinalityType
<1> QED
  BY <1>1, <1>2, <1>3, <1>4

LEMMA CountDisjoint ==
  ASSUME NEW S, NEW T, IsFiniteSet(S), IsFiniteSet(T), S \cap T = {}
  PROVE  Cardinality(S \cup T) = Cardinality(S) + Cardinality(T)
<1>1. Cardinality(S \cup T) = Cardinality(S) + Cardinality(T) - Cardinality(S \cap T)
  BY FS_Union
<1>2. Cardinality(S) \in Nat /\ Cardinality(T) \in Nat /\ Cardinality(S \cap T) = 0
  BY FS_CardinalityType, FS_EmptySet
<1> QED
  BY <1>1, <1>2

-----------------------------------------------------------------------------
(* The handlers, from the last to be called to the first.                  *)

LEMMA FinishedGoesOn ==
  ASSUME NEW s \in Rip, NEW ok \in BOOLEAN
  PROVE  GoesOn(RequestFinish(s, ok))
BY RequestFinishEffect, Zenon DEF RequestsFinish, GoesOn

LEMMA SuccessIfNoJobsGoesOn ==
  ASSUME config \in Config, NEW s \in Rip, s.reading = 0, Balanced(s, 0), Counts(s),
         s.ex_count >= Limit
  PROVE  GoesOn(SuccessIfNoJobs(s))
<1>1. CASE NoJobs(s)
  BY <1>1, FinishedGoesOn DEF SuccessIfNoJobs
<1>2. CASE ~NoJobs(s)
  <2>1. s.proc # 0
    BY <1>2 DEF NoJobs, Balanced
  <2>2. Flows(s)
    BY <2>1 DEF Flows, N
  <2> QED
    BY <1>2, <2>2 DEF SuccessIfNoJobs, GoesOn
<1> QED
  BY <1>1, <1>2

LEMMA BeginReadingGoesOn ==
  ASSUME NEW s \in Rip, NEW t \in Tracks, Balanced(s, 0),
         IF config.single_file THEN s.ex_count = 0 /\ t = 1
         ELSE s.ex_count + 1 = Cardinality(UpTo(t))
  PROVE  GoesOn(BeginReading(s, t))
<1> DEFINE r == BeginReading(s, t)
<1>1. s.ex_count \in Nat /\ t # 0 /\ s.en_count \in Nat /\ Len(s.queue) \in Nat
  BY ConstantsAssumption DEF Rip, Tracks
<1>2. /\ r.ex_index = t /\ r.ex_count = s.ex_count + 1 /\ r.reading = t
      /\ r.en_count = s.en_count /\ r.queue = s.queue /\ r.in_progress = s.in_progress
      /\ r.proc = s.proc /\ r.runaway = s.runaway
  BY DEF BeginReading, Rip
<1> HIDE DEF r
<1>3. Flows(r)
  BY <1>1, <1>2 DEF Flows, Balanced, Counts, N
<1> QED
  BY <1>3 DEF GoesOn, r

LEMMA StartExtractDiscGoesOn ==
  ASSUME config \in Config, config.single_file, NEW s \in Rip, Ready(s), ~s.finished,
         NEW bad \in Bad
  PROVE  GoesOn(StartExtractDisc(s, bad))
<1>0. PICK q : q = [s EXCEPT !.ex_index = s.ex_index + 1]
  OBVIOUS
<1>1. s.ex_index + 1 \in Nat /\ s.ex_count \in Nat
  BY DEF Rip
<1>2. q \in Rip
  BY <1>0, <1>1, ZenonT(60) DEF Rip
<1>3. /\ q.en_count = s.en_count /\ q.queue = s.queue /\ q.in_progress = s.in_progress
      /\ q.proc = s.proc /\ q.runaway = s.runaway /\ q.ex_count = s.ex_count
      /\ q.reading = s.reading /\ q.finished = s.finished
  BY <1>0, Zenon DEF Rip
<1>4. Limit = 1 /\ 1 \in Tracks
  BY ConstantsAssumption DEF Limit, Tracks
<1>5. Balanced(s, 0) /\ Balanced(q, 0) /\ s.reading = 0 /\ Counts(s)
  BY <1>3, Zenon DEF Ready, Balanced
<1>6. CASE s.ex_count >= 1
  <2>1. StartExtractDisc(s, bad) = SuccessIfNoJobs(s)
    BY <1>6, Zenon DEF StartExtractDisc
  <2> QED
    BY <1>4, <1>5, <1>6, <2>1, SuccessIfNoJobsGoesOn
<1>7. CASE ~(s.ex_count >= 1)
  <2>1. NoJobs(q)
    BY <1>1, <1>3, <1>7 DEF Ready, NoJobs
  <2>2. GoesOn(SuccessIfNoJobs(q))
    BY <1>2, <2>1, FinishedGoesOn DEF SuccessIfNoJobs
  <2>3. GoesOn(BeginReading(q, 1))
    BY <1>1, <1>2, <1>3, <1>4, <1>5, <1>7, BeginReadingGoesOn
  <2>4. GoesOn(RequestFinish(q, FALSE))
    BY <1>2, FinishedGoesOn
  <2>5. \/ StartExtractDisc(s, bad) = RequestFinish(q, FALSE)
        \/ StartExtractDisc(s, bad) = SuccessIfNoJobs(q)
        \/ StartExtractDisc(s, bad) = BeginReading(q, 1)
    BY <1>0, <1>7, Zenon DEF StartExtractDisc
  <2> QED
    BY <2>2, <2>3, <2>4, <2>5
<1> QED
  BY <1>6, <1>7

(* What only the target files and the verdict depend on.                   *)
SameRest(r, s) ==
  /\ r.filename = s.filename /\ r.opened = s.opened /\ r.termination = s.termination
  /\ r.concluded = s.concluded /\ r.listed = s.listed

(* The tracks of S are there already: they are counted and passed over.    *)
Skips(s, q, S) ==
  /\ q \in Rip /\ S \in SUBSET config.selection /\ \A t \in S : AlreadyThere(s, t)
  /\ q.ripped = s.ripped \cup S
  /\ q.ex_count = s.ex_count + Cardinality(S) /\ q.en_count = s.en_count + Cardinality(S)
  /\ q.ex_index \in Nat /\ s.ex_index <= q.ex_index
  /\ \A t \in config.selection : t \in S <=> (s.ex_index < t /\ t <= q.ex_index)
  /\ q.reading = s.reading /\ q.proc = s.proc /\ q.processing = s.processing
  /\ q.queue = s.queue /\ q.in_progress = s.in_progress /\ q.en_index = s.en_index
  /\ q.files = s.files /\ q.runaway = s.runaway /\ q.wav = s.wav
  /\ q.finished = s.finished /\ q.successful = s.successful
  /\ SameRest(q, s)

(* The skipping ends before a track m, whose folder is x's fault, or with  *)
(* the last track.                                                         *)
Elsewhere(q, x, m) ==
  /\ x \in Rip /\ x.ex_index = m /\ x.ripped = q.ripped
  /\ x.reading = q.reading /\ x.proc = q.proc /\ x.processing = q.processing
  /\ x.queue = q.queue /\ x.in_progress = q.in_progress /\ x.en_index = q.en_index
  /\ x.files = q.files /\ x.finished = q.finished /\ x.successful = q.successful
  /\ x.wav = q.wav /\ SameRest(x, q)

Halts(s, q, x, m, r) ==
  /\ m \in config.selection /\ q.ex_index < m
  /\ \A t \in config.selection : t <= q.ex_index \/ t >= m
  /\ Elsewhere(q, x, m)
  /\ \/ r = RequestFinish(x, FALSE)
     \/ r = BeginReading(q, m) /\ ~AlreadyThere(s, m)

Passes(s, q, r) ==
  /\ \A t \in config.selection : t <= q.ex_index
  /\ r = IF q.ex_count >= Limit THEN SuccessIfNoJobs(q) ELSE [q EXCEPT !.runaway = TRUE]

SkipsTracks(s, r) ==
  \E q, S : Skips(s, q, S) /\ (Passes(s, q, r) \/ \E x, m : Halts(s, q, x, m, r))

LEMMA StartExtractTracksSkips ==
  ASSUME OnlyAudio, config \in Config, ~config.single_file, NEW s \in Rip, NEW bad \in Bad
  PROVE  SkipsTracks(s, StartExtractTracks(s, bad))
<1> DEFINE ahead  == {t \in config.selection \cap AudioTracks : t > s.ex_index}
           stops  == {t \in ahead : t = bad \/ ~AlreadyThere(s, t)}
           passed == IF stops = {} THEN ahead ELSE {t \in ahead : t < Min(stops)}
           index  == IF passed = {} THEN s.ex_index ELSE Max(passed)
           skip   == [s EXCEPT !.ex_index = index,
                               !.ex_count = s.ex_count + Cardinality(passed),
                               !.en_count = s.en_count + Cardinality(passed),
                               !.ripped = s.ripped \cup passed]
           r      == StartExtractTracks(s, bad)
<1>1. PICK q : q = skip
  OBVIOUS
<1>2. PICK x : x = [q EXCEPT !.ex_index = bad]
  OBVIOUS
<1>3. /\ NTracks \in Nat /\ Tracks = 1..NTracks /\ bad \in Nat
      /\ config.selection \subseteq Tracks /\ config.selection \cap AudioTracks = config.selection
  BY ConstantsAssumption, SelectedTracks DEF Tracks, Bad, OnlyAudio
<1>4. /\ s.ex_index \in Nat /\ s.ex_count \in Nat /\ s.en_count \in Nat
      /\ s.ripped \in SUBSET (0..NTracks)
  BY DEF Rip
<1>5. /\ passed \in SUBSET config.selection /\ passed \subseteq Tracks
      /\ stops \subseteq config.selection /\ stops \subseteq Nat
  <2>1. ahead \subseteq config.selection
    BY Zenon
  <2>2. stops \subseteq ahead /\ passed \subseteq ahead
    BY Zenon
  <2>3. \A t \in config.selection : t \in Nat
    BY <1>3
  <2> HIDE DEF ahead, stops, passed
  <2> QED
    BY <1>3, <2>1, <2>2, <2>3, Zenon
<1>6. ahead = {t \in config.selection : t > s.ex_index}
  BY <1>3
<1>7. stops # {} => /\ Min(stops) \in stops /\ Min(stops) \in config.selection
                    /\ Min(stops) > s.ex_index /\ Min(stops) \in Tracks
  <2>1. \A t \in stops : t \in config.selection /\ t > s.ex_index /\ t \in Tracks
    BY <1>3
  <2> HIDE DEF stops
  <2> QED
    BY <1>5, <2>1, MinTrack
<1>8. stops # {} => passed = {t \in config.selection : t > s.ex_index /\ t < Min(stops)}
  BY <1>6
<1>9. stops = {} => passed = {t \in config.selection : t > s.ex_index}
  BY <1>6
<1>10. r = IF stops # {}
           THEN IF Min(stops) = bad THEN RequestFinish(x, FALSE)
                ELSE BeginReading(q, Min(stops))
           ELSE IF q.ex_count >= Limit THEN SuccessIfNoJobs(q)
                ELSE [q EXCEPT !.runaway = TRUE]
  BY <1>1, <1>2, Zenon DEF StartExtractTracks
<1>11. \A t \in passed : AlreadyThere(s, t)
  <2>1. passed \subseteq ahead /\ \A t \in passed : t \notin stops
    <3>1. ASSUME NEW t \in passed, stops # {} PROVE t \in ahead /\ t \notin stops
      <4>1. t \in ahead /\ t < Min(stops) /\ t \in Nat /\ Min(stops) \in Nat
        BY <1>3, <1>5, <1>7, <3>1
      <4>2. t \in stops => Min(stops) <= t
        BY <1>5, MinTrack, Zenon
      <4> QED
        BY <4>1, <4>2
    <3>2. stops = {} => passed = ahead
      BY Zenon
    <3> QED
      BY <3>1, <3>2, Zenon
  <2> QED
    BY <2>1, Zenon
<1>12. stops # {} /\ Min(stops) # bad => ~AlreadyThere(s, Min(stops))
  BY <1>7, Zenon
<1> HIDE DEF ahead, stops, passed, r
<1>13. Cardinality(passed) \in Nat
  BY <1>5, SelectedTracks
<1>14. /\ index \in Nat /\ s.ex_index <= index
       /\ \A t \in passed : t <= index /\ s.ex_index < t
       /\ stops # {} => index < Min(stops)
  <2>1. passed # {} => index \in passed /\ \A t \in passed : t <= index
    BY <1>5, MaxTrack, Zenon
  <2>2. \A t \in passed : t > s.ex_index /\ t \in Nat /\ (stops # {} => t < Min(stops))
    BY <1>3, <1>8, <1>9
  <2>3. passed = {} => index = s.ex_index
    BY Zenon
  <2> HIDE DEF index
  <2>4. index \in Nat /\ s.ex_index <= index
    BY <1>4, <2>1, <2>2, <2>3
  <2>5. stops # {} => index < Min(stops)
    BY <1>4, <1>7, <2>1, <2>2, <2>3
  <2> QED
    BY <2>1, <2>2, <2>4, <2>5
<1> HIDE DEF index
<1>15. /\ s.ex_count + Cardinality(passed) \in Nat
       /\ s.en_count + Cardinality(passed) \in Nat
       /\ s.ripped \cup passed \in SUBSET (0..NTracks)
  <2>1. s.ex_count + Cardinality(passed) \in Nat /\ s.en_count + Cardinality(passed) \in Nat
    BY <1>4, <1>13
  <2>2. Tracks \subseteq 0..NTracks
    BY <1>3
  <2> QED
    BY <1>4, <1>5, <2>1, <2>2, Zenon
<1>16. q \in Rip
  BY <1>1, <1>4, <1>14, <1>15, ZenonT(60) DEF Rip
<1>17. SameRest(q, s)
  BY <1>1, <1>4, ZenonT(60) DEF Rip, SameRest
<1>18. /\ q.ex_index = index /\ q.ripped = s.ripped \cup passed
       /\ q.ex_count = s.ex_count + Cardinality(passed)
       /\ q.en_count = s.en_count + Cardinality(passed)
       /\ q.reading = s.reading /\ q.proc = s.proc /\ q.processing = s.processing
       /\ q.queue = s.queue /\ q.in_progress = s.in_progress /\ q.en_index = s.en_index
       /\ q.files = s.files /\ q.runaway = s.runaway /\ q.wav = s.wav
       /\ q.finished = s.finished /\ q.successful = s.successful
  BY <1>1, <1>4, ZenonT(60) DEF Rip
<1>19. \A t \in config.selection : t \in passed <=> (s.ex_index < t /\ t <= index)
  <2>1. ASSUME NEW t \in config.selection, s.ex_index < t, t <= index
        PROVE  t \in passed
    <3>1. t \in Nat
      BY <1>3
    <3>2. stops # {} => t < Min(stops)
      BY <1>3, <1>7, <1>14, <2>1, <3>1
    <3> QED
      BY <1>4, <1>8, <1>9, <2>1, <3>1, <3>2
  <2> QED
    BY <1>14, <2>1
<1>20. Skips(s, q, passed)
  BY <1>5, <1>11, <1>14, <1>16, <1>17, <1>18, <1>19, Zenon DEF Skips
<1>21. CASE stops # {} /\ Min(stops) # bad
  <2>1. PICK m : m = Min(stops)
    OBVIOUS
  <2>2. PICK y : y = [q EXCEPT !.ex_index = m]
    OBVIOUS
  <2>3. m \in config.selection /\ m \in Nat /\ q.ex_index < m
    BY <1>3, <1>7, <1>14, <1>18, <1>21, <2>1
  <2>4. \A t \in config.selection : t <= q.ex_index \/ t >= m
    BY <1>3, <1>4, <1>8, <1>14, <1>18, <1>21, <2>1, <2>3
  <2>5. Elsewhere(q, y, m)
    <3>1. y \in Rip
      BY <1>16, <2>2, <2>3, ZenonT(60) DEF Rip
    <3> QED
      BY <1>16, <2>2, <2>3, <3>1, ZenonT(60) DEF Rip, Elsewhere, SameRest
  <2>6. r = BeginReading(q, m) /\ ~AlreadyThere(s, m)
    BY <1>10, <1>12, <1>21, <2>1, Zenon
  <2>7. Halts(s, q, y, m, r)
    BY <2>3, <2>4, <2>5, <2>6, Zenon DEF Halts
  <2> QED
    BY <1>20, <2>7, Zenon DEF r, SkipsTracks
<1>22. CASE stops # {} /\ Min(stops) = bad
  <2>1. bad \in config.selection /\ bad \in Nat /\ q.ex_index < bad
    BY <1>3, <1>7, <1>14, <1>18, <1>22
  <2>2. \A t \in config.selection : t <= q.ex_index \/ t >= bad
    BY <1>3, <1>4, <1>8, <1>14, <1>18, <1>22, <2>1
  <2>3. Elsewhere(q, x, bad)
    <3>1. x \in Rip
      BY <1>2, <1>3, <1>16, ZenonT(60) DEF Rip
    <3> QED
      BY <1>2, <1>16, <2>1, <3>1, ZenonT(60) DEF Rip, Elsewhere, SameRest
  <2>4. r = RequestFinish(x, FALSE)
    BY <1>10, <1>22, Zenon
  <2>5. Halts(s, q, x, bad, r)
    BY <2>1, <2>2, <2>3, <2>4, Zenon DEF Halts
  <2> QED
    BY <1>20, <2>5, Zenon DEF r, SkipsTracks
<1>23. CASE stops = {}
  <2>1. \A t \in config.selection : t <= q.ex_index
    BY <1>3, <1>4, <1>9, <1>14, <1>18, <1>23
  <2>2. Passes(s, q, r)
    BY <1>10, <1>23, <2>1, Zenon DEF Passes
  <2> QED
    BY <1>20, <2>2, Zenon DEF r, SkipsTracks
<1> QED
  BY <1>21, <1>22, <1>23

LEMMA StartExtractTracksGoesOn ==
  ASSUME OnlyAudio, config \in Config, ~config.single_file, NEW s \in Rip, Ready(s),
         NEW bad \in Bad
  PROVE  GoesOn(StartExtractTracks(s, bad))
<1> DEFINE r == StartExtractTracks(s, bad)
<1>1. PICK q, S : Skips(s, q, S) /\ (Passes(s, q, r) \/ \E x, m : Halts(s, q, x, m, r))
  BY StartExtractTracksSkips, Zenon DEF SkipsTracks
<1> HIDE DEF r
<1>2. /\ s.ex_count \in Nat /\ s.en_count \in Nat /\ s.queue \in Seq(Tracks)
      /\ s.ex_index \in Nat /\ q.ex_index \in Nat
  BY <1>1, Zenon DEF Rip, Skips
<1>3. /\ \A t \in config.selection : t \in Nat
      /\ Cardinality(S) \in Nat /\ IsFiniteSet(S) /\ IsFiniteSet(UpTo(s.ex_index))
      /\ Limit \in Nat /\ Limit = Cardinality(config.selection)
  BY <1>1, SelectedTracks, ConstantsAssumption DEF Skips, Tracks, UpTo, Limit
<1>4. q.reading = 0 /\ Balanced(q, 0)
  <2>1. Len(s.queue) \in Nat
    BY <1>2
  <2>2. q.en_count + Len(q.queue) + 0 = q.ex_count
    BY <1>1, <1>2, <1>3, <2>1 DEF Skips, Ready, Balanced
  <2> QED
    BY <1>1, <2>2, Zenon DEF Skips, Ready, Balanced
<1>5. q.ex_count = Cardinality(UpTo(q.ex_index))
  <2>1. UpTo(q.ex_index) = UpTo(s.ex_index) \cup S /\ UpTo(s.ex_index) \cap S = {}
    BY <1>1, <1>2, <1>3 DEF Skips, UpTo
  <2>2. s.ex_count = Cardinality(UpTo(s.ex_index))
    BY Zenon DEF Ready, Counts
  <2> QED
    BY <1>1, <1>3, <2>1, <2>2, CountDisjoint DEF Skips
<1>6. ASSUME NEW x, NEW m, Halts(s, q, x, m, r) PROVE GoesOn(r)
  <2>1. m \in Tracks /\ m \in Nat /\ m \in config.selection /\ m > q.ex_index
    BY <1>3, <1>6, SelectedTracks DEF Halts
  <2>2. Cardinality(UpTo(m)) = q.ex_count + 1
    <3>1. UpTo(m) = UpTo(q.ex_index) \cup {m} /\ m \notin UpTo(q.ex_index)
      BY <1>2, <1>3, <1>6, <2>1 DEF Halts, UpTo
    <3>2. IsFiniteSet(UpTo(q.ex_index))
      BY SelectedTracks DEF UpTo
    <3> QED
      BY <1>5, <3>1, <3>2, FS_AddElement
  <2>3. GoesOn(BeginReading(q, m))
    BY <1>1, <1>4, <2>1, <2>2, BeginReadingGoesOn DEF Skips
  <2>4. GoesOn(RequestFinish(x, FALSE))
    BY <1>6, FinishedGoesOn, Zenon DEF Halts, Elsewhere
  <2> QED
    BY <1>6, <2>3, <2>4, Zenon DEF Halts
<1>7. CASE Passes(s, q, r)
  <2>1. UpTo(q.ex_index) = config.selection
    BY <1>7 DEF Passes, UpTo
  <2>2. q.ex_count >= Limit
    BY <1>3, <1>5, <2>1
  <2>3. Counts(q)
    BY <1>5, Zenon DEF Counts
  <2>4. GoesOn(SuccessIfNoJobs(q))
    BY <1>1, <1>4, <2>2, <2>3, SuccessIfNoJobsGoesOn, Zenon DEF Skips
  <2> QED
    BY <1>7, <2>2, <2>4, Zenon DEF Passes, r
<1> QED
  BY <1>1, <1>6, <1>7 DEF r

LEMMA StartExtractGoesOn ==
  ASSUME OnlyAudio, config \in Config, NEW s \in Rip, ~s.finished => Ready(s), NEW bad \in Bad
  PROVE  GoesOn(StartExtract(s, bad))
<1>1. CASE s.finished
  BY <1>1, Zenon DEF StartExtract, GoesOn
<1>2. CASE ~s.finished /\ config.single_file
  BY <1>2, StartExtractDiscGoesOn, Zenon DEF StartExtract
<1>3. CASE ~s.finished /\ ~config.single_file
  BY <1>3, StartExtractTracksGoesOn, Zenon DEF StartExtract
<1> QED
  BY <1>1, <1>2, <1>3

(* What leaves the flow of the tracks as it is.                            *)
SameFlow(r, s) ==
  /\ r.en_count = s.en_count /\ r.queue = s.queue /\ r.in_progress = s.in_progress
  /\ r.runaway = s.runaway /\ r.ex_count = s.ex_count /\ r.ex_index = s.ex_index
  /\ r.reading = s.reading /\ r.proc = s.proc /\ r.finished = s.finished

LEMMA SameFlowGoesOn ==
  ASSUME NEW s, NEW r, SameFlow(r, s), GoesOn(s)
  PROVE  GoesOn(r)
BY Zenon DEF SameFlow, GoesOn, Flows, Balanced, Counts

(* The effects of the handlers on everything the flow depends on.          *)
Pops(s, r) ==
  /\ r \in Rip
  /\ r.queue = Tail(s.queue) /\ r.proc = Head(s.queue) /\ r.en_index = Head(s.queue)
  /\ r.in_progress /\ r.en_count = s.en_count + 1
  /\ r.reading = s.reading /\ r.ex_index = s.ex_index /\ r.ex_count = s.ex_count
  /\ r.ripped = s.ripped /\ r.files = s.files /\ r.runaway = s.runaway
  /\ r.finished = s.finished /\ r.successful = s.successful
  /\ r.filename = Head(s.queue) /\ ~r.opened /\ ~r.termination
  /\ r.concluded = s.concluded /\ r.listed = s.listed /\ r.wav = s.wav

LEMMA StartEncodePops ==
  ASSUME Regular, config \in Config, NEW s \in Rip,
         ~s.finished, ~(s.en_count >= Limit), ~s.processing, s.queue # <<>>
  PROVE  Pops(s, StartEncode(s, TRUE)) /\ Head(s.queue) \in Tracks
<1>1. PICK t : t = Head(s.queue)
  OBVIOUS
<1>2. PICK q : q = Tail(s.queue)
  OBVIOUS
<1>3. PICK c : c = s.process_counter + 1
  OBVIOUS
<1>4. PICK e : e = s.en_count + 1
  OBVIOUS
<1>5. s.queue \in Seq(Tracks) /\ s.process_counter \in Int /\ s.en_count \in Nat
  BY Zenon DEF Rip
<1>6. q \in Seq(Tracks) /\ t \in Tracks /\ c \in Int /\ e \in Nat
  BY <1>1, <1>2, <1>3, <1>4, <1>5
<1>7. t \in 0..NTracks
  BY <1>6, ConstantsAssumption DEF Tracks
<1>8. PICK o : o = [s EXCEPT !.queue = q, !.in_progress = TRUE,
                             !.en_count = e, !.en_index = t]
  OBVIOUS
<1>9. o \in Rip
  BY <1>5, <1>6, <1>7, <1>8, ZenonT(60) DEF Rip
<1>10. PICK b : b = [o EXCEPT !.processing = TRUE, !.termination = FALSE]
  OBVIOUS
<1>11. b \in Rip
  BY <1>9, <1>10, ZenonT(60) DEF Rip
<1>12. PICK r : r = [[b EXCEPT !.filename = t, !.proc = t, !.opened = FALSE]
                     EXCEPT !.process_counter = c]
  OBVIOUS
<1>13. r \in Rip
  BY <1>6, <1>7, <1>11, <1>12, ZenonT(60) DEF Rip
<1>14. /\ o.queue = q /\ o.en_index = t /\ o.in_progress /\ o.en_count = e
       /\ o.reading = s.reading /\ o.ex_index = s.ex_index /\ o.ex_count = s.ex_count
       /\ o.ripped = s.ripped /\ o.files = s.files /\ o.runaway = s.runaway
       /\ o.finished = s.finished /\ o.successful = s.successful
       /\ o.concluded = s.concluded /\ o.listed = s.listed /\ o.wav = s.wav
       /\ o.process_counter = s.process_counter
  BY <1>5, <1>8, ZenonT(60) DEF Rip
<1>15. /\ b.queue = q /\ b.en_index = t /\ b.in_progress /\ b.en_count = e
       /\ b.reading = s.reading /\ b.ex_index = s.ex_index /\ b.ex_count = s.ex_count
       /\ b.ripped = s.ripped /\ b.files = s.files /\ b.runaway = s.runaway
       /\ b.finished = s.finished /\ b.successful = s.successful
       /\ b.concluded = s.concluded /\ b.listed = s.listed /\ b.wav = s.wav
       /\ ~b.termination
       /\ b.process_counter = s.process_counter
  BY <1>9, <1>10, <1>14, ZenonT(60) DEF Rip
<1>16. /\ r.queue = q /\ r.en_index = t /\ r.in_progress /\ r.en_count = e /\ r.proc = t
       /\ r.reading = s.reading /\ r.ex_index = s.ex_index /\ r.ex_count = s.ex_count
       /\ r.ripped = s.ripped /\ r.files = s.files /\ r.runaway = s.runaway
       /\ r.finished = s.finished /\ r.successful = s.successful
       /\ r.filename = t /\ ~r.opened /\ ~r.termination
       /\ r.concluded = s.concluded /\ r.listed = s.listed /\ r.wav = s.wav
  BY <1>11, <1>12, <1>15, ZenonT(60) DEF Rip
<1>17. [Encode(o, t, TRUE) EXCEPT !.process_counter = @ + 1] = r
  <2>1. config.no_command = FALSE
    BY Zenon DEF Regular, Config
  <2>2. Encode(o, t, TRUE) = [b EXCEPT !.filename = t, !.proc = t, !.opened = FALSE]
    BY <1>10, <2>1, Zenon DEF Encode
  <2>3. Encode(o, t, TRUE).process_counter = s.process_counter
    BY <1>11, <1>15, <2>2, ZenonT(60) DEF Rip
  <2> QED
    BY <1>3, <1>12, <2>2, <2>3, Zenon
<1>18. StartEncode(s, TRUE) = r
  <2>1. o = [s EXCEPT !.queue = Tail(@), !.in_progress = TRUE,
                      !.en_count = @ + 1, !.en_index = t]
    BY <1>2, <1>4, <1>8, Zenon
  <2> QED
    BY <1>1, <1>17, <2>1, Zenon DEF StartEncode
<1>19. r.queue = Tail(s.queue) /\ r.en_count = s.en_count + 1
       /\ r.proc = Head(s.queue) /\ r.en_index = Head(s.queue) /\ Head(s.queue) \in Tracks
       /\ r.filename = Head(s.queue)
  BY <1>1, <1>2, <1>4, <1>6, <1>16, Zenon
<1> QED
  BY <1>13, <1>16, <1>18, <1>19, Zenon DEF Pops

(* The next job is started if one waits and no encoder runs; n tracks are  *)
(* being read.                                                             *)
LEMMA StartEncodeFlows ==
  ASSUME Regular, config \in Config, NEW s \in Rip, NEW n \in Nat,
         s.processing <=> s.proc # 0,
         s.in_progress => s.proc # 0,
         s.en_count + Len(s.queue) + n = s.ex_count,
         ~s.runaway
  PROVE  LET r == StartEncode(s, TRUE)
         IN  /\ r \in Rip
             /\ ~r.finished =>
                  /\ Balanced(r, n) /\ r.reading = s.reading
                  /\ r.ex_count = s.ex_count /\ r.ex_index = s.ex_index
                  /\ r.proc # 0 \/ (s.queue = <<>> /\ ~(s.en_count >= Limit))
<1>1. CASE s.finished
  BY <1>1, Zenon DEF StartEncode
<1>2. CASE ~s.finished /\ s.en_count >= Limit
  BY <1>2, RequestFinishEffect, Zenon DEF StartEncode, RequestsFinish
<1>3. CASE ~s.finished /\ ~(s.en_count >= Limit) /\ (s.processing \/ s.queue = <<>>)
  BY <1>3, Zenon DEF StartEncode, Balanced
<1>4. CASE ~s.finished /\ ~(s.en_count >= Limit) /\ ~s.processing /\ s.queue # <<>>
  <2>1. PICK r : r = StartEncode(s, TRUE)
    OBVIOUS
  <2>2. Pops(s, r) /\ Head(s.queue) \in Tracks
    BY <1>4, <2>1, StartEncodePops, Zenon
  <2>3. /\ s.queue \in Seq(Tracks) /\ s.en_count \in Nat /\ s.ex_count \in Nat
        /\ r.proc # 0
    <3>1. r.proc # 0
      BY <2>2, ConstantsAssumption DEF Pops, Tracks
    <3> QED
      BY <3>1, Zenon DEF Rip
  <2>4. Len(r.queue) = Len(s.queue) - 1 /\ Len(s.queue) \in Nat
    BY <1>4, <2>2, <2>3 DEF Pops
  <2>5. r.en_count + Len(r.queue) + n = r.ex_count
    BY <2>2, <2>3, <2>4 DEF Pops
  <2>6. Balanced(r, n)
    BY <2>2, <2>3, <2>5, Zenon DEF Pops, Balanced
  <2> QED
    BY <2>1, <2>2, <2>3, <2>6, Zenon DEF Pops
<1> QED
  BY <1>1, <1>2, <1>3, <1>4

(* The thread has read a track: it becomes a job, and the next is begun.   *)
Adds(s, j) ==
  /\ j \in Rip
  /\ j.queue = Append(s.queue, s.ex_index) /\ j.reading = 0
  /\ j.proc = s.proc /\ j.processing = s.processing /\ j.en_index = s.en_index
  /\ j.in_progress = s.in_progress /\ j.en_count = s.en_count
  /\ j.ex_index = s.ex_index /\ j.ex_count = s.ex_count
  /\ j.ripped = s.ripped /\ j.files = s.files /\ j.runaway = s.runaway
  /\ j.finished = s.finished /\ j.successful = s.successful
  /\ j.wav = IF s.empty THEN s.wav \ {s.ex_index} ELSE s.wav
  /\ SameRest(j, s)

LEMMA FinishExtractAdds ==
  ASSUME config \in Config, NEW s \in Rip, s.ex_index \in Tracks, ~s.finished, NEW bad \in Bad
  PROVE  \E j : /\ Adds(s, j)
               /\ FinishExtract(s, TRUE, bad) = StartExtract(StartEncode(j, TRUE), bad)
<1>1. PICK n : n = s.process_counter - 1
  OBVIOUS
<1>2. PICK w : w = IF s.empty THEN s.wav \ {s.ex_index} ELSE s.wav
  OBVIOUS
<1>3. PICK q : q = Append(s.queue, s.ex_index)
  OBVIOUS
<1>4. PICK c : c = [s EXCEPT !.process_counter = n, !.reading = 0, !.wav = w]
  OBVIOUS
<1>5. PICK j : j = [c EXCEPT !.queue = q]
  OBVIOUS
<1>6. /\ s.process_counter \in Int /\ s.wav \in SUBSET (0..NTracks)
      /\ s.queue \in Seq(Tracks)
  BY Zenon DEF Rip
<1>7. w \in SUBSET (0..NTracks) /\ n \in Int /\ 0 \in 0..NTracks
  <2>1. w \in SUBSET (0..NTracks)
    BY <1>2, <1>6, Zenon
  <2> QED
    BY <1>1, <1>6, <2>1, ConstantsAssumption
<1>8. q \in Seq(Tracks)
  BY <1>3, <1>6
<1>9. c \in Rip
  BY <1>4, <1>6, <1>7, ZenonT(60) DEF Rip
<1>10. j \in Rip
  BY <1>5, <1>8, <1>9, ZenonT(60) DEF Rip
<1>11. /\ c.queue = s.queue /\ c.reading = 0 /\ c.proc = s.proc
       /\ c.processing = s.processing /\ c.en_index = s.en_index
       /\ c.in_progress = s.in_progress /\ c.en_count = s.en_count
       /\ c.ex_index = s.ex_index /\ c.ex_count = s.ex_count
       /\ c.ripped = s.ripped /\ c.files = s.files /\ c.runaway = s.runaway
       /\ c.finished = s.finished /\ c.successful = s.successful /\ c.wav = w
       /\ SameRest(c, s)
  BY <1>4, <1>6, ZenonT(60) DEF Rip, SameRest
<1>12. /\ j.queue = q /\ j.reading = 0 /\ j.proc = s.proc
       /\ j.processing = s.processing /\ j.en_index = s.en_index
       /\ j.in_progress = s.in_progress /\ j.en_count = s.en_count
       /\ j.ex_index = s.ex_index /\ j.ex_count = s.ex_count
       /\ j.ripped = s.ripped /\ j.files = s.files /\ j.runaway = s.runaway
       /\ j.finished = s.finished /\ j.successful = s.successful /\ j.wav = w
       /\ SameRest(j, s)
  BY <1>5, <1>9, <1>11, ZenonT(60) DEF Rip, SameRest
<1>13. FinishExtract(s, TRUE, bad) = StartExtract(StartEncode(j, TRUE), bad)
  BY <1>1, <1>2, <1>3, <1>4, <1>5, <1>11, Zenon DEF FinishExtract
<1>14. j.queue = Append(s.queue, s.ex_index)
  BY <1>3, <1>12, Zenon
<1> QED
  BY <1>2, <1>10, <1>12, <1>13, <1>14, Zenon DEF Adds

LEMMA AddedFlows ==
  ASSUME NEW s \in Rip, s.reading # 0, s.ex_index \in Tracks, Flows(s),
         s.processing <=> s.proc # 0, NEW j, Adds(s, j)
  PROVE  /\ j.processing <=> j.proc # 0
         /\ j.in_progress => j.proc # 0
         /\ j.en_count + Len(j.queue) + 0 = j.ex_count
         /\ ~j.runaway /\ s.ex_count # 0 /\ Counts(s)
<1>1. s.queue \in Seq(Tracks) /\ s.en_count \in Nat /\ s.ex_count \in Nat
  BY Zenon DEF Rip
<1>2. j.queue = Append(s.queue, s.ex_index)
  BY Zenon DEF Adds
<1>3. Len(j.queue) = Len(s.queue) + 1 /\ Len(s.queue) \in Nat
  BY <1>1, <1>2
<1>4. s.en_count + Len(s.queue) + 1 = s.ex_count
  BY DEF Flows, Balanced, N
<1>5. j.en_count + Len(j.queue) + 0 = j.ex_count /\ s.ex_count # 0
  <2>1. j.en_count = s.en_count /\ j.ex_count = s.ex_count
    BY Zenon DEF Adds
  <2>2. s.en_count + Len(j.queue) + 0 = s.ex_count /\ s.ex_count # 0
    <3>1. \A e, x, k, l \in Nat : e + k + 1 = x /\ l = k + 1 => e + l + 0 = x /\ x # 0
      OBVIOUS
    <3>2. Len(j.queue) \in Nat
      BY <1>3
    <3> QED
      BY <1>1, <1>3, <1>4, <3>1, <3>2, Zenon
  <2> QED
    BY <2>1, <2>2, Zenon
<1> QED
  BY <1>5, Zenon DEF Adds, Flows, Balanced

LEMMA ReadyAgain ==
  ASSUME Regular, config \in Config, NEW s \in Rip, s.reading # 0, s.ex_index \in Tracks,
         Flows(s), s.processing <=> s.proc # 0, NEW j, Adds(s, j)
  PROVE  LET r == StartEncode(j, TRUE)
         IN  r \in Rip /\ (~r.finished => Ready(r))
<1>1. /\ j.processing <=> j.proc # 0
      /\ j.in_progress => j.proc # 0
      /\ j.en_count + Len(j.queue) + 0 = j.ex_count
      /\ ~j.runaway /\ s.ex_count # 0 /\ Counts(s)
  BY AddedFlows
<1>2. j \in Rip /\ 0 \in Nat
  BY DEF Adds
<1>3. PICK r : r = StartEncode(j, TRUE)
  OBVIOUS
<1>4. /\ r \in Rip
      /\ ~r.finished => /\ Balanced(r, 0) /\ r.reading = j.reading
                        /\ r.ex_count = j.ex_count /\ r.ex_index = j.ex_index
  BY <1>1, <1>2, <1>3, StartEncodeFlows, Zenon
<1>5. ~r.finished => Ready(r)
  BY <1>1, <1>4, Zenon DEF Adds, Ready, Counts
<1> QED
  BY <1>3, <1>4, <1>5, Zenon

LEMMA FinishExtractGoesOn ==
  ASSUME Regular, OnlyAudio, config \in Config, NEW s, Good(s), s.reading # 0,
         ~s.finished, Flows(s), NEW bad \in Bad
  PROVE  GoesOn(FinishExtract(s, TRUE, bad))
<1>1. /\ s \in Rip /\ s.reading = s.ex_index /\ s.reading \in 0..NTracks
      /\ s.processing <=> s.proc # 0
  BY Zenon DEF Good, Consistent, ThreadInv, Rip
<1>2. s.ex_index \in Tracks
  BY <1>1, ConstantsAssumption DEF Tracks
<1>3. PICK j : /\ Adds(s, j)
               /\ FinishExtract(s, TRUE, bad) = StartExtract(StartEncode(j, TRUE), bad)
  BY <1>1, <1>2, FinishExtractAdds, Zenon
<1>4. PICK r : r = StartEncode(j, TRUE)
  OBVIOUS
<1>5. r \in Rip /\ (~r.finished => Ready(r))
  BY <1>1, <1>2, <1>3, <1>4, ReadyAgain, Zenon
<1> QED
  BY <1>3, <1>4, <1>5, StartExtractGoesOn, Zenon

(* The job of an encoder that has exited is done.                          *)
Done(s, d) ==
  /\ d \in Rip
  /\ d.ripped = s.ripped \cup {s.en_index} /\ ~d.in_progress
  /\ d.proc = s.proc /\ d.processing = s.processing /\ d.en_index = s.en_index
  /\ d.queue = s.queue /\ d.en_count = s.en_count
  /\ d.reading = s.reading /\ d.ex_index = s.ex_index /\ d.ex_count = s.ex_count
  /\ d.files = s.files /\ d.runaway = s.runaway
  /\ d.finished = s.finished /\ d.successful = s.successful
  /\ d.wav = s.wav \ {s.en_index}
  /\ SameRest(d, s)

LEMMA EncodeDoneEffect ==
  ASSUME NEW s \in Rip
  PROVE  Done(s, EncodeDone(s))
<1>1. PICK c : c = s.process_counter - 1
  OBVIOUS
<1>2. PICK w : w = s.wav \ {s.en_index}
  OBVIOUS
<1>3. PICK x : x = s.ripped \cup {s.en_index}
  OBVIOUS
<1>4. /\ s.process_counter \in Int /\ s.en_index \in 0..NTracks
      /\ s.wav \in SUBSET (0..NTracks) /\ s.ripped \in SUBSET (0..NTracks)
  BY Zenon DEF Rip
<1>5. c \in Int /\ w \in SUBSET (0..NTracks) /\ x \in SUBSET (0..NTracks)
  <2>1. c \in Int
    BY <1>1, <1>4
  <2> QED
    BY <1>2, <1>3, <1>4, <2>1, Zenon
<1>6. PICK d : d = EncodeDone(s)
  OBVIOUS
<1>7. d = [s EXCEPT !.process_counter = c, !.in_progress = FALSE, !.ripped = x, !.wav = w]
  BY <1>1, <1>2, <1>3, <1>6, Zenon DEF EncodeDone
<1>8. d \in Rip
  BY <1>4, <1>5, <1>7, ZenonT(60) DEF Rip
<1>9. d.ripped = x /\ ~d.in_progress /\ d.wav = w
  BY <1>4, <1>7, ZenonT(60) DEF Rip
<1>10. /\ d.proc = s.proc /\ d.processing = s.processing /\ d.en_index = s.en_index
       /\ d.queue = s.queue /\ d.en_count = s.en_count
       /\ d.reading = s.reading /\ d.ex_index = s.ex_index /\ d.ex_count = s.ex_count
       /\ d.files = s.files /\ d.runaway = s.runaway
       /\ d.finished = s.finished /\ d.successful = s.successful
       /\ SameRest(d, s)
  BY <1>4, <1>7, ZenonT(60) DEF Rip, SameRest
<1> QED
  BY <1>2, <1>3, <1>6, <1>8, <1>9, <1>10, Zenon DEF Done

(* An encoder has exited after the rip was told to finish.                 *)
LEMMA FinishedEncodeGoesOn ==
  ASSUME NEW s \in Rip, s.finished
  PROVE  GoesOn(FinishEncode(s, TRUE))
<1>1. PICK d : d = EncodeDone(s)
  OBVIOUS
<1>2. d \in Rip /\ d.finished
  BY <1>1, EncodeDoneEffect, Zenon DEF Done
<1>3. ConcludeIfIdle(d).finished
  BY <1>2, ExecuteFinishEffect, Zenon DEF ConcludeIfIdle, ExecutesFinish, SameOrders
<1>4. FinishEncode(s, TRUE) = ConcludeIfIdle(d)
  BY <1>1, <1>2, Zenon DEF FinishEncode
<1> QED
  BY <1>3, <1>4 DEF GoesOn

(* An encoder has exited: the next job is started, or none is left.        *)
LEMMA FinishEncodeGoesOn ==
  ASSUME Regular, config \in Config, NEW s \in Rip, s.proc = 0, s.processing = FALSE,
         s.en_count + Len(s.queue) + N(s.reading # 0) = s.ex_count, ~s.runaway,
         s.reading = 0 => s.ex_count >= Limit,
         Counts(s), ~s.finished
  PROVE  GoesOn(FinishEncode(s, TRUE))
<1>1. PICK d : d = EncodeDone(s)
  OBVIOUS
<1>2. s.en_count \in Nat /\ s.ex_count \in Nat /\ s.queue \in Seq(Tracks)
  BY Zenon DEF Rip
<1>3. /\ d \in Rip
      /\ d.reading = s.reading /\ d.proc = 0 /\ d.processing = FALSE
      /\ ~d.in_progress /\ d.queue = s.queue /\ d.en_count = s.en_count
      /\ d.ex_count = s.ex_count /\ d.ex_index = s.ex_index
      /\ d.runaway = s.runaway /\ d.finished = s.finished
  BY <1>1, EncodeDoneEffect, Zenon DEF Done
<1>4. FinishEncode(s, TRUE) = StartEncode(d, TRUE)
  BY <1>1, <1>3, Zenon DEF FinishEncode
<1>5. PICK n : n = N(s.reading # 0)
  OBVIOUS
<1>6. n \in Nat /\ n = N(d.reading # 0)
  BY <1>3, <1>5 DEF N
<1>7. PICK r : r = StartEncode(d, TRUE)
  OBVIOUS
<1>8. ~r.finished =>
         /\ Balanced(r, n) /\ r.reading = s.reading
         /\ r.ex_count = s.ex_count /\ r.ex_index = s.ex_index
         /\ r.proc # 0 \/ (s.queue = <<>> /\ ~(s.en_count >= Limit))
  BY <1>3, <1>5, <1>6, <1>7, StartEncodeFlows, Zenon
<1>9. s.queue = <<>> /\ s.reading = 0 => s.en_count >= Limit
  <2>1. ASSUME s.queue = <<>>, s.reading = 0
        PROVE  s.en_count = s.ex_count
    BY <1>2, <2>1 DEF N
  <2> QED
    BY <2>1, Zenon
<1>10. ~r.finished => Flows(r)
  BY <1>5, <1>8, <1>9, Zenon DEF Flows, Counts
<1> QED
  BY <1>4, <1>7, <1>10 DEF GoesOn

-----------------------------------------------------------------------------
(* Every action.                                                           *)

LEMMA InitFlow ==
  ASSUME Init
  PROVE  FlowInv
<1>1. PICK f : rip = NewRip(f)
  BY Zenon DEF Init
<1>2. Fresh(rip) /\ ~rip.started
  BY <1>1, ZenonT(60) DEF NewRip, Fresh
<1> QED
  BY <1>2, InitInv, Zenon DEF FlowInv

LEMMA StartsReady ==
  ASSUME FlowInv, ~rip.started, NEW s, s = [rip EXCEPT !.started = TRUE]
  PROVE  Good(s) /\ Ready(s) /\ s.reading = 0 /\ s.proc = 0
<1>1. Good(s) /\ s.reading = 0 /\ s.proc = 0
  BY StartedIsGood, Zenon DEF FlowInv, Inv
<1>2. rip \in Rip /\ config \in Config /\ Fresh(rip)
  BY Zenon DEF FlowInv, Inv, TypeOK
<1>3. /\ s.queue = <<>> /\ ~s.in_progress /\ ~s.runaway
      /\ s.ex_count = 0 /\ s.en_count = 0 /\ s.ex_index = 0
  BY <1>2, ZenonT(60) DEF Fresh, Rip
<1>4. Cardinality(UpTo(0)) = 0
  <2>1. UpTo(0) = {}
    <3>1. \A t \in config.selection : t \in 1..NTracks
      BY <1>2, SelectedTracks DEF Tracks
    <3> QED
      BY <3>1, ConstantsAssumption DEF UpTo
  <2> QED
    BY <2>1, FS_EmptySet
<1>5. s.en_count + Len(s.queue) + 0 = s.ex_count
  BY <1>3
<1>6. Ready(s)
  BY <1>1, <1>3, <1>4, <1>5, Zenon DEF Ready, Counts, Balanced, NoJobs
<1> QED
  BY <1>1, <1>6

LEMMA StartGoesOn ==
  ASSUME OnlyAudio, FlowInv, NEW bad \in Bad, Start(bad)
  PROVE  GoesOn(rip')
<1>1. PICK s : s = [rip EXCEPT !.started = TRUE]
  OBVIOUS
<1>2. Ready(s) /\ s \in Rip /\ config \in Config
  BY <1>1, StartsReady, Zenon DEF FlowInv, Inv, TypeOK, Start, Good, Consistent
<1>3. CASE CheckPasses(config.free)
  <2>1. rip' = StartExtract(s, bad)
    BY <1>1, <1>3, Zenon DEF Start
  <2> QED
    BY <1>2, <2>1, StartExtractGoesOn, Zenon
<1>4. CASE ~CheckPasses(config.free)
  <2>1. rip' = RequestFinish(RequestFinish(s, FALSE), FALSE)
    BY <1>1, <1>4, Zenon DEF Start, SlotError
  <2>2. RequestFinish(s, FALSE) \in Rip
    BY <1>2, RequestFinishEffect, Zenon DEF RequestsFinish
  <2> QED
    BY <2>1, <2>2, FinishedGoesOn
<1> QED
  BY <1>3, <1>4

(* A signal of the thread has been taken from the queue.                   *)
Takes(q, s) ==
  /\ Good(s) /\ SameFlow(s, q)
  /\ s.en_index = q.en_index /\ s.ripped = q.ripped /\ s.files = q.files
  /\ s.successful = q.successful /\ s.wav = q.wav /\ s.empty = q.empty /\ SameRest(s, q)

LEMMA DeliverTakes ==
  ASSUME FlowInv, NEW bad \in Bad, Deliver(TRUE, bad)
  PROVE  \E s : /\ Takes(rip, s) /\ rip.reading # 0
               /\ rip' = IF Head(rip.events) = "error" THEN SlotError(s)
                         ELSE FinishExtract(s, TRUE, bad)
<1>1. PICK e : e = Tail(rip.events)
  OBVIOUS
<1>2. PICK s : s = [rip EXCEPT !.events = e]
  OBVIOUS
<1>3. /\ rip \in Rip /\ rip.events # <<>> /\ rip.reading # 0
      /\ rip.events \in {<<>>, <<"finished">>, <<"error", "finished">>}
      /\ rip' = IF Head(rip.events) = "error" THEN SlotError(s)
                ELSE FinishExtract(s, TRUE, bad)
  BY <1>1, <1>2, Zenon DEF Deliver, FlowInv, Inv, Good, Consistent, ThreadInv
<1>4. /\ e \in Seq({"error", "finished"}) /\ e \in {<<>>, <<"finished">>}
  BY <1>1, <1>3, SignalSequences, Zenon
<1>5. s \in Rip
  BY <1>2, <1>3, <1>4, ZenonT(60) DEF Rip
<1>6. /\ s.processing = rip.processing
      /\ s.events = e /\ s.process_counter = rip.process_counter
      /\ s.concluded = rip.concluded
      /\ s.interrupt = rip.interrupt /\ s.run = rip.run /\ s.missed = rip.missed /\ s.termination = rip.termination
      /\ s.en_index = rip.en_index /\ s.ripped = rip.ripped /\ s.files = rip.files
      /\ s.successful = rip.successful /\ s.wav = rip.wav /\ s.empty = rip.empty
      /\ SameFlow(s, rip) /\ SameRest(s, rip)
  BY <1>2, <1>3, ZenonT(60) DEF Rip, SameFlow, SameRest
<1>7. Good(s)
  BY <1>3, <1>4, <1>5, <1>6, Zenon
     DEF FlowInv, Inv, Good, Consistent, Counted, ThreadInv, Told, Conclusive, SameFlow
<1> QED
  BY <1>3, <1>6, <1>7, Zenon DEF Takes

LEMMA DeliverGoesOn ==
  ASSUME Regular, OnlyAudio, FlowInv, NEW bad \in Bad, Deliver(TRUE, bad)
  PROVE  GoesOn(rip')
<1>1. PICK s : /\ Takes(rip, s) /\ rip.reading # 0
               /\ rip' = IF Head(rip.events) = "error" THEN SlotError(s)
                         ELSE FinishExtract(s, TRUE, bad)
  BY DeliverTakes, Zenon
<1>2. /\ Good(s) /\ s \in Rip /\ GoesOn(s) /\ s.reading # 0 /\ s.finished = rip.finished
      /\ config \in Config
  BY <1>1, SameFlowGoesOn, Zenon
     DEF Takes, SameFlow, Good, Consistent, Deliver, Alive, FlowInv, Inv, TypeOK
<1>3. CASE Head(rip.events) = "error"
  BY <1>1, <1>2, <1>3, FinishedGoesOn DEF SlotError
<1>4. CASE Head(rip.events) # "error" /\ s.finished
  <2>1. rip'.finished
    BY <1>2, <1>4, DeliverInv, Zenon DEF FlowInv
  <2> QED
    BY <2>1 DEF GoesOn
<1>5. CASE Head(rip.events) # "error" /\ ~s.finished
  BY <1>1, <1>2, <1>5, FinishExtractGoesOn, Zenon DEF GoesOn
<1> QED
  BY <1>3, <1>4, <1>5

(* The encoder of s has exited, and Audex has not been told.               *)
Ends(s, x) ==
  /\ x \in Rip /\ x.proc = 0 /\ x.processing = FALSE
  /\ x.queue = s.queue /\ x.en_count = s.en_count /\ x.en_index = s.en_index
  /\ x.reading = s.reading /\ x.ex_index = s.ex_index /\ x.ex_count = s.ex_count
  /\ x.ripped = s.ripped /\ x.runaway = s.runaway
  /\ x.finished = s.finished /\ x.successful = s.successful
  /\ x.wav = s.wav /\ SameRest(x, s)

LEMMA EncoderExitsEnds ==
  ASSUME FlowInv, NEW ok \in BOOLEAN, EncoderExits(ok, TRUE)
  PROVE  \E x : /\ Ends(rip, x)
               /\ x.files = [rip.files EXCEPT ![TargetOf[rip.proc]] =
                               IF ok /\ rip.files[TargetOf[rip.proc]] = Partial(rip.proc)
                               THEN Complete(rip.proc) ELSE @]
               /\ rip' = IF rip.termination \/ ok THEN FinishEncode(x, TRUE)
                         ELSE FinishEncode(SlotError(x), TRUE)
<1> DEFINE t == rip.proc
           l == rip.files[TargetOf[t]] = Partial(t)
           y == [rip EXCEPT !.proc = 0, !.processing = FALSE,
                            !.files[TargetOf[t]] = IF ok /\ l THEN Complete(t) ELSE @]
<1>1. PICK f : f = [rip.files EXCEPT ![TargetOf[t]] = IF ok /\ l THEN Complete(t) ELSE @]
  OBVIOUS
<1>2. PICK x : x = [rip EXCEPT !.proc = 0, !.processing = FALSE, !.files = f]
  OBVIOUS
<1>3. rip \in Rip /\ t # 0
  BY Zenon DEF EncoderExits, FlowInv, Inv, TypeOK
<1>4. t \in Tracks /\ 0 \in 0..NTracks /\ rip.files \in [Files -> Content]
  <2>1. t \in 0..NTracks /\ rip.files \in [Files -> Content]
    BY <1>3, Zenon DEF Rip
  <2> QED
    BY <1>3, <2>1, ConstantsAssumption DEF Tracks
<1>5. f \in [Files -> Content]
  <2>1. TargetOf[t] \in Files /\ Complete(t) \in Content
    BY <1>4, ConstantsAssumption DEF Complete, Content, Tracks
  <2> QED
    BY <1>1, <1>4, <2>1
<1>6. x \in Rip
  BY <1>2, <1>3, <1>4, <1>5, ZenonT(60) DEF Rip
<1>7. rip' = IF rip.termination \/ ok THEN FinishEncode(x, TRUE)
             ELSE FinishEncode(SlotError(x), TRUE)
  <2>1. x = y
    BY <1>1, <1>2, <1>3, ZenonT(60) DEF Rip
  <2>2. rip' = IF rip.termination \/ ok THEN FinishEncode(y, TRUE)
               ELSE FinishEncode(SlotError(y), TRUE)
    BY DEF EncoderExits
  <2> HIDE DEF y
  <2> QED
    BY <2>1, <2>2
<1>8. Ends(rip, x) /\ x.files = f
  BY <1>2, <1>3, <1>4, <1>6, ZenonT(60) DEF Rip, Ends, SameRest
<1> QED
  BY <1>1, <1>7, <1>8, Zenon

LEMMA EncoderExitsGoesOn ==
  ASSUME Regular, FlowInv, NEW ok \in BOOLEAN, EncoderExits(ok, TRUE)
  PROVE  GoesOn(rip')
<1>1. PICK x : /\ Ends(rip, x)
               /\ rip' = IF rip.termination \/ ok THEN FinishEncode(x, TRUE)
                         ELSE FinishEncode(SlotError(x), TRUE)
  BY EncoderExitsEnds, Zenon
<1>2. rip.started /\ config \in Config
  BY Zenon DEF EncoderExits, Alive, FlowInv, Inv, TypeOK
<1>3. CASE rip.finished
  <2>1. rip'.finished
    BY <1>3, EncoderExitsInv, Zenon DEF FlowInv
  <2> QED
    BY <2>1 DEF GoesOn
<1>4. CASE ~rip.finished /\ (rip.termination \/ ok)
  <2>1. Flows(rip)
    BY <1>2, <1>4, Zenon DEF FlowInv, GoesOn
  <2>2. /\ x.en_count + Len(x.queue) + N(x.reading # 0) = x.ex_count /\ ~x.runaway
        /\ x.reading = 0 => x.ex_count >= Limit
        /\ Counts(x)
    BY <1>1, <2>1, Zenon DEF Ends, Flows, Balanced, Counts
  <2>3. GoesOn(FinishEncode(x, TRUE))
    BY <1>1, <1>2, <1>4, <2>2, FinishEncodeGoesOn, Zenon DEF Ends
  <2> QED
    BY <1>1, <1>4, <2>3, Zenon
<1>5. CASE ~(rip.termination \/ ok)
  <2>1. PICK z : z = SlotError(x)
    OBVIOUS
  <2>2. z \in Rip /\ z.finished
    BY <1>1, <2>1, RequestFinishEffect, Zenon DEF SlotError, RequestsFinish, Ends
  <2>3. rip' = FinishEncode(z, TRUE)
    BY <1>1, <1>5, <2>1, Zenon
  <2> QED
    BY <2>2, <2>3, FinishedEncodeGoesOn
<1> QED
  BY <1>3, <1>4, <1>5

LEMMA ThreadStartsGoesOn ==
  ASSUME FlowInv, ThreadStarts
  PROVE  GoesOn(rip')
<1>1. rip \in Rip
  BY Zenon DEF FlowInv, Inv, TypeOK
<1>2. rip.started /\ rip' \in Rip /\ SameButRun(rip', rip)
  BY <1>1, ThreadStartsEffect, Zenon
<1>3. SameFlow(rip', rip)
  BY <1>2, Zenon DEF SameFlow, SameButRun
<1> QED
  BY <1>2, <1>3, SameFlowGoesOn, Zenon DEF FlowInv

LEMMA ThreadEndsGoesOn ==
  ASSUME FlowInv, NEW outcome, ThreadEnds(outcome)
  PROVE  GoesOn(rip')
<1>1. PICK e : e = IF outcome = "error" THEN <<"error", "finished">> ELSE <<"finished">>
  OBVIOUS
<1>2. PICK m : m = (outcome = "nothing")
  OBVIOUS
<1>3. rip \in Rip /\ rip.started /\ rip' = [rip EXCEPT !.events = e, !.empty = m]
  BY <1>1, <1>2, Zenon DEF ThreadEnds, Alive, FlowInv, Inv, TypeOK
<1>4. SameFlow(rip', rip)
  BY <1>3, ZenonT(60) DEF SameFlow, Rip
<1> QED
  BY <1>3, <1>4, SameFlowGoesOn, Zenon DEF FlowInv

LEMMA EncoderOpensGoesOn ==
  ASSUME FlowInv, EncoderOpens
  PROVE  GoesOn(rip')
<1>1. PICK f : f = [rip.files EXCEPT ![TargetOf[rip.proc]] = Partial(rip.proc)]
  OBVIOUS
<1>2. rip \in Rip /\ rip.started
  BY Zenon DEF EncoderOpens, Alive, FlowInv, Inv, TypeOK
<1>3. rip' = [rip EXCEPT !.opened = TRUE, !.files = f]
  BY <1>1, <1>2, ZenonT(60) DEF EncoderOpens, Rip
<1>4. SameFlow(rip', rip)
  BY <1>2, <1>3, ZenonT(60) DEF SameFlow, Rip
<1> QED
  BY <1>2, <1>4, SameFlowGoesOn, Zenon DEF FlowInv

LEMMA NextGoesOn ==
  ASSUME Regular, OnlyAudio, FlowInv, Next
  PROVE  GoesOn(rip')
<1>1. TRUE \in Starts /\ \A x \in Starts : x = TRUE
  BY DEF Starts, Regular
<1>2. rip \in Rip
  BY Zenon DEF FlowInv, Inv, TypeOK
<1>3. CASE PrepareFails
  <2>1. [rip EXCEPT !.started = TRUE] \in Rip
    BY <1>2, ZenonT(60) DEF Rip
  <2> QED
    BY <1>3, <2>1, FinishedGoesOn DEF PrepareFails, SlotError
<1>4. ASSUME NEW bad \in Bad, Start(bad) PROVE GoesOn(rip')
  BY <1>4, StartGoesOn
<1>5. CASE ThreadStep
  BY <1>5, ThreadEndsGoesOn, ThreadStartsGoesOn DEF ThreadStep, ThreadStarts
<1>6. CASE LoopStep
  BY <1>1, <1>6, DeliverGoesOn, Zenon DEF LoopStep
<1>7. CASE EncoderOpens
  BY <1>7, EncoderOpensGoesOn
<1>8. CASE EncoderStep
  <2>1. ~EncoderCrashes(TRUE)
    BY DEF Regular, EncoderCrashes
  <2>2. PICK ok \in BOOLEAN : EncoderExits(ok, TRUE)
    BY <1>1, <1>8, <2>1, Zenon DEF EncoderStep
  <2> QED
    BY <2>2, EncoderExitsGoesOn
<1>9. CASE Cancel
  BY <1>2, <1>9, FinishedGoesOn DEF Cancel
<1>10. CASE Rest
  <2>1. rip.concluded # 0
    BY <1>10 DEF Rest, Concluded
  <2>2. rip.started
    BY <2>1, Zenon DEF FlowInv, Inv, Good, Conclusive, N
  <2> QED
    BY <1>10, <2>2, Zenon DEF Rest, vars, FlowInv
<1> QED
  BY <1>3, <1>4, <1>5, <1>6, <1>7, <1>8, <1>9, <1>10, Zenon DEF Next

LEMMA NextFlow ==
  ASSUME Regular, OnlyAudio, FlowInv, [Next]_vars
  PROVE  FlowInv'
<1>1. Inv' /\ config' = config
  BY NextInv, NextKeeps, Zenon DEF FlowInv, Keeps
<1>2. CASE rip' = rip
  BY <1>1, <1>2, Zenon DEF FlowInv, GoesOn, Flows, Counts, Balanced, Limit, UpTo
<1>3. CASE rip' # rip
  <2>1. GoesOn(rip')
    BY <1>3, NextGoesOn DEF vars
  <2>2. rip'.started
    BY <1>3, NextKeeps, Zenon DEF Keeps, FlowInv
  <2>3. GoesOn(rip)'
    BY <1>1, <2>1, Zenon DEF GoesOn, Flows, Counts, Balanced, Limit, UpTo
  <2> QED
    BY <1>1, <2>2, <2>3, Zenon DEF FlowInv
<1> QED
  BY <1>2, <1>3

(* Until a rip is asked to finish, the extraction or an encoder runs, for  *)
(* any disc whose selectable tracks are audio tracks, and start_extract()  *)
(* does not call itself for ever.                                          *)
THEOREM NeverWaitsInVain ==
  ASSUME Regular, OnlyAudio
  PROVE  Spec => []NeverStuck
<1>1. Init => FlowInv
  BY InitFlow
<1>2. FlowInv /\ [Next]_vars => FlowInv'
  BY NextFlow
<1>3. FlowInv => NeverStuck
  BY DEF FlowInv, GoesOn, Flows, Balanced, NeverStuck, Running
<1> QED
  BY <1>1, <1>2, <1>3, PTL DEF Spec
=============================================================================
