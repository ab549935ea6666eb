--------------------------- MODULE CoverQueryProofs ---------------------------
(***************************************************************************)
(* What is proved of a search for covers, for any number of searches,      *)
(* albums, pictures and retries.  Every handler takes a job and the entry  *)
(* of its album to the same after it; GoodWork is what they preserve.      *)
(***************************************************************************)
EXTENDS CoverQuery, SequenceTheorems, TLAPS

(* A failure is told by the status from the moment it happens, and the     *)
(* status of a search that downloads pictures is none that begins another  *)
(* run.                                                                    *)
GoodJob(j) ==
  /\ j.phase = "finished" => j.dev # "prepared"
  /\ j.phase = "image" => /\ j.dev = "prepared"
                          /\ j.status \in {"success", "network", "server"}
                          /\ j.call.picture \in 1..MaxCovers
  /\ j.phase \in {"new", "info", "refused"} => j.dev = "null" /\ ~j.failed /\ j.got = <<>>
  /\ j.phase = "info" => j.status = "success"
  /\ j.failed => j.status \in {"network", "server"}

GoodWork(w) == w \in [job : Jobs, entry : Entries] /\ GoodJob(w.job)

Inv == TypeOK /\ \A q \in Queries : GoodJob(job[q])

-----------------------------------------------------------------------------
(* The handlers.                                                           *)

Works == [job : Jobs, entry : Entries]

LEMMA EmptyEntry == Entry(<<>>, 8) \in Entries /\ NoEntry \in Entries
<1>1. <<>> \in Seq(1..MaxCovers)
  OBVIOUS
<1> QED BY <1>1 DEF Entry, Entries, NoEntry

LEMMA KeptEntry ==
  ASSUME NEW c \in Seq(1..MaxCovers)
  PROVE  Entry(c, 360) \in Entries
BY DEF Entry, Entries

LEMMA CallType ==
  ASSUME NEW i \in 0..MaxCovers
  PROVE  Call(i) \in Calls
BY DEF Call, Calls

(* A search that ends with no device open.                                 *)
LEMMA FinishGood ==
  ASSUME NEW w \in Works, NEW s \in Statuses,
         w.job.dev # "prepared",
         s = "quota" => w.job.dev = "null" /\ ~w.job.failed /\ w.job.got = <<>>,
         w.job.failed => s \in {"network", "server"}
  PROVE  /\ GoodWork(Finish(w, s))
         /\ Finish(w, s).entry = w.entry
         /\ Finish(w, s).job.status = s
         /\ Finish(w, s).job.got = w.job.got
         /\ Finish(w, s).job.dev = w.job.dev
         /\ Finish(w, s).job.phase = IF s = "quota" THEN "refused" ELSE "finished"
<1> DEFINE p == IF s = "quota" THEN "refused" ELSE "finished"
           j == [w.job EXCEPT !.status = s, !.phase = p]
<1>1. Finish(w, s) = [job |-> j, entry |-> w.entry]
  BY DEF Finish, Works
<1>2. w.job \in Jobs /\ w.entry \in Entries
  BY DEF Works
<1>3. j \in Jobs
  BY <1>2 DEF Jobs
<1>4. GoodJob(j)
  BY <1>2 DEF Jobs, GoodJob
<1>5. /\ j.status = s /\ j.got = w.job.got /\ j.dev = w.job.dev
      /\ j.phase = IF s = "quota" THEN "refused" ELSE "finished"
  BY <1>2 DEF Jobs
<1> HIDE DEF j
<1> QED BY <1>1, <1>2, <1>3, <1>4, <1>5 DEF GoodWork

LEMMA FakeImageGood ==
  ASSUME NEW w, GoodWork(w), w.job.phase = "finished"
  PROVE  /\ GoodWork(FakeImage(w))
         /\ FakeImage(w).job.status = w.job.status
         /\ FakeImage(w).job.got = w.job.got
         /\ w.job.dev = "null" => FakeImage(w).entry = Entry(<<>>, 8)
<1>1. CASE w.job.dev # "null"
  BY <1>1 DEF FakeImage, GoodWork
<1>2. CASE w.job.dev = "null"
  <2> DEFINE j == [w.job EXCEPT !.dev = "inserted"]
  <2>1. FakeImage(w) = [job |-> j, entry |-> Entry(<<>>, 8)]
    BY <1>2 DEF FakeImage, Insert
  <2>2. j \in Jobs /\ GoodJob(j) /\ j.status = w.job.status /\ j.got = w.job.got
    BY DEF GoodWork, Jobs, GoodJob
  <2> HIDE DEF j
  <2> QED BY <2>1, <2>2, EmptyEntry DEF GoodWork
<1> QED BY <1>1, <1>2

(* The next picture, or the end after the last.                            *)
LEMMA QueryImagesGood ==
  ASSUME NEW w \in Works, w.job.dev = "prepared",
         w.job.status \in {"success", "network", "server"},
         w.job.failed => w.job.status \in {"network", "server"}
  PROVE  /\ GoodWork(QueryImages(w))
         /\ QueryImages(w).job.phase \in {"image", "finished"}
         /\ w.job.todo # <<>> => QueryImages(w).job.phase = "image"
         /\ QueryImages(w).job.phase = "finished"
              => QueryImages(w).entry = Entry(QueryImages(w).job.got, 360)
<1>1. w.job \in Jobs /\ w.entry \in Entries
  BY DEF Works
<1>2. CASE w.job.todo # <<>>
  <2> DEFINE c == Call(Head(w.job.todo))
             t == Tail(w.job.todo)
             j == [w.job EXCEPT !.phase = "image", !.call = c, !.todo = t]
  <2>1. QueryImages(w) = [job |-> j, entry |-> w.entry]
    BY <1>2 DEF QueryImages, QueryImage, Works
  <2>2. w.job.todo \in Seq(1..MaxCovers)
    BY <1>1 DEF Jobs
  <2> HIDE DEF c, t, j
  <2>a. Head(w.job.todo) \in 1..MaxCovers /\ Tail(w.job.todo) \in Seq(1..MaxCovers)
    BY <1>2, <2>2, HeadTailProperties
  <2>3. Head(w.job.todo) \in 0..MaxCovers /\ t \in Seq(1..MaxCovers)
    BY <2>a, CoverQueryAssumption DEF t
  <2>4. c \in Calls
    BY <2>3, CallType DEF c
  <2>5. j \in Jobs
    BY <1>1, <2>3, <2>4 DEF Jobs, j
  <2>b. c.picture \in 1..MaxCovers
    BY <2>a DEF c, Call
  <2>6. GoodJob(j) /\ j.phase = "image"
    BY <1>1, <2>b DEF Jobs, GoodJob, j
  <2> QED BY <1>1, <2>1, <2>5, <2>6 DEF GoodWork
<1>3. CASE w.job.todo = <<>>
  <2> DEFINE e == Entry(w.job.got, 360)
             v == Insert(w, w.job.got, 360)
             j == [w.job EXCEPT !.dev = "inserted"]
  <2>1. v = [job |-> j, entry |-> e]
    BY DEF Insert
  <2>2. e \in Entries
    BY <1>1, KeptEntry DEF Jobs
  <2>3. j \in Jobs /\ j.dev = "inserted" /\ j.failed = w.job.failed /\ j.got = w.job.got
    BY <1>1 DEF Jobs
  <2> HIDE DEF v, j
  <2>4. v \in Works
    BY <2>1, <2>2, <2>3 DEF Works
  <2>5. v.job.dev = "inserted" /\ v.job.failed = w.job.failed /\ v.job.got = w.job.got
    BY <2>1, <2>3
  <2>a. v.entry = Entry(w.job.got, 360)
    BY <2>1
  <2>6. w.job.status \in Statuses /\ w.job.status # "quota"
    BY DEF Statuses
  <2> DEFINE f == Finish(v, w.job.status)
  <2>7. GoodWork(f) /\ f.job.phase = "finished" /\ f.entry = v.entry /\ f.job.got = v.job.got
    BY <2>4, <2>5, <2>6, FinishGood
  <2>8. QueryImages(w) = f
    BY <1>3 DEF QueryImages, v
  <2> HIDE DEF f
  <2> QED BY <1>3, <2>5, <2>a, <2>7, <2>8
<1> QED BY <1>2, <1>3

-----------------------------------------------------------------------------
(* The handlers of a request for the information begin from these.         *)
Informing(w) == GoodWork(w) /\ w.job.phase = "info"

(* What OutcomeIsRemembered says of one handler.                           *)
Kept(w, v) ==
  v.job.phase \in {"finished", "refused"} => Remembers(w.job, v.job, w.entry, v.entry)

(* The search ends with a status after which nothing is kept.              *)
LEMMA PlainEnd ==
  ASSUME NEW w, Informing(w), NEW s \in {"network", "server", "invalid", "fatal", "quota"}
  PROVE  GoodWork(Finish(w, s)) /\ Kept(w, Finish(w, s))
<1>1. w \in Works /\ s \in Statuses /\ w.job.dev = "null" /\ ~w.job.failed /\ w.job.got = <<>>
  BY DEF Informing, GoodWork, GoodJob, Works, Statuses
<1>2. w.job.phase = "info"
  BY DEF Informing
<1> QED BY <1>1, <1>2, FinishGood DEF Kept, Remembers

(* The search ends with a status that is kept.                             *)
LEMMA KeptEnd ==
  ASSUME NEW w, Informing(w), NEW s \in {"server", "nodata"}
  PROVE  GoodWork(FakeImage(Finish(w, s))) /\ Kept(w, FakeImage(Finish(w, s)))
<1>1. w \in Works /\ s \in Statuses /\ w.job.dev = "null" /\ ~w.job.failed /\ w.job.got = <<>>
  BY DEF Informing, GoodWork, GoodJob, Works, Statuses
<1> DEFINE f == Finish(w, s)
<1>2. /\ GoodWork(f) /\ f.job.phase = "finished" /\ f.job.status = s
      /\ f.job.got = <<>> /\ f.job.dev = "null"
  BY <1>1, FinishGood
<1> HIDE DEF f
<1>3. /\ GoodWork(FakeImage(f)) /\ FakeImage(f).job.status = s
      /\ FakeImage(f).entry = Entry(<<>>, 8)
  BY <1>2, FakeImageGood
<1>4. w.job.phase = "info"
  BY DEF Informing
<1> QED BY <1>3, <1>4 DEF Kept, Remembers, f

LEMMA HttpErrorGood ==
  ASSUME NEW w, Informing(w), NEW verdict \in Verdicts \cup {"none"}
  PROVE  GoodWork(HttpError(w, verdict)) /\ Kept(w, HttpError(w, verdict))
<1>1. CASE verdict = "none"
  BY <1>1, PlainEnd DEF HttpError
<1>2. CASE verdict \in {"fatal", "quota"}
  BY <1>2, PlainEnd DEF HttpError
<1>3. CASE verdict \in {"server", "nodata"}
  BY <1>3, KeptEnd DEF HttpError
<1> QED BY <1>1, <1>2, <1>3 DEF Verdicts

LEMMA ContentErrorGood ==
  ASSUME NEW w, Informing(w), NEW verdict \in Verdicts \cup {"none"}
  PROVE  GoodWork(ContentError(w, verdict)) /\ Kept(w, ContentError(w, verdict))
<1>1. CASE verdict = "none"
  BY <1>1, PlainEnd DEF ContentError
<1>2. CASE verdict = "fatal"
  BY <1>2, PlainEnd DEF ContentError
<1>3. CASE verdict = "quota"
  BY <1>3, PlainEnd, KeptEnd DEF ContentError
<1>4. CASE verdict \in {"server", "nodata"}
  BY <1>4, KeptEnd DEF ContentError
<1> QED BY <1>1, <1>2, <1>3, <1>4 DEF Verdicts

LEMMA FoundGood ==
  ASSUME NEW w, Informing(w), NEW n \in 0..MaxCovers
  PROVE  GoodWork(Found(w, n)) /\ Kept(w, Found(w, n))
<1>1. CASE n = 0
  BY <1>1, KeptEnd DEF Found
<1>2. CASE n # 0
  <2> DEFINE t == [i \in 1..n |-> i]
             j == [w.job EXCEPT !.dev = "prepared", !.todo = t]
             v == [w EXCEPT !.job = j]
  <2>1. t \in Seq(1..MaxCovers)
    BY CoverQueryAssumption
  <2>a. t # <<>>
    BY <1>2
  <2>2. w.job \in Jobs /\ w.entry \in Entries /\ ~w.job.failed /\ w.job.status = "success"
    BY DEF Informing, GoodWork, GoodJob
  <2>3. j \in Jobs /\ j.dev = "prepared" /\ j.status = "success" /\ ~j.failed /\ j.todo = t
    <3> HIDE DEF t
    <3> QED BY <2>1, <2>2 DEF Jobs
  <2>4. v \in Works /\ v.job = j
    <3> HIDE DEF j
    <3> QED BY <2>3 DEF Informing, GoodWork, Works
  <2>5. Found(w, n) = QueryImages(v)
    BY <1>2 DEF Found
  <2> HIDE DEF v, j, t
  <2>6. GoodWork(QueryImages(v)) /\ Kept(w, QueryImages(v))
    BY <2>a, <2>3, <2>4, QueryImagesGood DEF Kept
  <2> QED BY <2>5, <2>6
<1> QED BY <1>1, <1>2

(* A picture was asked for, and what came changed the job to v.job.        *)
Imaging(w) == GoodWork(w) /\ w.job.phase = "image"

LEMMA NextImage ==
  ASSUME NEW w, Imaging(w), NEW j \in Jobs,
         j.dev = "prepared", j.status \in {"success", "network", "server"},
         j.failed => j.status \in {"network", "server"}
  PROVE  /\ GoodWork(QueryImages([w EXCEPT !.job = j]))
         /\ Kept(w, QueryImages([w EXCEPT !.job = j]))
<1> DEFINE v == [w EXCEPT !.job = j]
<1>1. v \in Works /\ v.job = j
  BY DEF Imaging, GoodWork, Works
<1> HIDE DEF v
<1>2. GoodWork(QueryImages(v)) /\ Kept(w, QueryImages(v))
  BY <1>1, QueryImagesGood DEF Kept, Remembers, Imaging
<1> QED BY <1>2 DEF v

LEMMA NetworkErrorGood ==
  ASSUME NEW w, Informing(w) \/ Imaging(w)
  PROVE  GoodWork(NetworkError(w)) /\ Kept(w, NetworkError(w))
<1>1. CASE Informing(w)
  BY <1>1, PlainEnd DEF NetworkError, Informing
<1>2. CASE Imaging(w)
  <2> DEFINE j == [w.job EXCEPT !.status = "network", !.failed = TRUE]
  <2>1. j \in Jobs /\ j.dev = "prepared" /\ j.status = "network"
    BY <1>2 DEF Imaging, GoodWork, GoodJob, Jobs, Statuses
  <2>2. NetworkError(w) = QueryImages([w EXCEPT !.job = j])
    BY <1>2 DEF NetworkError, Imaging
  <2> HIDE DEF j
  <2> QED BY <1>2, <2>1, <2>2, NextImage
<1> QED BY <1>1, <1>2

LEMMA ImageRefusedGood ==
  ASSUME NEW w, Imaging(w)
  PROVE  GoodWork(ImageRefused(w)) /\ Kept(w, ImageRefused(w))
<1> DEFINE j == [w.job EXCEPT !.status = "server", !.failed = TRUE]
           v == [w EXCEPT !.job = j]
<1>1. j \in Jobs /\ j.dev = "prepared" /\ j.status = "server"
  BY DEF Imaging, GoodWork, GoodJob, Jobs, Statuses
<1>2. v.job = j
  BY DEF Imaging, GoodWork
<1>3. FakeImage(v) = v
  <2> HIDE DEF v, j
  <2> QED BY <1>1, <1>2 DEF FakeImage
<1>4. ImageRefused(w) = QueryImages(v)
  BY <1>3 DEF ImageRefused
<1> HIDE DEF j
<1> QED BY <1>1, <1>4, NextImage

LEMMA ImageReadGood ==
  ASSUME NEW w, Imaging(w), NEW content \in BOOLEAN
  PROVE  GoodWork(ImageRead(w, content)) /\ Kept(w, ImageRead(w, content))
<1> DEFINE g == Append(w.job.got, w.job.call.picture)
           j == [w.job EXCEPT !.got = g]
<1>1. /\ w.job \in Jobs /\ w.job.dev = "prepared" /\ w.job.call.picture \in 1..MaxCovers
      /\ w.job.status \in {"success", "network", "server"}
      /\ w.job.failed => w.job.status \in {"network", "server"}
  BY DEF Imaging, GoodWork, GoodJob
<1>2. CASE ~content
  <2>1. w = [w EXCEPT !.job = w.job]
    BY DEF Imaging, GoodWork
  <2> QED BY <1>1, <1>2, <2>1, NextImage DEF ImageRead
<1>3. CASE content
  <2>1. g \in Seq(1..MaxCovers)
    BY <1>1 DEF Jobs
  <2>2. /\ j \in Jobs /\ j.dev = "prepared" /\ j.status = w.job.status
        /\ j.failed = w.job.failed
    <3> HIDE DEF g
    <3> QED BY <1>1, <2>1 DEF Jobs
  <2>3. ImageRead(w, content) = QueryImages([w EXCEPT !.job = j])
    BY <1>3 DEF ImageRead
  <2> HIDE DEF j
  <2> QED BY <1>1, <2>2, <2>3, NextImage
<1> QED BY <1>2, <1>3

LEMMA RedirectGood ==
  ASSUME NEW w, Informing(w) \/ Imaging(w)
  PROVE  GoodWork(Redirect(w)) /\ Kept(w, Redirect(w))
<1>1. CASE w.job.call.redirected
  BY <1>1, NetworkErrorGood DEF Redirect
<1>2. CASE ~w.job.call.redirected
  <2> DEFINE c == [w.job.call EXCEPT !.redirected = TRUE]
             j == [w.job EXCEPT !.call = c]
             v == [w EXCEPT !.job = j]
  <2>1. w.job \in Jobs /\ w \in Works /\ GoodJob(w.job)
    BY DEF Informing, Imaging, GoodWork, Works
  <2>2. c \in Calls /\ c.picture = w.job.call.picture
    BY <2>1 DEF Jobs, Calls
  <2>3. j \in Jobs /\ GoodJob(j) /\ j.phase = w.job.phase
    <3> HIDE DEF c
    <3> QED BY <2>1, <2>2 DEF Jobs, GoodJob
  <2>4. v \in Works /\ v.job = j
    <3> HIDE DEF j
    <3> QED BY <2>1, <2>3 DEF Works
  <2>5. Redirect(w) = v
    BY <1>2 DEF Redirect
  <2> HIDE DEF v, j
  <2> QED BY <2>3, <2>4, <2>5 DEF GoodWork, Works, Kept, Informing, Imaging
<1> QED BY <1>1, <1>2

(* The search ends with what the cache says, or begins to ask.             *)
LEMMA RunGood ==
  ASSUME NEW w, GoodWork(w), w.job.phase \in {"new", "refused"}
  PROVE  GoodWork(Run(w))
<1>1. w \in Works /\ w.job.dev = "null" /\ ~w.job.failed /\ w.job.got = <<>>
      /\ w.job \in Jobs /\ w.entry \in Entries
  BY DEF GoodWork, GoodJob, Works
<1>2. ASSUME NEW j \in Jobs, j.dev = "null", ~j.failed, NEW s \in {"success", "server"}
      PROVE  GoodWork(Finish([w EXCEPT !.job = j], s))
  <2> DEFINE v == [w EXCEPT !.job = j]
  <2>1. v \in Works /\ v.job = j
    BY <1>1, <1>2 DEF Works
  <2> HIDE DEF v
  <2>2. s \in Statuses /\ s # "quota"
    BY <1>2 DEF Statuses
  <2>3. GoodWork(Finish(v, s))
    BY <1>2, <2>1, <2>2, FinishGood
  <2> QED BY <2>3 DEF v
<1> DEFINE usable == w.entry # NoEntry /\ (w.job.cached \/ ~w.entry.old)
<1>3. CASE usable /\ w.entry.covers # <<>>
  <2> DEFINE j == [w.job EXCEPT !.got = w.entry.covers, !.cached = TRUE]
  <2>1. j \in Jobs /\ j.dev = "null" /\ ~j.failed
    BY <1>1 DEF Jobs, Entries
  <2>2. Run(w) = Finish([w EXCEPT !.job = j], "success")
    BY <1>3 DEF Run
  <2> HIDE DEF j
  <2> QED BY <1>2, <2>1, <2>2
<1>4. CASE usable /\ w.entry.covers = <<>>
  <2>1. w = [w EXCEPT !.job = w.job]
    BY <1>1 DEF Works
  <2>2. Run(w) = Finish(w, "server")
    BY <1>4 DEF Run
  <2> QED BY <1>1, <1>2, <2>1, <2>2
<1>5. CASE ~usable /\ w.job.cached
  <2> DEFINE j == [w.job EXCEPT !.cached = FALSE]
  <2>1. j \in Jobs /\ j.dev = "null" /\ ~j.failed
    BY <1>1 DEF Jobs
  <2>2. Run(w) = Finish([w EXCEPT !.job = j], "server")
    BY <1>5 DEF Run
  <2> HIDE DEF j
  <2> QED BY <1>2, <2>1, <2>2
<1>6. CASE ~usable /\ ~w.job.cached
  <2> DEFINE v == [w EXCEPT !.entry = NoEntry]
             t == IF v.job.try > MaxRetry THEN v.job.try ELSE v.job.try + 1
             j == [v.job EXCEPT !.phase = "info", !.status = "success", !.call = Call(0),
                                !.try = t]
  <2>1. v \in Works /\ v.job = w.job
    BY <1>1, EmptyEntry DEF Works
  <2>2. Run(w) = QueryInfo(v)
    BY <1>6 DEF Run
  <2> HIDE DEF v
  <2>3. QueryInfo(v) = [job |-> j, entry |-> v.entry]
    BY <2>1 DEF QueryInfo, Works
  <2>4. t \in 0..(MaxRetry + 1) /\ Call(0) \in Calls /\ "success" \in Statuses
    BY <1>1, <2>1, CallType, CoverQueryAssumption DEF Jobs, Statuses
  <2>5. j \in Jobs /\ GoodJob(j)
    <3> HIDE DEF t
    <3> QED BY <1>1, <2>1, <2>4 DEF Jobs, GoodJob
  <2> HIDE DEF j
  <2> QED BY <2>1, <2>2, <2>3, <2>5 DEF GoodWork, Works
<1> QED BY <1>3, <1>4, <1>5, <1>6

-----------------------------------------------------------------------------
(* The steps.                                                              *)

LEMMA WorkGood ==
  ASSUME Inv, NEW q \in Queries
  PROVE  /\ GoodWork(Work(q)) /\ Work(q).job = job[q]
         /\ job[q].album \in Albums /\ Work(q).entry = cache[job[q].album]
BY DEF Inv, TypeOK, GoodWork, Work, Jobs

LEMMA NewJobGood ==
  ASSUME NEW a \in Albums, NEW only \in BOOLEAN
  PROVE  NewJob(a, only) \in Jobs /\ GoodJob(NewJob(a, only)) /\ NewJob(a, only).phase = "new"
<1>1. Call(0) \in Calls /\ <<>> \in Seq(1..MaxCovers) /\ 0 \in 0..(MaxRetry + 1)
  BY CallType, CoverQueryAssumption
<1> QED BY <1>1 DEF NewJob, Jobs, GoodJob, Statuses

(* A good outcome keeps the invariant.                                     *)
LEMMA BecomesGood ==
  ASSUME Inv, NEW q \in Queries, NEW v, GoodWork(v), Becomes(q, v), http' \in Nat
  PROVE  Inv'
BY WorkGood DEF Becomes, Inv, TypeOK, GoodWork

(* A step of one search that remembers its outcome is one of no other.     *)
LEMMA BecomesKept ==
  ASSUME Inv, NEW q \in Queries, NEW v, Becomes(q, v), Kept(Work(q), v),
         NEW r \in Queries, Ends(r)
  PROVE  Remembers(job[r], job'[r], cache[job[r].album], cache'[job[r].album])
<1>1. job \in [Queries -> Jobs] /\ cache \in [Albums -> Entries] /\ job[q].album \in Albums
  BY WorkGood DEF Inv, TypeOK
<1>2. r = q
  BY <1>1 DEF Becomes, Ends
<1>3. job'[q] = v.job /\ cache'[job[q].album] = v.entry
  BY <1>1 DEF Becomes
<1>4. Work(q).job = job[q] /\ Work(q).entry = cache[job[q].album]
  BY DEF Work
<1> QED BY <1>2, <1>3, <1>4 DEF Ends, Kept

(* A reply is one of the handlers, from a good job to a good one.          *)
LEMMA ReplyGood ==
  ASSUME Inv, NEW q \in Queries, Reply(q)
  PROVE  /\ http' \in Nat
         /\ \E v : GoodWork(v) /\ Kept(Work(q), v) /\ Becomes(q, v)
<1> DEFINE w == Work(q)
<1>1. GoodWork(w) /\ w.job = job[q] /\ http \in Nat
  BY WorkGood DEF Inv, TypeOK
<1>2. job[q].phase = "info" => Informing(w)
  BY <1>1 DEF Informing
<1>3. job[q].phase = "image" => Imaging(w)
  BY <1>1 DEF Imaging
<1> HIDE DEF w
<1>4. ASSUME NEW verdict \in Verdicts \cup {"none"}, InfoHttpError(q, verdict)
      PROVE  http' \in Nat /\ \E v : GoodWork(v) /\ Kept(w, v) /\ Becomes(q, v)
  BY <1>1, <1>2, <1>4, HttpErrorGood DEF InfoHttpError, w
<1>5. ASSUME NEW verdict \in Verdicts \cup {"none"}, InfoContentError(q, verdict)
      PROVE  http' \in Nat /\ \E v : GoodWork(v) /\ Kept(w, v) /\ Becomes(q, v)
  BY <1>1, <1>2, <1>5, ContentErrorGood DEF InfoContentError, w
<1>6. ASSUME NEW n \in 0..MaxCovers, InfoFound(q, n)
      PROVE  http' \in Nat /\ \E v : GoodWork(v) /\ Kept(w, v) /\ Becomes(q, v)
  BY <1>1, <1>2, <1>6, FoundGood DEF InfoFound, w
<1>7. ASSUME ImageServerError(q)
      PROVE  http' \in Nat /\ \E v : GoodWork(v) /\ Kept(w, v) /\ Becomes(q, v)
  BY <1>1, <1>3, <1>7, ImageRefusedGood DEF ImageServerError, w
<1>8. ASSUME NEW content \in BOOLEAN, ImageReceived(q, content)
      PROVE  http' \in Nat /\ \E v : GoodWork(v) /\ Kept(w, v) /\ Becomes(q, v)
  BY <1>1, <1>3, <1>8, ImageReadGood DEF ImageReceived, w
<1>9. ASSUME Fails(q)
      PROVE  http' \in Nat /\ \E v : GoodWork(v) /\ Kept(w, v) /\ Becomes(q, v)
  BY <1>1, <1>2, <1>3, <1>9, NetworkErrorGood DEF Fails, w
<1>10. ASSUME Redirected(q)
       PROVE  http' \in Nat /\ \E v : GoodWork(v) /\ Kept(w, v) /\ Becomes(q, v)
  BY <1>1, <1>2, <1>3, <1>10, RedirectGood DEF Redirected, w
<1> QED BY <1>4, <1>5, <1>6, <1>7, <1>8, <1>9, <1>10 DEF Reply, w

LEMMA InitInv == Init => Inv
<1> SUFFICES ASSUME Init PROVE Inv
  OBVIOUS
<1>1. cache \in [Albums -> Entries] /\ http \in Nat
  BY EmptyEntry DEF Init
<1>2. ASSUME NEW q \in Queries PROVE job[q] \in Jobs /\ GoodJob(job[q])
  BY NewJobGood DEF Init
<1>3. job \in [Queries -> Jobs]
  BY <1>2 DEF Init
<1> QED BY <1>1, <1>2, <1>3 DEF Inv, TypeOK

LEMMA StepInv == Inv /\ [Next]_vars => Inv'
<1> SUFFICES ASSUME Inv, [Next]_vars PROVE Inv'
  OBVIOUS
<1>t. job \in [Queries -> Jobs] /\ cache \in [Albums -> Entries] /\ http \in Nat
  BY DEF Inv, TypeOK
<1>1. ASSUME NEW q \in Queries, NEW only \in BOOLEAN, Start(q, only)
      PROVE  Inv'
  <2> DEFINE a == job[q].album
             w == [job |-> NewJob(a, only), entry |-> cache[a]]
  <2>1. a \in Albums
    BY WorkGood
  <2>2. GoodWork(w) /\ w.job.phase = "new"
    BY <1>t, <2>1, NewJobGood DEF GoodWork
  <2>3. GoodWork(Run(w))
    <3> HIDE DEF w
    <3> QED BY <2>2, RunGood
  <2>4. Becomes(q, Run(w)) /\ http' = http
    BY <1>1 DEF Start
  <2> HIDE DEF w
  <2> QED BY <1>t, <2>3, <2>4, BecomesGood
<1>2. ASSUME NEW q \in Queries, RunAgain(q)
      PROVE  Inv'
  BY <1>t, <1>2, WorkGood, RunGood, BecomesGood DEF RunAgain
<1>3. ASSUME NEW q \in Queries, Reply(q)
      PROVE  Inv'
  BY <1>3, ReplyGood, BecomesGood
<1>4. ASSUME NEW q \in Queries, Drop(q)
      PROVE  Inv'
  <2> DEFINE j == [job[q] EXCEPT !.phase = "dropped"]
  <2>1. j \in Jobs /\ GoodJob(j)
    BY <1>t DEF Inv, Jobs, GoodJob
  <2>2. job' = [job EXCEPT ![q] = j] /\ cache' = cache /\ http' = http
    BY <1>4 DEF Drop
  <2> HIDE DEF j
  <2> QED BY <1>t, <2>1, <2>2 DEF Inv, TypeOK
<1>5. ASSUME NEW a \in Albums, Age(a)
      PROVE  Inv'
  <2> DEFINE e == [cache[a] EXCEPT !.old = TRUE]
  <2>a. cache[a] \in Entries
    BY <1>t
  <2>1. e \in Entries
    BY <2>a DEF Entries
  <2>2. cache' = [cache EXCEPT ![a] = e] /\ job' = job /\ http' = http
    BY <1>5 DEF Age
  <2> HIDE DEF e
  <2> QED BY <1>t, <2>1, <2>2 DEF Inv, TypeOK
<1>6. ASSUME NEW a \in Albums, Evict(a)
      PROVE  Inv'
  BY <1>t, <1>6, EmptyEntry DEF Evict, Inv, TypeOK
<1>7. CASE UNCHANGED vars
  BY <1>7 DEF vars, Inv, TypeOK
<1> QED BY <1>1, <1>2, <1>3, <1>4, <1>5, <1>6, <1>7 DEF Next

LEMMA Invariance == Spec => []Inv
<1> QED BY InitInv, StepInv, PTL DEF Spec

-----------------------------------------------------------------------------
(* Every variable keeps its type.                                          *)
THEOREM SearchTypeCorrect == Spec => []TypeOK
<1>1. Inv => TypeOK
  BY DEF Inv
<1> QED BY <1>1, Invariance, PTL

(* No search ends with a device the cache has prepared and was not given.  *)
THEOREM DevicesAreInserted == Spec => []DeviceIsInserted
<1>1. Inv => DeviceIsInserted
  BY DEF Inv, DeviceIsInserted, GoodJob, Over
<1> QED BY <1>1, Invariance, PTL

(* A search that missed a picture ends in an error.                        *)
THEOREM FailuresAreTold == Spec => []FailureIsTold
<1>1. Inv => FailureIsTold
  BY DEF Inv, FailureIsTold, GoodJob
<1> QED BY <1>1, Invariance, PTL

(* A search leaves nothing in the cache of an outage met while it asks for *)
(* the information, and, once it asks for pictures, whatever it could      *)
(* download (AlbumInfo::processInfo, processImage, queryImages).           *)
THEOREM OutcomesAreRemembered == Spec => OutcomeIsRemembered
<1> DEFINE Told(q) ==
      LET a == job[q].album
      IN  Ends(q) => Remembers(job[q], job'[q], cache[a], cache'[a])
<1>1. Inv /\ [Next]_vars => [\A q \in Queries : Told(q)]_vars
  <2> SUFFICES ASSUME Inv, Next, NEW r \in Queries, Ends(r)
               PROVE  Told(r)
    BY DEF vars
  <2>t. job \in [Queries -> Jobs]
    BY DEF Inv, TypeOK
  <2>1. CASE \E q \in Queries : Reply(q)
    <3>1. PICK q \in Queries : Reply(q)
      BY <2>1
    <3>2. PICK v : GoodWork(v) /\ Kept(Work(q), v) /\ Becomes(q, v)
      BY <3>1, ReplyGood
    <3> QED BY <3>2, BecomesKept
  <2>2. ASSUME NEW q \in Queries, job[q].phase \in {"new", "refused"},
               NEW v, Becomes(q, v)
        PROVE  FALSE
    BY <2>t, <2>2 DEF Becomes, Ends
  <2>3. ASSUME NEW q \in Queries, NEW only \in BOOLEAN, Start(q, only)
        PROVE  FALSE
    BY <2>2, <2>3 DEF Start
  <2>4. ASSUME NEW q \in Queries, RunAgain(q)
        PROVE  FALSE
    BY <2>2, <2>4 DEF RunAgain
  <2>5. ASSUME NEW q \in Queries, Drop(q)
        PROVE  FALSE
    BY <2>t, <2>5 DEF Drop, Ends, Jobs
  <2>6. ASSUME NEW a \in Albums, Age(a) \/ Evict(a)
        PROVE  FALSE
    BY <2>6 DEF Age, Evict, Ends
  <2> QED BY <2>1, <2>3, <2>4, <2>5, <2>6 DEF Next
<1> QED BY <1>1, Invariance, PTL DEF Spec, OutcomeIsRemembered

=============================================================================
