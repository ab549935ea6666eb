------------------------------ MODULE CoverQuery ------------------------------
(***************************************************************************)
(* One search for the covers of an album (AlbumInfo, run by Job): look in  *)
(* the disk cache, ask the service, download the pictures one by one and   *)
(* keep them, or that there are none, in the cache (DiskCacheManager).     *)
(* ArtistInfo does the same for an artist.  Each download is a NetRequest, *)
(* which follows one redirection.  The outcome is what RequestImpl acts    *)
(* on: module Thumbnailer, whose action Reply this module details.         *)
(*                                                                         *)
(* Several searches may be out at once, also for one album, and share the  *)
(* entry of the cache.  All handlers run in the main thread.               *)
(***************************************************************************)
EXTENDS Integers, Sequences

CONSTANTS
  Queries,    \* the searches
  Albums,     \* what they search for: the keys of the cache
  MaxCovers,  \* bound: pictures the service names for an album
  MaxRetry,   \* maxRetry() of the service
  MaxHttp     \* bound: refusals for quota that are HTTP errors

ASSUME CoverQueryAssumption ==
  /\ MaxCovers \in Nat \ {0} /\ MaxRetry \in Nat /\ MaxHttp \in Nat

VARIABLES
  job,     \* the state of each search: see NewJob
  cache,   \* the entry of each album in the disk cache
  http     \* refusals counted against MaxHttp

vars == <<job, cache, http>>

(* ReplyStatus.  A service that answers with an error of its own names one *)
(* of Verdicts; "none": the answer cannot be read as an error either.      *)
Statuses == {"invalid", "success", "network", "server", "fatal", "quota", "nodata"}
Verdicts == {"server", "fatal", "quota", "nodata"}

(* An entry keeps pictures for a time drawn around EXPIRE_DAYS_SUCCEEDED   *)
(* (360) or EXPIRE_DAYS_FAILED (8); old: that time is over.                *)
Entry(covers, days) == [covers |-> covers, days |-> days, old |-> FALSE]
NoEntry == Entry(<<>>, 0)

(* only is m_cached as given; todo and got are m_imagesToProcess and       *)
(* m_images; dev tells whether m_cacheDev is null, prepared, or inserted;  *)
(* try is m_try, counted no further than it matters; call is m_call, for a *)
(* picture or (0) for the information, with m_redirect.  failed is         *)
(* history: a picture could not be downloaded.                             *)
Call(i) == [picture |-> i, redirected |-> FALSE]
NewJob(a, only) ==
  [phase |-> "new", album |-> a, cached |-> only, status |-> "invalid", try |-> 0,
   todo |-> <<>>, got |-> <<>>, dev |-> "null", call |-> Call(0), failed |-> FALSE]

(* A handler works on a job and the entry of its album.                    *)
Work(q) == [job |-> job[q], entry |-> cache[job[q].album]]

-----------------------------------------------------------------------------
(* m_error is set and finished() emitted; a search refused for its quota   *)
(* is to be run again by its request.                                      *)
Finish(w, status) ==
  [w EXCEPT !.job = [w.job EXCEPT !.status = status,
                              !.phase = IF status = "quota" THEN "refused" ELSE "finished"]]

(* A new NetRequest for the information, or for the next picture.          *)
QueryInfo(w) ==
  [w EXCEPT !.job = [w.job EXCEPT !.phase = "info", !.status = "success", !.call = Call(0),
                              !.try = IF w.job.try > MaxRetry THEN w.job.try
                                      ELSE w.job.try + 1]]

QueryImage(w) ==
  [w EXCEPT !.job = [w.job EXCEPT !.phase = "image", !.call = Call(Head(w.job.todo)),
                              !.todo = Tail(w.job.todo)]]

(* createData, writes and insertData: the device becomes the entry.        *)
Insert(w, covers, days) ==
  [job |-> [w.job EXCEPT !.dev = "inserted"], entry |-> Entry(covers, days)]

(* fakeImage: remember for a few days that there is nothing.               *)
FakeImage(w) == IF w.job.dev # "null" THEN w ELSE Insert(w, <<>>, 8)

(* A mutant of QueryImages: the device is not handed to the cache.         *)
QueryImages_NotInserted(w) ==
  IF w.job.todo # <<>> THEN QueryImage(w) ELSE Finish(w, w.job.status)

(* queryImages: the next picture; after the last one what was downloaded   *)
(* becomes the entry.                                                      *)
QueryImages(w) ==
  IF w.job.todo # <<>> THEN QueryImage(w)
  ELSE Finish(Insert(w, w.job.got, 360), w.job.status)

(* AlbumInfo::run with DiskCacheManager::queryData: an entry that is too   *)
(* old is removed, unless the cache is all there is to ask.                *)
Run(w) ==
  LET usable == w.entry # NoEntry /\ (w.job.cached \/ ~w.entry.old)
  IN  IF usable /\ w.entry.covers # <<>>
      THEN Finish([w EXCEPT !.job = [w.job EXCEPT !.got = w.entry.covers, !.cached = TRUE]],
                  "success")
      ELSE IF usable THEN Finish(w, "server")
      ELSE IF w.job.cached THEN Finish([w EXCEPT !.job = [w.job EXCEPT !.cached = FALSE]], "server")
      ELSE QueryInfo([w EXCEPT !.entry = NoEntry])

(* processInfo: the service refuses with an HTTP error.                    *)
HttpError(w, verdict) ==
  CASE verdict = "none"               -> Finish(w, "server")
    [] verdict \in {"fatal", "quota"} -> Finish(w, verdict)
    [] OTHER                          -> FakeImage(Finish(w, verdict))

(* A mutant of ContentError: the tries are not counted.                    *)
ContentError_Endless(w, verdict) ==
  CASE verdict = "none"               -> Finish(w, "invalid")
    [] verdict \in {"fatal", "quota"} -> Finish(w, verdict)
    [] OTHER                          -> FakeImage(Finish(w, verdict))

(* processInfo: what came cannot be parsed as information.  Refused once   *)
(* more for its quota the search gives up, as if there were nothing.       *)
ContentError(w, verdict) ==
  CASE verdict = "none"  -> Finish(w, "invalid")
    [] verdict = "fatal" -> Finish(w, "fatal")
    [] verdict = "quota" -> IF w.job.try <= MaxRetry THEN Finish(w, "quota")
                            ELSE FakeImage(Finish(w, "server"))
    [] OTHER             -> FakeImage(Finish(w, verdict))

(* A mutant of Found: one picture too many.                                *)
Found_OneMore(w, n) ==
  IF n = 0 THEN FakeImage(Finish(w, "nodata"))
  ELSE QueryImages([w EXCEPT !.job = [w.job EXCEPT !.dev = "prepared",
                                                   !.todo = [i \in 1..(n + 1) |-> i]]])

(* processInfo: n pictures are named.  The device is prepared in the cache *)
(* before the first is asked for.                                          *)
Found(w, n) ==
  IF n = 0 THEN FakeImage(Finish(w, "nodata"))
  ELSE QueryImages([w EXCEPT !.job = [w.job EXCEPT !.dev = "prepared",
                                                   !.todo = [i \in 1..n |-> i]]])

(* Mutants of NetworkError: a failure counts as an answer; a failed        *)
(* picture is passed over in silence.                                      *)
NetworkError_Kept(w) ==
  IF w.job.phase = "info" THEN FakeImage(Finish(w, "network"))
  ELSE QueryImages([w EXCEPT !.job = [w.job EXCEPT !.status = "network", !.failed = TRUE]])
NetworkError_Silent(w) ==
  IF w.job.phase = "info" THEN Finish(w, "network")
  ELSE QueryImages([w EXCEPT !.job = [w.job EXCEPT !.failed = TRUE]])

(* processInfo and processImage when the network fails.                    *)
NetworkError(w) ==
  IF w.job.phase = "info" THEN Finish(w, "network")
  ELSE QueryImages([w EXCEPT !.job = [w.job EXCEPT !.status = "network", !.failed = TRUE]])

(* processImage: the server refuses, or a picture comes, perhaps without   *)
(* content.  The device is prepared, so fakeImage() does nothing here.     *)
ImageRefused(w) ==
  QueryImages(FakeImage([w EXCEPT !.job = [w.job EXCEPT !.status = "server",
                                                        !.failed = TRUE]]))

ImageRead(w, content) ==
  IF ~content THEN QueryImages(w)
  ELSE QueryImages([w EXCEPT !.job = [w.job EXCEPT
                      !.got = Append(w.job.got, w.job.call.picture)]])

(* NetRequest::replyFinished: a redirection is followed once.              *)
Redirect(w) ==
  IF w.job.call.redirected THEN NetworkError(w)
  ELSE [w EXCEPT !.job = [w.job EXCEPT !.call = [w.job.call EXCEPT !.redirected = TRUE]]]

-----------------------------------------------------------------------------
(* The handler's outcome becomes the state.                                *)
Becomes(q, w) ==
  /\ job' = [job EXCEPT ![q] = w.job]
  /\ cache' = [cache EXCEPT ![job[q].album] = w.entry]

(* A search is made, for the cache only once the network was found to      *)
(* fail, and run.  (The service is always configured by then.)             *)
Start(q, only) ==
  /\ job[q].phase = "new"
  /\ Becomes(q, Run([job |-> NewJob(job[q].album, only), entry |-> cache[job[q].album]]))
  /\ UNCHANGED http

(* RequestImpl runs a refused search again when the suspension is over.    *)
RunAgain(q) ==
  /\ job[q].phase = "refused"
  /\ Becomes(q, Run(Work(q)))
  /\ UNCHANGED http

(* The replies to a request for the information.                           *)
InfoHttpError(q, verdict) ==
  /\ job[q].phase = "info"
  /\ verdict = "quota" => http < MaxHttp
  /\ http' = IF verdict = "quota" THEN http + 1 ELSE http
  /\ Becomes(q, HttpError(Work(q), verdict))

InfoContentError(q, verdict) ==
  /\ job[q].phase = "info"
  /\ Becomes(q, ContentError(Work(q), verdict))
  /\ UNCHANGED http

InfoFound(q, n) ==
  /\ job[q].phase = "info"
  /\ Becomes(q, Found(Work(q), n))
  /\ UNCHANGED http

(* The replies to a request for a picture.                                 *)
ImageServerError(q) ==
  /\ job[q].phase = "image"
  /\ Becomes(q, ImageRefused(Work(q)))
  /\ UNCHANGED http

ImageReceived(q, content) ==
  /\ job[q].phase = "image"
  /\ Becomes(q, ImageRead(Work(q), content))
  /\ UNCHANGED http

(* Either request fails in the network, or is redirected.                  *)
Fails(q) ==
  /\ job[q].phase \in {"info", "image"}
  /\ Becomes(q, NetworkError(Work(q)))
  /\ UNCHANGED http

Redirected(q) ==
  /\ job[q].phase \in {"info", "image"}
  /\ Becomes(q, Redirect(Work(q)))
  /\ UNCHANGED http

(* The client drops its request, and with it the job: ~AlbumInfo leaves a  *)
(* device it has prepared to the cache, which keeps it open to its end.    *)
Drop(q) ==
  /\ job[q].phase \in {"info", "image", "refused"}
  /\ job' = [job EXCEPT ![q].phase = "dropped"]
  /\ UNCHANGED <<cache, http>>

(* Time passes; QNetworkDiskCache makes room.                              *)
Age(a) ==
  /\ cache[a] # NoEntry /\ ~cache[a].old
  /\ cache' = [cache EXCEPT ![a].old = TRUE]
  /\ UNCHANGED <<job, http>>

Evict(a) ==
  /\ cache[a] # NoEntry
  /\ cache' = [cache EXCEPT ![a] = NoEntry]
  /\ UNCHANGED <<job, http>>

Init ==
  /\ job \in [Queries -> {NewJob(a, FALSE) : a \in Albums}]
  /\ cache = [a \in Albums |-> NoEntry]
  /\ http = 0

Reply(q) ==
  \/ \E verdict \in Verdicts \cup {"none"} :
       InfoHttpError(q, verdict) \/ InfoContentError(q, verdict)
  \/ \E n \in 0..MaxCovers : InfoFound(q, n)
  \/ ImageServerError(q)
  \/ \E content \in BOOLEAN : ImageReceived(q, content)
  \/ Fails(q)
  \/ Redirected(q)

Next ==
  \/ \E q \in Queries :
       \/ \E only \in BOOLEAN : Start(q, only)
       \/ RunAgain(q)
       \/ Reply(q)
       \/ Drop(q)
  \/ \E a \in Albums : Age(a) \/ Evict(a)

Spec == Init /\ [][Next]_vars

(* Every request is answered or fails, and a suspension ends: module       *)
(* Thumbnailer.                                                            *)
Fairness == \A q \in Queries : WF_vars(Reply(q)) /\ WF_vars(RunAgain(q))

FairSpec == Spec /\ Fairness

-----------------------------------------------------------------------------
(* Properties.                                                             *)

Over(q) == job[q].phase = "finished"

(* The types of the variables.                                             *)
Calls == [picture : 0..MaxCovers, redirected : BOOLEAN]

Jobs ==
  [phase : {"new", "info", "image", "refused", "finished", "dropped"},
   album : Albums, cached : BOOLEAN, status : Statuses, try : 0..(MaxRetry + 1),
   todo : Seq(1..MaxCovers), got : Seq(1..MaxCovers),
   dev : {"null", "prepared", "inserted"}, call : Calls, failed : BOOLEAN]

Entries == [covers : Seq(1..MaxCovers), days : {0, 8, 360}, old : BOOLEAN]

TypeOK ==
  /\ job \in [Queries -> Jobs]
  /\ cache \in [Albums -> Entries]
  /\ http \in Nat

(* A device prepared in the cache is inserted by the time the search ends, *)
(* whichever of its pictures come or fail; and only then.  (A search that  *)
(* is dropped leaves its device open.)                                     *)
DeviceIsInserted ==
  \A q \in Queries :
    /\ Over(q) => job[q].dev # "prepared"
    /\ job[q].phase = "image" => job[q].dev = "prepared"
    /\ job[q].phase \in {"info", "refused"} => job[q].dev = "null"

(* A search that could not download one of its pictures ends in an error,  *)
(* whatever comes after it.                                                *)
FailureIsTold ==
  \A q \in Queries : Over(q) /\ job[q].failed => job[q].status \in {"network", "server"}

(* What the step that ends a search leaves in the cache.  An outage, an    *)
(* answer that cannot be read and a refusal, while the information is      *)
(* asked for, are not remembered; that there is nothing is, for a few      *)
(* days; an error of the service is or is not.  A search that got as far   *)
(* as the pictures leaves what it could download, for the long time:       *)
(* also when a picture failed, and also when none came.                    *)
Ends(q) == job[q].phase \in {"info", "image"} /\ job'[q].phase \in {"finished", "refused"}

Remembers(before, after, old, new) ==
  /\ before.phase = "image" => new = Entry(after.got, 360)
  /\ before.phase = "info" =>
       /\ after.status \in {"network", "invalid", "fatal", "quota"} => new = old
       /\ after.status = "nodata" => new = Entry(<<>>, 8)
       /\ after.status = "server" => new \in {old, Entry(<<>>, 8)}
       /\ after.status # "success"

OutcomeIsRemembered ==
  [][\A q \in Queries :
       LET a == job[q].album
       IN  Ends(q) => Remembers(job[q], job'[q], cache[a], cache'[a])]_vars

(* Every search that was started ends or is dropped: it is refused for its *)
(* quota, and run again, a bounded number of times.                        *)
EverySearchEnds ==
  \A q \in Queries : job[q].phase # "new" ~> job[q].phase \in {"finished", "dropped"}
=============================================================================
