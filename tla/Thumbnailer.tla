----------------------------- MODULE Thumbnailer -----------------------------
(***************************************************************************)
(* The search for cover images: requests (Request, RequestImpl) that reach *)
(* the network through the rate limiter (RateLimiter) of the service       *)
(* (ThumbnailerImpl).  Everything runs in the event loop of the main       *)
(* thread: calls of the client, slots posted to the loop, replies of the   *)
(* network and the timer that ends a suspension.                           *)
(*                                                                         *)
(* A request found in the disk cache is answered inside the call that      *)
(* starts it, and its end starts the next one: one call of pump() serves   *)
(* queued requests until one has to go to the network.                     *)
(***************************************************************************)
EXTENDS Integers, Sequences, FiniteSets, FiniteSetsExt, Functions

CONSTANTS
  Requests,         \* the requests clients may make
  MaxBacklog,       \* MAX_BACKLOG, the concurrency of the limiter
  MaxNetworkError,  \* MAX_NETWORK_ERROR
  MaxQuota,         \* bound: how often the server refuses for exceeded quota
  DropsInFlight     \* whether clients drop requests that await their reply

ASSUME ThumbnailerAssumption ==
  /\ IsFiniteSet(Requests) /\ "limiter" \notin Requests
  /\ MaxBacklog \in Nat \ {0}
  /\ MaxNetworkError \in Nat
  /\ MaxQuota \in Nat
  /\ DropsInFlight \in BOOLEAN

VARIABLES
  work,       \* the limiter and the requests: see NewWork
  cancelled,  \* requests whose cancel() took effect (cancelled_)
  onlyCache,  \* requests made after the network was found to fail
  posted,     \* slots posted to the event loop, in order
  timer,      \* the single shot that ends the suspension is pending
  health      \* error counters and flags of the service

vars == <<work, cancelled, onlyCache, posted, timer, health>>

Phases == {"none", "created", "ignored", "queued", "cleared", "sent", "finished", "gone"}

(* running, suspended and list are the limiter's; a list entry is alive    *)
(* while its request is in phase "queued".  answered counts the emissions  *)
(* of finished().                                                          *)
NewWork == [running |-> 0, suspended |-> FALSE, list |-> <<>>,
            phase |-> [r \in Requests |-> "none"],
            answered |-> [r \in Requests |-> 0]]

(* valid_ is left out: a fatal error clears it, nothing but the next       *)
(* CoverFetcher looks at it, and that one sets it again.                   *)
Healthy == [nwerr |-> 0, netFailed |-> FALSE, quota |-> 0, refusals |-> 0]

Post(slot, r) == [slot |-> slot, req |-> r]

(* The posted slots without the one for r (there is one at most), which    *)
(* is how Qt drops what was posted to an object that is deleted.           *)
Without(s, r) ==
  LET own == {i \in DOMAIN s : s[i].req = r}
  IN  IF own = {} THEN s
      ELSE SubSeq(s, 1, Max(own) - 1) \o SubSeq(s, Max(own) + 1, Len(s))

-----------------------------------------------------------------------------
Enter(w, r, p) == [w EXCEPT !.phase = [w.phase EXCEPT ![r] = p]]

(* finished_ is set and finished() emitted, with images or an error.       *)
Complete(w, r) ==
  [w EXCEPT !.phase = [w.phase EXCEPT ![r] = "finished"],
            !.answered = [w.answered EXCEPT ![r] = w.answered[r] + 1]]

(* A mutant of Pump: nothing is served.                                    *)
Pump_Nothing(w, cached) == w

(* RateLimiter::pump: from the back of the list, entries cancelled are     *)
(* discarded; those in the cache are started, answered and followed by the *)
(* next; the first other one is started and awaits its reply.              *)
Pump(w, cached) ==
  LET live   == {i \in DOMAIN w.list : w.phase[w.list[i]] = "queued"}
      sends  == {i \in live : w.list[i] \notin cached}
      last   == IF sends = {} THEN 0 ELSE Max(sends)
      served == {w.list[i] : i \in {j \in live : j > last}}
      next   == {w.list[i] : i \in sends \cap {last}}
  IN  IF w.suspended THEN w
      ELSE [w EXCEPT !.list = SubSeq(@, 1, last - 1),
                     !.running = @ + Cardinality(next),
                     !.phase = [r \in Requests |-> IF r \in served THEN "finished"
                                                   ELSE IF r \in next THEN "sent"
                                                   ELSE @[r]],
                     !.answered = [r \in Requests |-> IF r \in served THEN @[r] + 1
                                                      ELSE @[r]]]

(* A mutant of Done: pump() alone.                                         *)
Done_Uncounted(w, cached) == Pump(w, cached)

(* RateLimiter::done *)
Done(w, cached) == Pump([w EXCEPT !.running = @ - 1], cached)

(* RateLimiter::schedule and schedule_now.                                 *)
Schedule(w, r, cached) ==
  IF ~w.suspended /\ w.running < MaxBacklog
  THEN IF r \in cached
       THEN Complete(Pump(w, cached), r)
       ELSE [w EXCEPT !.running = w.running + 1, !.phase = [w.phase EXCEPT ![r] = "sent"]]
  ELSE [w EXCEPT !.list = Append(w.list, r), !.phase = [w.phase EXCEPT ![r] = "queued"]]

(* ThumbnailerImpl::onReply *)
OnReply(h) == [h EXCEPT !.nwerr = 0]

(* ThumbnailerImpl::onNetworkError *)
OnNetworkError(h) ==
  [h EXCEPT !.nwerr = @ + 1, !.netFailed = @ \/ h.nwerr > MaxNetworkError]

(* Requests served from the cache between w and v.  One for which the      *)
(* cache only knows that nothing was found counts as a reply of the        *)
(* network (isCached() is false), so it clears the count of its errors.    *)
OnCacheReplies(h, w, v, missed) ==
  IF missed /\ \E r \in Requests : w.phase[r] \in {"created", "queued"} /\ v.phase[r] = "finished"
  THEN OnReply(h) ELSE h

-----------------------------------------------------------------------------
(* What may be in the cache: anything, and whatever is asked of it alone.  *)
Caches == {c \in SUBSET Requests : onlyCache \subseteq c}

(* ThumbnailerImpl::createRequest: start() is posted to the loop.          *)
Create(r) ==
  /\ work.phase[r] = "none"
  /\ work' = Enter(work, r, "created")
  /\ onlyCache' = IF health.netFailed THEN onlyCache \cup {r} ELSE onlyCache
  /\ posted' = Append(posted, Post("start", r))
  /\ UNCHANGED <<cancelled, timer, health>>

(* A mutant of Cancel: the list entry is not cleared.                      *)
Cancel_NotCleared(r) ==
  /\ work.phase[r] \in {"created", "queued", "sent"}
  /\ r \notin cancelled
  /\ cancelled' = cancelled \cup {r}
  /\ posted' = IF work.phase[r] = "queued" THEN Append(posted, Post("finish", r)) ELSE posted
  /\ UNCHANGED <<work, onlyCache, timer, health>>

(* RequestImpl::cancel.  An entry still in the list is cleared and a call  *)
(* of callFinished() posted; a request that was sent goes on until its     *)
(* reply; one that was not started yet has no list entry to clear.         *)
Cancel(r) ==
  /\ work.phase[r] \in {"created", "queued", "sent"}
  /\ r \notin cancelled
  /\ cancelled' = cancelled \cup {r}
  /\ IF work.phase[r] = "queued"
     THEN /\ work' = Enter(work, r, "cleared")
          /\ posted' = Append(posted, Post("finish", r))
     ELSE UNCHANGED <<work, posted>>
  /\ UNCHANGED <<onlyCache, timer, health>>

(* The client cancels a request and drops it (CoverFetcher::~CoverFetcher):*)
(* ~RequestImpl.  The slots posted to it are dropped with it.  One without *)
(* an entry in the list is taken to await its reply, which will not be     *)
(* seen any more: pump_limiter() is posted.                                *)
Drop(r) ==
  /\ work.phase[r] \notin {"none", "gone"}
  /\ work.phase[r] = "sent" => DropsInFlight
  /\ work' = Enter(work, r, "gone")
  /\ LET others == Without(posted, r)
         orphan == \/ work.phase[r] = "sent"
                   \/ work.phase[r] = "cleared" /\ r \notin Range(work.list)
     IN  posted' = IF orphan
                   THEN Append(others, Post("pump", "limiter")) ELSE others
  /\ cancelled' = IF work.phase[r] = "finished" THEN cancelled ELSE cancelled \cup {r}
  /\ UNCHANGED <<onlyCache, timer, health>>

(* The event loop runs the next posted slot: RequestImpl::start, the       *)
(* callFinished() posted by a cancellation, or pump_limiter().             *)
RunPosted(cached, missed) ==
  /\ posted # <<>>
  /\ posted' = Tail(posted)
  /\ LET p == Head(posted) IN
     work' = CASE p.slot = "start"  -> IF p.req \in cancelled
                                       THEN Enter(work, p.req, "ignored")
                                       ELSE Schedule(work, p.req, cached)
               [] p.slot = "finish" -> Complete(work, p.req)
               [] p.slot = "pump"   -> Pump(work, cached)
  /\ health' = OnCacheReplies(health, work, work', missed)
  /\ UNCHANGED <<cancelled, onlyCache, timer>>

Outcomes == {"success", "network", "fatal", "quota", "other"}

(* The reply of a request comes in: RequestImpl::callFinished.  A request  *)
(* refused for exceeded quota suspends the limiter and is scheduled again. *)
Reply(r, outcome, cached, missed) ==
  /\ work.phase[r] = "sent"
  /\ outcome = "quota" => health.refusals < MaxQuota
  /\ LET d == Done(work, cached)
         h == OnCacheReplies(health, work, d, missed)
     IN
     IF r \in cancelled
     THEN work' = Complete(d, r) /\ health' = h /\ UNCHANGED timer
     ELSE IF outcome = "quota"
     THEN /\ work' = Schedule(IF h.quota = 0 THEN [d EXCEPT !.suspended = TRUE] ELSE d,
                              r, cached)
          /\ health' = [h EXCEPT !.quota = @ + 1, !.refusals = @ + 1]
          /\ timer' = (timer \/ h.quota = 0)
     ELSE /\ work' = Complete(d, r)
          /\ health' = CASE outcome = "network" -> OnNetworkError(h)
                         [] outcome = "fatal"   -> h
                         [] OTHER               -> OnReply(h)
          /\ UNCHANGED timer
  /\ UNCHANGED <<cancelled, onlyCache, posted>>

(* A mutant of QuotaTimer: the limiter is not pumped when it is resumed.   *)
QuotaTimer_NoPump(cached, missed) ==
  /\ timer
  /\ timer' = FALSE
  /\ health' = [health EXCEPT !.quota = 0]
  /\ work' = [work EXCEPT !.suspended = FALSE]
  /\ UNCHANGED <<cancelled, onlyCache, posted>>

(* ThumbnailerImpl::onQuotaTimer, RateLimiter::resume.                     *)
QuotaTimer(cached, missed) ==
  /\ timer
  /\ timer' = FALSE
  /\ work' = IF work.suspended THEN Pump([work EXCEPT !.suspended = FALSE], cached)
             ELSE work
  /\ health' = [OnCacheReplies(health, work, work', missed) EXCEPT !.quota = 0]
  /\ UNCHANGED <<cancelled, onlyCache, posted>>

Init ==
  /\ work = NewWork
  /\ cancelled = {} /\ onlyCache = {}
  /\ posted = <<>>
  /\ timer = FALSE
  /\ health = Healthy

Loop == \E cached \in Caches, missed \in BOOLEAN : RunPosted(cached, missed)
Network(r) == \E outcome \in Outcomes, cached \in Caches, missed \in BOOLEAN :
                Reply(r, outcome, cached, missed)
Clock == \E cached \in Caches, missed \in BOOLEAN : QuotaTimer(cached, missed)

Next ==
  \/ \E r \in Requests : Create(r) \/ Cancel(r) \/ Drop(r)
  \/ Loop
  \/ \E r \in Requests : Network(r)
  \/ Clock

Spec == Init /\ [][Next]_vars

(* The loop runs what is posted, the network answers or fails every        *)
(* request, and the timer fires.  Clients owe nothing.                     *)
Fairness ==
  /\ WF_vars(Loop)
  /\ \A r \in Requests : WF_vars(Network(r))
  /\ WF_vars(Clock)

FairSpec == Spec /\ Fairness

-----------------------------------------------------------------------------
(* Properties.                                                             *)

InPhase(p) == {r \in Requests : work.phase[r] = p}
NowSent == {r \in Requests : work'.phase[r] = "sent" /\ work.phase[r] # "sent"}

(* The types of the variables; the list holds each request at most once.   *)
TypeOK ==
  /\ work.running \in Nat /\ work.suspended \in BOOLEAN
  /\ work.list \in Seq(Requests)
  /\ \A i, j \in DOMAIN work.list : i # j => work.list[i] # work.list[j]
  /\ work.phase \in [Requests -> Phases]
  /\ cancelled \subseteq Requests /\ onlyCache \subseteq Requests
  /\ \A i \in DOMAIN posted : posted[i].slot \in {"start", "finish", "pump"}
  /\ timer \in BOOLEAN
  /\ health.nwerr \in Nat /\ health.quota \in Nat

(* The limiter counts the requests that await their reply: "every call to  *)
(* schedule() must be matched by exactly one call to done()".              *)
RunningIsExact == work.running = Cardinality(InPhase("sent"))

(* No wakeup is lost: a request waits in the list only while a reply, the  *)
(* end of the suspension or a posted call that will serve it is awaited.   *)
NoLostWakeup ==
  InPhase("queued") # {} =>
    \/ InPhase("sent") # {}
    \/ work.suspended /\ timer
    \/ \E i \in DOMAIN posted : posted[i].slot = "pump"

(* finished() is emitted at most once for a request, whichever of a        *)
(* cancellation, a posted call, a retry and a late reply come together.    *)
AnsweredOnce == \A r \in Requests : work.answered[r] <= 1

(* Every request that was started is answered, unless its client drops it. *)
EveryRequestAnswered ==
  \A r \in Requests :
    work.phase[r] \in {"queued", "cleared", "sent"} ~> work.phase[r] \in {"finished", "gone"}
=============================================================================
