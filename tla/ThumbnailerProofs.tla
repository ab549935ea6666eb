-------------------------- MODULE ThumbnailerProofs --------------------------
(***************************************************************************)
(* What is proved of the search service, for any finite set of requests,   *)
(* any limit and any order of calls, replies and timers, while clients do  *)
(* not drop a request that awaits its reply.                               *)
(***************************************************************************)
EXTENDS Thumbnailer, FiniteSetTheorems, SequenceTheorems, WellFoundedInduction, TLAPS

(* The environment the theorems are about.                                 *)
Patient == ~DropsInFlight

Works ==
  [running : Nat, suspended : BOOLEAN, list : Seq(Requests),
   phase : [Requests -> Phases], answered : [Requests -> Nat]]

Queued(w) == {r \in Requests : w.phase[r] = "queued"}
Sent(w) == {r \in Requests : w.phase[r] = "sent"}

(* The list holds each request once, those that wait and some that do not  *)
(* any more; a request was answered once if it is finished, and before it  *)
(* never.                                                                  *)
ListInv(w) ==
  /\ \A i, j \in 1..Len(w.list) : i # j => w.list[i] # w.list[j]
  /\ \A i \in 1..Len(w.list) : w.phase[w.list[i]] \in {"queued", "cleared", "finished", "gone"}
  /\ \A r \in Queued(w) : \E i \in 1..Len(w.list) : w.list[i] = r

AnswerInv(w) ==
  \A r \in Requests :
    /\ w.answered[r] <= 1
    /\ w.phase[r] \notin {"finished", "gone"} => w.answered[r] = 0

GoodWork(w) == w \in Works /\ ListInv(w) /\ AnswerInv(w)

(* The slots posted: at most one for a request, and in a phase that tells  *)
(* which; those for the limiter besides.                                   *)
Slots == [slot : {"start", "finish", "pump"}, req : Requests \cup {"limiter"}]

PostedGood(w, s) ==
  /\ s \in Seq(Slots)
  /\ \A i \in 1..Len(s) :
       /\ s[i].slot = "start" => s[i].req \in Requests /\ w.phase[s[i].req] = "created"
       /\ s[i].slot = "finish" => s[i].req \in Requests /\ w.phase[s[i].req] = "cleared"
       /\ s[i].slot = "pump" => s[i].req = "limiter"
  /\ \A i, j \in 1..Len(s) : s[i].req \in Requests /\ i # j => s[i].req # s[j].req

(* The three signs of a suspension agree.                                  *)
TimerInv ==
  /\ timer \in BOOLEAN /\ health \in [nwerr : Nat, netFailed : BOOLEAN, quota : Nat, refusals : Nat]
  /\ work.suspended = timer
  /\ (health.quota = 0) = ~timer

PumpIn(s) == \E i \in 1..Len(s) : s[i].slot = "pump"

Awaited == Queued(work) # {} => Sent(work) # {} \/ work.suspended \/ PumpIn(posted)

(* The requests the limiter counts and does not await, none.               *)
Balance(w) == w.running - Cardinality(Sent(w))

(* The inductive invariant.                                                *)
Inv ==
  /\ GoodWork(work)
  /\ Balance(work) = 0
  /\ PostedGood(work, posted)
  /\ TimerInv
  /\ Awaited
  /\ cancelled \subseteq Requests /\ onlyCache \subseteq Requests

-----------------------------------------------------------------------------
(* Every non-empty set of positions in a sequence has a greatest element.  *)
LEMMA MaxPosition ==
  ASSUME NEW n \in Nat, NEW S, S \subseteq 1..n, S # {}
  PROVE  Max(S) \in S /\ \A y \in S : y <= Max(S)
<1> DEFINE T == {n - x : x \in S}
           R == OpToRel(<, Nat)
<1>1. \A y \in S : y \in Nat /\ n - y \in Nat
  OBVIOUS
<1>2. T \subseteq Nat /\ T # {}
  BY <1>1
<1>3. IsWellFoundedOn(R, Nat)
  BY NatLessThanWellFounded
<1>4. \A x, y \in Nat : x < y => <<x, y>> \in R
  BY DEF OpToRel
<1>5. PICK x \in T : \A y \in T : ~(<<y, x>> \in R)
  <2> HIDE DEF R, T
  <2> QED BY <1>2, <1>3, WFMin, Zenon
<1>6. PICK m \in S : x = n - m
  BY <1>5
<1>7. \A y \in S : ~(n - y < n - m)
  <2> HIDE DEF R
  <2> QED BY <1>1, <1>4, <1>5, <1>6
<1>8. \A y \in S : m >= y
  BY <1>1, <1>7
<1>9. \E k \in S : \A y \in S : k >= y
  BY <1>8
<1>10. Max(S) \in S /\ \A y \in S : Max(S) >= y
  BY <1>9, Zenon DEF Max
<1>11. QED
  BY <1>1, <1>10

(* One more request is sent, or none.                                      *)
Counts(w, v) ==
  \/ Sent(v) = Sent(w) /\ v.running = w.running
  \/ \E r \in Queued(w) : Sent(v) = Sent(w) \cup {r} /\ v.running = w.running + 1

(* What pump() does: it serves until one request awaits its reply or none  *)
(* waits, and touches no other request.                                    *)
Pumps(w, v) ==
  /\ GoodWork(v)
  /\ v.suspended = w.suspended
  /\ w.suspended => v = w
  /\ Counts(w, v)
  /\ ~w.suspended => Queued(v) = {} \/ \E r \in Queued(w) : r \in Sent(v)
  /\ \A r \in Requests : w.phase[r] # "queued" =>
       v.phase[r] = w.phase[r] /\ v.answered[r] = w.answered[r]
  /\ \A i \in 1..Len(v.list) : \E j \in 1..Len(w.list) : v.list[i] = w.list[j]

LEMMA PumpEffect ==
  ASSUME NEW w, GoodWork(w), NEW cached
  PROVE  Pumps(w, Pump(w, cached))
<1> DEFINE n      == Len(w.list)
           live   == {i \in DOMAIN w.list : w.phase[w.list[i]] = "queued"}
           sends  == {i \in live : w.list[i] \notin cached}
           last   == IF sends = {} THEN 0 ELSE Max(sends)
           served == {w.list[i] : i \in {j \in live : j > last}}
           next   == {w.list[i] : i \in sends \cap {last}}
           phase  == [r \in Requests |-> IF r \in served THEN "finished"
                                         ELSE IF r \in next THEN "sent" ELSE w.phase[r]]
           answered == [r \in Requests |-> IF r \in served THEN w.answered[r] + 1
                                            ELSE w.answered[r]]
           list == SubSeq(w.list, 1, last - 1)
           v == [running |-> w.running + Cardinality(next), suspended |-> w.suspended,
                 list |-> list, phase |-> phase, answered |-> answered]
<1>1. CASE w.suspended
  <2>1. Pump(w, cached) = w
    BY <1>1, Zenon DEF Pump
  <2>2. QED
    BY <1>1, <2>1 DEF Pumps, Counts
<1>2. CASE ~w.suspended
  <2>1. /\ w.list \in Seq(Requests) /\ n \in Nat /\ DOMAIN w.list = 1..n
        /\ \A i \in 1..n : w.list[i] \in Requests
    <3>1. w.list \in Seq(Requests)
      BY DEF GoodWork, Works
    <3>2. QED
      BY <3>1, LenProperties, ElementOfSeq
  <2>2. live \subseteq 1..n /\ sends \subseteq live
    BY <2>1
  <2>3. last \in 0..n /\ (sends # {} => last \in sends) /\ \A i \in sends : i <= last
    <3>1. CASE sends = {}
      BY <3>1, <2>1
    <3>2. CASE sends # {}
      <4>1. last = Max(sends) /\ sends \subseteq 1..n
        BY <3>2, <2>2
      <4>2. Max(sends) \in sends /\ \A y \in sends : y <= Max(sends)
        <5> HIDE DEF sends, n
        <5> QED BY <3>2, <4>1, <2>1, MaxPosition
      <4>3. QED
        BY <4>1, <4>2, <2>1
    <3>3. QED
      BY <3>1, <3>2
  <2>4. Pump(w, cached) = v
    <3>1. Pump(w, cached) = [w EXCEPT !.list = list, !.running = w.running + Cardinality(next),
                                      !.phase = phase, !.answered = answered]
      BY <1>2, Zenon DEF Pump
    <3>2. w \in Works
      BY DEF GoodWork
    <3>3. QED
      BY <3>1, <3>2 DEF Works
  <2>5. /\ v.running = w.running + Cardinality(next) /\ v.suspended = w.suspended
        /\ v.list = list /\ v.phase = phase /\ v.answered = answered
    OBVIOUS
  <2>6. /\ Len(list) = IF last = 0 THEN 0 ELSE last - 1
        /\ list \in Seq(Requests)
        /\ \A i \in 1..Len(list) : i < last /\ i \in 1..n /\ list[i] = w.list[i]
    <3>1. \A i \in 1..(last - 1) : w.list[i] \in Requests
      BY <2>1, <2>3
    <3>2. /\ list \in Seq(Requests)
          /\ Len(list) = IF 1 <= last - 1 THEN last - 1 ELSE 0
          /\ \A i \in 1..(last - 1) : list[i] = w.list[i]
      <4> HIDE DEF last
      <4>1. last \in Int
        BY <2>1, <2>3
      <4>2. last - 1 \in Int /\ 1 \in Int
        BY <4>1
      <4>3. /\ list \in Seq(Requests)
            /\ Len(list) = IF 1 <= last - 1 THEN last - 1 - 1 + 1 ELSE 0
            /\ \A i \in 1..(last - 1 - 1 + 1) : list[i] = w.list[1 + i - 1]
        BY <3>1, <4>2, SubSeqProperties
      <4>4. QED
        BY <4>1, <4>3
    <3>3. last \in Nat /\ last <= n
      BY <2>1, <2>3
    <3>4. QED
      <4> HIDE DEF list, last, n
      <4> QED BY <2>1, <3>2, <3>3
  (* Where a request that waits is in the list decides what becomes of it. *)
  <2>7. \A i \in 1..n : \A j \in 1..n : i # j => w.list[i] # w.list[j]
    BY DEF GoodWork, ListInv
  <2>8. \A i \in live : /\ w.list[i] \in Requests /\ w.phase[w.list[i]] = "queued"
                        /\ i < last => w.list[i] \notin served /\ w.list[i] \notin next
                        /\ i = last => w.list[i] \in next /\ w.list[i] \notin served
                        /\ i > last => w.list[i] \in served
    <3> SUFFICES ASSUME NEW i \in live
                 PROVE  /\ w.list[i] \in Requests /\ w.phase[w.list[i]] = "queued"
                        /\ i < last => w.list[i] \notin served /\ w.list[i] \notin next
                        /\ i = last => w.list[i] \in next /\ w.list[i] \notin served
                        /\ i > last => w.list[i] \in served
      OBVIOUS
    <3>1. i \in 1..n /\ w.list[i] \in Requests /\ w.phase[w.list[i]] = "queued"
      BY <2>1, <2>2
    <3>2. \A j \in live : j > last /\ i <= last => w.list[j] # w.list[i]
      <4> HIDE DEF last
      <4> QED BY <2>1, <2>2, <2>3, <2>7, <3>1
    <3>3. i <= last => w.list[i] \notin served
      BY <3>2
    <3>4. i < last => w.list[i] \notin next
      <4>1. ASSUME i < last, w.list[i] \in next PROVE FALSE
        <5>1. w.list[i] = w.list[last] /\ last \in sends
          BY <4>1
        <5>2. last \in 1..n
          BY <5>1, <2>2
        <5>3. i # last
          BY <4>1, <3>1
        <5>4. QED
          BY <5>1, <5>2, <5>3, <3>1, <2>7
      <4>2. QED
        BY <4>1
    <3>5. i = last => w.list[i] \in next
      <4>1. ASSUME i = last PROVE last \in sends
        <5>1. last # 0
          BY <4>1, <3>1
        <5>2. QED
          BY <5>1, <2>3
      <4>2. QED
        BY <4>1
    <3>6. i > last => w.list[i] \in served
      OBVIOUS
    <3>7. i \in Nat /\ last \in Nat
      BY <3>1, <2>1, <2>3
    <3>8. QED
      <4> HIDE DEF last, served, next, live
      <4> QED BY <3>1, <3>3, <3>4, <3>5, <3>6, <3>7
  <2>9. \A r \in Requests : w.phase[r] # "queued" => r \notin served /\ r \notin next
    BY <2>2
  <2>10. \A i \in 1..n : i \notin live => w.phase[w.list[i]] # "queued"
    BY <2>1
  <2>11. \A r \in Queued(w) : \E i \in live : w.list[i] = r
    BY <2>1, <2>10 DEF GoodWork, ListInv, Queued
  <2> HIDE DEF v, live, sends, last, served, next, list
  <2>12. ListInv(v)
    <3>1. \A i \in 1..Len(v.list) : v.phase[v.list[i]] = w.phase[w.list[i]]
      <4> SUFFICES ASSUME NEW i \in 1..Len(v.list)
                   PROVE  v.phase[v.list[i]] = w.phase[w.list[i]]
        OBVIOUS
      <4>1. i < last /\ i \in 1..n /\ v.list[i] = w.list[i] /\ w.list[i] \in Requests
        BY <2>1, <2>5, <2>6
      <4>2. w.list[i] \notin served /\ w.list[i] \notin next
        BY <4>1, <2>8, <2>9, <2>10
      <4>3. QED
        BY <4>1, <4>2, <2>5
    <3>2. \A i, j \in 1..Len(v.list) : i # j => v.list[i] # v.list[j]
      BY <2>5, <2>6, <2>7
    <3>3. \A i \in 1..Len(v.list) : v.phase[v.list[i]] \in {"queued", "cleared", "finished", "gone"}
      BY <3>1, <2>5, <2>6 DEF GoodWork, ListInv
    <3>4. ASSUME NEW r \in Queued(v) PROVE \E i \in 1..Len(v.list) : v.list[i] = r
      <4>1. r \in Requests /\ phase[r] = "queued"
        BY <2>5, <3>4 DEF Queued
      <4>2. w.phase[r] = "queued" /\ r \notin served /\ r \notin next
        BY <4>1
      <4>3. PICK i \in live : w.list[i] = r
        BY <4>1, <4>2, <2>11 DEF Queued
      <4>4. i < last /\ i \in 1..n
        BY <4>2, <4>3, <2>8, <2>2, <2>3, <2>1
      <4>5. i \in 1..Len(v.list)
        BY <4>4, <2>5, <2>6, <2>3, <2>1
      <4>6. QED
        BY <4>3, <4>5, <2>5, <2>6
    <3>5. QED
      BY <3>2, <3>3, <3>4 DEF ListInv
  <2>13. AnswerInv(v)
    <3>1. \A r \in Requests : r \in served => w.phase[r] = "queued"
      BY <2>9
    <3>2. w.answered \in [Requests -> Nat]
      BY DEF GoodWork, Works
    <3>3. ASSUME NEW r \in Requests
          PROVE  /\ v.answered[r] <= 1
                 /\ v.phase[r] \notin {"finished", "gone"} => v.answered[r] = 0
      <4>1. /\ w.answered[r] <= 1
            /\ w.phase[r] \notin {"finished", "gone"} => w.answered[r] = 0
        BY DEF GoodWork, AnswerInv
      <4>2. CASE r \in served
        <5>1. v.answered[r] = w.answered[r] + 1 /\ v.phase[r] = "finished" /\ w.answered[r] = 0
          BY <4>1, <4>2, <3>1, <2>5
        <5>2. QED
          BY <5>1
      <4>3. CASE r \notin served
        <5>1. v.answered[r] = w.answered[r]
          BY <4>3, <2>5
        <5>2. v.phase[r] = w.phase[r] \/ r \in next
          BY <4>3, <2>5
        <5>3. r \in next => w.phase[r] = "queued"
          BY <2>9
        <5>4. QED
          BY <4>1, <5>1, <5>2, <5>3
      <4>4. QED
        BY <4>2, <4>3
    <3>4. QED
      BY <3>3 DEF AnswerInv
  <2>14. IF last = 0 THEN next = {}
         ELSE \E r \in Requests : next = {r} /\ w.phase[r] = "queued" /\ r \notin served
    <3>1. CASE last = 0
      BY <3>1, <2>1, <2>2 DEF next
    <3>2. CASE last # 0
      <4>1. last \in sends
        BY <3>2, <2>3 DEF last
      <4>2. next = {w.list[last]}
        BY <4>1 DEF next
      <4>3. last \in live
        BY <4>1, <2>2
      <4>4. w.list[last] \in Requests /\ w.phase[w.list[last]] = "queued" /\ w.list[last] \notin served
        BY <4>3, <2>8
      <4>5. QED
        BY <3>2, <4>2, <4>4
    <3>3. QED
      BY <3>1, <3>2
  <2>15. Counts(w, v)
    <3>0. w.running \in Nat
      BY DEF GoodWork, Works
    <3>1. CASE last = 0
      <4>1. next = {} /\ v.running = w.running
        BY <3>0, <3>1, <2>14, <2>5, FS_EmptySet
      <4>2. \A r \in Requests : v.phase[r] = "sent" <=> w.phase[r] = "sent"
        BY <4>1, <2>5, <2>9
      <4>3. QED
        BY <4>1, <4>2 DEF Counts, Sent
    <3>2. CASE last # 0
      <4>1. PICK x \in Requests : next = {x} /\ w.phase[x] = "queued" /\ x \notin served
        BY <3>2, <2>14
      <4>2. v.running = w.running + 1
        BY <4>1, <2>5, FS_Singleton
      <4>3. \A r \in Requests : v.phase[r] = "sent" <=> w.phase[r] = "sent" \/ r = x
        BY <4>1, <2>5, <2>9
      <4>4. Sent(v) = Sent(w) \cup {x} /\ x \in Queued(w)
        BY <4>1, <4>3 DEF Sent, Queued
      <4>5. QED
        BY <4>2, <4>4 DEF Counts
    <3>3. QED
      BY <3>1, <3>2
  <2>16. Queued(v) = {} \/ \E r \in Queued(w) : r \in Sent(v)
    <3>1. CASE last = 0
      <4>1. \A r \in Queued(w) : r \in served
        BY <3>1, <2>11, <2>8, <2>2, <2>1
      <4>2. \A r \in Requests : phase[r] # "queued"
        BY <4>1 DEF Queued
      <4>3. QED
        BY <4>2, <2>5 DEF Queued
    <3>2. CASE last # 0
      <4>1. PICK x \in Requests : next = {x} /\ w.phase[x] = "queued" /\ x \notin served
        BY <3>2, <2>14
      <4>2. v.phase[x] = "sent"
        BY <4>1, <2>5
      <4>3. QED
        BY <4>1, <4>2 DEF Sent, Queued
    <3>3. QED
      BY <3>1, <3>2
  <2>17. v \in Works
    <3>1. w \in Works
      BY DEF GoodWork
    <3>2. phase \in [Requests -> Phases]
      BY <3>1 DEF Works, Phases
    <3>3. answered \in [Requests -> Nat]
      BY <3>1 DEF Works
    <3>4. w.running + Cardinality(next) \in Nat
      <4>1. w.running \in Nat
        BY <3>1 DEF Works
      <4>2. Cardinality(next) \in Nat
        <5>1. CASE next = {}
          BY <5>1, FS_EmptySet
        <5>2. CASE \E r \in Requests : next = {r}
          BY <5>2, FS_Singleton
        <5>3. QED
          BY <5>1, <5>2, <2>14
      <4>3. QED
        BY <4>1, <4>2
    <3>5. QED
      BY <3>1, <3>2, <3>3, <3>4, <2>6 DEF v, Works
  <2>18. \A r \in Requests : w.phase[r] # "queued" =>
           v.phase[r] = w.phase[r] /\ v.answered[r] = w.answered[r]
    BY <2>5, <2>9
  <2>19. \A i \in 1..Len(v.list) : \E j \in 1..Len(w.list) : v.list[i] = w.list[j]
    BY <2>5, <2>6
  <2>20. QED
    BY <1>2, <2>4, <2>5, <2>12, <2>13, <2>15, <2>16, <2>17, <2>18, <2>19 DEF Pumps, GoodWork
<1>3. QED
  BY <1>1, <1>2

-----------------------------------------------------------------------------
(* A request that waits in the list, or none does, before and after.       *)
NotListed(w, r) == \A i \in 1..Len(w.list) : w.list[i] # r

LEMMA OutsideTheList ==
  ASSUME NEW w, GoodWork(w), NEW r \in Requests,
         w.phase[r] \in {"none", "created", "ignored", "sent"}
  PROVE  NotListed(w, r)
BY DEF GoodWork, ListInv, NotListed

(* What the smaller steps do to the work: r is the request they are about. *)
Others(w, v, r) == \A q \in Requests \ {r} : v.phase[q] = w.phase[q]

LEMMA ListFacts ==
  ASSUME NEW w, GoodWork(w)
  PROVE  /\ w.list \in Seq(Requests) /\ Len(w.list) \in Nat /\ DOMAIN w.list = 1..Len(w.list)
         /\ \A i \in 1..Len(w.list) : w.list[i] \in Requests
<1>1. w.list \in Seq(Requests)
  BY DEF GoodWork, Works
<1>2. QED
  BY <1>1, LenProperties, ElementOfSeq

(* A request enters a phase; the list is left as it is.                    *)
Phased(w, r, p, n, a) ==
  [running |-> n, suspended |-> w.suspended, list |-> w.list,
   phase |-> [w.phase EXCEPT ![r] = p], answered |-> [w.answered EXCEPT ![r] = a]]

LEMMA PhaseEffect ==
  ASSUME NEW w, GoodWork(w), NEW r \in Requests, NEW p \in Phases, NEW n \in Nat,
         NEW a \in Nat, p # "queued",
         NotListed(w, r) \/ p \in {"cleared", "finished", "gone"},
         a <= 1, p \notin {"finished", "gone"} => a = 0
  PROVE  LET v == Phased(w, r, p, n, a) IN
         /\ GoodWork(v) /\ Others(w, v, r) /\ v.phase[r] = p
         /\ Queued(v) = Queued(w) \ {r}
         /\ Sent(v) = IF p = "sent" THEN Sent(w) \cup {r} ELSE Sent(w) \ {r}
         /\ v.running = n /\ v.suspended = w.suspended /\ v.list = w.list
<1> DEFINE v == Phased(w, r, p, n, a)
<1>1. w \in Works
  BY DEF GoodWork
<1>2. /\ v.phase = [w.phase EXCEPT ![r] = p] /\ v.list = w.list
      /\ v.answered = [w.answered EXCEPT ![r] = a]
      /\ v.running = n /\ v.suspended = w.suspended
  BY DEF Phased
<1>3. /\ w.phase \in [Requests -> Phases] /\ w.answered \in [Requests -> Nat]
      /\ v.phase \in [Requests -> Phases] /\ v.answered \in [Requests -> Nat]
  BY <1>1, <1>2 DEF Works
<1>4. v \in Works
  BY <1>1, <1>3 DEF Works, Phased
<1> HIDE DEF v
<1>5. \A q \in Requests : v.phase[q] = (IF q = r THEN p ELSE w.phase[q])
                         /\ v.answered[q] = (IF q = r THEN a ELSE w.answered[q])
  BY <1>2, <1>3
<1>6. Queued(v) = Queued(w) \ {r}
  BY <1>5 DEF Queued
<1>7. Sent(v) = IF p = "sent" THEN Sent(w) \cup {r} ELSE Sent(w) \ {r}
  BY <1>5 DEF Sent
<1>8. ListInv(v)
  <2>1. \A i \in 1..Len(v.list) : v.phase[v.list[i]] \in {"queued", "cleared", "finished", "gone"}
    BY <1>2, <1>5, ListFacts DEF GoodWork, ListInv, NotListed
  <2>2. QED
    BY <2>1, <1>2, <1>6 DEF GoodWork, ListInv
<1>9. AnswerInv(v)
  BY <1>5 DEF GoodWork, AnswerInv
<1>10. /\ GoodWork(v) /\ Others(w, v, r) /\ v.phase[r] = p
       /\ Queued(v) = Queued(w) \ {r}
       /\ Sent(v) = IF p = "sent" THEN Sent(w) \cup {r} ELSE Sent(w) \ {r}
       /\ v.running = n /\ v.suspended = w.suspended /\ v.list = w.list
  BY <1>2, <1>4, <1>5, <1>6, <1>7, <1>8, <1>9 DEF GoodWork, Others
<1>11. QED
  BY <1>10 DEF v

LEMMA CompleteEffect ==
  ASSUME NEW w, GoodWork(w), NEW r \in Requests,
         w.phase[r] \in {"created", "cleared", "sent"}
  PROVE  /\ GoodWork(Complete(w, r)) /\ Others(w, Complete(w, r), r)
         /\ Complete(w, r).phase[r] = "finished"
         /\ Queued(Complete(w, r)) = Queued(w)
         /\ Sent(Complete(w, r)) = Sent(w) \ {r}
         /\ Complete(w, r).running = w.running
         /\ Complete(w, r).suspended = w.suspended
<1>1. w \in Works /\ w.answered[r] = 0
  BY DEF GoodWork, AnswerInv
<1>2. Complete(w, r) = Phased(w, r, "finished", w.running, 1)
  <2> DEFINE ph == [w.phase EXCEPT ![r] = "finished"]
             an == [w.answered EXCEPT ![r] = 1]
  <2>1. w.answered[r] + 1 = 1
    BY <1>1
  <2>2. Complete(w, r) = [w EXCEPT !.phase = ph, !.answered = an]
    BY <2>1, Zenon DEF Complete
  <2>3. Phased(w, r, "finished", w.running, 1)
          = [running |-> w.running, suspended |-> w.suspended, list |-> w.list,
             phase |-> ph, answered |-> an]
    BY DEF Phased
  <2> HIDE DEF ph, an
  <2>4. QED
    BY <1>1, <2>2, <2>3 DEF Works
<1>3. w.running \in Nat /\ "finished" \in Phases
  BY <1>1 DEF Works, Phases
<1>4. QED
  BY <1>2, <1>3, PhaseEffect DEF Queued

(* A request goes to the end of the list.                                  *)
Enqueued(w, r) == [w EXCEPT !.list = Append(w.list, r),
                            !.phase = [w.phase EXCEPT ![r] = "queued"]]

LEMMA QueueEffect ==
  ASSUME NEW w, GoodWork(w), NEW r \in Requests, w.phase[r] \in {"created", "sent"}
  PROVE  LET v == Enqueued(w, r) IN
         /\ GoodWork(v) /\ Others(w, v, r) /\ v.phase[r] = "queued"
         /\ Sent(v) = Sent(w) \ {r} /\ Queued(v) = Queued(w) \cup {r}
         /\ v.running = w.running /\ v.suspended = w.suspended
<1> DEFINE ph == [w.phase EXCEPT ![r] = "queued"]
           l == Append(w.list, r)
           v == Enqueued(w, r)
<1>1. w \in Works /\ NotListed(w, r)
  BY OutsideTheList DEF GoodWork
<1>2. /\ v = [w EXCEPT !.list = l, !.phase = ph]
      /\ ph \in [Requests -> Phases]
      /\ \A q \in Requests : ph[q] = IF q = r THEN "queued" ELSE w.phase[q]
  BY <1>1 DEF Enqueued, Works, Phases
<1>3. /\ l \in Seq(Requests) /\ Len(l) = Len(w.list) + 1 /\ l[Len(l)] = r
      /\ \A i \in 1..Len(w.list) : l[i] = w.list[i]
      /\ Len(w.list) \in Nat
  BY <1>1, AppendProperties, LenProperties DEF Works
<1> HIDE DEF ph, l, v
<1>4. /\ v \in Works /\ v.list = l /\ v.phase = ph /\ v.answered = w.answered
      /\ v.running = w.running /\ v.suspended = w.suspended
  BY <1>1, <1>2, <1>3 DEF Works
<1>5. Sent(v) = Sent(w) \ {r} /\ Queued(v) = Queued(w) \cup {r}
  BY <1>2, <1>4 DEF Sent, Queued
<1>6. ListInv(v)
  <2>1. \A i \in 1..Len(l) : i \in 1..Len(w.list) \/ i = Len(l)
    BY <1>3
  <2>2. \A i, j \in 1..Len(l) : i # j => l[i] # l[j]
    BY <2>1, <1>1, <1>3 DEF NotListed, GoodWork, ListInv
  <2>3. \A i \in 1..Len(l) : ph[l[i]] \in {"queued", "cleared", "finished", "gone"}
    BY <2>1, <1>1, <1>2, <1>3, ListFacts DEF NotListed, GoodWork, ListInv
  <2>4. \A q \in Queued(v) : \E i \in 1..Len(l) : l[i] = q
    <3>1. ASSUME NEW q \in Queued(w) PROVE \E i \in 1..Len(l) : l[i] = q
      <4>1. PICK i \in 1..Len(w.list) : w.list[i] = q
        BY DEF GoodWork, ListInv
      <4>2. i \in 1..Len(l) /\ l[i] = q
        BY <4>1, <1>3
      <4>3. QED
        BY <4>2
    <3>2. Len(l) \in 1..Len(l)
      BY <1>3
    <3>3. QED
      BY <3>1, <3>2, <1>3, <1>5
  <2>5. QED
    BY <2>2, <2>3, <2>4, <1>4 DEF ListInv
<1>7. AnswerInv(v)
  BY <1>2, <1>4 DEF GoodWork, AnswerInv
<1>8. /\ GoodWork(v) /\ Others(w, v, r) /\ v.phase[r] = "queued"
      /\ Sent(v) = Sent(w) \ {r} /\ Queued(v) = Queued(w) \cup {r}
      /\ v.running = w.running /\ v.suspended = w.suspended
  BY <1>2, <1>4, <1>5, <1>6, <1>7 DEF GoodWork, Others
<1>9. QED
  BY <1>8 DEF v

-----------------------------------------------------------------------------
(* The count of the limiter.                                               *)

LEMMA SentIsFinite ==
  ASSUME NEW w
  PROVE  IsFiniteSet(Sent(w)) /\ Cardinality(Sent(w)) \in Nat
BY ThumbnailerAssumption, FS_Subset, FS_CardinalityType DEF Sent

LEMMA CountsKeepBalance ==
  ASSUME NEW w, NEW v, w \in Works, Counts(w, v)
  PROVE  Balance(v) = Balance(w)
<1>1. w.running \in Nat /\ IsFiniteSet(Sent(w)) /\ Cardinality(Sent(w)) \in Nat
  BY SentIsFinite DEF Works
<1>2. CASE Sent(v) = Sent(w) /\ v.running = w.running
  BY <1>2 DEF Balance
<1>3. ASSUME NEW r \in Queued(w), Sent(v) = Sent(w) \cup {r}, v.running = w.running + 1
      PROVE  Balance(v) = Balance(w)
  <2>1. r \notin Sent(w)
    BY DEF Queued, Sent
  <2>2. Cardinality(Sent(v)) = Cardinality(Sent(w)) + 1
    BY <1>1, <1>3, <2>1, FS_AddElement
  <2>3. QED
    BY <1>1, <1>3, <2>2 DEF Balance
<1>4. QED
  BY <1>2, <1>3 DEF Counts

LEMMA LessOneSent ==
  ASSUME NEW w, NEW v, NEW r \in Sent(w), Sent(v) = Sent(w) \ {r},
         w.running \in Int, v.running = w.running
  PROVE  Balance(v) = Balance(w) + 1
<1>1. Cardinality(Sent(v)) = Cardinality(Sent(w)) - 1 /\ Cardinality(Sent(w)) \in Nat
  BY SentIsFinite, FS_RemoveElement
<1>2. QED
  BY <1>1 DEF Balance

-----------------------------------------------------------------------------
(* schedule() and done().                                                  *)

(* Nobody waits for nothing, as far as the work can tell.                  *)
Settled(w) == Queued(w) = {} \/ Sent(w) # {} \/ w.suspended

(* What a handler does to the requests it is not about.                    *)
Spares(w, v, r) ==
  \A q \in Requests \ {r} : w.phase[q] # "queued" => v.phase[q] = w.phase[q]

(* The limiter's count and the phases change together, all else stays.     *)
LEMMA SendingFields ==
  ASSUME NEW w \in Works, NEW n, NEW ph
  PROVE  [w EXCEPT !.running = n, !.phase = ph]
           = [running |-> n, suspended |-> w.suspended, list |-> w.list,
              phase |-> ph, answered |-> w.answered]
<1>1. w = [running |-> w.running, suspended |-> w.suspended, list |-> w.list,
           phase |-> w.phase, answered |-> w.answered]
  BY DEF Works
<1> DEFINE u == [w EXCEPT !.running = n]
<1>2. u = [running |-> n, suspended |-> w.suspended, list |-> w.list,
           phase |-> w.phase, answered |-> w.answered]
  BY <1>1
<1>3. [w EXCEPT !.running = n, !.phase = ph] = [u EXCEPT !.phase = ph]
  BY <1>1
<1> HIDE DEF u
<1>4. [u EXCEPT !.phase = ph]
        = [running |-> n, suspended |-> w.suspended, list |-> w.list,
           phase |-> ph, answered |-> w.answered]
  BY <1>2
<1>5. QED
  BY <1>3, <1>4

(* schedule() sends the request, answers it from the cache or enqueues it. *)
LEMMA ScheduleEffect ==
  ASSUME NEW w, GoodWork(w), NEW r \in Requests, w.phase[r] = "created",
         Balance(w) = 0, NEW cached
  PROVE  LET v == Schedule(w, r, cached) IN
         /\ GoodWork(v) /\ Balance(v) = 0 /\ Settled(v)
         /\ v.suspended = w.suspended /\ Spares(w, v, r)
<1> DEFINE v == Schedule(w, r, cached)
<1>1. w \in Works /\ w.answered[r] = 0 /\ NotListed(w, r)
  BY OutsideTheList DEF GoodWork, AnswerInv
<1>2. CASE ~w.suspended /\ w.running < MaxBacklog /\ r \in cached
  <2> DEFINE p == Pump(w, cached)
  <2>1. v = Complete(p, r)
    BY <1>2, Zenon DEF Schedule
  <2>2. Pumps(w, p)
    BY PumpEffect
  <2> HIDE DEF p, v
  <2>3. GoodWork(p) /\ p.phase[r] = "created" /\ Balance(p) = 0 /\ p.suspended = w.suspended
    BY <2>2, <1>1, CountsKeepBalance DEF Pumps
  <2>4. /\ GoodWork(v) /\ Others(p, v, r) /\ Queued(v) = Queued(p) /\ Sent(v) = Sent(p) \ {r}
        /\ v.running = p.running /\ v.suspended = p.suspended
    BY <2>1, <2>3, CompleteEffect
  <2>5. Sent(v) = Sent(p)
    BY <2>3, <2>4 DEF Sent
  <2>6. Balance(v) = 0
    BY <2>3, <2>4, <2>5 DEF Balance
  <2>7. Settled(v)
    BY <1>2, <2>2, <2>4, <2>5 DEF Settled, Pumps
  <2>8. Spares(w, v, r)
    BY <2>2, <2>4 DEF Spares, Others, Pumps
  <2>9. QED
    BY <2>3, <2>4, <2>6, <2>7, <2>8 DEF v
<1>3. CASE ~w.suspended /\ w.running < MaxBacklog /\ r \notin cached
  <2> DEFINE n == w.running + 1
             ph == [w.phase EXCEPT ![r] = "sent"]
  <2>1. v = [w EXCEPT !.running = n, !.phase = ph]
    BY <1>3, Zenon DEF Schedule
  <2>2. w.answered = [w.answered EXCEPT ![r] = 0]
    BY <1>1 DEF Works
  <2>3. Phased(w, r, "sent", n, 0)
          = [running |-> n, suspended |-> w.suspended, list |-> w.list,
             phase |-> ph, answered |-> w.answered]
    BY <2>2 DEF Phased
  <2>4. n \in Nat /\ w.running \in Nat /\ "sent" \in Phases /\ n = w.running + 1
    BY <1>1 DEF Works, Phases
  <2> HIDE DEF v, n, ph
  <2>5. v = Phased(w, r, "sent", n, 0)
    <3>1. [w EXCEPT !.running = n, !.phase = ph]
            = [running |-> n, suspended |-> w.suspended, list |-> w.list,
               phase |-> ph, answered |-> w.answered]
      BY <1>1, SendingFields
    <3>2. QED
      BY <2>1, <2>3, <3>1
  <2>6. /\ GoodWork(v) /\ Others(w, v, r) /\ v.phase[r] = "sent"
        /\ Sent(v) = Sent(w) \cup {r} /\ v.running = n /\ v.suspended = w.suspended
    BY <1>1, <2>4, <2>5, PhaseEffect
  <2>7. Balance(v) = 0
    <3>1. r \notin Sent(w)
      BY DEF Sent
    <3>2. Cardinality(Sent(v)) = Cardinality(Sent(w)) + 1 /\ Cardinality(Sent(w)) \in Nat
      BY <2>6, <3>1, SentIsFinite, FS_AddElement
    <3>3. QED
      BY <2>4, <2>6, <3>2 DEF Balance
  <2>8. Settled(v) /\ Spares(w, v, r)
    BY <2>6 DEF Settled, Spares, Others, Sent
  <2>9. QED
    BY <2>6, <2>7, <2>8 DEF v
<1>4. CASE ~(~w.suspended /\ w.running < MaxBacklog)
  <2>1. v = Enqueued(w, r)
    BY <1>4, Zenon DEF Schedule, Enqueued
  <2> HIDE DEF v
  <2>2. /\ GoodWork(v) /\ Others(w, v, r)
        /\ Sent(v) = Sent(w) \ {r}
        /\ v.running = w.running /\ v.suspended = w.suspended
    BY <2>1, QueueEffect
  <2>3. Sent(v) = Sent(w)
    BY <2>2 DEF Sent
  <2>4. Balance(v) = 0
    BY <2>2, <2>3 DEF Balance
  <2>5. Settled(v)
    <3>1. CASE w.suspended
      BY <2>2, <3>1 DEF Settled
    <3>2. CASE ~w.suspended
      <4>1. Cardinality(Sent(w)) > 0
        BY <1>1, <1>4, <3>2, ThumbnailerAssumption, SentIsFinite DEF Balance, Works
      <4>2. Sent(w) # {}
        BY <4>1, FS_EmptySet
      <4>3. QED
        BY <2>3, <4>2 DEF Settled
    <3>3. QED
      BY <3>1, <3>2
  <2>6. Spares(w, v, r)
    BY <2>2 DEF Spares, Others
  <2>7. QED
    BY <2>2, <2>4, <2>5, <2>6 DEF v
<1>5. QED
  BY <1>2, <1>3, <1>4

(* done() counts the request down whose reply has come, and pumps.         *)
LEMMA DoneEffect ==
  ASSUME NEW w, GoodWork(w), NEW r \in Sent(w), Balance(w) = 0, NEW cached
  PROVE  LET d == Done(w, cached) IN
         /\ GoodWork(d) /\ Balance(d) = -1 /\ d.phase[r] = "sent"
         /\ d.suspended = w.suspended /\ Spares(w, d, r)
         /\ ~w.suspended => Queued(d) = {} \/ Sent(d) \ {r} # {}
<1> DEFINE n == w.running - 1
           c == [w EXCEPT !.running = n]
           d == Done(w, cached)
<1>1. w \in Works /\ r \in Requests /\ w.phase[r] = "sent"
  BY DEF GoodWork, Sent
<1>2. Cardinality(Sent(w)) \in Nat /\ Cardinality(Sent(w)) # 0
  BY SentIsFinite, FS_EmptySet
<1>3. n \in Nat /\ w.running \in Nat
  BY <1>1, <1>2 DEF Balance, Works
<1>4. /\ c \in Works /\ c.running = w.running - 1 /\ c.suspended = w.suspended
      /\ c.list = w.list /\ c.phase = w.phase /\ c.answered = w.answered
  <2>1. n = w.running - 1
    OBVIOUS
  <2> HIDE DEF n
  <2>2. QED
    BY <1>1, <1>3, <2>1 DEF Works
<1>5. d = Pump(c, cached)
  BY Zenon DEF Done
<1> HIDE DEF c, d, n
<1>6. Sent(c) = Sent(w) /\ Queued(c) = Queued(w)
  BY <1>4 DEF Sent, Queued
<1>7. GoodWork(c)
  BY <1>4, <1>6 DEF GoodWork, ListInv, AnswerInv
<1>8. Pumps(c, d)
  BY <1>5, <1>7, PumpEffect
<1>9. Balance(c) = -1
  BY <1>2, <1>3, <1>4, <1>6 DEF Balance
<1>10. Balance(d) = -1
  BY <1>4, <1>8, <1>9, CountsKeepBalance DEF Pumps
<1>11. d.phase[r] = "sent" /\ d.suspended = w.suspended /\ Spares(w, d, r)
  BY <1>1, <1>4, <1>8 DEF Pumps, Spares
<1>12. ~w.suspended => Queued(d) = {} \/ Sent(d) \ {r} # {}
  BY <1>1, <1>4, <1>6, <1>8 DEF Pumps, Queued
<1>13. QED
  BY <1>8, <1>10, <1>11, <1>12 DEF Pumps, d

(* A single field of the work that changes.                                *)
LEMMA EnterEffect ==
  ASSUME NEW w, GoodWork(w), NEW r \in Requests, NEW p \in Phases,
         p \notin {"queued", "sent"}, w.phase[r] # "sent",
         NotListed(w, r) \/ p \in {"cleared", "finished", "gone"},
         p \notin {"finished", "gone"} => w.phase[r] \notin {"finished", "gone"}
  PROVE  LET v == Enter(w, r, p) IN
         /\ GoodWork(v) /\ Spares(w, v, r) /\ v.phase[r] = p
         /\ Queued(v) \subseteq Queued(w) /\ Sent(v) = Sent(w) /\ Balance(v) = Balance(w)
         /\ v.suspended = w.suspended
<1> DEFINE v == Enter(w, r, p)
           ph == [w.phase EXCEPT ![r] = p]
           a == w.answered[r]
<1>1. w \in Works
  BY DEF GoodWork
<1>2. w.answered \in [Requests -> Nat] /\ w.running \in Nat
  BY <1>1 DEF Works
<1>3. /\ a \in Nat /\ a <= 1 /\ (p \notin {"finished", "gone"} => a = 0)
      /\ w.answered = [w.answered EXCEPT ![r] = a]
  BY <1>2 DEF GoodWork, AnswerInv
<1>4. v = [w EXCEPT !.phase = ph]
  BY Zenon DEF Enter
<1>5. Phased(w, r, p, w.running, a)
        = [running |-> w.running, suspended |-> w.suspended, list |-> w.list,
           phase |-> ph, answered |-> w.answered]
  BY <1>3 DEF Phased
<1> HIDE DEF v, ph, a
<1>6. v = Phased(w, r, p, w.running, a)
  BY <1>1, <1>4, <1>5 DEF Works
<1>7. /\ GoodWork(v) /\ Others(w, v, r) /\ v.phase[r] = p
      /\ Queued(v) = Queued(w) \ {r} /\ Sent(v) = Sent(w) \ {r}
      /\ v.running = w.running /\ v.suspended = w.suspended
  BY <1>2, <1>3, <1>6, PhaseEffect
<1>8. Sent(v) = Sent(w)
  BY <1>7 DEF Sent
<1>9. Balance(v) = Balance(w) /\ Spares(w, v, r)
  BY <1>7, <1>8 DEF Balance, Spares, Others
<1>10. QED
  BY <1>7, <1>8, <1>9 DEF v

-----------------------------------------------------------------------------
(* The posted slots.                                                       *)

NotPosted(s, r) == \A i \in 1..Len(s) : s[i].req # r

(* A handler that spares the other requests leaves their slots in order.   *)
LEMMA PostedSpared ==
  ASSUME NEW w, NEW v, NEW r, NEW s, PostedGood(w, s), Spares(w, v, r), NotPosted(s, r)
  PROVE  PostedGood(v, s)
BY DEF PostedGood, Spares, NotPosted

(* Only a request just made or just cancelled has a slot.                  *)
LEMMA PostedPhases ==
  ASSUME NEW w, NEW s, PostedGood(w, s), NEW r \in Requests,
         w.phase[r] \notin {"created", "cleared"}
  PROVE  NotPosted(s, r)
<1> SUFFICES ASSUME NEW i \in 1..Len(s), s[i].req = r PROVE FALSE
  BY DEF NotPosted
<1>1. s[i] \in Slots
  BY ElementOfSeq DEF PostedGood
<1>2. s[i].slot \in {"start", "finish", "pump"}
  BY <1>1 DEF Slots
<1>3. QED
  BY <1>2, ThumbnailerAssumption DEF PostedGood

(* The slot at the head is taken.                                          *)
LEMMA PostedTail ==
  ASSUME NEW w, NEW s, PostedGood(w, s), s # <<>>
  PROVE  /\ PostedGood(w, Tail(s)) /\ Head(s) \in Slots
         /\ Head(s) = s[1] /\ 1 \in 1..Len(s)
         /\ Head(s).req \in Requests => NotPosted(Tail(s), Head(s).req)
         /\ PumpIn(s) /\ Head(s).slot # "pump" => PumpIn(Tail(s))
<1> DEFINE t == Tail(s)
<1>1. s \in Seq(Slots)
  BY DEF PostedGood
<1>2. /\ t \in Seq(Slots) /\ Len(t) = Len(s) - 1 /\ Len(s) \in Nat /\ Len(s) > 0
      /\ Head(s) = s[1] /\ Head(s) \in Slots
      /\ \A i \in 1..Len(t) : t[i] = s[i + 1]
  BY <1>1, HeadTailProperties, EmptySeq, LenProperties
<1> HIDE DEF t
<1>3. \A i \in 1..Len(t) : i + 1 \in 1..Len(s) /\ i + 1 # 1
  BY <1>2
<1>4. PostedGood(w, t)
  BY <1>2, <1>3 DEF PostedGood
<1>5. Head(s).req \in Requests => NotPosted(t, Head(s).req)
  BY <1>2, <1>3 DEF PostedGood, NotPosted
<1>6. PumpIn(s) /\ Head(s).slot # "pump" => PumpIn(t)
  <2>1. ASSUME NEW i \in 1..Len(s), s[i].slot = "pump", Head(s).slot # "pump"
        PROVE  PumpIn(t)
    <3>1. i - 1 \in 1..Len(t) /\ t[i - 1] = s[i]
      BY <1>2, <2>1
    <3>2. QED
      BY <2>1, <3>1 DEF PumpIn
  <2>2. QED
    BY <2>1 DEF PumpIn
<1>7. QED
  BY <1>2, <1>4, <1>5, <1>6 DEF t

(* A slot is posted.                                                       *)
LEMMA PostedAppend ==
  ASSUME NEW w, NEW s, PostedGood(w, s), NEW p \in Slots,
         p.slot = "start" => p.req \in Requests /\ w.phase[p.req] = "created",
         p.slot = "finish" => p.req \in Requests /\ w.phase[p.req] = "cleared",
         p.slot = "pump" => p.req = "limiter",
         p.req \in Requests => NotPosted(s, p.req)
  PROVE  /\ PostedGood(w, Append(s, p))
         /\ PumpIn(s) => PumpIn(Append(s, p))
<1> DEFINE t == Append(s, p)
<1>1. s \in Seq(Slots)
  BY DEF PostedGood
<1>2. /\ t \in Seq(Slots) /\ Len(t) = Len(s) + 1 /\ Len(s) \in Nat
      /\ t[Len(s) + 1] = p
      /\ \A i \in 1..Len(s) : t[i] = s[i]
  BY <1>1, AppendProperties, LenProperties
<1> HIDE DEF t
<1>3. \A i \in 1..Len(t) : (i \in 1..Len(s) /\ t[i] = s[i]) \/ (i = Len(s) + 1 /\ t[i] = p)
  BY <1>2
<1>4. \A i \in 1..Len(s) : i \in 1..Len(t)
  BY <1>2
<1>5. PumpIn(s) => PumpIn(t)
  BY <1>2, <1>4 DEF PumpIn
<1>6. \A i, j \in 1..Len(t) : t[i].req \in Requests /\ i # j => t[i].req # t[j].req
  BY <1>2, <1>3 DEF PostedGood, NotPosted
<1>7. \A i \in 1..Len(t) :
        /\ t[i].slot = "start" => t[i].req \in Requests /\ w.phase[t[i].req] = "created"
        /\ t[i].slot = "finish" => t[i].req \in Requests /\ w.phase[t[i].req] = "cleared"
        /\ t[i].slot = "pump" => t[i].req = "limiter"
  BY <1>3 DEF PostedGood
<1>8. PostedGood(w, t)
  BY <1>2, <1>6, <1>7 DEF PostedGood
<1>9. QED
  BY <1>5, <1>8 DEF t

(* The slot of a request is dropped.                                       *)
LEMMA PostedWithout ==
  ASSUME NEW w, NEW s, PostedGood(w, s), NEW r \in Requests
  PROVE  /\ PostedGood(w, Without(s, r)) /\ NotPosted(Without(s, r), r)
         /\ PumpIn(s) => PumpIn(Without(s, r))
<1> DEFINE own == {i \in DOMAIN s : s[i].req = r}
           m == Max(own)
           a == SubSeq(s, 1, m - 1)
           b == SubSeq(s, m + 1, Len(s))
           t == Without(s, r)
<1>1. s \in Seq(Slots)
  BY DEF PostedGood
<1>2. Len(s) \in Nat /\ DOMAIN s = 1..Len(s) /\ \A i \in 1..Len(s) : s[i] \in Slots
  BY <1>1, LenProperties, ElementOfSeq
<1>3. CASE own = {}
  <2>1. t = s
    BY <1>3, Zenon DEF Without
  <2>2. NotPosted(s, r)
    BY <1>2, <1>3 DEF NotPosted
  <2>3. QED
    BY <2>1, <2>2
<1>4. CASE own # {}
  <2>1. own \subseteq 1..Len(s)
    BY <1>2
  <2>2. m \in own
    <3> HIDE DEF own
    <3> QED BY <1>2, <1>4, <2>1, MaxPosition
  <2>3. m \in 1..Len(s) /\ s[m].req = r
    BY <2>1, <2>2
  <2>4. t = a \o b
    BY <1>4, Zenon DEF Without
  <2> HIDE DEF m
  <2>5. /\ a \in Seq(Slots) /\ Len(a) = m - 1
        /\ \A i \in 1..(m - 1) : a[i] = s[i]
    <3>1. \A i \in 1..(m - 1) : s[i] \in Slots
      BY <1>2, <2>3
    <3>2. /\ a \in Seq(Slots)
          /\ Len(a) = IF 1 <= m - 1 THEN m - 1 - 1 + 1 ELSE 0
          /\ \A i \in 1..(m - 1 - 1 + 1) : a[i] = s[1 + i - 1]
      BY <3>1, <2>3, <1>2, SubSeqProperties
    <3>3. QED
      <4> HIDE DEF a
      <4> QED BY <3>2, <2>3, <1>2
  <2>6. /\ b \in Seq(Slots) /\ Len(b) = Len(s) - m
        /\ \A i \in 1..(Len(s) - m) : b[i] = s[m + i]
    <3>1. \A i \in (m + 1)..Len(s) : s[i] \in Slots
      BY <1>2, <2>3
    <3>2. /\ b \in Seq(Slots)
          /\ Len(b) = IF m + 1 <= Len(s) THEN Len(s) - (m + 1) + 1 ELSE 0
          /\ \A i \in 1..(Len(s) - (m + 1) + 1) : b[i] = s[(m + 1) + i - 1]
      BY <3>1, <2>3, <1>2, SubSeqProperties
    <3> HIDE DEF b
    <3>3. Len(b) = Len(s) - m
      <4>1. Len(b) = IF m + 1 <= Len(s) THEN Len(s) - (m + 1) + 1 ELSE 0
        BY <3>2
      <4>2. m \in 1..Len(s) /\ Len(s) \in Nat
        BY <2>3, <1>2
      <4>3. CASE m = Len(s)
        <5>1. ~(m + 1 <= Len(s)) /\ Len(s) - m = 0
          BY <4>2, <4>3
        <5>2. QED
          BY <4>1, <5>1
      <4>4. CASE m # Len(s)
        <5>1. m + 1 <= Len(s) /\ Len(s) - (m + 1) + 1 = Len(s) - m
          BY <4>2, <4>4
        <5>2. QED
          BY <4>1, <5>1
      <4>5. QED
        BY <4>3, <4>4
    <3>4. \A i \in 1..(Len(s) - m) : i \in 1..(Len(s) - (m + 1) + 1) /\ (m + 1) + i - 1 = m + i
      BY <2>3, <1>2
    <3>5. QED
      BY <3>2, <3>3, <3>4
  <2> HIDE DEF a, b, t
  <2>7. /\ t \in Seq(Slots) /\ Len(t) = Len(a) + Len(b)
        /\ \A i \in 1..(Len(a) + Len(b)) : t[i] = IF i <= Len(a) THEN a[i] ELSE b[i - Len(a)]
    BY <2>4, <2>5, <2>6, ConcatProperties
  <2>8. Len(t) = Len(s) - 1
    BY <2>3, <2>5, <2>6, <2>7, <1>2
  <2> DEFINE at(i) == IF i < m THEN i ELSE i + 1
  <2>9. \A i \in 1..Len(t) : at(i) \in 1..Len(s) /\ at(i) # m /\ t[i] = s[at(i)]
    <3> SUFFICES ASSUME NEW i \in 1..Len(t)
                 PROVE  at(i) \in 1..Len(s) /\ at(i) # m /\ t[i] = s[at(i)]
      OBVIOUS
    <3>1. CASE i < m
      BY <3>1, <2>3, <2>5, <2>6, <2>7, <2>8, <1>2
    <3>2. CASE i >= m
      <4>1. i - Len(a) \in 1..(Len(s) - m) /\ m + (i - Len(a)) = i + 1 /\ ~(i <= Len(a))
        BY <3>2, <2>3, <2>5, <2>8, <1>2
      <4>2. t[i] = b[i - Len(a)] /\ b[i - Len(a)] = s[i + 1]
        BY <4>1, <2>6, <2>7
      <4>3. QED
        BY <3>2, <4>2, <2>3, <2>8, <1>2
    <3>3. QED
      BY <3>1, <3>2, <2>3, <2>8, <1>2
  <2>10. \A i, j \in 1..Len(t) : i # j => at(i) # at(j)
    BY <2>3, <2>8, <1>2
  <2> HIDE DEF at
  <2>11. NotPosted(t, r)
    BY <2>3, <2>9 DEF NotPosted, PostedGood
  <2>12. PostedGood(w, t)
    <3>1. \A i, j \in 1..Len(t) : t[i].req \in Requests /\ i # j => t[i].req # t[j].req
      BY <2>9, <2>10 DEF PostedGood
    <3>2. \A i \in 1..Len(t) :
            /\ t[i].slot = "start" => t[i].req \in Requests /\ w.phase[t[i].req] = "created"
            /\ t[i].slot = "finish" => t[i].req \in Requests /\ w.phase[t[i].req] = "cleared"
            /\ t[i].slot = "pump" => t[i].req = "limiter"
      BY <2>9 DEF PostedGood
    <3>3. QED
      BY <2>7, <3>1, <3>2 DEF PostedGood
  <2>13. ASSUME NEW k \in 1..Len(s), s[k].slot = "pump" PROVE PumpIn(t)
    <3>1. s[k].req = "limiter"
      BY <2>13 DEF PostedGood
    <3>2. k # m
      BY <3>1, <2>3, ThumbnailerAssumption
    <3>3. \E i \in 1..Len(t) : at(i) = k
      <4>1. CASE k < m
        <5>1. k \in 1..Len(t) /\ at(k) = k
          BY <4>1, <2>3, <2>8, <1>2 DEF at
        <5>2. QED
          BY <5>1
      <4>2. CASE k > m
        <5>1. k - 1 \in 1..Len(t) /\ at(k - 1) = k
          BY <4>2, <2>3, <2>8, <1>2 DEF at
        <5>2. QED
          BY <5>1
      <4>3. QED
        BY <4>1, <4>2, <3>2, <2>3, <1>2
    <3>4. QED
      BY <3>3, <2>9, <2>13 DEF PumpIn
  <2>14. QED
    BY <2>11, <2>12, <2>13 DEF PumpIn, t
<1>5. QED
  BY <1>3, <1>4

-----------------------------------------------------------------------------
(* The invariant holds at first.                                           *)
LEMMA InitInv == Init => Inv
<1> SUFFICES ASSUME Init PROVE Inv
  OBVIOUS
<1>1. /\ work.running = 0 /\ work.suspended = FALSE /\ work.list = <<>>
      /\ work.phase = [r \in Requests |-> "none"]
      /\ work.answered = [r \in Requests |-> 0]
  BY DEF Init, NewWork
<1>2. work \in Works
  BY DEF Init, NewWork, Works, Phases
<1>3. Queued(work) = {} /\ Sent(work) = {}
  BY <1>1 DEF Queued, Sent
<1>4. Len(work.list) = 0
  BY <1>1, EmptySeq
<1>5. ListInv(work) /\ AnswerInv(work)
  BY <1>1, <1>3, <1>4 DEF ListInv, AnswerInv
<1>6. Balance(work) = 0
  BY <1>1, <1>3, FS_EmptySet DEF Balance
<1>7. PostedGood(work, posted)
  BY EmptySeq DEF Init, PostedGood
<1>8. TimerInv
  BY <1>1 DEF Init, Healthy, TimerInv
<1>9. QED
  BY <1>2, <1>3, <1>5, <1>6, <1>7, <1>8 DEF Init, Inv, GoodWork, Awaited

(* A request is made.                                                      *)
LEMMA CreateInv ==
  ASSUME Inv, NEW r \in Requests, Create(r)
  PROVE  Inv'
<1>1. /\ work.phase[r] = "none" /\ work' = Enter(work, r, "created")
      /\ posted' = Append(posted, Post("start", r))
      /\ onlyCache' \subseteq Requests /\ UNCHANGED <<cancelled, timer, health>>
  BY DEF Inv, Create
<1>2. GoodWork(work) /\ NotListed(work, r) /\ "created" \in Phases
  BY <1>1, OutsideTheList DEF Inv, Phases
<1>3. /\ GoodWork(work') /\ Spares(work, work', r) /\ work'.phase[r] = "created"
      /\ Queued(work') \subseteq Queued(work) /\ Sent(work') = Sent(work)
      /\ Balance(work') = Balance(work) /\ work'.suspended = work.suspended
  BY <1>1, <1>2, EnterEffect
<1>4. NotPosted(posted, r)
  BY <1>1, PostedPhases DEF Inv
<1>5. PostedGood(work', posted)
  BY <1>3, <1>4, PostedSpared DEF Inv
<1>6. /\ Post("start", r) \in Slots /\ Post("start", r).slot = "start"
      /\ Post("start", r).req = r
  BY DEF Post, Slots
<1>7. PostedGood(work', posted') /\ (PumpIn(posted) => PumpIn(posted'))
  <2> HIDE DEF Post
  <2> QED BY <1>1, <1>3, <1>4, <1>5, <1>6, PostedAppend
<1>8. TimerInv' /\ Awaited'
  BY <1>1, <1>3, <1>7 DEF Inv, TimerInv, Awaited
<1>9. QED
  BY <1>1, <1>3, <1>7, <1>8 DEF Inv

(* A request is cancelled.                                                 *)
LEMMA CancelInv ==
  ASSUME Inv, NEW r \in Requests, Cancel(r)
  PROVE  Inv'
<1>1. /\ cancelled' \subseteq Requests /\ UNCHANGED <<onlyCache, timer, health>>
  BY DEF Inv, Cancel
<1>2. CASE work.phase[r] = "queued"
  <2>1. work' = Enter(work, r, "cleared") /\ posted' = Append(posted, Post("finish", r))
    BY <1>2 DEF Cancel
  <2>2. GoodWork(work) /\ "cleared" \in Phases
    BY DEF Inv, Phases
  <2>3. /\ GoodWork(work') /\ Spares(work, work', r) /\ work'.phase[r] = "cleared"
        /\ Queued(work') \subseteq Queued(work) /\ Sent(work') = Sent(work)
        /\ Balance(work') = Balance(work) /\ work'.suspended = work.suspended
    BY <1>2, <2>1, <2>2, EnterEffect
  <2>4. NotPosted(posted, r)
    BY <1>2, PostedPhases DEF Inv
  <2>5. PostedGood(work', posted)
    BY <2>3, <2>4, PostedSpared DEF Inv
  <2>6. /\ Post("finish", r) \in Slots /\ Post("finish", r).slot = "finish"
        /\ Post("finish", r).req = r
    BY DEF Post, Slots
  <2>7. PostedGood(work', posted') /\ (PumpIn(posted) => PumpIn(posted'))
    BY <2>1, <2>3, <2>4, <2>5, <2>6, PostedAppend
  <2>8. TimerInv' /\ Awaited'
    BY <1>1, <2>3, <2>7 DEF Inv, TimerInv, Awaited
  <2>9. QED
    BY <1>1, <2>3, <2>7, <2>8 DEF Inv
<1>3. CASE work.phase[r] # "queued"
  <2>1. UNCHANGED <<work, posted>>
    BY <1>3 DEF Cancel
  <2>2. QED
    BY <1>1, <2>1 DEF Inv, TimerInv, Awaited
<1>4. QED
  BY <1>2, <1>3

(* A request is dropped that does not await its reply.                     *)
LEMMA DropInv ==
  ASSUME Patient, Inv, NEW r \in Requests, Drop(r)
  PROVE  Inv'
<1> DEFINE others == Without(posted, r)
           p == Post("pump", "limiter")
<1>1. /\ work' = Enter(work, r, "gone") /\ work.phase[r] # "sent"
      /\ posted' = others \/ posted' = Append(others, p)
      /\ cancelled' \subseteq Requests /\ UNCHANGED <<onlyCache, timer, health>>
  BY DEF Inv, Drop, Patient
<1>2. GoodWork(work) /\ "gone" \in Phases
  BY DEF Inv, Phases
<1>3. /\ GoodWork(work') /\ Spares(work, work', r) /\ work'.phase[r] = "gone"
      /\ Queued(work') \subseteq Queued(work) /\ Sent(work') = Sent(work)
      /\ Balance(work') = Balance(work) /\ work'.suspended = work.suspended
  BY <1>1, <1>2, EnterEffect
<1>4. /\ PostedGood(work, others) /\ NotPosted(others, r)
      /\ PumpIn(posted) => PumpIn(others)
  BY PostedWithout DEF Inv
<1>5. p \in Slots /\ p.slot = "pump" /\ p.req = "limiter" /\ p.req \notin Requests
  BY ThumbnailerAssumption DEF Post, Slots
<1> HIDE DEF others, p
<1>6. PostedGood(work', others)
  BY <1>3, <1>4, PostedSpared
<1>7. PostedGood(work', posted') /\ (PumpIn(posted) => PumpIn(posted'))
  BY <1>1, <1>4, <1>5, <1>6, PostedAppend
<1>8. TimerInv' /\ Awaited'
  BY <1>1, <1>3, <1>7 DEF Inv, TimerInv, Awaited
<1>9. QED
  BY <1>1, <1>3, <1>7, <1>8 DEF Inv

(* The counters of the service keep their types when the cache answers.    *)
Healths == [nwerr : Nat, netFailed : BOOLEAN, quota : Nat, refusals : Nat]

LEMMA HealthEffect ==
  ASSUME NEW h \in Healths, NEW w, NEW v, NEW missed
  PROVE  /\ OnReply(h) \in Healths /\ OnReply(h).quota = h.quota
         /\ OnNetworkError(h) \in Healths /\ OnNetworkError(h).quota = h.quota
         /\ OnCacheReplies(h, w, v, missed) \in Healths
         /\ OnCacheReplies(h, w, v, missed).quota = h.quota
<1>1. OnReply(h) \in Healths /\ OnReply(h).quota = h.quota
  BY DEF Healths, OnReply
<1>2. OnNetworkError(h) \in Healths /\ OnNetworkError(h).quota = h.quota
  <2> DEFINE n == h.nwerr + 1
             f == h.netFailed \/ h.nwerr > MaxNetworkError
  <2>1. n \in Nat /\ f \in BOOLEAN
    BY DEF Healths
  <2>2. OnNetworkError(h) = [h EXCEPT !.nwerr = n, !.netFailed = f]
    BY Zenon DEF OnNetworkError
  <2> HIDE DEF n, f
  <2>3. QED
    BY <2>1, <2>2 DEF Healths
<1>3. OnCacheReplies(h, w, v, missed) = h \/ OnCacheReplies(h, w, v, missed) = OnReply(h)
  BY Zenon DEF OnCacheReplies
<1>4. QED
  BY <1>1, <1>2, <1>3

(* The loop runs a slot.                                                   *)
LEMMA RunPostedInv ==
  ASSUME Inv, NEW cached, NEW missed \in BOOLEAN, RunPosted(cached, missed)
  PROVE  Inv'
<1> DEFINE p == Head(posted)
<1>1. /\ posted # <<>> /\ posted' = Tail(posted) /\ UNCHANGED <<cancelled, onlyCache, timer>>
      /\ health' = OnCacheReplies(health, work, work', missed)
  BY DEF RunPosted
<1>2. /\ PostedGood(work, posted') /\ p \in Slots /\ p = posted[1] /\ 1 \in 1..Len(posted)
      /\ p.req \in Requests => NotPosted(posted', p.req)
      /\ PumpIn(posted) /\ p.slot # "pump" => PumpIn(posted')
  BY <1>1, PostedTail DEF Inv
<1>3. health' \in Healths /\ health'.quota = health.quota
  BY <1>1, HealthEffect DEF Inv, TimerInv, Healths
<1>4. /\ GoodWork(work) /\ Balance(work) = 0 /\ Awaited /\ TimerInv
      /\ cancelled \subseteq Requests /\ onlyCache \subseteq Requests
  BY DEF Inv
<1>5. /\ GoodWork(work') /\ Balance(work') = 0 /\ work'.suspended = work.suspended
      /\ PostedGood(work', posted') /\ Awaited'
  <2>1. CASE p.slot = "start"
    <3>1. p.req \in Requests /\ work.phase[p.req] = "created"
      BY <1>2, <2>1 DEF Inv, PostedGood
    <3>2. CASE p.req \in cancelled
      <4>1. work' = Enter(work, p.req, "ignored")
        BY <2>1, <3>2 DEF RunPosted
      <4>2. NotListed(work, p.req) /\ "ignored" \in Phases
        BY <1>4, <3>1, OutsideTheList DEF Phases
      <4>3. /\ GoodWork(work') /\ Spares(work, work', p.req)
            /\ Queued(work') \subseteq Queued(work) /\ Sent(work') = Sent(work)
            /\ Balance(work') = Balance(work) /\ work'.suspended = work.suspended
        BY <1>4, <3>1, <4>1, <4>2, EnterEffect
      <4>4. PostedGood(work', posted')
        BY <1>2, <3>1, <4>3, PostedSpared
      <4>5. Awaited'
        BY <1>2, <1>4, <2>1, <4>3 DEF Awaited
      <4>6. QED
        BY <1>4, <4>3, <4>4, <4>5
    <3>3. CASE p.req \notin cancelled
      <4>1. work' = Schedule(work, p.req, cached)
        BY <2>1, <3>3 DEF RunPosted
      <4>2. /\ GoodWork(work') /\ Balance(work') = 0 /\ Settled(work')
            /\ work'.suspended = work.suspended /\ Spares(work, work', p.req)
        BY <1>4, <3>1, <4>1, ScheduleEffect
      <4>3. PostedGood(work', posted')
        BY <1>2, <3>1, <4>2, PostedSpared
      <4>4. QED
        BY <4>2, <4>3 DEF Awaited, Settled
    <3>4. QED
      BY <3>2, <3>3
  <2>2. CASE p.slot = "finish"
    <3>1. p.req \in Requests /\ work.phase[p.req] = "cleared"
      BY <1>2, <2>2 DEF Inv, PostedGood
    <3>2. work' = Complete(work, p.req)
      BY <2>2 DEF RunPosted
    <3>3. /\ GoodWork(work') /\ Others(work, work', p.req)
          /\ Queued(work') = Queued(work) /\ Sent(work') = Sent(work) \ {p.req}
          /\ work'.running = work.running /\ work'.suspended = work.suspended
      BY <1>4, <3>1, <3>2, CompleteEffect
    <3>4. Sent(work') = Sent(work)
      BY <3>1, <3>3 DEF Sent
    <3>5. Balance(work') = 0
      BY <1>4, <3>3, <3>4 DEF Balance
    <3>6. PostedGood(work', posted')
      BY <1>2, <3>1, <3>3, PostedSpared DEF Spares, Others
    <3>7. Awaited'
      BY <1>2, <1>4, <2>2, <3>3, <3>4 DEF Awaited
    <3>8. QED
      BY <3>3, <3>5, <3>6, <3>7
  <2>3. CASE p.slot = "pump"
    <3>1. work' = Pump(work, cached) /\ p.req = "limiter"
      BY <1>2, <2>3 DEF RunPosted, Inv, PostedGood
    <3>2. Pumps(work, work')
      BY <1>4, <3>1, PumpEffect
    <3>3. Balance(work') = 0
      BY <1>4, <3>2, CountsKeepBalance DEF Pumps, GoodWork
    <3>4. PostedGood(work', posted')
      BY <1>2, <3>2 DEF PostedGood, Pumps
    <3>5. Awaited'
      BY <3>2 DEF Pumps, Awaited
    <3>6. QED
      BY <3>2, <3>3, <3>4, <3>5 DEF Pumps
  <2>4. QED
    BY <1>2, <2>1, <2>2, <2>3 DEF Slots
<1>6. TimerInv'
  BY <1>1, <1>3, <1>4, <1>5 DEF TimerInv, Healths
<1>7. QED
  BY <1>1, <1>4, <1>5, <1>6 DEF Inv

(* A single field of the work that pump() looks at.                        *)
LEMMA SuspensionEffect ==
  ASSUME NEW w, GoodWork(w), NEW b \in BOOLEAN
  PROVE  LET v == [w EXCEPT !.suspended = b] IN
         /\ GoodWork(v) /\ v.suspended = b /\ v.phase = w.phase
         /\ Sent(v) = Sent(w) /\ Queued(v) = Queued(w) /\ Balance(v) = Balance(w)
<1> DEFINE v == [w EXCEPT !.suspended = b]
<1>1. /\ v \in Works /\ v.suspended = b /\ v.phase = w.phase /\ v.list = w.list
      /\ v.answered = w.answered /\ v.running = w.running
  BY DEF GoodWork, Works
<1> HIDE DEF v
<1>2. Sent(v) = Sent(w) /\ Queued(v) = Queued(w)
  BY <1>1 DEF Sent, Queued
<1>3. GoodWork(v) /\ Balance(v) = Balance(w)
  BY <1>1, <1>2 DEF GoodWork, ListInv, AnswerInv, Balance
<1>4. QED
  BY <1>1, <1>2, <1>3 DEF v

(* A reply comes in.                                                       *)
LEMMA ReplyInv ==
  ASSUME Inv, NEW r \in Requests, NEW outcome, NEW cached, NEW missed \in BOOLEAN,
         Reply(r, outcome, cached, missed)
  PROVE  Inv'
<1> DEFINE d == Done(work, cached)
           h == OnCacheReplies(health, work, d, missed)
<1>1. /\ GoodWork(work) /\ Balance(work) = 0 /\ Awaited /\ TimerInv /\ PostedGood(work, posted)
      /\ cancelled \subseteq Requests /\ onlyCache \subseteq Requests
  BY DEF Inv
<1>2. work.phase[r] = "sent" /\ r \in Sent(work) /\ UNCHANGED <<cancelled, onlyCache, posted>>
  BY DEF Reply, Sent
<1>3. /\ GoodWork(d) /\ Balance(d) = -1 /\ d.phase[r] = "sent"
      /\ d.suspended = work.suspended /\ Spares(work, d, r)
      /\ ~work.suspended => Queued(d) = {} \/ Sent(d) \ {r} # {}
  BY <1>1, <1>2, DoneEffect
<1>4. h \in Healths /\ h.quota = health.quota
  BY <1>1, HealthEffect DEF TimerInv, Healths
<1>5. NotPosted(posted, r)
  BY <1>1, <1>2, PostedPhases
<1>6. CASE work' = Complete(d, r) /\ health' \in Healths /\ health'.quota = health.quota
           /\ UNCHANGED timer
  <2> HIDE DEF d, h
  <2>1. /\ GoodWork(work') /\ Others(d, work', r) /\ Queued(work') = Queued(d)
        /\ Sent(work') = Sent(d) \ {r} /\ work'.running = d.running
        /\ work'.suspended = d.suspended
    BY <1>3, <1>6, CompleteEffect
  <2>2. r \in Sent(d) /\ d.running \in Nat
    BY <1>3 DEF Sent, GoodWork, Works
  <2>3. Balance(work') = 0
    <3>1. Balance(work') = Balance(d) + 1
      BY <2>1, <2>2, LessOneSent
    <3>2. QED
      BY <3>1, <1>3
  <2>4. PostedGood(work', posted)
    BY <1>1, <1>3, <1>5, <2>1, PostedSpared DEF Spares, Others
  <2>5. Awaited'
    BY <1>3, <2>1 DEF Awaited
  <2>6. TimerInv'
    BY <1>1, <1>3, <1>6, <2>1 DEF TimerInv, Healths
  <2>7. QED
    BY <1>1, <1>2, <2>1, <2>3, <2>4, <2>5, <2>6 DEF Inv
<1>7. CASE r \in cancelled
  <2>1. work' = Complete(d, r) /\ health' = h /\ UNCHANGED timer
    BY <1>7, Zenon DEF Reply
  <2>2. QED
    BY <1>4, <1>6, <2>1
<1>8. CASE r \notin cancelled /\ outcome # "quota"
  <2>1. /\ work' = Complete(d, r) /\ UNCHANGED timer
        /\ health' = CASE outcome = "network" -> OnNetworkError(h)
                       [] outcome = "fatal"   -> h
                       [] OTHER               -> OnReply(h)
    BY <1>8, Zenon DEF Reply
  <2> HIDE DEF d, h
  <2>2. health' \in {OnNetworkError(h), h, OnReply(h)}
    BY <2>1
  <2>3. health' \in Healths /\ health'.quota = health.quota
    BY <1>4, <2>2, HealthEffect
  <2>4. QED
    BY <1>6, <2>1, <2>3 DEF d
<1>9. CASE r \notin cancelled /\ outcome = "quota"
  <2> DEFINE s == IF h.quota = 0 THEN [d EXCEPT !.suspended = TRUE] ELSE d
             q == h.quota + 1
             f == h.refusals + 1
  <2>1. /\ work' = Schedule(s, r, cached)
        /\ health' = [h EXCEPT !.quota = q, !.refusals = f]
        /\ timer' = (timer \/ h.quota = 0)
    BY <1>9, Zenon DEF Reply
  <2>2. /\ GoodWork(s) /\ s.suspended = TRUE /\ s.phase = d.phase
        /\ Sent(s) = Sent(d) /\ Queued(s) = Queued(d) /\ Balance(s) = Balance(d)
    <3> HIDE DEF d, h
    <3>1. CASE h.quota = 0
      BY <1>3, <3>1, SuspensionEffect
    <3>2. CASE h.quota # 0
      <4>1. d.suspended = TRUE
        BY <1>1, <1>3, <1>4, <3>2 DEF TimerInv
      <4>2. QED
        BY <1>3, <3>2, <4>1
    <3>3. QED
      BY <3>1, <3>2
  <2>3. q \in Nat /\ f \in Nat /\ q # 0
    BY <1>4 DEF Healths
  <2> HIDE DEF s, d, h, q, f
  <2>4. work' = Enqueued(s, r)
    BY <2>1, <2>2, Zenon DEF Schedule, Enqueued
  <2>5. /\ GoodWork(work') /\ Others(s, work', r)
        /\ Sent(work') = Sent(s) \ {r}
        /\ work'.running = s.running /\ work'.suspended = s.suspended
    BY <1>3, <2>2, <2>4, QueueEffect
  <2>6. r \in Sent(s) /\ s.running \in Nat
    BY <1>3, <2>2 DEF Sent, GoodWork, Works
  <2>7. Balance(work') = 0
    <3>1. Balance(work') = Balance(s) + 1
      BY <2>5, <2>6, LessOneSent
    <3>2. QED
      BY <3>1, <2>2, <1>3
  <2>8. PostedGood(work', posted)
    BY <1>1, <1>3, <1>5, <2>2, <2>5, PostedSpared DEF Spares, Others
  <2>9. Awaited'
    BY <2>2, <2>5 DEF Awaited
  <2>10. health' \in Healths /\ health'.quota # 0
    BY <1>4, <2>1, <2>3 DEF Healths
  <2>11. timer' = TRUE
    BY <1>1, <1>4, <2>1 DEF TimerInv
  <2>12. TimerInv'
    BY <2>2, <2>5, <2>10, <2>11 DEF TimerInv, Healths
  <2>13. QED
    BY <1>1, <1>2, <2>5, <2>7, <2>8, <2>9, <2>12 DEF Inv
<1>10. QED
  BY <1>7, <1>8, <1>9

(* The timer ends the suspension.                                          *)
LEMMA QuotaTimerInv ==
  ASSUME Inv, NEW cached, NEW missed \in BOOLEAN, QuotaTimer(cached, missed)
  PROVE  Inv'
<1> DEFINE s == [work EXCEPT !.suspended = FALSE]
           h == OnCacheReplies(health, work, work', missed)
<1>1. /\ GoodWork(work) /\ Balance(work) = 0 /\ TimerInv /\ PostedGood(work, posted)
      /\ cancelled \subseteq Requests /\ onlyCache \subseteq Requests
  BY DEF Inv
<1>2. work.suspended = TRUE
  BY <1>1 DEF TimerInv, QuotaTimer
<1>3. /\ work' = Pump(s, cached) /\ timer' = FALSE /\ health' = [h EXCEPT !.quota = 0]
      /\ UNCHANGED <<cancelled, onlyCache, posted>>
  BY <1>2 DEF QuotaTimer
<1>4. /\ GoodWork(s) /\ s.suspended = FALSE /\ s.phase = work.phase
      /\ Sent(s) = Sent(work) /\ Queued(s) = Queued(work) /\ Balance(s) = Balance(work)
  BY <1>1, SuspensionEffect
<1>5. h \in Healths
  BY <1>1, HealthEffect DEF TimerInv, Healths
<1> HIDE DEF s, h
<1>6. Pumps(s, work')
  BY <1>3, <1>4, PumpEffect
<1>7. Balance(work') = 0
  BY <1>1, <1>4, <1>6, CountsKeepBalance DEF Pumps, GoodWork
<1>8. PostedGood(work', posted)
  BY <1>1, <1>4, <1>6 DEF PostedGood, Pumps
<1>9. Awaited'
  BY <1>4, <1>6 DEF Pumps, Awaited
<1>10. health' \in Healths /\ health'.quota = 0
  BY <1>3, <1>5 DEF Healths
<1>11. TimerInv'
  BY <1>3, <1>4, <1>6, <1>10 DEF TimerInv, Healths, Pumps
<1>12. QED
  BY <1>1, <1>3, <1>6, <1>7, <1>8, <1>9, <1>11 DEF Inv, Pumps

(* Every step keeps the invariant.                                         *)
LEMMA NextInv ==
  ASSUME Patient
  PROVE  Inv /\ [Next]_vars => Inv'
<1> SUFFICES ASSUME Inv, [Next]_vars PROVE Inv'
  OBVIOUS
<1>1. ASSUME NEW r \in Requests, Create(r) PROVE Inv'
  BY <1>1, CreateInv
<1>2. ASSUME NEW r \in Requests, Cancel(r) PROVE Inv'
  BY <1>2, CancelInv
<1>3. ASSUME NEW r \in Requests, Drop(r) PROVE Inv'
  BY <1>3, DropInv
<1>4. CASE Loop
  BY <1>4, RunPostedInv DEF Loop
<1>5. ASSUME NEW r \in Requests, Network(r) PROVE Inv'
  BY <1>5, ReplyInv DEF Network
<1>6. CASE Clock
  BY <1>6, QuotaTimerInv DEF Clock
<1>7. CASE UNCHANGED vars
  BY <1>7 DEF vars, Inv, TimerInv, Awaited
<1>8. QED
  BY <1>1, <1>2, <1>3, <1>4, <1>5, <1>6, <1>7 DEF Next

(* The invariant holds in every behaviour in which clients do not drop a   *)
(* request that awaits its reply.                                          *)
LEMMA InvAlways ==
  ASSUME Patient
  PROVE  Spec => []Inv
<1>1. Init => Inv
  BY InitInv
<1>2. Inv /\ [Next]_vars => Inv'
  BY NextInv
<1>3. QED
  BY <1>1, <1>2, PTL DEF Spec

-----------------------------------------------------------------------------
(* The types of the variables; the list holds each request at most once.   *)
THEOREM TypeCorrect ==
  ASSUME Patient
  PROVE  Spec => []TypeOK
<1>1. Inv => TypeOK
  <2> SUFFICES ASSUME Inv PROVE TypeOK
    OBVIOUS
  <2>1. work \in Works /\ ListInv(work) /\ TimerInv
    BY DEF Inv, GoodWork
  <2>2. \A i \in DOMAIN posted : posted[i].slot \in {"start", "finish", "pump"}
    <3>1. posted \in Seq(Slots)
      BY DEF Inv, PostedGood
    <3>2. \A i \in DOMAIN posted : posted[i] \in Slots
      BY <3>1, ElementOfSeq, LenProperties
    <3>3. QED
      BY <3>2 DEF Slots
  <2>3. \A i, j \in DOMAIN work.list : i # j => work.list[i] # work.list[j]
    BY <2>1, ListFacts DEF ListInv, Inv
  <2>4. QED
    BY <2>1, <2>2, <2>3 DEF TypeOK, Works, TimerInv, Inv
<1>2. QED
  BY <1>1, InvAlways, PTL

(* The limiter's running_ is the number of the requests that were sent and *)
(* await their reply, after any sequence of cancellations, drops of other  *)
(* requests, answers of the cache inside pump(), and refusals.             *)
THEOREM CountIsExact ==
  ASSUME Patient
  PROVE  Spec => []RunningIsExact
<1>1. Inv => RunningIsExact
  <2> SUFFICES ASSUME Inv PROVE RunningIsExact
    OBVIOUS
  <2>1. work.running \in Nat /\ Cardinality(Sent(work)) \in Nat
    BY SentIsFinite DEF Inv, GoodWork, Works
  <2>2. QED
    BY <2>1 DEF Inv, Balance, Sent, RunningIsExact, InPhase
<1>2. QED
  BY <1>1, InvAlways, PTL

(* A request waits in the limiter's list only while a reply, the end of a  *)
(* suspension or a posted pump_limiter() is awaited that will serve it.    *)
THEOREM NoWakeupIsLost ==
  ASSUME Patient
  PROVE  Spec => []NoLostWakeup
<1>1. Inv => NoLostWakeup
  <2> SUFFICES ASSUME Inv PROVE NoLostWakeup
    OBVIOUS
  <2>1. InPhase("queued") = Queued(work) /\ InPhase("sent") = Sent(work)
    BY DEF InPhase, Queued, Sent
  <2>2. PumpIn(posted) => \E i \in DOMAIN posted : posted[i].slot = "pump"
    BY LenProperties DEF PumpIn, Inv, PostedGood
  <2>3. QED
    BY <2>1, <2>2 DEF NoLostWakeup, Inv, Awaited, TimerInv
<1>2. QED
  BY <1>1, InvAlways, PTL

(* finished() is emitted at most once for a request.                       *)
THEOREM AnsweredAtMostOnce ==
  ASSUME Patient
  PROVE  Spec => []AnsweredOnce
<1>1. Inv => AnsweredOnce
  BY DEF Inv, GoodWork, AnswerInv, AnsweredOnce
<1>2. QED
  BY <1>1, InvAlways, PTL
=============================================================================
