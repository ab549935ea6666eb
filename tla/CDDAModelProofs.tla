--------------------------- MODULE CDDAModelProofs ---------------------------
(***************************************************************************)
(* What CDDAModel promises of any drives, discs and numbers of insertions, *)
(* proved from one inductive invariant, Inv.                               *)
(***************************************************************************)
EXTENDS CDDAModel, FiniteSetTheorems, SequenceTheorems, TLAPS

(* No disc is removed before the bus is scanned.                           *)
Patience == ~EarlyRemovals

Selecting(s, i) == i \in DOMAIN s.boxes /\ s.boxes[i].kind = "select"

(* Of a transaction: who owns it, and that nobody else ends it.  An error  *)
(* box under which the client will return a failure once more ends what is *)
(* pending then: it has no thread, and no question below it.               *)
Owned(s) ==
  /\ s.looking # None => s.pending /\ s.musicBrainz
  /\ \A i \in DOMAIN s.boxes :
       Selecting(s, i) => /\ s.pending /\ s.looking = None
                          /\ \A j \in DOMAIN s.boxes : Selecting(s, j) => j = i
  /\ s.pending => s.looking # None \/ \E i \in DOMAIN s.boxes : Selecting(s, i)
  /\ \A i \in DOMAIN s.boxes :
       s.boxes[i].again => ~s.musicBrainz /\ \A j \in 1..(i - 1) : ~Selecting(s, j)

(* Of what has been found and what is under way: whose it is.              *)
Ours(s, c) ==
  /\ s.pn # None =>
       /\ {s.info, s.typed, s.looking} \subseteq {None, s.pn} \cup c
       /\ s.cover \cup s.search \subseteq {None, s.pn} \cup c
       /\ \A i \in DOMAIN s.boxes : s.boxes[i].disc \in {None, s.pn} \cup c

(* No removal of the drive is announced; nothing is.                       *)
Quiet(d) == \A k \in DOMAIN solid : solid[k].drive = d => solid[k].kind = "added"
Silent(d) == \A k \in DOMAIN solid : solid[k].drive # d

(* Of the drives: what is known of one agrees with it, unless a            *)
(* notification is on its way that will make it agree.                     *)
Following ==
  /\ ~scanned => \A d \in Drives : Quiet(d)
  /\ app.udi # None => app.udi \in app.known
  /\ \A d \in Drives : Quiet(d) => /\ d \in app.known => Audio(tray[d])
                                   /\ app.udi = d => tray[d] = app.pn
  /\ \A d \in Drives : scanned /\ Silent(d) => (Audio(tray[d]) => d \in app.known)
  /\ \A k \in DOMAIN solid :
       /\ solid[k].kind = "removed"
       /\ \A j \in DOMAIN solid : j > k => solid[j].drive # solid[k].drive
       => tray[solid[k].drive] = None

Inv == TypeOK /\ Owned(app) /\ Ours(app, crossed)

-----------------------------------------------------------------------------
(* What each handler does to the state, field by field.  Still: the fields *)
(* that only the notifications change are as they were.                    *)
Still(s, t) ==
  /\ t.musicBrainz = s.musicBrainz /\ t.known = s.known
  /\ t.udi = s.udi /\ t.pn = s.pn /\ t.toc = s.toc /\ t.sel = s.sel

LEMMA PushDoes ==
  ASSUME NEW s \in Apps, NEW b \in Boxes
  PROVE  LET t == Push(s, b)
         IN  /\ t \in Apps /\ Still(s, t)
             /\ t.boxes = Append(s.boxes, b)
             /\ <<t.info, t.typed, t.cover, t.pending, t.looking, t.searching, t.search>>
                  = <<s.info, s.typed, s.cover, s.pending, s.looking, s.searching, s.search>>
<1> DEFINE more == Append(s.boxes, b)
<1>1. more \in Seq(Boxes)
  <2>1. s.boxes \in Seq(Boxes)
    BY DEF Apps
  <2> QED
    BY <2>1
<1>2. Push(s, b) = [s EXCEPT !.boxes = more]
  BY DEF Push
<1> HIDE DEF more
<1> SUFFICES [s EXCEPT !.boxes = more] \in Apps
  BY <1>2 DEF Apps, Still, more
<1> QED
  BY <1>1 DEF Apps

LEMMA WordsAre ==
  ASSUME NEW s \in Apps
  PROVE  /\ Words(s) \in SUBSET (Discs \cup {None})
         /\ Words(s) \subseteq {None, s.info, s.typed}
BY DEF Words, Apps

LEMMA FetchCoverDoes ==
  ASSUME NEW s \in Apps
  PROVE  LET t == FetchCover(s)
         IN  /\ t \in Apps /\ Still(s, t)
             /\ <<t.info, t.typed, t.cover, t.pending, t.looking, t.boxes>>
                  = <<s.info, s.typed, s.cover, s.pending, s.looking, s.boxes>>
             /\ t.search \in {s.search, Words(s)}
<1> DEFINE w == Words(s)
<1>1. w \in SUBSET (Discs \cup {None})
  BY WordsAre
<1>2. FetchCover(s) = IF s.empty \/ s.searching THEN s
                      ELSE [s EXCEPT !.searching = TRUE, !.search = w]
  BY DEF FetchCover
<1> HIDE DEF w
<1>3. CASE s.empty \/ s.searching
  BY <1>2, <1>3 DEF Still
<1>4. CASE ~(s.empty \/ s.searching)
  BY <1>1, <1>2, <1>4 DEF Apps, Still, w
<1> QED
  BY <1>3, <1>4

LEMMA PopDoes ==
  ASSUME NEW s \in Apps, s.boxes # <<>>
  PROVE  LET t == Pop(s)
         IN  /\ t \in Apps /\ Still(s, t)
             /\ DOMAIN s.boxes = 1..Len(s.boxes) /\ Len(s.boxes) \in Nat \ {0}
             /\ DOMAIN t.boxes = 1..(Len(s.boxes) - 1)
             /\ \A i \in DOMAIN t.boxes : t.boxes[i] = s.boxes[i]
             /\ <<t.info, t.typed, t.cover, t.pending, t.looking, t.searching, t.search>>
                  = <<s.info, s.typed, s.cover, s.pending, s.looking, s.searching, s.search>>
<1> DEFINE fewer == SubSeq(s.boxes, 1, Len(s.boxes) - 1)
<1>1. /\ fewer \in Seq(Boxes) /\ Len(s.boxes) \in Nat \ {0}
      /\ DOMAIN s.boxes = 1..Len(s.boxes)
      /\ DOMAIN fewer = 1..(Len(s.boxes) - 1)
      /\ \A i \in DOMAIN fewer : fewer[i] = s.boxes[i]
  <2>1. s.boxes \in Seq(Boxes)
    BY DEF Apps
  <2> QED
    BY <2>1
<1>2. Pop(s) = [s EXCEPT !.boxes = fewer]
  BY DEF Pop
<1> HIDE DEF fewer
<1>3. [s EXCEPT !.boxes = fewer] \in Apps
  BY <1>1 DEF Apps
<1>4. Pop(s).boxes = fewer
  BY <1>2 DEF Apps
<1>5. /\ Still(s, Pop(s))
      /\ <<Pop(s).info, Pop(s).typed, Pop(s).cover, Pop(s).pending, Pop(s).looking,
           Pop(s).searching, Pop(s).search>>
           = <<s.info, s.typed, s.cover, s.pending, s.looking, s.searching, s.search>>
  BY <1>2 DEF Apps, Still
<1> QED
  BY <1>1, <1>2, <1>3, <1>4, <1>5

-----------------------------------------------------------------------------
(* The handlers of a lookup, from the last to the first.                   *)

(* No transaction is owned, although it may be pending still.              *)
Idle(s) ==
  /\ s.looking = None
  /\ \A i \in DOMAIN s.boxes : ~Selecting(s, i) /\ (s.boxes[i].again => ~s.musicBrainz)

LEMMA IdleUnlessPending ==
  ASSUME NEW s \in Apps, Owned(s), ~s.pending
  PROVE  Idle(s)
BY DEF Owned, Idle, Selecting

LEMMA AppendDoes ==
  ASSUME NEW q \in Seq(Boxes), NEW b \in Boxes
  PROVE  LET r == Append(q, b)
         IN  /\ Len(q) \in Nat /\ DOMAIN q = 1..Len(q)
             /\ DOMAIN r = 1..(Len(q) + 1)
             /\ r[Len(q) + 1] = b
             /\ \A i \in DOMAIN q : r[i] = q[i]
OBVIOUS

LEMMA LookupFailedDoes ==
  ASSUME NEW s \in Apps, NEW again \in BOOLEAN, NEW c,
         Idle(s), again => ~s.musicBrainz, Ours(s, c)
  PROVE  LET t == LookupFailed(s, again)
         IN  t \in Apps /\ Still(s, t) /\ Owned(t) /\ Ours(t, c)
<1> DEFINE u == [s EXCEPT !.pending = FALSE]
           b == Box("error", None, again)
           t == Push(u, b)
<1>1. /\ u \in Apps /\ Still(s, u) /\ ~u.pending
      /\ <<u.info, u.typed, u.cover, u.looking, u.searching, u.search, u.boxes>>
           = <<s.info, s.typed, s.cover, s.looking, s.searching, s.search, s.boxes>>
  BY DEF Apps, Still
<1>2. b \in Boxes /\ b.kind = "error" /\ b.again = again /\ b.disc = None
  BY DEF Box, Boxes
<1>3. LookupFailed(s, again) = t
  BY DEF LookupFailed
<1> HIDE DEF u, b
<1>4. /\ t \in Apps /\ Still(u, t)
      /\ t.boxes = Append(u.boxes, b)
      /\ <<t.info, t.typed, t.cover, t.pending, t.looking, t.searching, t.search>>
           = <<u.info, u.typed, u.cover, u.pending, u.looking, u.searching, u.search>>
  BY <1>1, <1>2, PushDoes
<1> HIDE DEF t
<1>5. /\ Len(s.boxes) \in Nat /\ DOMAIN s.boxes = 1..Len(s.boxes)
      /\ DOMAIN t.boxes = 1..(Len(s.boxes) + 1)
      /\ t.boxes[Len(s.boxes) + 1] = b
      /\ \A i \in DOMAIN s.boxes : t.boxes[i] = s.boxes[i]
  <2>1. s.boxes \in Seq(Boxes)
    BY DEF Apps
  <2> QED
    BY <2>1, <1>1, <1>2, <1>4, AppendDoes
<1>6. Still(s, t)
  BY <1>1, <1>4 DEF Still
<1>7. Owned(t)
  <2>1. \A i \in DOMAIN t.boxes : ~Selecting(t, i) /\ (t.boxes[i].again => ~t.musicBrainz)
    BY <1>2, <1>5, <1>6 DEF Idle, Selecting, Still
  <2>2. t.looking = None /\ ~t.pending
    BY <1>1, <1>4 DEF Idle
  <2> QED
    BY <2>1, <2>2 DEF Owned, Selecting
<1>8. Ours(t, c)
  BY <1>1, <1>2, <1>4, <1>5, <1>6 DEF Ours, Still
<1> QED
  BY <1>3, <1>4, <1>6, <1>7, <1>8

(* The search for a cover leaves transactions alone, and is for the entry. *)
LEMMA FetchCoverKeeps ==
  ASSUME NEW s \in Apps, NEW c
  PROVE  /\ Owned(s) => Owned(FetchCover(s))
         /\ Idle(s) => Idle(FetchCover(s))
         /\ Ours(s, c) => Ours(FetchCover(s), c)
<1> DEFINE t == FetchCover(s)
<1>1. /\ t \in Apps /\ Still(s, t)
      /\ <<t.info, t.typed, t.cover, t.pending, t.looking, t.boxes>>
           = <<s.info, s.typed, s.cover, s.pending, s.looking, s.boxes>>
      /\ t.search \in {s.search, Words(s)}
  BY FetchCoverDoes
<1> HIDE DEF t
<1>2. Owned(s) => Owned(t)
  BY <1>1 DEF Owned, Selecting, Still
<1>3. Idle(s) => Idle(t)
  BY <1>1 DEF Idle, Selecting, Still
<1>4. Ours(s, c) => Ours(t, c)
  BY <1>1, WordsAre DEF Ours, Still
<1> QED
  BY <1>2, <1>3, <1>4 DEF t

LEMMA TakeEntryDoes ==
  ASSUME NEW s \in Apps, NEW x \in Discs \cup {None}, NEW c,
         Idle(s), Ours(s, c), s.pn # None => x \in {None, s.pn} \cup c
  PROVE  LET t == TakeEntry(s, x)
         IN  t \in Apps /\ Still(s, t) /\ Owned(t) /\ Ours(t, c)
<1> DEFINE u == [s EXCEPT !.info = x, !.typed = None, !.empty = FALSE, !.pending = FALSE]
<1>1. /\ u \in Apps /\ Still(s, u) /\ ~u.pending /\ u.info = x /\ u.typed = None
      /\ <<u.cover, u.looking, u.searching, u.search, u.boxes>>
           = <<s.cover, s.looking, s.searching, s.search, s.boxes>>
  BY DEF Apps, Still
<1>2. TakeEntry(s, x) = FetchCover(u)
  BY DEF TakeEntry
<1> HIDE DEF u
<1>3. Owned(u)
  BY <1>1 DEF Owned, Idle, Selecting, Still
<1>4. Ours(u, c)
  BY <1>1 DEF Ours, Still
<1>5. FetchCover(u) \in Apps /\ Still(u, FetchCover(u))
  BY <1>1, FetchCoverDoes
<1>6. Still(s, FetchCover(u))
  BY <1>1, <1>5 DEF Still
<1> QED
  BY <1>1, <1>2, <1>3, <1>4, <1>5, <1>6, FetchCoverKeeps

LEMMA LookupFoundDoes ==
  ASSUME NEW s \in Apps, NEW x \in Discs \cup {None}, NEW several \in BOOLEAN, NEW c,
         Idle(s), s.pending, Ours(s, c), s.pn # None => x \in {None, s.pn} \cup c
  PROVE  LET t == LookupFound(s, x, several)
         IN  t \in Apps /\ Still(s, t) /\ Owned(t) /\ Ours(t, c)
<1>1. CASE ~several
  BY <1>1, TakeEntryDoes DEF LookupFound
<1>2. CASE several
  <2> DEFINE b == Box("select", x, FALSE)
             t == Push(s, b)
  <2>1. b \in Boxes /\ b.kind = "select" /\ ~b.again /\ b.disc = x
    BY DEF Box, Boxes
  <2>2. LookupFound(s, x, several) = t
    BY <1>2 DEF LookupFound
  <2> HIDE DEF b
  <2>3. /\ t \in Apps /\ Still(s, t)
        /\ t.boxes = Append(s.boxes, b)
        /\ <<t.info, t.typed, t.cover, t.pending, t.looking, t.searching, t.search>>
             = <<s.info, s.typed, s.cover, s.pending, s.looking, s.searching, s.search>>
    BY <2>1, PushDoes
  <2> HIDE DEF t
  <2>4. /\ Len(s.boxes) \in Nat /\ DOMAIN s.boxes = 1..Len(s.boxes)
        /\ DOMAIN t.boxes = 1..(Len(s.boxes) + 1)
        /\ t.boxes[Len(s.boxes) + 1] = b
        /\ \A i \in DOMAIN s.boxes : t.boxes[i] = s.boxes[i]
    <3>1. s.boxes \in Seq(Boxes)
      BY DEF Apps
    <3> QED
      BY <3>1, <2>1, <2>3, AppendDoes
  <2>5. Owned(t)
    <3>1. /\ Selecting(t, Len(s.boxes) + 1)
          /\ \A i \in DOMAIN t.boxes : Selecting(t, i) => i = Len(s.boxes) + 1
      BY <2>1, <2>4 DEF Idle, Selecting
    <3>2. \A i \in DOMAIN t.boxes : t.boxes[i].again => i \in DOMAIN s.boxes /\ ~t.musicBrainz
      BY <2>1, <2>3, <2>4 DEF Idle, Still
    <3>3. t.looking = None /\ t.pending
      BY <2>3 DEF Idle
    <3>4. \A i \in DOMAIN t.boxes : t.boxes[i].again => \A j \in 1..(i - 1) : ~Selecting(t, j)
      BY <3>1, <3>2, <2>4
    <3>5. Len(s.boxes) + 1 \in DOMAIN t.boxes
      BY <2>4
    <3> QED
      BY <3>1, <3>2, <3>3, <3>4, <3>5 DEF Owned
  <2>6. Ours(t, c)
    BY <2>1, <2>3, <2>4 DEF Ours, Still
  <2> QED
    BY <2>2, <2>3, <2>5, <2>6
<1> QED
  BY <1>1, <1>2

LEMMA LookupDoes ==
  ASSUME NEW s \in Apps, NEW cached \in BOOLEAN, NEW several \in BOOLEAN, NEW c,
         Owned(s), Ours(s, c)
  PROVE  LET t == LookupCDDB(s, cached, several)
         IN  t \in Apps /\ Still(s, t) /\ Owned(t) /\ Ours(t, c)
<1> DEFINE p == [s EXCEPT !.pending = TRUE]
           q == [p EXCEPT !.looking = s.pn]
<1>1. CASE s.pn = None \/ s.pending
  BY <1>1 DEF LookupCDDB, Still
<1>2. CASE ~(s.pn = None \/ s.pending)
  <2>1. /\ p \in Apps /\ Still(s, p) /\ p.pending
        /\ <<p.info, p.typed, p.cover, p.looking, p.searching, p.search, p.boxes>>
             = <<s.info, s.typed, s.cover, s.looking, s.searching, s.search, s.boxes>>
    BY DEF Apps, Still
  <2>2. /\ q \in Apps /\ Still(s, q) /\ q.pending /\ q.looking = s.pn
        /\ <<q.info, q.typed, q.cover, q.searching, q.search, q.boxes>>
             = <<s.info, s.typed, s.cover, s.searching, s.search, s.boxes>>
    BY DEF Apps, Still
  <2>3. LookupCDDB(s, cached, several)
          = IF Tracks(s) = {} THEN LookupFailed(p, FALSE)
            ELSE IF cached THEN LookupFound(p, s.pn, several)
            ELSE IF s.musicBrainz THEN q ELSE LookupFailed(p, TRUE)
    BY <1>2 DEF LookupCDDB
  <2> HIDE DEF p, q
  <2>4. Idle(p) /\ Ours(p, c)
    <3>1. Idle(s)
      BY <1>2, IdleUnlessPending
    <3>2. Idle(p)
      BY <3>1, <2>1 DEF Idle, Selecting, Still
    <3>3. Ours(p, c)
      BY <2>1 DEF Ours, Still
    <3> QED
      BY <3>2, <3>3
  <2>5. s.pn \in Discs \cup {None} /\ p.pn = s.pn /\ p.musicBrainz = s.musicBrainz
    BY <2>1 DEF Apps, Still
  <2>9. CASE Tracks(s) = {}
    <3>1. LET t == LookupFailed(p, FALSE)
          IN  t \in Apps /\ Still(p, t) /\ Owned(t) /\ Ours(t, c)
      BY <2>1, <2>4, LookupFailedDoes
    <3> QED
      BY <3>1, <2>1, <2>3, <2>9 DEF Still
  <2>6. CASE Tracks(s) # {} /\ cached
    <3>1. LET t == LookupFound(p, s.pn, several)
          IN  t \in Apps /\ Still(p, t) /\ Owned(t) /\ Ours(t, c)
      BY <2>1, <2>4, <2>5, LookupFoundDoes
    <3> QED
      BY <3>1, <2>1, <2>3, <2>6 DEF Still
  <2>7. CASE Tracks(s) # {} /\ ~cached /\ s.musicBrainz
    <3>1. Owned(q)
      BY <1>2, <2>1, <2>2, <2>4, <2>7 DEF Owned, Idle, Selecting, Still
    <3>2. Ours(q, c)
      BY <2>2 DEF Ours, Still
    <3> QED
      BY <3>1, <3>2, <2>2, <2>3, <2>7
  <2>8. CASE Tracks(s) # {} /\ ~cached /\ ~s.musicBrainz
    <3>1. LET t == LookupFailed(p, TRUE)
          IN  t \in Apps /\ Still(p, t) /\ Owned(t) /\ Ours(t, c)
      BY <2>1, <2>4, <2>5, <2>8, LookupFailedDoes
    <3> QED
      BY <3>1, <2>1, <2>3, <2>8 DEF Still
  <2> QED
    BY <2>6, <2>7, <2>8, <2>9
<1> QED
  BY <1>1, <1>2

-----------------------------------------------------------------------------
(* The handlers of a notification.                                         *)

LEMMA UnderWayDiscs == ASSUME NEW s \in Apps PROVE UnderWay(s) \subseteq Discs
<1>1. \A i \in DOMAIN s.boxes : s.boxes[i].disc \in Discs \cup {None}
  <2> DEFINE q == s.boxes
  <2>1. q \in Seq(Boxes)
    BY DEF Apps
  <2> HIDE DEF q
  <2>2. \A i \in DOMAIN q : q[i] \in Boxes
    BY <2>1
  <2>3. \A i \in DOMAIN q : q[i].disc \in Discs \cup {None}
    BY <2>2 DEF Boxes
  <2> QED
    BY <2>3 DEF q
<1>2. {s.looking} \cup s.search \subseteq Discs \cup {None}
  BY DEF Apps
<1> QED
  BY <1>1, <1>2 DEF UnderWay

LEMMA OpeningDoes ==
  ASSUME NEW s \in Apps, NEW K \in SUBSET Drives, NEW d \in Drives, NEW x \in Discs,
         NEW toc \in BOOLEAN, NEW c, Owned(s), Ours(s, c)
  PROVE  LET t == NewAudioDisc([s EXCEPT !.known = K], d, x, toc)
         IN  /\ t \in Apps /\ t.known = K /\ Owned(t)
             /\ Ours(t, IF s.pn = None THEN UnderWay(s) ELSE c)
             /\ IF s.pn = None
                THEN /\ t.udi = d /\ t.pn = x /\ t.toc = toc
                     /\ t.sel = IF toc THEN AudioOf[x] ELSE {}
                ELSE <<t.udi, t.pn, t.toc, t.sel>> = <<s.udi, s.pn, s.toc, s.sel>>
<1> DEFINE k == [s EXCEPT !.known = K]
           A == IF toc THEN AudioOf[x] ELSE {}
           n == k.posted + 1
           o == [k EXCEPT !.udi = d, !.pn = x, !.toc = toc, !.posted = n, !.sel = A,
                          !.info = None, !.typed = None, !.cover = {}]
<1>1. /\ k \in Apps /\ k.known = K /\ k.musicBrainz = s.musicBrainz
      /\ <<k.udi, k.pn, k.toc, k.sel>> = <<s.udi, s.pn, s.toc, s.sel>>
      /\ <<k.info, k.typed, k.cover, k.pending, k.looking, k.searching, k.search, k.boxes>>
           = <<s.info, s.typed, s.cover, s.pending, s.looking, s.searching, s.search, s.boxes>>
  BY DEF Apps
<1>2. A \in SUBSET Nat
  BY CDDAModelAssumption
<1>3. n \in Nat
  BY DEF Apps
<1>4. NewAudioDisc(k, d, x, toc) = IF s.pn # None THEN k ELSE o
  BY <1>1 DEF NewAudioDisc
<1> HIDE DEF k, n, A
<1>7. /\ o \in Apps /\ o.known = k.known /\ o.musicBrainz = k.musicBrainz
      /\ <<o.udi, o.pn, o.toc, o.sel>> = <<d, x, toc, A>>
      /\ <<o.info, o.typed, o.cover>> = <<None, None, {}>>
      /\ <<o.pending, o.looking, o.searching, o.search, o.boxes>>
           = <<k.pending, k.looking, k.searching, k.search, k.boxes>>
  BY <1>1, <1>2, <1>3 DEF Apps
<1> HIDE DEF o
<1>5. CASE s.pn # None
  <2>1. Owned(k)
    BY <1>1 DEF Owned, Selecting
  <2>2. Ours(k, c)
    BY <1>1 DEF Ours
  <2> QED
    BY <1>1, <1>4, <1>5, <2>1, <2>2 DEF k
<1>6. CASE s.pn = None
  <2>1. Owned(o)
    BY <1>1, <1>7 DEF Owned, Selecting
  <2>2. Ours(o, UnderWay(s))
    BY <1>1, <1>7 DEF Ours, UnderWay
  <2> QED
    BY <1>1, <1>4, <1>6, <1>7, <2>1, <2>2 DEF k, A
<1> QED
  BY <1>5, <1>6

LEMMA ClosingDoes ==
  ASSUME NEW s \in Apps, NEW K \in SUBSET Drives, NEW c, Owned(s), Ours(s, c)
  PROVE  LET t == AudioDiscRemoved([s EXCEPT !.known = K])
         IN  /\ t \in Apps /\ t.known = K /\ Owned(t) /\ Ours(t, c)
             /\ t.udi = None /\ t.pn = None
<1> DEFINE k == [s EXCEPT !.known = K]
           t == [k EXCEPT !.udi = None, !.pn = None, !.toc = FALSE]
<1>1. /\ k \in Apps /\ k.known = K /\ k.musicBrainz = s.musicBrainz
      /\ <<k.pending, k.looking, k.searching, k.search, k.boxes>>
           = <<s.pending, s.looking, s.searching, s.search, s.boxes>>
  BY DEF Apps
<1>2. AudioDiscRemoved(k) = t
  BY DEF AudioDiscRemoved
<1> HIDE DEF k
<1>3. /\ t \in Apps /\ t.known = k.known /\ t.musicBrainz = k.musicBrainz
      /\ t.udi = None /\ t.pn = None
      /\ <<t.pending, t.looking, t.searching, t.search, t.boxes>>
           = <<k.pending, k.looking, k.searching, k.search, k.boxes>>
  BY <1>1 DEF Apps
<1> HIDE DEF t
<1>4. Owned(t)
  BY <1>1, <1>3 DEF Owned, Selecting
<1>5. Ours(t, c)
  BY <1>1, <1>3 DEF Ours
<1> QED
  BY <1>1, <1>2, <1>3, <1>4, <1>5 DEF k

-----------------------------------------------------------------------------
(* The invariant holds at the start and is kept by every step.             *)

LEMMA InitInv == Init => Inv
<1> SUFFICES ASSUME Init PROVE Inv
  OBVIOUS
<1>1. PICK musicBrainz \in MusicBrainz : app = NewApp(musicBrainz)
  BY DEF Init
<1>2. musicBrainz \in BOOLEAN
  BY CDDAModelAssumption
<1>3. /\ app \in Apps /\ app.boxes = <<>> /\ ~app.pending /\ ~app.searching
      /\ app.pn = None /\ app.udi = None /\ app.looking = None /\ app.search = {}
  BY <1>1, <1>2 DEF NewApp, Apps
<1>4. TypeOK
  <2>1. solid \in Seq([kind : {"added", "removed"}, drive : Drives])
    BY DEF Init
  <2>2. tray \in [Drives -> Discs \cup {None}] /\ arrivals \in Nat /\ scanned \in BOOLEAN
        /\ crossed \subseteq Discs
    BY DEF Init
  <2> QED
    BY <1>3, <2>1, <2>2 DEF TypeOK
<1>5. Owned(app)
  BY <1>3 DEF Owned, Selecting
<1>6. Ours(app, crossed)
  BY <1>3 DEF Ours
<1> QED
  BY <1>4, <1>5, <1>6 DEF Inv

(* A step of the program between notifications moves no disc.              *)
Unmoved == app'.known = app.known /\ app'.udi = app.udi /\ app'.pn = app.pn

LEMMA StillInv ==
  ASSUME Inv, UNCHANGED <<tray, arrivals, solid, scanned, crossed>>,
         app' \in Apps, Still(app, app'), Owned(app'), Ours(app', crossed)
  PROVE  Inv' /\ Unmoved
BY DEF Inv, TypeOK, Still, Unmoved, Tracks

LEMMA NotifyInv == Inv /\ Notify => Inv'
<1> SUFFICES ASSUME Inv, Notify PROVE Inv'
  OBVIOUS
<1> DEFINE e == Head(solid)
           more == app.known \cup {e.drive}
           less == app.known \ {e.drive}
<1>0. e.drive \in Drives /\ solid' \in Seq([kind : {"added", "removed"}, drive : Drives])
  <2> DEFINE Events == [kind : {"added", "removed"}, drive : Drives]
  <2>1. \A v \in Events : v.drive \in Drives
    OBVIOUS
  <2> HIDE DEF Events
  <2>2. Head(solid) \in Events /\ Tail(solid) \in Seq(Events)
    <3>1. solid \in Seq(Events) /\ solid # <<>>
      BY DEF Inv, TypeOK, Notify, Events
    <3> QED
      BY <3>1
  <2> QED
    BY <2>1, <2>2 DEF Notify, Events
<1>1. /\ app \in Apps /\ app.known \in SUBSET Drives /\ Owned(app) /\ Ours(app, crossed)
  BY DEF Inv, TypeOK, Apps
<1>2. /\ UNCHANGED <<tray, arrivals, scanned>>
      /\ crossed' = IF app.pn = None /\ app'.pn # None THEN UnderWay(app) ELSE crossed
      /\ IF e.kind = "added" THEN \E toc \in BOOLEAN : app' = DeviceAdded(app, e.drive, toc)
         ELSE app' = DeviceRemoved(app, e.drive)
  BY DEF Notify, Opened
<1>3. UnderWay(app) \subseteq Discs
  BY <1>1, UnderWayDiscs
<1> HIDE DEF e
<1>4. CASE app' = app
  BY <1>0, <1>1, <1>2, <1>4 DEF Inv, TypeOK
<1>5. ASSUME NEW toc \in BOOLEAN, Audio(tray[e.drive]),
             app' = NewAudioDisc([app EXCEPT !.known = more], e.drive, tray[e.drive], toc)
      PROVE  Inv'
  <2>1. more \in SUBSET Drives /\ tray[e.drive] \in Discs
    BY <1>0, <1>1, <1>5 DEF Inv, TypeOK, Audio
  <2>2. /\ app' \in Apps /\ Owned(app')
        /\ Ours(app', IF app.pn = None THEN UnderWay(app) ELSE crossed)
        /\ IF app.pn = None
           THEN /\ app'.udi = e.drive /\ app'.pn = tray[e.drive] /\ app'.toc = toc
                /\ app'.sel = IF toc THEN AudioOf[tray[e.drive]] ELSE {}
           ELSE <<app'.udi, app'.pn, app'.toc, app'.sel>> = <<app.udi, app.pn, app.toc, app.sel>>
    <3>1. PICK d \in Drives : d = e.drive
      BY <1>0
    <3>2. PICK x \in Discs : x = tray[e.drive]
      BY <2>1
    <3> HIDE DEF more
    <3>3. app' = NewAudioDisc([app EXCEPT !.known = more], d, x, toc)
      BY <1>5, <3>1, <3>2
    <3>4. /\ app' \in Apps /\ Owned(app')
          /\ Ours(app', IF app.pn = None THEN UnderWay(app) ELSE crossed)
          /\ IF app.pn = None
             THEN /\ app'.udi = d /\ app'.pn = x /\ app'.toc = toc
                  /\ app'.sel = IF toc THEN AudioOf[x] ELSE {}
             ELSE <<app'.udi, app'.pn, app'.toc, app'.sel>>
                    = <<app.udi, app.pn, app.toc, app.sel>>
      BY <1>1, <2>1, <3>3, OpeningDoes
    <3> QED
      BY <3>1, <3>2, <3>4
  <2>3. crossed' = IF app.pn = None THEN UnderWay(app) ELSE crossed
    BY <1>2, <2>1, <2>2, CDDAModelAssumption
  <2>4. TypeOK'
    BY <1>0, <1>1, <1>2, <1>3, <2>1, <2>2, <2>3, CDDAModelAssumption DEF Inv, TypeOK, Tracks
  <2> QED
    BY <2>2, <2>3, <2>4 DEF Inv
<1>6. CASE app' = AudioDiscRemoved([app EXCEPT !.known = less])
  <2>1. /\ app' \in Apps /\ Owned(app') /\ Ours(app', crossed)
        /\ app'.udi = None /\ app'.pn = None
    BY <1>1, <1>6, ClosingDoes
  <2> QED
    BY <1>0, <1>1, <1>2, <2>1 DEF Inv, TypeOK
<1> QED
  BY <1>2, <1>4, <1>5, <1>6 DEF DeviceAdded, DeviceRemoved

LEMMA ScanBusInv == Inv /\ ScanBus => Inv'
<1> SUFFICES ASSUME Inv, ScanBus PROVE Inv'
  OBVIOUS
<1> DEFINE present == {d \in Drives : Audio(tray[d])}
<1>1. /\ app \in Apps /\ Owned(app) /\ Ours(app, crossed) /\ present \in SUBSET Drives
      /\ UNCHANGED <<tray, arrivals, solid>> /\ scanned' = TRUE
      /\ crossed' = IF app.pn = None /\ app'.pn # None THEN UnderWay(app) ELSE crossed
  BY DEF Inv, TypeOK, ScanBus, Opened
<1>2. UnderWay(app) \subseteq Discs
  BY <1>1, UnderWayDiscs
<1>3. CASE app' = [app EXCEPT !.known = present]
  <2>1. /\ app' \in Apps /\ app'.musicBrainz = app.musicBrainz
        /\ <<app'.udi, app'.pn, app'.toc, app'.sel>> = <<app.udi, app.pn, app.toc, app.sel>>
        /\ <<app'.info, app'.typed, app'.cover, app'.pending, app'.looking, app'.searching,
             app'.search, app'.boxes>>
             = <<app.info, app.typed, app.cover, app.pending, app.looking, app.searching,
                 app.search, app.boxes>>
    BY <1>1, <1>3 DEF Apps
  <2>2. Owned(app')
    BY <1>1, <2>1 DEF Owned, Selecting
  <2>3. Ours(app', crossed)
    BY <1>1, <2>1 DEF Ours
  <2> QED
    BY <1>1, <2>1, <2>2, <2>3 DEF Inv, TypeOK, Tracks
<1>4. ASSUME NEW d \in present, NEW toc \in BOOLEAN,
             app' = NewAudioDisc([app EXCEPT !.known = present], d, tray[d], toc)
      PROVE  Inv'
  <2>1. d \in Drives /\ tray[d] \in Discs
    BY DEF Inv, TypeOK, Audio
  <2>2. /\ app' \in Apps /\ Owned(app')
        /\ Ours(app', IF app.pn = None THEN UnderWay(app) ELSE crossed)
        /\ IF app.pn = None
           THEN /\ app'.udi = d /\ app'.pn = tray[d] /\ app'.toc = toc
                /\ app'.sel = IF toc THEN AudioOf[tray[d]] ELSE {}
           ELSE <<app'.udi, app'.pn, app'.toc, app'.sel>> = <<app.udi, app.pn, app.toc, app.sel>>
    BY <1>1, <1>4, <2>1, OpeningDoes
  <2>3. crossed' = IF app.pn = None THEN UnderWay(app) ELSE crossed
    BY <1>1, <2>1, <2>2, CDDAModelAssumption
  <2>4. TypeOK'
    BY <1>1, <1>2, <2>1, <2>2, <2>3, CDDAModelAssumption DEF Inv, TypeOK, Tracks
  <2> QED
    BY <2>2, <2>3, <2>4 DEF Inv
<1> QED
  BY <1>3, <1>4 DEF ScanBus

(* A disc is put into a drive or taken out.                                *)
TrayStep(d) == (\E x \in Discs : Insert(d, x)) \/ Remove(d)

LEMMA TrayInv ==
  ASSUME Inv, NEW d \in Drives, TrayStep(d)
  PROVE  Inv'
<1>1. app' = app /\ crossed' = crossed /\ scanned' = scanned /\ arrivals' \in Nat
  BY DEF TrayStep, Insert, Remove, Inv, TypeOK
<1>2. tray' \in [Drives -> Discs \cup {None}]
  BY DEF TrayStep, Insert, Remove, Inv, TypeOK
<1>3. solid' \in Seq([kind : {"added", "removed"}, drive : Drives])
  <2> DEFINE Events == [kind : {"added", "removed"}, drive : Drives]
  <2>1. Event("added", d) \in Events /\ Event("removed", d) \in Events
    BY DEF Event
  <2> HIDE DEF Events
  <2>2. solid \in Seq(Events)
    BY DEF Inv, TypeOK, Events
  <2>3. solid' \in Seq(Events)
    BY <2>1, <2>2 DEF TrayStep, Insert, Remove
  <2> QED
    BY <2>3 DEF Events
<1> QED
  BY <1>1, <1>2, <1>3 DEF Inv, TypeOK

LEMMA RunPostedInv ==
  ASSUME Inv, NEW cached \in BOOLEAN, NEW several \in BOOLEAN, RunPosted(cached, several)
  PROVE  Inv' /\ Unmoved
<1> DEFINE n == app.posted - 1
           u == [app EXCEPT !.posted = n]
<1>1. app \in Apps /\ Owned(app) /\ Ours(app, crossed) /\ n \in Nat
  BY DEF Inv, TypeOK, Apps, RunPosted
<1>2. app' = LookupCDDB(u, cached, several)
  BY DEF RunPosted
<1> HIDE DEF n
<1>3. /\ u \in Apps /\ Still(app, u)
      /\ <<u.info, u.typed, u.cover, u.pending, u.looking, u.searching, u.search, u.boxes>>
           = <<app.info, app.typed, app.cover, app.pending, app.looking, app.searching,
               app.search, app.boxes>>
  BY <1>1 DEF Apps, Still
<1> HIDE DEF u
<1>4. Owned(u)
  BY <1>1, <1>3 DEF Owned, Selecting, Still
<1>5. Ours(u, crossed)
  BY <1>1, <1>3 DEF Ours, Still
<1>6. app' \in Apps /\ Still(u, app') /\ Owned(app') /\ Ours(app', crossed)
  BY <1>2, <1>3, <1>4, <1>5, LookupDoes
<1>7. Still(app, app')
  BY <1>3, <1>6 DEF Still
<1> QED
  BY <1>6, <1>7, StillInv DEF RunPosted

LEMMA ReplyInv ==
  ASSUME Inv, NEW found \in BOOLEAN, NEW several \in BOOLEAN, Reply(found, several)
  PROVE  Inv' /\ Unmoved
<1> DEFINE u == [app EXCEPT !.looking = None]
<1>1. app \in Apps /\ Owned(app) /\ Ours(app, crossed) /\ app.looking # None
      /\ app.looking \in Discs \cup {None}
  BY DEF Inv, TypeOK, Apps, Reply
<1>2. app' = IF found THEN LookupFound(u, app.looking, several) ELSE LookupFailed(u, FALSE)
  BY DEF Reply
<1>3. /\ u \in Apps /\ Still(app, u) /\ u.looking = None
      /\ <<u.info, u.typed, u.cover, u.pending, u.searching, u.search, u.boxes>>
           = <<app.info, app.typed, app.cover, app.pending, app.searching, app.search, app.boxes>>
  BY <1>1 DEF Apps, Still
<1> HIDE DEF u
<1>4. Idle(u) /\ u.pending
  BY <1>1, <1>3 DEF Owned, Idle, Selecting, Still
<1>5. Ours(u, crossed)
  BY <1>1, <1>3 DEF Ours, Still
<1>6. u.pn # None => app.looking \in {None, u.pn} \cup crossed
  BY <1>1, <1>3 DEF Ours, Still
<1>7. app' \in Apps /\ Still(u, app') /\ Owned(app') /\ Ours(app', crossed)
  <2>1. CASE found
    BY <1>1, <1>2, <1>3, <1>4, <1>5, <1>6, <2>1, LookupFoundDoes
  <2>2. CASE ~found
    BY <1>1, <1>2, <1>3, <1>4, <1>5, <2>2, LookupFailedDoes
  <2> QED
    BY <2>1, <2>2
<1>8. Still(app, app')
  BY <1>3, <1>7 DEF Still
<1> QED
  BY <1>7, <1>8, StillInv DEF Reply

LEMMA SelectEntryInv ==
  ASSUME Inv, NEW ok \in BOOLEAN, SelectEntry(ok)
  PROVE  Inv' /\ Unmoved
<1> DEFINE n == Len(app.boxes)
           u == Pop(app)
           w == [u EXCEPT !.pending = FALSE]
<1>1. /\ app \in Apps /\ Owned(app) /\ Ours(app, crossed)
      /\ app.boxes # <<>> /\ Top = app.boxes[n] /\ Top.kind = "select"
  BY DEF Inv, TypeOK, SelectEntry, Top
<1>2. app' = IF ok THEN TakeEntry(u, Top.disc) ELSE FetchCover(w)
  BY DEF SelectEntry
<1>3. /\ u \in Apps /\ Still(app, u)
      /\ DOMAIN app.boxes = 1..n /\ n \in Nat \ {0}
      /\ DOMAIN u.boxes = 1..(n - 1)
      /\ \A i \in DOMAIN u.boxes : u.boxes[i] = app.boxes[i]
      /\ <<u.info, u.typed, u.cover, u.pending, u.looking, u.searching, u.search>>
           = <<app.info, app.typed, app.cover, app.pending, app.looking, app.searching, app.search>>
  BY <1>1, PopDoes
<1> HIDE DEF u, n
<1>4. Selecting(app, n) /\ n \in DOMAIN app.boxes
  BY <1>1, <1>3 DEF Selecting
<1>5. Idle(u)
  <2>1. \A i \in DOMAIN u.boxes : i \in DOMAIN app.boxes /\ i < n
    BY <1>3
  <2>2. \A i \in DOMAIN u.boxes : ~Selecting(app, i)
    <3>1. \A j \in DOMAIN app.boxes : Selecting(app, j) => j = n
      BY <1>1, <1>4 DEF Owned
    <3>2. \A i \in DOMAIN u.boxes : i # n
      BY <1>3, <2>1
    <3> QED
      BY <2>1, <3>1, <3>2
  <2>3. \A i \in DOMAIN u.boxes : ~Selecting(u, i)
    BY <1>3, <2>1, <2>2 DEF Selecting
  <2>4. \A i \in DOMAIN u.boxes : u.boxes[i].again => ~u.musicBrainz
    BY <1>1, <1>3, <2>1 DEF Owned, Still
  <2>5. u.looking = None
    BY <1>1, <1>3, <1>4 DEF Owned
  <2> QED
    BY <2>3, <2>4, <2>5 DEF Idle
<1>6. Ours(u, crossed)
  BY <1>1, <1>3 DEF Ours, Still
<1>7. Top.disc \in Discs \cup {None}
  <2>1. app.boxes \in Seq(Boxes)
    BY <1>1 DEF Apps
  <2>2. app.boxes[n] \in Boxes
    BY <1>4, <2>1
  <2> QED
    BY <1>1, <2>2 DEF Boxes
<1>8. u.pn # None => Top.disc \in {None, u.pn} \cup crossed
  BY <1>1, <1>3, <1>4 DEF Ours, Still
<1>9. CASE ok
  <2>1. app' \in Apps /\ Still(u, app') /\ Owned(app') /\ Ours(app', crossed)
    BY <1>2, <1>3, <1>5, <1>6, <1>7, <1>8, <1>9, TakeEntryDoes
  <2>2. Still(app, app')
    BY <1>3, <2>1 DEF Still
  <2> QED
    BY <2>1, <2>2, StillInv DEF SelectEntry
<1>10. CASE ~ok
  <2>1. /\ w \in Apps /\ Still(u, w) /\ ~w.pending
        /\ <<w.info, w.typed, w.cover, w.looking, w.searching, w.search, w.boxes>>
             = <<u.info, u.typed, u.cover, u.looking, u.searching, u.search, u.boxes>>
    BY <1>3 DEF Apps, Still
  <2> HIDE DEF w
  <2>2. Owned(w)
    BY <1>5, <2>1 DEF Owned, Idle, Selecting, Still
  <2>3. Ours(w, crossed)
    BY <1>6, <2>1 DEF Ours, Still
  <2>4. app' = FetchCover(w)
    BY <1>2, <1>10
  <2>5. app' \in Apps /\ Still(w, app') /\ Owned(app') /\ Ours(app', crossed)
    BY <2>1, <2>2, <2>3, <2>4, FetchCoverDoes, FetchCoverKeeps
  <2>6. Still(app, app')
    BY <1>3, <2>1, <2>5 DEF Still
  <2> QED
    BY <2>5, <2>6, StillInv DEF SelectEntry
<1> QED
  BY <1>9, <1>10

LEMMA CloseErrorInv ==
  ASSUME Inv, CloseError
  PROVE  Inv' /\ Unmoved
<1> DEFINE n == Len(app.boxes)
           u == Pop(app)
           w == FetchCover(u)
<1>1. /\ app \in Apps /\ Owned(app) /\ Ours(app, crossed)
      /\ app.boxes # <<>> /\ Top = app.boxes[n] /\ Top.kind = "error"
  BY DEF Inv, TypeOK, CloseError, Top
<1>2. app' = IF Top.again THEN LookupFailed(w, FALSE) ELSE w
  BY DEF CloseError
<1>3. /\ u \in Apps /\ Still(app, u)
      /\ DOMAIN app.boxes = 1..n /\ n \in Nat \ {0}
      /\ DOMAIN u.boxes = 1..(n - 1)
      /\ \A i \in DOMAIN u.boxes : u.boxes[i] = app.boxes[i]
      /\ <<u.info, u.typed, u.cover, u.pending, u.looking, u.searching, u.search>>
           = <<app.info, app.typed, app.cover, app.pending, app.looking, app.searching, app.search>>
  BY <1>1, PopDoes
<1> HIDE DEF u, n
<1>4. n \in DOMAIN app.boxes /\ ~Selecting(app, n)
  BY <1>1, <1>3 DEF Selecting
<1>5. Ours(u, crossed)
  BY <1>1, <1>3 DEF Ours, Still
<1>6. w \in Apps /\ Still(u, w) /\ Ours(w, crossed)
  BY <1>3, <1>5, FetchCoverDoes, FetchCoverKeeps
<1>7. CASE ~Top.again
  <2>1. Owned(u)
    <3>1. \A i : Selecting(u, i) <=> Selecting(app, i)
      BY <1>3, <1>4 DEF Selecting
    <3>2. \A i \in DOMAIN u.boxes : i \in DOMAIN app.boxes
      BY <1>3
    <3> QED
      BY <1>1, <1>3, <1>4, <3>1, <3>2 DEF Owned, Selecting, Still
  <2>2. Owned(w)
    BY <1>3, <2>1, FetchCoverKeeps
  <2>3. app' = w /\ Still(app, w)
    BY <1>2, <1>3, <1>6, <1>7 DEF Still
  <2> QED
    BY <1>6, <2>2, <2>3, StillInv DEF CloseError
<1>8. CASE Top.again
  <2>1. ~app.musicBrainz /\ \A j \in 1..(n - 1) : ~Selecting(app, j)
    BY <1>1, <1>4, <1>8 DEF Owned
  <2>2. Idle(u)
    <3>1. \A i \in DOMAIN u.boxes : ~Selecting(u, i)
      BY <1>3, <2>1 DEF Selecting
    <3>2. u.looking = None /\ ~u.musicBrainz
      BY <1>1, <1>3, <2>1 DEF Owned, Still
    <3> QED
      BY <3>1, <3>2 DEF Idle
  <2>3. Idle(w)
    BY <1>3, <2>2, FetchCoverKeeps
  <2> HIDE DEF w
  <2>4. app' \in Apps /\ Still(w, app') /\ Owned(app') /\ Ours(app', crossed)
    BY <1>2, <1>6, <1>8, <2>3, LookupFailedDoes
  <2>5. Still(app, app')
    BY <1>3, <1>6, <2>4 DEF Still
  <2> QED
    BY <2>4, <2>5, StillInv DEF CloseError
<1> QED
  BY <1>7, <1>8

LEMMA CoverSearchedInv ==
  ASSUME Inv, NEW found \in BOOLEAN, CoverSearched(found)
  PROVE  Inv' /\ Unmoved
<1> DEFINE y == IF found THEN app.search ELSE app.cover
           u == [app EXCEPT !.searching = FALSE, !.search = {}, !.cover = y]
<1>1. /\ app \in Apps /\ Owned(app) /\ Ours(app, crossed) /\ y \in SUBSET (Discs \cup {None})
  BY DEF Inv, TypeOK, Apps
<1>2. app' = u
  BY DEF CoverSearched
<1>3. y \in {app.search, app.cover}
  OBVIOUS
<1> HIDE DEF y
<1>4. /\ u \in Apps /\ Still(app, u) /\ ~u.searching /\ u.search = {} /\ u.cover = y
      /\ <<u.info, u.typed, u.pending, u.looking, u.boxes>>
           = <<app.info, app.typed, app.pending, app.looking, app.boxes>>
  BY <1>1 DEF Apps, Still
<1> HIDE DEF u
<1>5. Owned(u)
  BY <1>1, <1>4 DEF Owned, Selecting, Still
<1>6. Ours(u, crossed)
  BY <1>1, <1>3, <1>4 DEF Ours, Still
<1> QED
  BY <1>2, <1>4, <1>5, <1>6, StillInv DEF CoverSearched

LEMMA UserStepInv ==
  ASSUME Inv, UserStep
  PROVE  Inv' /\ Unmoved
<1>1. /\ app \in Apps /\ Owned(app) /\ Ours(app, crossed)
      /\ UNCHANGED <<tray, arrivals, solid, scanned, crossed>>
      /\ app.pn \in Discs /\ app.sel \subseteq Tracks(app)
  BY DEF Inv, TypeOK, UserStep, User, Apps
<1>2. Tracks(app) \subseteq Nat /\ AudioTracks(app) \subseteq Tracks(app)
  BY <1>1, CDDAModelAssumption DEF Tracks, AudioTracks
<1>3. ASSUME NEW cached \in BOOLEAN, NEW several \in BOOLEAN,
             app' = LookupCDDB(app, cached, several)
      PROVE  Inv' /\ Unmoved
  <2>1. app' \in Apps /\ Still(app, app') /\ Owned(app') /\ Ours(app', crossed)
    BY <1>1, <1>3, LookupDoes
  <2> QED
    BY <1>1, <2>1, StillInv
<1>4. CASE app' = Edit(app)
  <2>1. /\ app' \in Apps /\ Still(app, app') /\ app'.typed = app.pn
        /\ <<app'.info, app'.cover, app'.pending, app'.looking, app'.searching,
             app'.search, app'.boxes>>
             = <<app.info, app.cover, app.pending, app.looking, app.searching,
                 app.search, app.boxes>>
    BY <1>1, <1>4 DEF Edit, Apps, Still
  <2>2. Owned(app')
    BY <1>1, <2>1 DEF Owned, Selecting, Still
  <2>3. Ours(app', crossed)
    BY <1>1, <2>1 DEF Ours, Still
  <2> QED
    BY <1>1, <2>1, <2>2, <2>3, StillInv
<1>5. ASSUME NEW S \in SUBSET Tracks(app), app' = [app EXCEPT !.sel = S]
      PROVE  Inv' /\ Unmoved
  <2>1. /\ app' \in Apps /\ app'.sel = S
        /\ <<app'.musicBrainz, app'.known, app'.udi, app'.pn, app'.toc>>
             = <<app.musicBrainz, app.known, app.udi, app.pn, app.toc>>
        /\ <<app'.info, app'.typed, app'.cover, app'.pending, app'.looking, app'.searching,
             app'.search, app'.boxes>>
             = <<app.info, app.typed, app.cover, app.pending, app.looking, app.searching,
                 app.search, app.boxes>>
    BY <1>1, <1>2, <1>5 DEF Apps
  <2>2. Owned(app')
    BY <1>1, <2>1 DEF Owned, Selecting
  <2>3. Ours(app', crossed)
    BY <1>1, <2>1 DEF Ours
  <2> QED
    BY <1>1, <2>1, <2>2, <2>3 DEF Inv, TypeOK, Unmoved, Tracks
<1>6. ASSUME NEW t \in Tracks(app), app' = Toggle(app, t)
      PROVE  Inv' /\ Unmoved
  <2> DEFINE S == (app.sel \ {t}) \cup ({t} \ app.sel)
  <2>1. app' = [app EXCEPT !.sel = S] /\ S \in SUBSET Tracks(app)
    BY <1>1, <1>6 DEF Toggle
  <2> HIDE DEF S
  <2> QED
    BY <2>1, <1>5
<1>7. CASE app' = InvertSelection(app)
  <2> DEFINE S == (app.sel \ AudioTracks(app)) \cup (AudioTracks(app) \ app.sel)
  <2>1. app' = [app EXCEPT !.sel = S] /\ S \in SUBSET Tracks(app)
    BY <1>1, <1>2, <1>7 DEF InvertSelection
  <2> HIDE DEF S
  <2> QED
    BY <2>1, <1>5
<1>8. CASE app' = SelectNone(app)
  BY <1>8, <1>5 DEF SelectNone
<1>9. CASE app' = SelectAll(app)
  <2> DEFINE n == [app EXCEPT !.sel = {}]
             S == (n.sel \ AudioTracks(n)) \cup (AudioTracks(n) \ n.sel)
  <2>1. app' = [n EXCEPT !.sel = S]
    BY <1>9 DEF SelectAll, InvertSelection
  <2>2. AudioTracks(n) = AudioTracks(app) /\ n.sel = {} /\ n \in Apps
    BY <1>1 DEF Apps, AudioTracks
  <2>3. S \in SUBSET Tracks(app)
    BY <1>2, <2>2
  <2> HIDE DEF S
  <2>4. [n EXCEPT !.sel = S] = [app EXCEPT !.sel = S]
    BY <1>1 DEF Apps
  <2> HIDE DEF n
  <2>5. app' = [app EXCEPT !.sel = S]
    BY <2>1, <2>4
  <2> QED
    BY <2>3, <2>5, <1>5
<1> QED
  BY <1>1, <1>3, <1>4, <1>6, <1>7, <1>8, <1>9 DEF UserStep, User

LEMMA NextInv == Inv /\ [Next]_vars => Inv'
<1> SUFFICES ASSUME Inv, [Next]_vars PROVE Inv'
  OBVIOUS
<1>1. ASSUME NEW d \in Drives, TrayStep(d)
      PROVE  Inv'
  BY <1>1, TrayInv
<1>2. CASE Loop
  BY <1>2, NotifyInv, ScanBusInv, RunPostedInv DEF Loop
<1>3. CASE Network
  BY <1>3, ReplyInv, CoverSearchedInv DEF Network
<1>4. CASE Answer
  BY <1>4, CloseErrorInv, SelectEntryInv DEF Answer
<1>5. CASE UserStep
  BY <1>5, UserStepInv
<1>6. CASE UNCHANGED vars
  BY <1>6 DEF Inv, TypeOK, vars
<1> QED
  BY <1>1, <1>2, <1>3, <1>4, <1>5, <1>6 DEF Next, TrayStep

(* The three parts of the invariant hold in every state of every behaviour *)
(* of the disc model: types, one owner, and whose the metadata are.        *)
THEOREM InvHolds == Spec => []Inv
<1> QED
  BY InitInv, NextInv, PTL DEF Spec

(* TypeOK: the variables keep their types, a disc is open exactly with its *)
(* drive, and no track is selected that it does not have.                  *)
THEOREM TypeCorrect == Spec => []TypeOK
<1>1. Inv => TypeOK
  BY DEF Inv
<1> QED
  BY InvHolds, <1>1, PTL

(* MetadataIsOfThisDisc: what is shown belongs to the disc that is open,   *)
(* or to one that was under way when it was opened.                        *)
THEOREM MetadataIsTheirs == Spec => []MetadataIsOfThisDisc
<1>1. Inv => MetadataIsOfThisDisc
  BY DEF Inv, Ours, MetadataIsOfThisDisc
<1> QED
  BY InvHolds, <1>1, PTL

(* PendingHasOneOwner: a pending transaction belongs to the lookup thread  *)
(* or to one question, and never to both; there is none without an owner.  *)
THEOREM TransactionHasOneOwner == Spec => []PendingHasOneOwner
<1>1. Inv => PendingHasOneOwner
  <2> SUFFICES ASSUME Inv PROVE PendingHasOneOwner
    OBVIOUS
  <2> DEFINE asking == {i \in DOMAIN app.boxes : app.boxes[i].kind = "select"}
             owners == (IF app.looking # None THEN {0} ELSE {}) \cup asking
  <2>1. Owned(app) /\ app.pending \in BOOLEAN
    BY DEF Inv, TypeOK, Apps
  <2>2. CASE app.looking # None
    <3>1. app.pending /\ asking = {}
      BY <2>1, <2>2 DEF Owned, Selecting
    <3> QED
      BY <3>1, <2>2, FS_Singleton DEF PendingHasOneOwner
  <2>3. CASE app.looking = None /\ app.pending
    <3>1. PICK i \in DOMAIN app.boxes : Selecting(app, i)
      BY <2>1, <2>3 DEF Owned
    <3>2. asking = {i}
      BY <2>1, <3>1 DEF Owned, Selecting
    <3> QED
      BY <3>2, <2>3, FS_Singleton DEF PendingHasOneOwner
  <2>4. CASE app.looking = None /\ ~app.pending
    <3>1. asking = {}
      BY <2>1, <2>4 DEF Owned, Selecting
    <3> QED
      BY <3>1, <2>4, FS_EmptySet DEF PendingHasOneOwner
  <2> QED
    BY <2>1, <2>2, <2>3, <2>4
<1> QED
  BY InvHolds, <1>1, PTL

-----------------------------------------------------------------------------
(* The devices known follow the drives, if no disc is removed too early.   *)

LEMMA TailDoes ==
  ASSUME NEW S, NEW q \in Seq(S), q # <<>>
  PROVE  /\ Len(q) \in Nat \ {0} /\ DOMAIN q = 1..Len(q) /\ Head(q) = q[1]
         /\ DOMAIN Tail(q) = 1..(Len(q) - 1)
         /\ \A i \in DOMAIN Tail(q) : Tail(q)[i] = q[i + 1]
OBVIOUS

LEMMA EventAppended ==
  ASSUME NEW S, NEW q \in Seq(S), NEW v \in S
  PROVE  LET r == Append(q, v)
         IN  /\ Len(q) \in Nat /\ DOMAIN q = 1..Len(q)
             /\ DOMAIN r = 1..(Len(q) + 1)
             /\ r[Len(q) + 1] = v
             /\ \A i \in DOMAIN q : r[i] = q[i]
OBVIOUS

LEMMA UnmovedFollows ==
  ASSUME Following, Unmoved, UNCHANGED <<tray, solid, scanned>>
  PROVE  Following'
BY DEF Following, Unmoved, Quiet, Silent, Audio

LEMMA TrayFollows ==
  ASSUME Patience, Inv, Following, NEW d \in Drives, TrayStep(d)
  PROVE  Following'
<1> DEFINE Events == [kind : {"added", "removed"}, drive : Drives]
           n == Len(solid) + 1
<1>1. /\ app' = app /\ scanned' = scanned
      /\ tray \in [Drives -> Discs \cup {None}] /\ solid \in Seq(Events)
      /\ (app.udi = None) = (app.pn = None)
  BY DEF Inv, TypeOK, Apps, TrayStep, Insert, Remove
<1>2. PICK kind \in {"added", "removed"} :
        /\ solid' = Append(solid, Event(kind, d))
        /\ kind = "added" => tray[d] = None
        /\ kind = "removed" => tray'[d] = None /\ scanned
  BY <1>1 DEF TrayStep, Insert, Remove, Patience
<1>3. \A e \in Drives : e # d => tray'[e] = tray[e]
  BY <1>1 DEF TrayStep, Insert, Remove
<1>4. /\ Len(solid) \in Nat /\ DOMAIN solid = 1..Len(solid) /\ DOMAIN solid' = 1..n
      /\ solid'[n].kind = kind /\ solid'[n].drive = d
      /\ \A k \in DOMAIN solid : solid'[k] = solid[k]
      /\ \A k \in DOMAIN solid : solid[k].drive \in Drives
  <2> DEFINE v == Event(kind, d)
  <2>1. v \in Events /\ v.kind = kind /\ v.drive = d
    BY DEF Event
  <2>2. \A w \in Events : w.drive \in Drives
    OBVIOUS
  <2> HIDE DEF v, Events
  <2>3. solid' = Append(solid, v)
    BY <1>2 DEF v
  <2> QED
    BY <1>1, <2>1, <2>2, <2>3, EventAppended
<1> HIDE DEF Events
<1>5. n \in DOMAIN solid' /\ DOMAIN solid \subseteq DOMAIN solid'
      /\ \A k \in DOMAIN solid' : k = n \/ (k \in DOMAIN solid /\ n > k)
  BY <1>4
<1> HIDE DEF n
<1>6. \A e \in Drives : /\ Quiet(e)' => Quiet(e)
                        /\ Silent(e)' => Silent(e) /\ e # d
                        /\ Quiet(e)' /\ e = d => kind = "added"
                        /\ Quiet(e) /\ kind = "added" => Quiet(e)'
  BY <1>4, <1>5 DEF Quiet, Silent
<1>7. ~scanned' => \A e \in Drives : Quiet(e)'
  BY <1>1, <1>2, <1>6 DEF Following
<1>8. ASSUME NEW e \in Drives, Quiet(e)'
      PROVE  /\ e \in app'.known => Audio(tray[e])'
             /\ app'.udi = e => tray'[e] = app'.pn
  <2>1. /\ e \in app.known => Audio(tray[e])
        /\ app.udi = e => tray[e] = app.pn
    BY <1>6, <1>8 DEF Following
  <2>2. CASE e = d
    <3>1. tray[e] = None /\ e # None
      BY <1>2, <1>6, <1>8, <2>2, CDDAModelAssumption
    <3>2. e \notin app.known
      BY <2>1, <3>1 DEF Audio
    <3>3. app.udi # e
      BY <1>1, <2>1, <3>1
    <3> QED
      BY <1>1, <3>2, <3>3
  <2>3. CASE e # d
    BY <1>1, <1>3, <2>1, <2>3 DEF Audio
  <2> QED
    BY <2>2, <2>3
<1>9. ASSUME NEW e \in Drives, scanned', Silent(e)', Audio(tray[e])'
      PROVE  e \in app'.known
  <2>1. Audio(tray[e])
    BY <1>3, <1>6, <1>9 DEF Audio
  <2> QED
    BY <1>1, <1>6, <1>9, <2>1 DEF Following
<1>10. ASSUME NEW k \in DOMAIN solid', solid'[k].kind = "removed",
              \A j \in DOMAIN solid' : j > k => solid'[j].drive # solid'[k].drive
       PROVE  tray'[solid'[k].drive] = None
  <2>1. CASE k = n
    BY <1>2, <1>4, <1>10, <2>1
  <2>2. CASE k \in DOMAIN solid /\ n > k
    <3>1. solid'[k] = solid[k] /\ solid[k].drive \in Drives /\ solid[k].drive # d
      BY <1>4, <1>5, <1>10, <2>2
    <3>2. tray[solid[k].drive] = None
      BY <1>4, <1>5, <1>10, <2>2, <3>1 DEF Following
    <3> QED
      BY <1>3, <3>1, <3>2
  <2> QED
    BY <1>5, <2>1, <2>2
<1>11. app'.udi # None => app'.udi \in app'.known
  BY <1>1 DEF Following
<1> QED
  BY <1>7, <1>8, <1>9, <1>10, <1>11 DEF Following

(* What a notification does, by its kind.                                  *)
LEMMA NotifyDoes ==
  ASSUME Inv, Notify
  PROVE  LET e == Head(solid)
         IN  \/ /\ e.kind = "added" /\ Audio(tray[e.drive])
                /\ app'.known = app.known \cup {e.drive}
                /\ IF app.pn = None
                   THEN app'.udi = e.drive /\ app'.pn = tray[e.drive]
                   ELSE app'.udi = app.udi /\ app'.pn = app.pn
             \/ e.kind = "added" /\ ~Audio(tray[e.drive]) /\ app' = app
             \/ /\ e.kind # "added" /\ e.drive \in app.known
                /\ app'.known = app.known \ {e.drive}
                /\ app'.udi = None /\ app'.pn = None
             \/ e.kind # "added" /\ e.drive \notin app.known /\ app' = app
<1> DEFINE e == Head(solid)
           more == app.known \cup {e.drive}
           less == app.known \ {e.drive}
<1>1. /\ app \in Apps /\ app.known \in SUBSET Drives /\ Owned(app) /\ Ours(app, crossed)
      /\ solid \in Seq([kind : {"added", "removed"}, drive : Drives]) /\ solid # <<>>
  BY DEF Inv, TypeOK, Apps, Notify
<1>2. e.drive \in Drives
  <2> DEFINE Events == [kind : {"added", "removed"}, drive : Drives]
  <2>1. \A w \in Events : w.drive \in Drives
    OBVIOUS
  <2> HIDE DEF Events
  <2>2. Head(solid) \in Events
    <3>1. solid \in Seq(Events) /\ solid # <<>>
      BY <1>1 DEF Events
    <3> QED
      BY <3>1
  <2> QED
    BY <2>1, <2>2
<1>3. IF e.kind = "added" THEN \E toc \in BOOLEAN : app' = DeviceAdded(app, e.drive, toc)
      ELSE app' = DeviceRemoved(app, e.drive)
  BY DEF Notify
<1> HIDE DEF e
<1>4. CASE e.kind = "added" /\ Audio(tray[e.drive])
  <2>1. more \in SUBSET Drives /\ tray[e.drive] \in Discs
    BY <1>1, <1>2, <1>4 DEF Inv, TypeOK, Audio
  <2>2. PICK toc \in BOOLEAN :
          app' = NewAudioDisc([app EXCEPT !.known = more], e.drive, tray[e.drive], toc)
    BY <1>3, <1>4 DEF DeviceAdded
  <2>3. /\ app'.known = more
        /\ IF app.pn = None
           THEN app'.udi = e.drive /\ app'.pn = tray[e.drive]
           ELSE app'.udi = app.udi /\ app'.pn = app.pn
    <3> HIDE DEF more
    <3> QED
      BY <1>1, <1>2, <2>1, <2>2, OpeningDoes
  <2> QED
    BY <1>4, <2>3 DEF e
<1>5. CASE e.kind = "added" /\ ~Audio(tray[e.drive])
  BY <1>3, <1>5 DEF DeviceAdded, e
<1>6. CASE e.kind # "added" /\ e.drive \in app.known
  <2>1. app' = AudioDiscRemoved([app EXCEPT !.known = less])
    BY <1>3, <1>6 DEF DeviceRemoved
  <2>2. less \in SUBSET Drives
    BY <1>1
  <2>3. app'.known = less /\ app'.udi = None /\ app'.pn = None
    <3> HIDE DEF less
    <3> QED
      BY <1>1, <2>1, <2>2, ClosingDoes
  <2> QED
    BY <1>6, <2>3 DEF e
<1>7. CASE e.kind # "added" /\ e.drive \notin app.known
  BY <1>3, <1>7 DEF DeviceRemoved, e
<1> QED
  BY <1>4, <1>5, <1>6, <1>7

LEMMA NotifyFollows ==
  ASSUME Inv, Following, Notify
  PROVE  Following'
<1> DEFINE Events == [kind : {"added", "removed"}, drive : Drives]
           e == Head(solid)
<1>1. /\ UNCHANGED <<tray, scanned>> /\ solid' = Tail(solid)
      /\ solid \in Seq(Events) /\ solid # <<>>
      /\ (app.udi = None) = (app.pn = None)
  BY DEF Inv, TypeOK, Notify
<1>2. \A w \in Events : w.drive \in Drives /\ w.kind \in {"added", "removed"}
  OBVIOUS
<1> HIDE DEF Events
<1>3. /\ Len(solid) \in Nat \ {0} /\ DOMAIN solid = 1..Len(solid) /\ e = solid[1]
      /\ DOMAIN solid' = 1..(Len(solid) - 1)
      /\ \A i \in DOMAIN solid' : solid'[i] = solid[i + 1]
  BY <1>1, TailDoes
<1> HIDE DEF e
<1>4. PICK d \in Drives :
        d = e.drive /\ e.kind \in {"added", "removed"} /\ 1 \in DOMAIN solid
  <2>1. solid[1] \in Events
    BY <1>1, <1>3
  <2> QED
    BY <1>2, <1>3, <2>1
<1>5. /\ \A i \in DOMAIN solid' : i + 1 \in DOMAIN solid /\ i \in Nat
      /\ \A k \in DOMAIN solid : k = 1 \/ (k - 1 \in DOMAIN solid' /\ (k - 1) + 1 = k)
  BY <1>3
<1>6. /\ \A c \in Drives : Quiet(c) => Quiet(c)'
      /\ \A c \in Drives : Quiet(c)' => Quiet(c) \/ (c = d /\ e.kind = "removed")
      /\ \A c \in Drives : Silent(c)' => Silent(c) \/ c = d
      /\ e.kind = "removed" => ~Quiet(d)
  <2>1. \A c \in Drives : Quiet(c) => Quiet(c)'
    BY <1>3, <1>5 DEF Quiet
  <2>2. \A k \in DOMAIN solid : k # 1 => \E i \in DOMAIN solid' : solid'[i] = solid[k]
    <3> TAKE k \in DOMAIN solid
    <3> HAVE k # 1
    <3>1. k - 1 \in DOMAIN solid' /\ (k - 1) + 1 = k
      BY <1>5
    <3>2. solid'[k - 1] = solid[k]
      BY <1>3, <3>1
    <3> QED
      BY <3>1, <3>2
  <2>3. \A c \in Drives : Quiet(c)' => Quiet(c) \/ (c = d /\ e.kind = "removed")
    BY <1>3, <1>4, <2>2 DEF Quiet
  <2>4. \A c \in Drives : Silent(c)' => Silent(c) \/ c = d
    BY <1>3, <1>4, <2>2 DEF Silent
  <2>5. e.kind = "removed" => ~Quiet(d)
    BY <1>3, <1>4 DEF Quiet
  <2> QED
    BY <2>1, <2>3, <2>4, <2>5
<1>7. e.kind = "removed" /\ Silent(d)' => tray[d] = None
  <2> SUFFICES ASSUME e.kind = "removed", Silent(d)' PROVE tray[d] = None
    OBVIOUS
  <2>1. \A j \in DOMAIN solid : j > 1 => solid[j].drive # d
    <3>1. \A j \in DOMAIN solid : j > 1 => j - 1 \in DOMAIN solid' /\ solid'[j - 1] = solid[j]
      BY <1>3, <1>5
    <3> QED
      BY <3>1 DEF Silent
  <2> QED
    BY <1>3, <1>4, <2>1 DEF Following
<1>8. ~scanned' => \A c \in Drives : Quiet(c)'
  BY <1>1, <1>6 DEF Following
<1>9. \A k \in DOMAIN solid' :
        /\ solid'[k].kind = "removed"
        /\ \A j \in DOMAIN solid' : j > k => solid'[j].drive # solid'[k].drive
        => tray'[solid'[k].drive] = None
  <2> SUFFICES ASSUME NEW k \in DOMAIN solid', solid'[k].kind = "removed",
                      \A j \in DOMAIN solid' : j > k => solid'[j].drive # solid'[k].drive
               PROVE  tray'[solid'[k].drive] = None
    OBVIOUS
  <2>1. k + 1 \in DOMAIN solid /\ solid'[k] = solid[k + 1]
    BY <1>3, <1>5
  <2>2. \A j \in DOMAIN solid : j > k + 1 => solid[j].drive # solid[k + 1].drive
    <3> SUFFICES ASSUME NEW j \in DOMAIN solid, j > k + 1
                 PROVE  solid[j].drive # solid[k + 1].drive
      OBVIOUS
    <3>1. j - 1 \in DOMAIN solid' /\ (j - 1) + 1 = j /\ j - 1 > k
      BY <1>3, <1>5
    <3>2. solid'[j - 1] = solid[j]
      BY <1>3, <3>1
    <3> QED
      BY <2>1, <3>1, <3>2
  <2> QED
    BY <1>1, <2>1, <2>2 DEF Following
<1>10. /\ app'.udi # None => app'.udi \in app'.known
       /\ \A c \in Drives : Quiet(c)' => /\ c \in app'.known => Audio(tray[c])
                                         /\ app'.udi = c => tray[c] = app'.pn
       /\ \A c \in Drives : scanned /\ Silent(c)' => (Audio(tray[c]) => c \in app'.known)
  <2>1. CASE /\ e.kind = "added" /\ Audio(tray[d]) /\ app'.known = app.known \cup {d}
             /\ IF app.pn = None
                THEN app'.udi = d /\ app'.pn = tray[d]
                ELSE app'.udi = app.udi /\ app'.pn = app.pn
    BY <1>1, <1>6, <2>1 DEF Following
  <2>2. CASE e.kind = "added" /\ ~Audio(tray[d]) /\ app' = app
    BY <1>6, <2>2 DEF Following
  <2>3. CASE /\ e.kind # "added" /\ d \in app.known /\ app'.known = app.known \ {d}
             /\ app'.udi = None /\ app'.pn = None
    BY <1>4, <1>6, <1>7, <2>3, CDDAModelAssumption DEF Following, Audio
  <2>4. CASE e.kind # "added" /\ d \notin app.known /\ app' = app
    BY <1>4, <1>6, <1>7, <2>4, CDDAModelAssumption DEF Following, Audio
  <2> QED
    BY <1>4, <2>1, <2>2, <2>3, <2>4, NotifyDoes DEF e
<1>11. \A c \in Drives : Audio(tray[c])' = Audio(tray[c])
  BY <1>1 DEF Audio
<1> QED
  BY <1>1, <1>8, <1>9, <1>10, <1>11 DEF Following

LEMMA ScanBusFollows ==
  ASSUME Inv, Following, ScanBus
  PROVE  Following'
<1> DEFINE present == {d \in Drives : Audio(tray[d])}
<1>1. /\ app \in Apps /\ Owned(app) /\ Ours(app, crossed)
      /\ UNCHANGED <<tray, solid>> /\ scanned' = TRUE /\ ~scanned
      /\ (app.udi = None) = (app.pn = None)
      /\ app.udi # None => app.udi \in Drives
  BY DEF Inv, TypeOK, ScanBus, Apps
<1>2. /\ app'.known = present
      /\ \/ app'.udi = app.udi /\ app'.pn = app.pn
         \/ \E d \in present : app'.udi = d /\ app'.pn = tray[d]
  <2>1. CASE app' = [app EXCEPT !.known = present]
    BY <1>1, <2>1 DEF Apps
  <2>2. ASSUME NEW d \in present, NEW toc \in BOOLEAN,
               app' = NewAudioDisc([app EXCEPT !.known = present], d, tray[d], toc)
        PROVE  /\ app'.known = present
               /\ \/ app'.udi = app.udi /\ app'.pn = app.pn
                  \/ app'.udi = d /\ app'.pn = tray[d]
    <3>0. present \in SUBSET Drives
      OBVIOUS
    <3>1. d \in Drives /\ tray[d] \in Discs
      BY DEF Inv, TypeOK, Audio
    <3>2. /\ app' \in Apps /\ app'.known = present
          /\ IF app.pn = None
             THEN app'.udi = d /\ app'.pn = tray[d]
             ELSE app'.udi = app.udi /\ app'.pn = app.pn
      <4> HIDE DEF present
      <4> QED
        BY <1>1, <2>2, <3>0, <3>1, OpeningDoes
    <3> QED
      BY <3>2
  <2> QED
    BY <2>1, <2>2 DEF ScanBus
<1>3. \A d \in Drives : Quiet(d)
  BY <1>1 DEF Following
<1>4. \A d \in Drives : Audio(tray[d])' = Audio(tray[d])
  BY <1>1 DEF Audio
<1>5. app'.udi # None => app'.udi \in app'.known
  BY <1>1, <1>2, <1>3 DEF Following
<1>6. \A d \in Drives : app'.udi = d => tray'[d] = app'.pn
  BY <1>1, <1>2, <1>3 DEF Following
<1>7. \A k \in DOMAIN solid' :
        /\ solid'[k].kind = "removed"
        /\ \A j \in DOMAIN solid' : j > k => solid'[j].drive # solid'[k].drive
        => tray'[solid'[k].drive] = None
  BY <1>1 DEF Following
<1> QED
  BY <1>1, <1>2, <1>4, <1>5, <1>6, <1>7 DEF Following

LEMMA NextFollows == Patience /\ Inv /\ Following /\ [Next]_vars => Following'
<1> SUFFICES ASSUME Patience, Inv, Following, [Next]_vars PROVE Following'
  OBVIOUS
<1>1. ASSUME NEW d \in Drives, TrayStep(d)
      PROVE  Following'
  BY <1>1, TrayFollows
<1>2. CASE Notify
  BY <1>2, NotifyFollows
<1>3. CASE ScanBus
  BY <1>3, ScanBusFollows
<1>4. CASE (\E cached, several \in BOOLEAN : RunPosted(cached, several)) \/ Network
             \/ Answer \/ UserStep
  <2>1. UNCHANGED <<tray, solid, scanned>>
    BY <1>4 DEF RunPosted, Network, Reply, CoverSearched, Answer, CloseError,
                SelectEntry, UserStep, User
  <2>2. Unmoved
    BY <1>4, RunPostedInv, ReplyInv, CoverSearchedInv, CloseErrorInv, SelectEntryInv,
       UserStepInv DEF Network, Answer
  <2> QED
    BY <2>1, <2>2, UnmovedFollows
<1>5. CASE UNCHANGED vars
  BY <1>5, UnmovedFollows DEF vars, Unmoved
<1> QED
  BY <1>1, <1>2, <1>3, <1>4, <1>5 DEF Next, Loop, TrayStep

LEMMA InitFollows == Init => Following
<1> SUFFICES ASSUME Init PROVE Following
  OBVIOUS
<1>1. /\ solid = <<>> /\ ~scanned /\ app.known = {} /\ app.udi = None
  BY DEF Init, NewApp
<1>2. DOMAIN solid = {}
  BY <1>1
<1>3. \A d \in Drives : app.udi # d
  BY <1>1, CDDAModelAssumption
<1> QED
  BY <1>1, <1>2, <1>3 DEF Following, Quiet, Silent

(* OpenDiscIsPresent: once the notifications have been handled the devices *)
(* known are the drives with an audio disc, and the disc that is open is   *)
(* in its drive, if no disc is removed before the bus is scanned.          *)
THEOREM DrivesAreFollowed ==
  ASSUME Patience
  PROVE  Spec => []OpenDiscIsPresent
<1>1. Inv /\ Following => OpenDiscIsPresent
  <2> SUFFICES ASSUME Inv, Following, Settled PROVE OpenDiscIsPresent
    BY DEF OpenDiscIsPresent
  <2>1. scanned /\ DOMAIN solid = {}
    BY DEF Settled
  <2>2. \A d \in Drives : Quiet(d) /\ Silent(d)
    BY <2>1 DEF Quiet, Silent
  <2>3. app.known \subseteq Drives /\ (app.udi = None) = (app.pn = None)
        /\ app.udi \in Drives \cup {None}
    BY DEF Inv, TypeOK, Apps
  <2> QED
    BY <2>1, <2>2, <2>3 DEF Following, OpenDiscIsPresent
<1>2. Patience /\ Inv /\ Inv' /\ Following /\ [Next]_vars => Following'
  BY NextFollows
<1> QED
  BY <1>1, <1>2, InvHolds, InitFollows, PTL DEF Spec
=============================================================================
