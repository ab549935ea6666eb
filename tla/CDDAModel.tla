------------------------------ MODULE CDDAModel ------------------------------
(***************************************************************************)
(* The disc in use: the audio discs Solid announces (CDDADevices), the     *)
(* disc opened and its metadata, selection and cover (CDDAModel), the      *)
(* lookup of the metadata (KCDDB::Client) and the automatic search for its *)
(* cover (MainWindow, CDDAHeaderWidget).                                   *)
(*                                                                         *)
(* All of it runs in the main thread, but not one handler at a time: a     *)
(* question or an error is a box with an event loop of its own, inside     *)
(* which discs come and go and lookups end, before the handler goes on.    *)
(* The boxes are a stack; the user can reach the topmost only.             *)
(***************************************************************************)
EXTENDS Integers, Sequences, FiniteSets

CONSTANTS
  Drives,       \* the optical drives
  Discs,        \* the discs at hand
  TracksOf,     \* the numbers of the tracks of a disc
  AudioOf,      \* those that are audio tracks
  None,         \* no drive, no disc
  MusicBrainz,  \* settings of the lookup at MusicBrainz: enabled or not
  EarlyRemovals,\* whether discs are removed before the bus is scanned
  MaxArrivals   \* bound: how often a disc is inserted

ASSUME CDDAModelAssumption ==
  /\ None \notin Drives \cup Discs
  /\ \A x \in Discs : TracksOf[x] \subseteq Nat /\ AudioOf[x] \subseteq TracksOf[x]
  /\ MusicBrainz \subseteq BOOLEAN /\ EarlyRemovals \in BOOLEAN
  /\ MaxArrivals \in Nat

VARIABLES
  tray,      \* what is in each drive
  arrivals,  \* how often a disc was inserted
  solid,     \* notifications of Solid that wait for the event loop
  scanned,   \* the timer of CDDAModel::CDDAModel has called scanBus()
  app,       \* the state of the program: see NewApp
  crossed    \* history: discs being looked up when the present one was opened

vars == <<tray, arrivals, solid, scanned, app, crossed>>

(* known is p_discs; udi, pn, sel, empty and pending are the model's; toc  *)
(* tells whether CDDAParanoia could read the disc's tracks.  Whose the     *)
(* data are is told by naming discs: info, the one the entry is of; typed, *)
(* the one the user's edits were made for; looking, the one the client's   *)
(* lookup thread was given; search, the ones the words searched for are    *)
(* of; cover, the ones the words were of by which it was found (None: of   *)
(* there being no words at all).  posted counts the calls of cddb_lookup() *)
(* that single shots of zero milliseconds have posted.                     *)
NewApp(musicBrainz) ==
  [musicBrainz |-> musicBrainz, known |-> {}, udi |-> None, pn |-> None, toc |-> FALSE,
   sel |-> {}, info |-> None, typed |-> None, empty |-> TRUE, cover |-> {},
   pending |-> FALSE, looking |-> None, posted |-> 0,
   searching |-> FALSE, search |-> {}, boxes |-> <<>>]

(* The tracks CDDAParanoia finds: none when it cannot read the disc.       *)
Tracks(s) == IF s.toc THEN TracksOf[s.pn] ELSE {}
AudioTracks(s) == IF s.toc THEN AudioOf[s.pn] ELSE {}

Audio(x) == x # None /\ AudioOf[x] # {}
Event(kind, d) == [kind |-> kind, drive |-> d]

(* A box asks which entry to take for a disc, or shows an error.  again:   *)
(* below it Client::lookup() will return a failure.                        *)
Box(kind, x, again) == [kind |-> kind, disc |-> x, again |-> again]
Push(s, b) == [s EXCEPT !.boxes = Append(@, b)]
Top == app.boxes[Len(app.boxes)]
Pop(s) == [s EXCEPT !.boxes = SubSeq(@, 1, Len(@) - 1)]

-----------------------------------------------------------------------------
(* CDDAHeaderWidget::fetchCover, by the artist and title the model gives:  *)
(* those of the entry, what the user typed, or nothing.                    *)
Words(s) ==
  LET named == {s.info, s.typed} \ {None}
  IN  IF s.pn = None \/ named = {} THEN {None} ELSE named

FetchCover(s) ==
  IF s.empty \/ s.searching THEN s
  ELSE [s EXCEPT !.searching = TRUE, !.search = Words(s)]

(* CDDAModel::lookup_cddb_done after a failure, with the error box of      *)
(* MainWindow::cddb_lookup_done.                                           *)
LookupFailed(s, again) == Push([s EXCEPT !.pending = FALSE], Box("error", None, again))

(* The end of lookup_cddb_done with the entry taken: it replaces whatever  *)
(* was there, edits included, whichever disc is open.                      *)
TakeEntry(s, x) ==
  FetchCover([s EXCEPT !.info = x, !.typed = None, !.empty = FALSE, !.pending = FALSE])

(* lookup_cddb_done after a success, with one entry or several.            *)
LookupFound(s, x, several) ==
  IF several THEN Push(s, Box("select", x, FALSE)) ELSE TakeEntry(s, x)

(* A mutant of LookupCDDB: a second transaction may begin.                 *)
LookupCDDB_Reentered(s, cached, several) ==
  IF s.pn = None THEN s
  ELSE IF cached THEN LookupFound([s EXCEPT !.pending = TRUE], s.pn, several)
  ELSE [s EXCEPT !.pending = TRUE, !.looking = s.pn]

(* CDDAModel::lookupCDDB and Client::lookup.  Of a disc without tracks the *)
(* client returns a failure.  An entry of the cache is reported inside the *)
(* call.  Without a lookup to run the client reports a failure and then    *)
(* returns it.                                                             *)
LookupCDDB(s, cached, several) ==
  IF s.pn = None \/ s.pending THEN s
  ELSE LET p == [s EXCEPT !.pending = TRUE]
       IN  IF Tracks(s) = {} THEN LookupFailed(p, FALSE)
           ELSE IF cached THEN LookupFound(p, s.pn, several)
           ELSE IF s.musicBrainz THEN [p EXCEPT !.looking = s.pn]
           ELSE LookupFailed(p, TRUE)

(* A mutant of NewAudioDisc: the metadata of the last disc are kept.       *)
NewAudioDisc_NotCleared(s, d, x, toc) ==
  IF s.pn # None THEN s
  ELSE [s EXCEPT !.udi = d, !.pn = x, !.toc = toc, !.posted = @ + 1,
                 !.sel = IF toc THEN AudioOf[x] ELSE {}]

(* CDDAModel::new_audio_disc_available and MainWindow's slot, which posts  *)
(* the automatic lookup.  A disc that comes while one is open is ignored;  *)
(* one that cannot be read is opened all the same.  The empty flag stays.  *)
NewAudioDisc(s, d, x, toc) ==
  IF s.pn # None THEN s
  ELSE [s EXCEPT !.udi = d, !.pn = x, !.toc = toc, !.posted = @ + 1,
                 !.sel = IF toc THEN AudioOf[x] ELSE {},
                 !.info = None, !.typed = None, !.cover = {}]

(* Mutants of AudioDiscRemoved: the disc stays open, with or without its   *)
(* drive.                                                                  *)
AudioDiscRemoved_Open(s) == [s EXCEPT !.udi = None, !.toc = FALSE]
AudioDiscRemoved_Ignored(s) == s

(* CDDAModel::audio_disc_removed: whichever disc it was.                   *)
AudioDiscRemoved(s) == [s EXCEPT !.udi = None, !.pn = None, !.toc = FALSE]

(* CDDADevices::p_solid_device_added and p_solid_device_removed.           *)
DeviceAdded(s, d, toc) ==
  IF Audio(tray[d]) THEN NewAudioDisc([s EXCEPT !.known = @ \cup {d}], d, tray[d], toc) ELSE s

DeviceRemoved(s, d) ==
  IF d \in s.known THEN AudioDiscRemoved([s EXCEPT !.known = @ \ {d}]) ELSE s

(* What is under way for a disc, to be applied later.                      *)
UnderWay(s) ==
  ({s.looking} \cup {s.boxes[i].disc : i \in DOMAIN s.boxes} \cup s.search) \ {None}

(* The history of crossings follows every change of the open disc.         *)
Opened == crossed' = IF app.pn = None /\ app'.pn # None THEN UnderWay(app) ELSE crossed

-----------------------------------------------------------------------------
(* A disc is put into a drive or taken out (with the drive's button, or by *)
(* MainWindow::eject), and Solid will say so.                              *)
Insert(d, x) ==
  /\ tray[d] = None /\ \A e \in Drives : tray[e] # x
  /\ arrivals < MaxArrivals
  /\ tray' = [tray EXCEPT ![d] = x]
  /\ arrivals' = arrivals + 1
  /\ solid' = Append(solid, Event("added", d))
  /\ UNCHANGED <<scanned, app, crossed>>

Remove(d) ==
  /\ tray[d] # None
  /\ scanned \/ EarlyRemovals
  /\ tray' = [tray EXCEPT ![d] = None]
  /\ solid' = Append(solid, Event("removed", d))
  /\ UNCHANGED <<arrivals, scanned, app, crossed>>

(* The loop delivers the next notification.                                *)
Notify ==
  /\ solid # <<>>
  /\ solid' = Tail(solid)
  /\ LET e == Head(solid)
     IN  IF e.kind = "added" THEN \E toc \in BOOLEAN : app' = DeviceAdded(app, e.drive, toc)
         ELSE app' = DeviceRemoved(app, e.drive)
  /\ Opened
  /\ UNCHANGED <<tray, arrivals, scanned>>

(* A mutant of ScanBus: the discs found are not announced.                 *)
ScanBus_Silent ==
  /\ ~scanned
  /\ scanned' = TRUE
  /\ app' = [app EXCEPT !.known = {d \in Drives : Audio(tray[d])}]
  /\ Opened
  /\ UNCHANGED <<tray, arrivals, solid>>

(* CDDADevices::scanBus, once, 200 ms after the start: forget the discs    *)
(* known and announce those that are there, in some order.                 *)
ScanBus ==
  /\ ~scanned
  /\ scanned' = TRUE
  /\ LET present == {d \in Drives : Audio(tray[d])}
         s == [app EXCEPT !.known = present]
     IN  IF present = {} THEN app' = s
         ELSE \E d \in present, toc \in BOOLEAN : app' = NewAudioDisc(s, d, tray[d], toc)
  /\ Opened
  /\ UNCHANGED <<tray, arrivals, solid>>

(* The posted MainWindow::cddb_lookup.                                     *)
RunPosted(cached, several) ==
  /\ app.posted > 0
  /\ app' = LookupCDDB([app EXCEPT !.posted = @ - 1], cached, several)
  /\ UNCHANGED <<tray, arrivals, solid, scanned, crossed>>

(* The lookup thread has ended: Client::slotFinished.                      *)
Reply(found, several) ==
  /\ app.looking # None
  /\ LET s == [app EXCEPT !.looking = None]
     IN  app' = IF found THEN LookupFound(s, app.looking, several) ELSE LookupFailed(s, FALSE)
  /\ UNCHANGED <<tray, arrivals, solid, scanned, crossed>>

(* A mutant of SelectEntry: no entry taken, and the transaction stays open.*)
SelectEntry_CancelForgotten(ok) ==
  /\ app.boxes # <<>> /\ Top.kind = "select"
  /\ app' = IF ok THEN TakeEntry(Pop(app), Top.disc) ELSE Pop(app)
  /\ UNCHANGED <<tray, arrivals, solid, scanned, crossed>>

(* The user takes an entry, or none, and lookup_cddb_done goes on.         *)
SelectEntry(ok) ==
  /\ app.boxes # <<>> /\ Top.kind = "select"
  /\ app' = IF ok THEN TakeEntry(Pop(app), Top.disc)
            ELSE FetchCover([Pop(app) EXCEPT !.pending = FALSE])
  /\ UNCHANGED <<tray, arrivals, solid, scanned, crossed>>

(* The user closes the error box and cddb_lookup_done goes on; the failure *)
(* Client::lookup() returns is then handled once more.                     *)
CloseError ==
  /\ app.boxes # <<>> /\ Top.kind = "error"
  /\ LET s == FetchCover(Pop(app))
     IN  app' = IF Top.again THEN LookupFailed(s, FALSE) ELSE s
  /\ UNCHANGED <<tray, arrivals, solid, scanned, crossed>>

(* The search for the cover ends: set_cover or auto_fetch_cover_failed.    *)
CoverSearched(found) ==
  /\ app.searching
  /\ app' = [app EXCEPT !.searching = FALSE, !.search = {},
                        !.cover = IF found THEN app.search ELSE @]
  /\ UNCHANGED <<tray, arrivals, solid, scanned, crossed>>

(* What the user does in the main window while no box is open and a disc   *)
(* is: look up again, edit the metadata, change the selection.             *)
User(s) ==
  /\ app.pn # None /\ app.boxes = <<>>
  /\ app' = s
  /\ UNCHANGED <<tray, arrivals, solid, scanned, crossed>>

Edit(s) == [s EXCEPT !.typed = s.pn, !.empty = FALSE]
Toggle(s, t) == [s EXCEPT !.sel = (@ \ {t}) \cup ({t} \ @)]
InvertSelection(s) == [s EXCEPT !.sel = (@ \ AudioTracks(s)) \cup (AudioTracks(s) \ @)]
SelectAll(s) == InvertSelection([s EXCEPT !.sel = {}])
SelectNone(s) == [s EXCEPT !.sel = {}]

Init ==
  /\ tray \in [Drives -> Discs \cup {None}]
  /\ \A d, e \in Drives : d # e /\ tray[d] = tray[e] => tray[d] = None
  /\ arrivals = 0
  /\ solid = <<>>
  /\ scanned = FALSE
  /\ \E musicBrainz \in MusicBrainz : app = NewApp(musicBrainz)
  /\ crossed = {}

Loop ==
  \/ Notify
  \/ ScanBus
  \/ \E cached, several \in BOOLEAN : RunPosted(cached, several)

Network ==
  \/ \E found, several \in BOOLEAN : Reply(found, several)
  \/ \E found \in BOOLEAN : CoverSearched(found)

Answer == CloseError \/ \E ok \in BOOLEAN : SelectEntry(ok)

UserStep ==
  \/ \E cached, several \in BOOLEAN : User(LookupCDDB(app, cached, several))
  \/ User(Edit(app))
  \/ app.pn # None /\ \E t \in Tracks(app) : User(Toggle(app, t))
  \/ User(SelectAll(app)) \/ User(SelectNone(app)) \/ User(InvertSelection(app))

Next ==
  \/ \E d \in Drives, x \in Discs : Insert(d, x)
  \/ \E d \in Drives : Remove(d)
  \/ Loop
  \/ Network
  \/ Answer
  \/ UserStep

Spec == Init /\ [][Next]_vars

(* The event loop runs, a lookup and a search end one way or the other,    *)
(* and the user answers the box on top, which blocks everything else.      *)
Fairness ==
  /\ WF_vars(Notify) /\ WF_vars(ScanBus)
  /\ WF_vars(\E cached, several \in BOOLEAN : RunPosted(cached, several))
  /\ WF_vars(\E found, several \in BOOLEAN : Reply(found, several))
  /\ WF_vars(\E found \in BOOLEAN : CoverSearched(found))
  /\ WF_vars(Answer)

FairSpec == Spec /\ Fairness

-----------------------------------------------------------------------------
(* Properties.                                                             *)

Boxes == [kind : {"select", "error"}, disc : Discs \cup {None}, again : BOOLEAN]

Apps ==
  [musicBrainz : BOOLEAN, known : SUBSET Drives, udi : Drives \cup {None},
   pn : Discs \cup {None}, toc : BOOLEAN, sel : SUBSET Nat, info : Discs \cup {None},
   typed : Discs \cup {None}, empty : BOOLEAN, cover : SUBSET (Discs \cup {None}),
   pending : BOOLEAN, looking : Discs \cup {None}, posted : Nat, searching : BOOLEAN,
   search : SUBSET (Discs \cup {None}), boxes : Seq(Boxes)]

(* The variables keep their types; a disc is open exactly with its drive,  *)
(* and no track is selected that it does not have, also after discs were   *)
(* changed.                                                                *)
TypeOK ==
  /\ tray \in [Drives -> Discs \cup {None}]
  /\ solid \in Seq([kind : {"added", "removed"}, drive : Drives])
  /\ arrivals \in Nat /\ scanned \in BOOLEAN /\ crossed \subseteq Discs
  /\ app \in Apps
  /\ (app.udi = None) = (app.pn = None)
  /\ app.pn # None => app.sel \subseteq Tracks(app)

Settled == scanned /\ solid = <<>>

(* When the notifications have been handled the devices known are the      *)
(* drives with an audio disc, and the disc that is open is the one in its  *)
(* drive: its tracks, lengths and audio are read from there.  This holds   *)
(* however discs were changed while the notifications were on their way,   *)
(* and whenever the scan came in between.                                  *)
(* Not so with EarlyRemovals: scanBus() forgets a drive whose disc is open *)
(* already and gone again by then, and its removal is not noticed.         *)
OpenDiscIsPresent ==
  Settled => /\ app.known = {d \in Drives : Audio(tray[d])}
             /\ app.pn # None => tray[app.udi] = app.pn

(* The metadata, the edits and the cover are those of the disc that is     *)
(* open, or of one whose lookup, question or search was still going on     *)
(* when this disc was opened: nothing checks for which disc an answer was. *)
(* (And a cover may have been searched for without any words: the flag     *)
(* that there are none is not set again for a new disc.)                   *)
MetadataIsOfThisDisc ==
  app.pn # None => {app.info, app.typed} \cup app.cover \subseteq {None, app.pn} \cup crossed

(* A transaction that is pending blocks every later lookup, so something   *)
(* must be there to end it, and only one: the lookup thread, or a question.*)
PendingHasOneOwner ==
  LET owners == (IF app.looking # None THEN {0} ELSE {})
                  \cup {i \in DOMAIN app.boxes : app.boxes[i].kind = "select"}
  IN  Cardinality(owners) = IF app.pending THEN 1 ELSE 0

(* A lookup always ends, and with it the spinner.                          *)
LookupEnds == app.pending ~> ~app.pending

(* A disc that stays in the only drive in use is opened in the end.        *)
DiscIsOpened ==
  \A d \in Drives, x \in {y \in Discs : Audio(y)} :
    [](\A e \in Drives \ {d} : tray[e] = None) /\ <>[](tray[d] = x) => <>[](app.pn = x)
=============================================================================
