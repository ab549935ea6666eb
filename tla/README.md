# A TLA+ model of CDDA-Ripper

CDDA-Ripper (a fork of Audex) reads audio CDs, encodes their tracks with external
programs and fetches names and covers from the network. It is a Qt program: nearly all of
its code runs in one event loop, but what the loop runs is not one handler at a time.
Signals call handlers that call handlers, message boxes run loops of their own inside a
handler, a thread reads the disc and queues its signals, and encoders, drives, timers and
servers answer when they like. The model is about that: the order of these events, and what
each handler finds when it runs.

Paths below are relative to the repository; line numbers are in `PROJECT.json`, whose
"map" names for every definition the lines it stands for.

## 1. Inventory

| Component | State | Operations | Talks to | Correct if |
|---|---|---|---|---|
| Rip pipeline, `core/audex.cpp` | indexes and counts of both sides, `process_counter`, `_finished`, job queue, "ripped" marks | `prepare`, `start`, `cancel`, `start_extract`, `finish_extract`, `start_encode`, `finish_encode`, `request_finish`, `execute_finish` | thread and encoder by signals, disc and profile models by calls | one conclusion, at rest; a truthful verdict; no file lost |
| Encoder wrapper, `utils/encoderwrapper.cpp` | flags, name of the file being written, a `QProcess` | `encode`, `cancel`, `processFinished`, `processError` | the encoder process, Audex | every process ends in one `finished()`; only a partial file is deleted |
| Extraction thread, `utils/cddaextractthread.cpp` | track, sector range, interrupt flag, progress | `run`, `cancel`, `skipTrack` | drive by calls, Audex by queued signals | every sector reaches the file once, before the end of its track |
| Drive, `utils/cddaparanoia.cpp` | table of contents, mode mask, never-skip flag | mode, retries, offset, first/last sector, frames | libcdio-paranoia | ranges and totals agree; the mode is the one asked for |
| Wave writer, `utils/wavefilewriter.cpp` | open file, its buffer, header | `open`, `write`, `close` | Audex | the header tells the data, and the data are the track |
| Rip dialog, `dialogs/extractingprogressdialog.cpp` | buttons, nested boxes, emergency timer | `cancel`, `conclusion`, `closeEvent`, `ask_timeout` | Audex, which it owns | never closed over a running rip; never without a button |
| Disc devices, `utils/cddadevices.cpp` | known discs | `scanBus`, added, removed | Solid, disc model | knows exactly the audio discs that are there |
| Disc model, `models/cddamodel.cpp` | open disc, metadata, edits, selection, cover, pending lookup | new disc, disc removed, `lookupCDDB`, `lookup_cddb_done`, selection, edits | all of the user interface | what it shows belongs to the disc that is in |
| Metadata client, `cddb/libkcddb/client.cpp` | lookups, response | `lookup`, `slotFinished` | MusicBrainz thread, cache, disc model | each lookup ends once |
| Main window and header, `mainwindow.cpp`, `widgets/cddaheaderwidget.cpp` | boxes, searching flag, dialog pointer | slots for discs and lookups; search for a cover | disc model, cover browser | as the disc model |
| Thumbnailer, `thumbnailer/thumbnailer.cpp`, `ratelimiter.cpp` | requests, list and count of the limiter, error counters, quota timer | create, start, cancel, drop, `callFinished`, `pump`, `done`, suspend, resume | network jobs, clients | every request is answered once; the limit holds; nothing waits for ever |
| Profiles, `models/profilemodel.cpp`, `widgets/profilewidget.cpp`, `dialogs/profiledatadialog.cpp` | list, current profile, settings | add, edit, remove, copy, detect, load, pick, restart | the rip, the combobox | distinct profiles, the user's choice kept, the settings true |
| Cover search, `thumbnailer/albuminfo.cpp`, `artistinfo.cpp`, `job.cpp`, `netrequest.cpp`, `diskcachemanager.cpp` | one search: its tries, the pictures to come, the open cache device; the cache with expiry dates, shared | `run`, `queryInfo`, `processInfo`, `queryImages`, `processImage`, `fakeImage`; a redirection; `queryData`, `createData`, `insertData` | services, Thumbnailer | the chain ends; what the service said is kept, a failure is told and leaves no device open |
| Options and schemes, `utils/parameters.cpp`, `utils/schemeparser.cpp` | the modes of two parsers | `toString`, `fromString`, `parseScheme` | profiles, encoders, file names | what was saved is what is read; a scheme expands to what it says |
| Metadata text and cache, written lists, disc ids, command lines | data | pure functions | the above | not modelled, see section 8 |
| Preferences, wizards, pages, style, vendored Solid, tinyxml2, sajson | | | | not modelled, see section 8 |

What is hard to test in this code, as "hazards" of `PROJECT.json` lists line by line:

* *Two ends of one chain.* `start_extract` and `finish_encode` each leave the conclusion of
  the rip to the other; `pump`, `done` and `resume` each leave a waiting request to the others.
* *Counters that must be exact along every chain of handlers*: `process_counter`, `running_`.
* *Nested event loops*: a box is open while the rip concludes, discs change and lookups end.
* *Late answers*: a reply, cover or question for the disc before; a timer after the conclusion;
  a sector after the end of its track.
* *Partial failure*: an encoder that crashes or cannot be started, a disk that fills up, an
  edit refused in its middle.

## 2. Modules

```
RipJob  <----- implemented by -----  Audex  <--- EXTENDS ---  ExtractingProgressDialog
                                       ^                              ^
                                  AudexProofs, MCAudex             MCDialog, DialogProofs
                                       ^
                                  AudexJobProofs

Thumbnailer <- MCThumbnailer, ThumbnailerProofs      CDDAModel <- MCCDDAModel, CDDAModelProofs
   its action Reply is detailed by
CoverQuery  <- MCCoverQuery, CoverQueryProofs        Extraction <- MCExtraction, ExtractionProofs

              ProfileModel <-+
                             +- ProfileTexts <- MCProfileModel, ProfileModelProofs
Parameters <- SchemeParser <-+
```

All of them follow one form. A handler that runs to its end is an operator from a state to
the state after it; an action applies the handler that an event calls. What the program can
be interrupted in (a box, a queued call, a thread) is state, not one action.

**`Audex`** - the pipeline with the wrapper, the process, the job queue and the thread's
signals in one record `rip`. `StartExtract`, `FinishExtract`, `StartEncode`, `FinishEncode`,
`RequestFinish` and `ExecuteFinish` are the handlers of these names and call each other as the
code does; a chain such as `finish_extract -> addNewJob -> start_encode -> encode ->
start_extract` is one action. The actions are the events: `Start`, `PrepareFails`,
`ThreadChecks` and `ThreadResets` (`run()` looks at its interrupt flag, and then clears it),
`ThreadEnds` (the thread has read a track, failed, or read nothing, and queues its signals),
`Deliver` (the loop takes one), `EncoderOpens`, `EncoderExits`, `EncoderCrashes`, `Cancel`. Files
are `Absent`, `Old`, `Partial(t)` or `Complete(t)`. `cancelled`, `encoded` and `rip.missed` (a
request to stop was cleared by `run()`) are history.

**`RipJob`** - what a rip promises: each wanted track goes forward through waiting, extracting,
queued, encoding, through; one track at a time is extracted and one encoded, in the order of
the disc; the verdict comes once, at rest, and says success only if every track is through.
`ImplementsRipJob` is the refinement, with `StageOf` as its mapping.

**`ExtractingProgressDialog`** - the dialog around `Audex`: its button box, the stack of boxes
whose answers may come after anything else, the emergency timer, the eject and the close that
deletes Audex. `Conclusion` runs inside every step of Audex that emits `finished()`.

**`Extraction`** - one level below `Audex`: the thread reads sector by sector, concurrently
with the main thread, and queues `output`, `error` and `finished`; the main thread writes the
sectors through the buffer of `QFile` to a disk that may be full, closes the file, and hands
it over. `OpenWave` may fail, which nobody notices: the track is then read for nothing and handed
over without a file. A cancellation may come before `run()` looks at its flag, between that and
the reset (`CheckInterrupt`, `BeginRun`), or later. Sectors are numbers, a wave file is the sequence of its sectors and the number in its
header. The drive outlives the rips, the thread and the writer do not.

**`CDDAModel`** - `CDDADevices`, `CDDAModel`, `KCDDB::Client` and the slots of the main window
and the header widget that they call. Discs go in and out of drives at any moment; Solid's
notifications are a queue that may be behind; boxes are a stack whose topmost alone can be
answered; metadata, edits, cover, a running lookup and a running search are named by the disc
they are for: the words of a search are those of the entry or those the user typed, and there
may be none at all. A disc that cannot be read is opened without tracks (`toc`), and its lookup
fails at once.

**`Thumbnailer`** - `ThumbnailerImpl`, `RequestImpl` and `RateLimiter`. The list is served at
its end (`list_.back()`). A request found in the disk cache is answered inside the call that
sends it, and its end serves the next one, so `Pump` serves a whole run of them at once.
`CoverFetcher` is the client: it may create, cancel and drop requests at any time.

**`CoverQuery`** - what happens between the start of a request and the end that
`Thumbnailer`'s `Reply` chooses freely: the cache is looked into, the service asked, its
pictures are downloaded one by one, each with at most one redirection, into a device that the
disk cache has prepared and that is inserted at the end. A handler maps one search and the cache
entry of its album to both after it. Several searches run at once and may share an entry.

**`ProfileModel`** - the profile list with its page, dialog and settings, as section 1 says.
`Add`, `Modify`, `Delete`, `Copy`, `AutoCreate`, `LoadFile`, `Pick` and `Restart` each are a
slot with every call it makes; `Modify` keeps what a refused edit had already set. Comparing
names is the locale's business: the model orders them by their base and their underscores.

**`Parameters`**, **`SchemeParser`** - the parsers, which read one character at a time in a mode
(the flags of the code), as folds over the text; `ToText` is `toString()`. A character stands
for its class: a letter, a quote, a separator, the word `true`; of digits there are zero and one
other. A number is its digits and its point, without sign and exponent; `toInt()` takes one of
up to `IntDigits` digits, `toDouble()` any, and `Shortest` is the text a number has afterwards.
The reference definitions are the map that was written, with whole doubles as integers, and for a
scheme the pieces it was put together from. A piece says what it stands for, which placeholder
the caller is told of, and whether the scheme fails with it: parameters may be any the parser
writes, or a text of the author's own, on a placeholder with a value or without.

**`ProfileTexts`** - joins them to `ProfileModel`, where the contents of a profile are one value:
here that value stands for the class of options and schemes it may have.

### Order and plan

Done in this order: Audex and its dialog, the proofs about both, Thumbnailer, CDDAModel,
Extraction, ProfileModel; then CoverQuery, Parameters and SchemeParser, and the proofs about
Thumbnailer, CoverQuery, CDDAModel, the flow of the rip, its refinement of RipJob, its files,
Extraction, ProfileModel and the two parsers. Every safety and action property that a passing
run checks is now a theorem. What is left:

1. The composition of `CDDAModel` with `Audex` is not planned any more. What it would add is a
   disc that goes while a rip runs, and there the code deletes the drive object that the
   extraction thread reads (a hazard in `PROJECT.json`): from that point C++ defines nothing
   that a model could follow. Everything else the two share is constant during a rip.
2. The text form of `CDInfo`, once the program enables the cache that uses it.

## 3. Runs

| Run | Question | Bounds |
|---|---|---|
| `MCAudex` | Is every rip concluded once, at rest, truthfully, without losing a file, as `RipJob` says? | 3 audio tracks, all selections, both modes, all sets of existing files, all options |
| `MCAudexLive` | Does every rip conclude, also when encoders crash, do not start, have no command or create their file late, and when a cancellation is lost? | 3 tracks, all faults |
| `MCDialog` | Is the dialog usable and safe around that? | 2 tracks |
| `MCThumbnailer` | Is every request answered once, under the limit, the quota, cancellations and drops? | 3 requests, 2 at a time, 2 refusals |
| `MCCoverQuery` | Does each search end, tell its failures, and leave in the cache what its outcome says? | 2 searches, 2 albums, 2 pictures, 1 retry, 1 refusal by HTTP status |
| `MCCDDAModel` | Does the model follow the drives, and does each lookup end? | 2 drives, 2 discs, one insertion beyond the start |
| `MCExtraction` | Is what the encoder gets the track? | 2 tracks of 3 and 2 sectors, 2 rips, buffer of 2 sectors, a shifted disc |
| `MCProfileModel` | Do the profiles stay distinct, saved, and the user's, and are their options and schemes read as written? | 3 profiles, 2 names, one underscore, 2 files; 2 keys, all texts of up to 2 of 10 characters, two of 3, integers of 1 digit, 2 parameters; schemes of 3 pieces |
| `MCAudexDataTrack` | *violation* of `NeverStuck`: a selected data track | 2 audio tracks and 1 data track |
| `MCDialogCrash` | *violation* of `ClosedWhenIdle`: an encoder crash | 2 tracks, crashes |
| `MCThumbnailerDrop` | *violation* of `RunningIsExact`: a request dropped in flight | 3 requests, 1 at a time |
| `MCExtractionFull` | *violation* of `WaveIsTheTrack`: a full disk | space for 3 sectors |

Why the bounds are enough. Three tracks are the least for which one is encoded, one waits and
one is read, or is skipped between two others. The limiter's list needs two entries besides a
running request to show its order, hence three requests and a limit of two; the second refusal
is one that meets a suspension already there. A foreign answer needs one disc before and one
after; a third would be another "before". A track of three sectors is longer than the buffer,
one of two fills it exactly; the second rip finds the drive as the first left it. A
search needs one picture to have arrived before the one that fails, and a second search of the
same album to meet an entry that is not its own. A text of two characters holds an escape, a
quote next to a separator, a leading zero, a number too large for an int, or a number next to a
letter, and the parsers keep one character and one mode from the past; three characters make a
double, a whole one and another; three pieces are a placeholder between two neighbours. The third
profile makes the rows move, the index of a removed one free and a gap in the indexes.
Deadlock is checked for Audex, where a concluded rip has its own stuttering end, and switched
off where a user may simply stop.

What each property says is in the comment above it. The ones that carry most:

* `ConcludedIdleOnce`, `NeverStuck`, `StopReachesAll` (`Audex`): the counter `process_counter`
  and the two halves of the conclusion fit together in every order of the two processes' ends;
  a request to stop reaches all that runs, but for the one window in `run()` (section 4).
* `SuccessIsTrue`, `EncodedIsKept`, `ExistingFilesKept`, `StoppedLeavesNoPartial`,
  `SourceOutlivesItsUsers`: what the user has on disk at the end is what the protocol says.
* `CloseButtonStays`, `ButtonComesBack`, `ClosedWhenIdle`, `CancelConcludes` (dialog).
* `RunningIsExact`, `NoLostWakeup`, `EveryRequestAnswered` (`Thumbnailer`).
* `DeviceIsInserted`, `FailureIsTold`, `OutcomeIsRemembered`, `EverySearchEnds` (`CoverQuery`): no
  early return of the chain forgets the open device or loses an error on the way to the last
  picture, and what each end leaves in the cache is spelled out, outages included: one while the
  information is asked for changes nothing, one during the pictures is inserted for the long
  time with what came (section 4).
* `PendingHasOneOwner` (`CDDAModel`): the transaction of a lookup is ended by the thread or by
  one question, although boxes nest and a failed lookup returns into another's box.
* `MetadataIsOfThisDisc` (`CDDAModel`): foreign metadata can come from nothing but a lookup, a
  question or a search that was going on when the disc was opened; the code has no stronger
  guard, and the property says exactly how far it goes.
* `WaveIsTheTrack` (`Extraction`), `CurrentIsTheUsers`, `SavedIsShown` (`ProfileModel`).
* `SavedOptionsAreReadBack`, `SchemesExpand` (`ProfileTexts`): the parser undoes the writer for
  every value a profile can have, with its quotes, backslashes and separators, but that a whole
  double comes back as an int; and a scheme gives its literals and placeholders in order, whatever
  its neighbours are, or nothing, exactly if parameters cannot be read or have no value to act on.

## 4. What the violations show

1. A data track can be selected, is counted by `numOfAudioTracksInSelection()`, and is skipped
   by `start_extract` without being counted: the recursion never ends.
2. A crashing encoder is announced twice by `QProcess`, and both announcements become
   `finished()`; the rip concludes over the running thread and the dialog can be closed.
3. A cover search closed while its request is out is never counted down; after four the
   limiter sends nothing more.
4. A full temporary folder truncates the wave file in silence; it is encoded as complete.

Further observations, made with the same modules but without a run of their own:

* A cancellation between the look of `run()` at `b_interrupt` and its reset
  (`cddaextractthread.cpp:57-60`) is lost. It is not repeated: `request_finish` runs once, so the
  thread reads the track to its end before the rip concludes.
* With `Faults = {"late_output"}`, `StoppedLeavesNoPartial` fails: `cancel()` removes the file
  right after `terminate()`, and an encoder that has not yet died may create it again.
* A wave file that cannot be opened is not noticed (`wavefilewriter.cpp:34-36`; the result is
  ignored in `audex.cpp:222` and `330`): the track is read, dropped and handed to the encoder
  without a file.
* With `Faults = {"failed_to_start"}`, `EncodedIsKept` fails: `processing_filename` is still
  the previous track's when the encoder cannot be started, and that complete file is deleted.
* With a constant `TargetOf` (a naming scheme without track number) `ExistingFilesKept`
  fails: existence is checked when a track's extraction starts, before the earlier track's encoder has
  created the file.
* With `EarlyRemovals = TRUE`, `OpenDiscIsPresent` fails: `scanBus()` forgets a disc announced
  before it ran, and its removal is then not noticed. The window is 200 ms after the start.
* `setNeverSkip()` passes a mask where a mode is expected, so full paranoia mode cannot be
  switched off for the first track, nor for any while never-skip is on.
* With a negative sample offset the first track begins at sector -1, `run()` gives up without a
  sector and the missing file is handed on. A second rip of a disc shifts its table again.
* `resume()` pumps without looking at the number of requests out, so one more than the limit
  could be sent if a client had several out; the one there is has one. `cancel()` before the posted `start()` emits no `finished()`. The limiter
  serves the newest waiting request, where a comment speaks of the head of the queue.
* The flag that tells "no metadata yet" is never set again, so the question before the rip of
  an unknown disc is asked for the first disc only.
* A disc removed under a warning of `rip()` leaves `AudioTracks = {}`, which is the first
  violation again. The two thresholds of `check()` are tested in the wrong order, so little
  free space passes.
* `CoverQuery`: an outage during the pictures is remembered: what came, even nothing, is inserted
  for some 360 days and served as a success later; refusals by HTTP status are not capped by
  `maxRetry()`, which is why the model has a bound of its own; the address in the cache leaves
  out how many pictures were asked for; a later error of the server overwrites a good entry.
* The wizards describe `${trackno length="2" fillchar="0"}` and `preparam="-ti "`
  (`schemewizarddialog.cpp:114`, `commandwizarddialog.cpp:119`). The parser knows single quotes
  only and takes double quotes for a part of the value: `length="2"` asks for no number and
  changes nothing, and a value with a space in it is an error that empties the whole result,
  which no caller looks at.
* "If no cover is set, this variable will be replaced by nothing"
  (`commandwizarddialog.cpp:121`): so `$cover` is, but `${cover format='JPG'}` without a cover
  swallows the rest of the command and fails it. `SchemesExpand` says so; with `fails = FALSE` in
  `WithArguments`, which is what that sentence says, it is violated.
* `$a$b` appends a literal `$`, a backslash after a bare name is kept, and a `}` inside a
  quoted value ends the parameters. A double with a whole value (`oggencwidget.cpp:69`) is read
  back as an integer; its readers convert.
* `CDInfo::load` keeps the `=` of a line, and undoes `\n` before `\\`; only the cache, which is
  never enabled, would show it.

## 5. Fairness

Every passing liveness property is checked under weak fairness of steps that the platform
performs by itself, never of the user:

* Audex, Extraction: the scheduler runs the thread and a read returns (`paranoia_read_limited`
  bounds its retries); the loop delivers a queued signal; an encoder exits sooner or later.
* The dialog adds the emergency timer. An open question needs no answer for
  `CancelConcludes`: the rip goes on behind it.
* Thumbnailer: posted slots run, each request is answered or fails, the quota timer fires.
  `NetRequest` sets no timeout: that an answer comes or the connection breaks is an assumption
  about the network.
* CoverQuery: the same answers, and the run that a retry has posted.
* CDDAModel: the queue of notifications and the posted calls run, lookups and searches end, and
  a box is answered: it is modal, and nothing else in the program can go on before that.

Weak fairness is enough everywhere because an enabled step of this kind stays enabled until it
happens: a queue keeps its head, a thread its sector, a process its exit.

## 6. Proofs

`AudexProofs` proves for every number of tracks, every set of audio and selectable tracks,
every naming scheme and every set of files

* `TypeCorrect`: `Spec => []TypeOK`
* `ConcludesIdleOnce`: `Spec => []ConcludedIdleOnce`
* `StopReachesEverything`: `Spec => []StopReachesAll`

from `ConstantsAssumption` and `Regular == Faults = {}`, which says that encoders start and end
by exiting, with success or not, and that one told to terminate creates no file any more. The
assumption is needed: with a crash `ConcludedIdleOnce` is false, with a late file
`StoppedLeavesNoPartial` (section 4).

None of the three is inductive. The conclusion is drawn from `process_counter`, so the
invariant must say that it counts the running processes (`Counted`); whether a handler raises or
lowers it depends on which process it believes to be running, so the thread's track, its queued
signals and the wrapper's flag must agree (`ThreadInv`, `Consistent`); and "once" needs the
exact moment (`Conclusive`): `concluded` is 1 when the rip is to finish and nothing runs, and
else 0. With `Told`, which says where a request to stop is and that a lost one is lost to a
`run()` that reads, they are `Inv`.

The argument goes handler by handler, as the code does. For each handler there is a predicate
of the state before and the state after (`ExecutesFinish`, `RequestsFinish`, ...) and a lemma
that the handler satisfies it; handlers that call others use their lemmas, from
`execute_finish` up to `finish_extract`. `start_extract` skips tracks in a recursion, which the
model writes with the least track that is not skipped; that it exists is `LeastNatural`, from
the well-foundedness of `<`. The step of the invariant then is one case per action.

The second part of `AudexProofs` proves on top of it, for discs whose selectable tracks are audio tracks
(`OnlyAudio`; section 4 shows that it is needed),

* `NeverWaitsInVain`: `Spec => []NeverStuck`

A rip would hang if one side waited for an event the other had already had. `Balanced` excludes
it by arithmetic: tracks encoded or skipped, plus those in the queue, plus the one being read,
are the tracks counted by the extraction; and jobs exist only while an encoder runs. When
nothing is read any more, the count has reached its limit (`Flows`): `ex_count` is the number of
selected tracks up to `ex_index` (`Counts`, `UpTo`), so past the last one it is all of them.
Hence the last encoder to end finds `en_count` at the limit.

`AudexJobProofs` proves from it, under the same assumptions, the refinement

* `RefinesRipJob`: `Spec => ImplementsRipJob`

`Stage` is `StageOf` for any state of the pipeline, also one between two handlers of a chain.
`Ordered` says that the pipeline is a line: what is ripped, encoded, queued and read follow each
other in the order of the disc, and nothing is in two places. `Accounted` says that no track is
lost while the rip goes on: every one up to `ex_index` is in some stage. With the counts of
`Flows`, a request for success then comes only when every track is through, and `Just` keeps it.
`Ahead` relates a state to a later one, track by track; it is transitive (`AheadFurther`), so a
chain of handlers is one step of `RipJob` because each handler of it only moves tracks forward.

The second part of `AudexJobProofs` adds the files. For schemes that name no file twice
(`OwnFiles`; needed, as a constant `TargetOf` shows in section 4) it proves

* `SuccessIsHonest`: `Spec => []SuccessIsTrue`, `EncodedStays`: `Spec => []EncodedIsKept`
* `NoPartialIsLeft`: `Spec => []StoppedLeavesNoPartial`
* `NoFileIsOverwritten`: `Spec => ExistingFilesKept`, an action property

and for any scheme

* `SourcesOutlive`: `Spec => SourceOutlivesItsUsers`, an action property

The stage of a track says what its file holds: as before the rip until an encoder is started
(`Coming`), the encoder's own after that (`Encoding`), complete or kept once it is through,
unless the rip is lost already (`Through`). A partial file is that of the encoder that runs, or
is left by a rip that is to finish and did not stop an encoder whose file it removes (`Strays`).
`Onward` relates the files of a state to those of a later one and is transitive, so the action
property follows handler by handler. Steps that move tracks and touch no file are dealt with
once (`Shifts`). `Spends` says of each handler why a wave file went: its track is through, it
holds no data, the rip concluded, or the track was given up. `Ordered` says that a track that is
through has no other user.

`DialogProofs` proves of the dialog on top of the rip, under the same assumption and for any
answers at any time,

* `DialogTypeCorrect`: `DSpec => []DTypeOK`
* `ClosesOnlyWhenIdle`: `DSpec => []ClosedWhenIdle`
* `CloseButtonIsThere`: `DSpec => []CloseButtonStays`
* `NeverLockedOut`: `DSpec => []ButtonComesBack`
* `EjectsOnlyWhenStopping`: `DSpec => EjectOnlyWhenStopping`

The invariant `DInv` is `Inv` with what relates the dialog to the rip: a question is open only
over a started rip (else the answer could finish a rip that never began), a confirmed
cancellation means a rip that is to finish, and the possible stacks of boxes (`BoxesInv`). Two
lemmas carry the argument: the rip takes no step after its conclusion
(`NoStepAfterConclusion`), so the `conclusion` slot runs once, and a request to finish changes
nothing of a concluded rip (`RequestKeeps`), so a late answer is harmless.

`ThumbnailerProofs` proves, for any finite set of requests and any limit, under
`Patient == ~DropsInFlight` (section 4 shows that it is needed),

* `TypeCorrect`, `CountIsExact`: `Spec => []RunningIsExact`
* `NoWakeupIsLost`: `Spec => []NoLostWakeup`, `AnsweredAtMostOnce`: `Spec => []AnsweredOnce`

`Pump` serves a whole run of the list in one step, some of it from the cache. Its lemma says of
the result what matters: which requests left the list, that `running` less the requests
out (`Balance`) is as before, and that it stops only at the limit, at the end of the list or
when suspended. The other parts of `Inv` are that the list holds each request once, that a
posted slot is for a request in the phase it expects, that the three signs of a suspension agree
(`TimerInv`), and that a waiting request is awaited by something (`Awaited`).

`CoverQueryProofs` proves, for any number of searches, albums, pictures and tries,

* `SearchTypeCorrect`, `DevicesAreInserted`, `FailuresAreTold`: the invariants of the run
* `OutcomesAreRemembered`: `Spec => OutcomeIsRemembered`, an action property

`GoodJob` is the strengthening: it says for each phase of a search what device, status and
pictures it has. A handler's lemma says also what it did to the entry of the album, and the
action property follows from that handler by handler.

`CDDAModelProofs` proves, for any drives, discs and numbers of insertions and every order of
notifications, answers and replies,

* `TypeCorrect`, `MetadataIsTheirs`: `Spec => []MetadataIsOfThisDisc`,
  `TransactionHasOneOwner`: `Spec => []PendingHasOneOwner`
* `DrivesAreFollowed`: `Spec => []OpenDiscIsPresent`, under `Patience == ~EarlyRemovals`
  (needed: section 4)

The first rest on `Inv == TypeOK /\ Owned /\ Ours`: who owns the transaction, and whose disc
everything found or under way is for. The last needs that what is known of a drive may be
wrong as long as a notification is on its way that will correct it: `Following` distinguishes
drives of which no removal is announced (`Quiet`) and of which nothing is (`Silent`).

`ExtractionProofs` proves, for any disc, any rips one after the other, any errors and
cancellations and every order of the thread's steps and the delivery of its signals,

* `TypeCorrect`: `Spec => []TypeOK`
* `SectorsAddUp`: `Spec => []ProgressAddsUp`, under `OnDisc`
* `WavesAreTracks`: `Spec => []WaveIsTheTrack`, under `OnDisc` and `Room`; whether a file can be
  opened is left to chance

`OnDisc` says that the sample offset, applied anew by each rip to the drive all of them use,
keeps the first sector on the disc, as every offset that is not negative does. Without it the
first track starts before sector 0, `run()` gives up without a word and the wave file handed
over is missing (a hazard of `PROJECT.json`). `Room` says that the folder has room for the disc;
`MCExtractionFull` shows that it is needed.

The invariant has three layers, each inductive given those below it. `TypeInv` holds what the
two threads share together: how far the table of contents is shifted (`TocIsShifted`), which
signals may be queued in which state of the thread (`Stream`: outputs, then errors, then one
`finished`), and that free space, what was written of the file and the files of the queued jobs add up to
the whole folder (`SpaceIsKept`). `TrackInv` ties the thread to the rip: which track it reads,
between which sectors, and that `overall` counts the tracks read and what was read of this one;
it changes before the signals that tell of it are delivered. `WaveInv` says that file and
buffer hold consecutive sectors from the first of the track, that the queued outputs continue
them up to the sector the thread is at, and that the space left is enough for the rest.

The progress is a sum over the selected tracks, by a fold of the community modules. The
induction theorems of the library cannot be instantiated; instead, a least counterexample
(`NoLeast`) shows that the functions that define a sum exist and that adding one element adds its
weight.

`ProfileModelProofs` proves, for any names, schemes, numbers of profiles and copies, any encoders
detected and any files that are not profiles or were saved by the program,

* `TypeCorrect`, `NoTwoAreAlike`: `Spec => []ProfilesAreDistinct`,
  `ShownIsSaved`: `Spec => []SavedIsShown`
* `ChoiceIsKept`: `Spec => CurrentIsTheUsers`, an action property

`ModelInv` adds to them that the saved list is as proper as the shown one (a restart shows it),
and that the current index is of one of the profiles (so that removing another row leaves it).
It holds between the calls an operation is made of, of states `St(list, c, saved)`, so each call
has one lemma (`SetCurrentIs`, `InsertRowIs`, `RemoveRowIs`, `SetFieldsIs`) and an operation
composes them. The free index and the free name are there by the pigeonhole principle
(`FirstFree`); sorting permutes the rows because ranks are distinct (`RankIs`,
`SortedPermutes`); and detection, a fold over the encoders, keeps a list distinct and changes no
profile of it (`DetectedGrows`, by a least counterexample as above). `NamesAssumption` says that
names are not empty and that those detected fit into the bound `MaxProfiles`,
`SchemesAssumption` that new profiles have a scheme, `FilesAssumption` what a file may hold.

The second half of the module is about what the profiles hold, for options of any names and any
texts (`TextsAssumption`: names are words) and schemes of any length, of any placeholders,
literals and parameters (`SchemeAssumption`: a literal is no dollar and no backslash, names are
words, and parameters, or what is written in their place, have no closing brace, which would end
them):

* `OptionsAreReadBack`: `Spec => []SavedOptionsAreReadBack`
* `SchemesAreExpanded`: `Spec => []SchemesExpand`

A parser is a fold over the text, and `Leads(kind, p, s, q)` says that reading `s` takes it from
state `p` to state `q`. `Leads` composes (`LeadsOn`), has one end (`LeadsToOne`), and the fold
is such an end (`FoldLeads`, `FoldOfText`, `FoldOfScheme`). What a mode does with one character
is a lemma of its own (`Reads...`), and from these the lemmas go up as the text is written: an
escaped text between its quotes (`EscapedLeads`), a value, an entry (`EntryLeads`), the whole
map (`TextIsRead`). There an invariant runs over the entries: after `i` of them the parser holds
the first `i - 1` and is about to insert the next, and a separator inserts it
(`EndedSeparator`), inside quotes never. It does not depend on the order in which the map hands
out its keys. For schemes the invariant is that what was read of the pieces is their values
(`Settled`), or that the last one is a bare name which the next character may still lengthen
(`Pending`). A piece leads from the first to either (`PieceLeads`); from the second only a
literal that is no part of a name may follow, and it ends the name (`OnlyLiteralsFollow`,
`PieceEndsName`), as `Separated` says of the pattern. The parameters in the braces of a
placeholder are read by the theorem about options (`GivenLeads`); where they fail, the parser is
in a state it does not leave before the end (`Stuck`), which accounts for the pieces after it.
The inductions are over positions, by a least counterexample as for the sums; that the folds and
`FlattenSeq` of the community modules obey their equations is proved the same way (`FoldExists`,
`FlattenIs`).

Model-checked only: everything under fairness (`EventuallyConcluded`, `CancelConcludes`,
`EveryRequestAnswered`, `EverySearchEnds`, `LookupEnds`, `DiscIsOpened`, `EventuallyOver`), since
liveness and `ENABLED` are beyond the prover. No module declares a recursive operator.

## 7. Assumptions of the models

* Qt delivers direct connections as calls and queued ones in order; a modal box blocks the
  rest of the user interface; `QProcess` emits `errorOccurred` and `finished` for a crash.
* The automatic lookup and the automatic search for a cover are on, as they are by default.
* `EarlyRemovals = FALSE` and `DropsInFlight = FALSE` in the passing runs, and `Faults = {}` in
  `MCAudex` and `MCDialog`: the other values are those of section 4. `Faults = {}` includes that
  an encoder creates no file after it was told to terminate (`"late_output"`).
* `Separated`: in the schemes the properties are about, a bare `$name` is followed by neither a
  word character, which would lengthen it, nor `$` or `\`, which the parser copies (section 4).
* One drive at most holds a disc when the program starts (`MCSpec`).
* A disc is not removed during a rip, and one rip at a time runs: the dialog is modal.
* `QFile` buffers `Chunk` sectors and reports a failing write when it flushes them.
* The combobox of profiles picks a row only when the user does. A reset clears it, as
  `update_profile_action()` says; versions of Qt that select the first row then are another
  user's pick to the model.
* `CDDAModel` lets the metadata cache have an entry at any lookup; the program never enables
  that cache, so this only adds behaviours.
* Covers: the server answers or the connection ends; one redirection at most is followed.
* Settings reach the disk when they are synced; power loss is not modelled.

## 8. Not modelled

`PROJECT.json` lists every component with its status and reason. In short: the text form of
`CDInfo` and its cache (never enabled), the digest of `DiscIDCalculator` (bits without control),
the command lines of the encoders and the lists written after a rip (formats), the formats of
foreign services, the dialog for a search the user starts, presentation and pages that copy
values, vendored code, build and data files.
Of modelled components, the retry of an unreadable answer (`Parse_RetryQuery`, which no provider
returns), the figures shown during a rip, the fields of the metadata and the
guesses about them, and the pictures of a search are data that no handler decides on.

## 9. Running

```
tlc -config MCAudex.cfg MCAudex          # and the other configurations
tlapm AudexProofs.tla                    # and AudexJobProofs, DialogProofs,
                                         # ThumbnailerProofs, CoverQueryProofs,
                                         # CDDAModelProofs, ExtractionProofs,
                                         # ProfileModelProofs
```
