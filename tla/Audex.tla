-------------------------------- MODULE Audex --------------------------------
(***************************************************************************)
(* The rip pipeline: class Audex with the objects it owns, the job queue   *)
(* (AudexJobs), the wrapper of the external encoder process                *)
(* (EncoderWrapper, QProcess) and the extraction thread                    *)
(* (CDDAExtractThread).                                                    *)
(*                                                                         *)
(* All the handlers of Audex run in the main thread and call each other    *)
(* directly (Qt delivers a signal emitted in the receiver's thread as a    *)
(* call), so one event of the loop runs a chain such as                    *)
(*   finish_extract -> addNewJob -> start_encode -> encode -> start_extract*)
(* to its end.  A handler is an operator from the pipeline's state before  *)
(* it to the state after it, an action applies the handler an event of the *)
(* environment calls.  The environment is the extraction thread, whose     *)
(* signals are queued in order for the main thread, the encoder process,   *)
(* the file system and the user.                                           *)
(***************************************************************************)
EXTENDS Integers, Sequences, FiniteSets, FiniteSetsExt

CONSTANTS
  NTracks,      \* number of tracks of the disc
  AudioTracks,  \* those that are audio tracks
  Selectable,   \* those the user interface lets the user select
  Files,        \* names of target files
  TargetOf,     \* the file the profile's scheme names for a track
  FreeSpace,    \* free space the temporary folder may have, in MiB
  Faults        \* what may go wrong with an encoder beyond a failing exit

Tracks == 1..NTracks
FaultKinds == {"crash", "failed_to_start", "no_command", "late_output"}

ASSUME ConstantsAssumption ==
  /\ NTracks \in Nat \ {0}
  /\ AudioTracks \subseteq Tracks
  /\ Selectable \subseteq Tracks
  /\ TargetOf \in [Tracks -> Files]
  /\ FreeSpace \subseteq Nat
  /\ Faults \subseteq FaultKinds

VARIABLES
  config,     \* what the user chose; constant during a rip
  rip,        \* the state of the pipeline
  cancelled,  \* history: the user cancelled before the conclusion
  encoded     \* history: tracks whose encoder succeeded

vars == <<config, rip, cancelled, encoded>>

(* What a target file holds: nothing, what was there before the rip, or    *)
(* the audio of a track, being written or complete.                        *)
Absent      == [state |-> "absent",   track |-> 0]
Old         == [state |-> "old",      track |-> 0]
Partial(t)  == [state |-> "partial",  track |-> t]
Complete(t) == [state |-> "complete", track |-> t]
Content == [state : {"absent", "old", "partial", "complete"}, track : 0..NTracks]

Config == [selection    : SUBSET Selectable,
           single_file  : BOOLEAN,
           overwrite    : BOOLEAN,
           delete_fraction_files : BOOLEAN,
           no_command   : IF "no_command" \in Faults THEN BOOLEAN ELSE {FALSE},
           free         : FreeSpace]

NewRip(files) ==
  [started |-> FALSE, finished |-> FALSE, successful |-> FALSE, concluded |-> 0,
   process_counter |-> 0,
   \* extraction: Audex's counters, the thread, its queued signals
   ex_index |-> 0, ex_count |-> 0, reading |-> 0, interrupt |-> FALSE,
   run |-> "due", events |-> <<>>, empty |-> FALSE, runaway |-> FALSE,
   \* history: run() reset the flag of a cancel that came after its check
   missed |-> FALSE,
   \* encoding: AudexJobs, Audex's counters, EncoderWrapper, its process
   queue |-> <<>>, in_progress |-> FALSE, en_index |-> 0, en_count |-> 0,
   processing |-> FALSE, termination |-> FALSE, filename |-> 0, proc |-> 0, opened |-> FALSE,
   \* the temporary wave files, the target files, the model's custom data
   wav |-> {}, files |-> files, ripped |-> {}, listed |-> {}]

-----------------------------------------------------------------------------
(* How many tracks the counters must reach.                                *)
Limit == IF config.single_file THEN 1 ELSE Cardinality(config.selection)

(* jobs->jobInProgress() and jobs->pendingJobs() are both false *)
NoJobs(s) == ~s.in_progress /\ s.queue = <<>>

(* A mutant of AlreadyThere: the overwrite preference is not honoured.     *)
AlreadyThere_Ignored(s, t) == FALSE

(* The target exists and may not be overwritten: the track is skipped.     *)
AlreadyThere(s, t) == ~config.overwrite /\ s.files[TargetOf[t]].state # "absent"

(* Audex::check: the free space of the temporary folder, in MiB.           *)
CheckPasses(free) == IF free < 800 THEN TRUE ELSE ~(free < 200)

(* Audex::execute_finish: collect the ripped tracks for the playlist, the  *)
(* info and the hash files (written only after a success), flush the       *)
(* temporary files and emit finished().                                    *)
ExecuteFinish(s) ==
  [s EXCEPT !.listed = IF s.successful
                       THEN s.ripped \cap AudioTracks \cap config.selection
                       ELSE {},
            !.wav = {},
            !.concluded = @ + 1]

(* Mutants of ConcludeIfIdle: the counter is not looked at; the last       *)
(* process to end forgets the conclusion.                                  *)
ConcludeIfIdle_Always(s) == ExecuteFinish(s)
ConcludeIfIdle_Never(s)  == s

(* if (!process_counter) execute_finish();                                 *)
ConcludeIfIdle(s) == IF s.process_counter = 0 THEN ExecuteFinish(s) ELSE s

(* Mutants of CancelEncoder: without the early return for an encoder that  *)
(* is not processing; without the removal of the partial file.             *)
CancelEncoder_Unguarded(s) ==
  [s EXCEPT !.termination = s.processing,
            !.files = IF config.delete_fraction_files /\ s.filename # 0
                      THEN [@ EXCEPT ![TargetOf[s.filename]] = Absent]
                      ELSE @]
CancelEncoder_KeepsFile(s) ==
  IF ~s.processing THEN s ELSE [s EXCEPT !.termination = TRUE]

(* EncoderWrapper::cancel *)
CancelEncoder(s) ==
  IF ~s.processing THEN s
  ELSE [s EXCEPT !.termination = TRUE,
                 !.files = IF config.delete_fraction_files /\ s.filename # 0
                           THEN [@ EXCEPT ![TargetOf[s.filename]] = Absent]
                           ELSE @]

(* A mutant of CancelExtract: the thread is left to read on.               *)
CancelExtract_Forgotten(s) == s

(* CDDAExtractThread::cancel; what run() makes of the flag depends on how  *)
(* far it is (ThreadChecks, ThreadResets).                                 *)
CancelExtract(s) == [s EXCEPT !.interrupt = TRUE]

(* Audex::request_finish *)
RequestFinish(s, ok) ==
  IF s.finished THEN s
  ELSE LET r == [s EXCEPT !.finished = TRUE, !.successful = ok]
       IN  IF s.process_counter > 0
           THEN CancelExtract(CancelEncoder(r))
           ELSE ExecuteFinish(r)

(* Audex::slot_error *)
SlotError(s) == RequestFinish(s, FALSE)

(* Mutants of SuccessIfNoJobs: the jobs are not looked at; the conclusion  *)
(* is always left to finish_encode.                                        *)
SuccessIfNoJobs_Unchecked(s) == RequestFinish(s, TRUE)
SuccessIfNoJobs_Never(s)     == s

(* if (!jobs->jobInProgress() && !jobs->pendingJobs()) request_finish(true); *)
SuccessIfNoJobs(s) == IF NoJobs(s) THEN RequestFinish(s, TRUE) ELSE s

-----------------------------------------------------------------------------
(* A mutant of EncodeDone: the wave file being extracted is removed.       *)
EncodeDone_WrongSource(s) ==
  [s EXCEPT !.process_counter = @ - 1,
            !.in_progress = FALSE,
            !.ripped = @ \cup {s.en_index},
            !.wav = @ \ {s.ex_index}]

(* The head of Audex::finish_encode: the counter, the job, the custom data *)
(* of the track (set whatever the encoder returned) and its wave file.     *)
EncodeDone(s) ==
  [s EXCEPT !.process_counter = @ - 1,
            !.in_progress = FALSE,
            !.ripped = @ \cup {s.en_index},
            !.wav = @ \ {s.en_index}]

(* EncoderWrapper::processError for an encoder that cannot be started: it  *)
(* runs inside encode(), from waitForStarted(), and emits error() and then *)
(* finished(), so finish_encode() runs with _finished already set.         *)
EncoderNotStarted(s) == ConcludeIfIdle(EncodeDone(SlotError(s)))

(* EncoderWrapper::encode for track t; "starts": the process starts.       *)
Encode(s, t, starts) ==
  LET b == [s EXCEPT !.processing = TRUE, !.termination = FALSE] IN
  IF config.no_command THEN SlotError(b)
  ELSE IF starts
       THEN [b EXCEPT !.filename = t, !.proc = t, !.opened = FALSE]
       ELSE [EncoderNotStarted(b) EXCEPT !.filename = t]

(* A mutant of StartEncode: the queue is served from its tail.             *)
StartEncode_Lifo(s, starts) ==
  IF s.finished THEN s
  ELSE IF s.en_count >= Limit THEN RequestFinish(s, TRUE)
  ELSE IF s.processing \/ s.queue = <<>> THEN s
  ELSE LET t == s.queue[Len(s.queue)]
           o == [s EXCEPT !.queue = SubSeq(@, 1, Len(@) - 1), !.in_progress = TRUE,
                          !.en_count = @ + 1, !.en_index = t]
       IN  [Encode(o, t, starts) EXCEPT !.process_counter = @ + 1]

(* Audex::start_encode *)
StartEncode(s, starts) ==
  IF s.finished THEN s
  ELSE IF s.en_count >= Limit THEN RequestFinish(s, TRUE)
  ELSE IF s.processing \/ s.queue = <<>> THEN s
  ELSE LET t == Head(s.queue)
           o == [s EXCEPT !.queue = Tail(@), !.in_progress = TRUE,
                          !.en_count = @ + 1, !.en_index = t]
       IN  [Encode(o, t, starts) EXCEPT !.process_counter = @ + 1]

(* Audex::finish_encode *)
FinishEncode(s, starts) ==
  LET d == EncodeDone(s)
  IN  IF d.finished THEN ConcludeIfIdle(d) ELSE StartEncode(d, starts)

-----------------------------------------------------------------------------
(* A mutant of BeginReading: track numbers and row numbers confused.       *)
BeginReading_OffByOne(s, t) ==
  [s EXCEPT !.ex_index = t + 1, !.ex_count = @ + 1, !.reading = t + 1,
            !.run = "due", !.empty = FALSE, !.wav = @ \cup {t + 1},
            !.process_counter = @ + 1]

(* Open the wave file of track t and start the extraction thread.          *)
BeginReading(s, t) ==
  [s EXCEPT !.ex_index = t, !.ex_count = @ + 1, !.reading = t,
            !.run = "due", !.empty = FALSE, !.wav = @ \cup {t},
            !.process_counter = @ + 1]

(* Audex::start_extract, one file per track.  The function calls itself    *)
(* for every track that is not selected, no audio, or already there; the   *)
(* chain of calls ends at the first track to read, at the track "bad"      *)
(* whose folder cannot be created, or when the counter reaches the limit.  *)
(* If it never does, the calls never end (runaway).                        *)
StartExtractTracks(s, bad) ==
  LET ahead  == {t \in config.selection \cap AudioTracks : t > s.ex_index}
      stops  == {t \in ahead : t = bad \/ ~AlreadyThere(s, t)}
      passed == IF stops = {} THEN ahead ELSE {t \in ahead : t < Min(stops)}
      p      == [s EXCEPT !.ex_index = IF passed = {} THEN @ ELSE Max(passed),
                          !.ex_count = @ + Cardinality(passed),
                          !.en_count = @ + Cardinality(passed),
                          !.ripped = @ \cup passed]
  IN  IF stops # {}
      THEN IF Min(stops) = bad
           THEN RequestFinish([p EXCEPT !.ex_index = bad], FALSE)
           ELSE BeginReading(p, Min(stops))
      ELSE IF p.ex_count >= Limit THEN SuccessIfNoJobs(p)
      ELSE [p EXCEPT !.runaway = TRUE]

(* Audex::start_extract, the whole disc as one file; the job has number 1. *)
StartExtractDisc(s, bad) ==
  IF s.ex_count >= 1 THEN SuccessIfNoJobs(s)
  ELSE LET p == [s EXCEPT !.ex_index = @ + 1]
       IN  IF bad # 0 THEN RequestFinish(p, FALSE)
           ELSE IF AlreadyThere(p, 1) THEN SuccessIfNoJobs(p)
           ELSE BeginReading(p, 1)

StartExtract(s, bad) ==
  IF s.finished THEN s
  ELSE IF config.single_file THEN StartExtractDisc(s, bad)
  ELSE StartExtractTracks(s, bad)

(* Audex::finish_extract; WaveFileWriter::close removes a file without     *)
(* data.                                                                   *)
FinishExtract(s, starts, bad) ==
  LET c == [s EXCEPT !.process_counter = @ - 1, !.reading = 0,
                     !.wav = IF s.empty THEN @ \ {s.ex_index} ELSE @]
  IN  IF s.finished
      THEN ConcludeIfIdle([c EXCEPT !.wav = @ \ {s.ex_index}])
      ELSE StartExtract(StartEncode([c EXCEPT !.queue = Append(@, s.ex_index)], starts),
                        bad)

-----------------------------------------------------------------------------
(* Whether an encoder process starts, and the track whose folder turns out *)
(* not to be creatable (0: none).                                          *)
Starts == {TRUE} \cup (IF "failed_to_start" \in Faults THEN {FALSE} ELSE {})
Bad    == 0..NTracks

Alive == rip.started /\ ~rip.runaway

(* ExtractingProgressDialog::exec: Audex::prepare, which may fail (no      *)
(* profile, no temporary folder), then Audex::start.                       *)
PrepareFails ==
  /\ ~rip.started
  /\ rip' = SlotError([rip EXCEPT !.started = TRUE])
  /\ UNCHANGED <<config, cancelled, encoded>>

Start(bad) ==
  /\ ~rip.started
  /\ LET s == [rip EXCEPT !.started = TRUE]
     IN  rip' = IF CheckPasses(config.free) THEN StartExtract(s, bad)
                ELSE RequestFinish(SlotError(s), FALSE)
  /\ UNCHANGED <<config, cancelled, encoded>>

(* CDDAExtractThread::run starts, some time after QThread::start(), with   *)
(* its look at b_interrupt ...                                             *)
ThreadChecks ==
  /\ Alive
  /\ rip.reading # 0 /\ rip.run = "due" /\ ~rip.interrupt /\ rip.events = <<>>
  /\ rip' = [rip EXCEPT !.run = "checked"]
  /\ UNCHANGED <<config, cancelled, encoded>>

(* ... and resets it before it reads: a cancel() between the two is lost,  *)
(* and the track is read to its end.                                       *)
ThreadResets ==
  /\ Alive
  /\ rip.reading # 0 /\ rip.run = "checked" /\ rip.events = <<>>
  /\ rip' = [rip EXCEPT !.run = "reading", !.interrupt = FALSE,
                        !.missed = @ \/ rip.interrupt]
  /\ UNCHANGED <<config, cancelled, encoded>>

(* The extraction thread ends: it read everything, met a read error, or    *)
(* wrote nothing: it was told to stop before it began, found no sectors to *)
(* read, or had no wave file to write to, which WaveFileWriter::open tells *)
(* nobody.  Its signals are queued for the main thread.                    *)
ThreadEnds(outcome) ==
  /\ Alive
  /\ rip.reading # 0
  /\ \/ rip.run = "reading"
     \/ rip.run = "due" /\ rip.interrupt /\ outcome = "nothing"
  /\ rip.events = <<>>
  /\ rip' = [rip EXCEPT !.events = IF outcome = "error"
                                   THEN <<"error", "finished">>
                                   ELSE <<"finished">>,
                        !.empty = (outcome = "nothing")]
  /\ UNCHANGED <<config, cancelled, encoded>>

(* The event loop delivers the thread's next signal.                       *)
Deliver(starts, bad) ==
  /\ Alive
  /\ rip.events # <<>>
  /\ LET s == [rip EXCEPT !.events = Tail(@)]
     IN  rip' = IF Head(rip.events) = "error" THEN SlotError(s)
                ELSE FinishExtract(s, starts, bad)
  /\ UNCHANGED <<config, cancelled, encoded>>

(* The encoder creates its output file, or truncates the one there is,     *)
(* some time after it was started.  One that was told to terminate may do  *)
(* so still, before the signal ends it: that is the fault "late_output".   *)
EncoderOpens ==
  /\ Alive
  /\ rip.proc # 0 /\ ~rip.opened
  /\ rip.termination => "late_output" \in Faults
  /\ rip' = [rip EXCEPT !.opened = TRUE,
                        !.files[TargetOf[rip.proc]] = Partial(rip.proc)]
  /\ UNCHANGED <<config, cancelled, encoded>>

(* The encoder process exits and EncoderWrapper::processFinished runs.  A  *)
(* zero status means a complete output file, if it is still linked; an     *)
(* encoder whose source was never written cannot succeed.                  *)
EncoderExits(ok, starts) ==
  /\ Alive
  /\ rip.proc # 0
  /\ ok => rip.opened /\ rip.proc \in rip.wav
  /\ LET t == rip.proc
         linked == rip.files[TargetOf[t]] = Partial(t)
         x == [rip EXCEPT !.proc = 0, !.processing = FALSE,
                          !.files[TargetOf[t]] = IF ok /\ linked
                                                 THEN Complete(t) ELSE @]
     IN  /\ rip' = IF rip.termination \/ ok THEN FinishEncode(x, starts)
                   ELSE FinishEncode(SlotError(x), starts)
         /\ encoded' = IF ok /\ linked THEN encoded \cup {t} ELSE encoded
  /\ UNCHANGED <<config, cancelled>>

(* The encoder is killed by a signal nobody here sent: QProcess emits      *)
(* errorOccurred(Crashed), for which processError emits error() and        *)
(* finished(), and then its own finished(), for which processFinished      *)
(* emits finished() again.                                                 *)
EncoderCrashes(starts) ==
  /\ Alive
  /\ "crash" \in Faults
  /\ rip.proc # 0
  /\ ~rip.termination
  /\ LET e == FinishEncode(SlotError([rip EXCEPT !.proc = 0]), starts)
     IN  rip' = FinishEncode([e EXCEPT !.processing = FALSE], starts)
  /\ UNCHANGED <<config, cancelled, encoded>>

(* Audex::cancel, the user's wish, at any time before the conclusion.      *)
Cancel ==
  /\ Alive
  /\ rip.concluded = 0
  /\ rip' = RequestFinish(rip, FALSE)
  /\ cancelled' = TRUE
  /\ UNCHANGED <<config, encoded>>

Concluded == rip.concluded > 0 /\ rip.reading = 0 /\ rip.proc = 0

(* The dialog stays until the user closes it.                              *)
Rest == Concluded /\ UNCHANGED vars

Init ==
  /\ config \in Config
  /\ \E old \in SUBSET Files :
        rip = NewRip([f \in Files |-> IF f \in old THEN Old ELSE Absent])
  /\ cancelled = FALSE
  /\ encoded = {}

ThreadStep  ==
  \/ ThreadChecks
  \/ ThreadResets
  \/ \E o \in {"ok", "error", "nothing"} : ThreadEnds(o)
LoopStep    == \E starts \in Starts, bad \in Bad : Deliver(starts, bad)
EncoderStep ==
  \/ \E ok \in BOOLEAN, starts \in Starts : EncoderExits(ok, starts)
  \/ \E starts \in Starts : EncoderCrashes(starts)

Next ==
  \/ PrepareFails
  \/ \E bad \in Bad : Start(bad)
  \/ ThreadStep
  \/ LoopStep
  \/ EncoderOpens
  \/ EncoderStep
  \/ Cancel
  \/ Rest

(* The thread's reads return, the event loop delivers what is queued, and  *)
(* an encoder, whose input is finite, ends.  The user owes nothing but the *)
(* start.                                                                  *)
Fairness ==
  /\ WF_vars(PrepareFails \/ \E bad \in Bad : Start(bad))
  /\ WF_vars(ThreadStep)
  /\ WF_vars(LoopStep)
  /\ WF_vars(EncoderStep)

Spec == Init /\ [][Next]_vars
FairSpec == Spec /\ Fairness

-----------------------------------------------------------------------------
(* Properties.                                                             *)

Rip == [started : BOOLEAN, finished : BOOLEAN, successful : BOOLEAN,
        concluded : Nat, process_counter : Int,
        ex_index : Nat, ex_count : Nat, reading : 0..NTracks,
        interrupt : BOOLEAN, run : {"due", "checked", "reading"},
        events : Seq({"error", "finished"}),
        empty : BOOLEAN, runaway : BOOLEAN, missed : BOOLEAN,
        queue : Seq(Tracks), in_progress : BOOLEAN,
        en_index : 0..NTracks, en_count : Nat,
        processing : BOOLEAN, termination : BOOLEAN,
        filename : 0..NTracks, proc : 0..NTracks, opened : BOOLEAN,
        wav : SUBSET (0..NTracks), files : [Files -> Content],
        ripped : SUBSET (0..NTracks), listed : SUBSET (0..NTracks)]

(* The types of the variables.                                             *)
TypeOK ==
  /\ config \in Config
  /\ rip \in Rip
  /\ cancelled \in BOOLEAN
  /\ encoded \subseteq Tracks

Running(s) == {p \in {"extraction", "encoder"} :
                  IF p = "extraction" THEN s.reading # 0 ELSE s.proc # 0}

(* Audex::finished() is emitted once, and when it is emitted neither the   *)
(* extraction thread nor an encoder is running: the dialog may then delete *)
(* Audex and with it the thread.  This is what process_counter is for.     *)
ConcludedIdleOnce ==
  /\ rip.concluded <= 1
  /\ rip.concluded > 0 => Running(rip) = {}

(* A rip that has started and was not asked to finish has something        *)
(* running: neither of the two processes waits for an event of the other   *)
(* that will not come (start_extract leaves the conclusion to              *)
(* finish_encode when jobs are left, start_encode to finish_extract when   *)
(* the queue is empty).                                                    *)
NeverStuck == rip.started /\ ~rip.finished => Running(rip) # {} /\ ~rip.runaway

(* Once the rip is to finish, an encoder that still runs has been told to  *)
(* terminate, and an extraction that still runs has its flag set, so that  *)
(* it ends at its next sector; with one exception, that the request fell   *)
(* between the check and the reset of the flag in the run() that goes on.  *)
(* The request is made once: what it does not reach runs to its own end.   *)
StopReachesAll ==
  rip.finished =>
    /\ rip.reading # 0 => rip.interrupt \/ (rip.missed /\ rip.run = "reading")
    /\ rip.proc # 0 => rip.termination

(* "All jobs successfully done" is true: when finished(true) is emitted,   *)
(* each selected track has its own complete file, or one that was there    *)
(* before and was to be kept, the user did not cancel, and the playlist    *)
(* names every selected track.                                             *)
SuccessIsTrue ==
  rip.concluded > 0 /\ rip.successful =>
    /\ ~cancelled
    /\ \A t \in IF config.single_file THEN {1} ELSE config.selection :
          \/ rip.files[TargetOf[t]] = Complete(t)
          \/ rip.files[TargetOf[t]] = Old /\ ~config.overwrite
    /\ ~config.single_file => rip.listed = config.selection

(* With overwriting off, a file that exists is never touched, neither by   *)
(* an encoder nor by the removal of partial files, whether it was there    *)
(* before the rip or was made by it.                                       *)
ExistingFilesKept ==
  [][~config.overwrite =>
       \A f \in Files : rip.files[f].state \in {"old", "complete"} =>
                         rip'.files[f] = rip.files[f]]_vars

(* With the removal of partial files on, an encoder that was told to stop  *)
(* leaves none, even if it ends well after its file was removed; and what  *)
(* is removed is never a finished track.                                   *)
StoppedLeavesNoPartial ==
  rip.concluded > 0 /\ rip.termination /\ config.delete_fraction_files =>
    \A f \in Files : rip.files[f].state # "partial"

(* A track whose encoder succeeded keeps its complete file for the rest of *)
(* the rip: cancel() only ever deletes the file that is being written.     *)
EncodedIsKept == \A t \in encoded : rip.files[TargetOf[t]] = Complete(t)

(* A temporary wave file with data is removed, by a handler or by the      *)
(* flush of execute_finish, only when neither the thread still writes it   *)
(* nor an encoder still reads it, nor a job that will be ordered waits.    *)
SourceOutlivesItsUsers ==
  [][\A t \in rip.wav \ rip'.wav :
       \/ rip.empty /\ t = rip.ex_index
       \/ /\ t # rip'.reading
          /\ t # rip'.proc
          /\ rip'.finished \/ \A i \in DOMAIN rip'.queue : rip'.queue[i] # t]_vars

(* A rip always comes to its conclusion, even after an encoder fault.      *)
EventuallyConcluded == <>(rip.concluded > 0)

(* The abstract rip this pipeline implements.  In single-file mode a file  *)
(* that is already there leaves no mark in the custom data of a track.     *)
StageOf(t) ==
  IF t = rip.reading THEN "extracting"
  ELSE IF t = rip.proc THEN "encoding"
  ELSE IF \E i \in DOMAIN rip.queue : rip.queue[i] = t THEN "queued"
  ELSE IF t \in rip.ripped THEN "through"
  ELSE IF config.single_file /\ t <= rip.ex_index /\ AlreadyThere(rip, t) THEN "through"
  ELSE IF t <= rip.ex_index THEN "dropped"
  ELSE "waiting"

Wanted == IF config.single_file THEN {1} ELSE config.selection

Job == INSTANCE RipJob WITH
         wanted  <- Wanted,
         stage   <- [t \in Wanted |-> StageOf(t)],
         verdict <- IF rip.concluded = 0 THEN "none"
                    ELSE IF rip.successful THEN "success" ELSE "failure"

(* The pipeline implements the abstract rip RipJob.                        *)
ImplementsRipJob == Job!Spec
=============================================================================
