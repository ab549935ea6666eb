----------------------------- MODULE Extraction ------------------------------
(***************************************************************************)
(* How a track gets from the disc into a wave file: the drive              *)
(* (CDDAParanoia), the thread that reads it (CDDAExtractThread), the queue *)
(* of its signals to the main thread, and Audex with its WaveFileWriter,   *)
(* which write what was read into the temporary folder.  The thread and    *)
(* the main thread run concurrently; the thread object and the writer are  *)
(* new in each rip, the drive with its table of contents is that of the    *)
(* disc model and outlives them.  The encoder matters only for the space   *)
(* it gives back when it is done with a wave file.                         *)
(***************************************************************************)
EXTENDS Integers, Sequences, FiniteSets, FiniteSetsExt, Functions

CONSTANTS
  NTracks,       \* number of tracks of the disc, all of them audio
  Toc,           \* their first sectors, and that of the lead-out
  SampleOffset,  \* the preference of that name
  Modes,         \* values of the paranoia mode Audex may ask for
  Free,          \* free space in the temporary folder, in sectors
  Chunk,         \* sectors QFile buffers before it writes them
  MaxRips        \* bound: rips of the same disc

Tracks == 1..NTracks

ASSUME ExtractionAssumption ==
  /\ NTracks \in Nat \ {0}
  /\ Toc \in [1..(NTracks + 1) -> Nat]
  /\ \A t \in Tracks : Toc[t] < Toc[t + 1]
  /\ SampleOffset \in -10000..10000
  /\ Modes \subseteq 0..3
  /\ Free \in Nat /\ Chunk \in Nat \ {0} /\ MaxRips \in Nat

VARIABLES
  drive,   \* CDDAParanoia: table of contents, mode mask, never-skip flag
  thread,  \* CDDAExtractThread
  posted,  \* signals of the thread, queued for the main thread
  audex,   \* Audex: the rip's choices, its progress, the jobs handed over
  file     \* WaveFileWriter, its file, and the free space

vars == <<drive, thread, posted, audex, file>>

-----------------------------------------------------------------------------
(* The drive.                                                              *)

FULL == 255
NEVERSKIP == 32

(* CDDAParanoia::setParanoiaMode; the masks as the integers they are.      *)
SetParanoiaMode(d, mode) ==
  LET base == CASE mode = 0 -> 0
                [] mode = 1 -> FULL - NEVERSKIP - 1
                [] mode = 2 -> FULL - NEVERSKIP - 24
                [] OTHER    -> FULL - NEVERSKIP
  IN  [d EXCEPT !.mask = IF d.never THEN base + NEVERSKIP ELSE base]

(* CDDAParanoia::setNeverSkip; the mode it passes on is the mask.          *)
SetNeverSkip(d, b) == SetParanoiaMode([d EXCEPT !.never = b], d.mask)

(* CDDAParanoia::sampleOffset: whole sectors, rounded down.                *)
ApplyOffset(d) == [d EXCEPT !.toc = [i \in DOMAIN @ |-> @[i] + SampleOffset \div 588]]

(* CDDAParanoia::CDDAParanoia, setDevice.                                  *)
NewDrive == SetParanoiaMode([toc |-> Toc, mask |-> 0, never |-> TRUE], 3)

(* The library's answers; track 0 is the whole disc.                       *)
FirstSector(toc, t) == IF t = 0 THEN 0 ELSE toc[t]
LastSector(toc, t)  == IF t = 0 THEN toc[NTracks + 1] - 1 ELSE toc[t + 1] - 1

(* CDDAParanoia::numOfFramesOfTrack: the last track lacks its last frame.  *)
NumOfFramesOfTrack(toc, t) ==
  IF t = NTracks THEN LastSector(toc, 0) - toc[t] ELSE toc[t + 1] - toc[t]

Frames(toc, S) == SumFunction([t \in S |-> NumOfFramesOfTrack(toc, t)])

-----------------------------------------------------------------------------
(* The wave file.                                                          *)

(* data: sectors in the file; buffer: those QFile holds back; header: the  *)
(* number of sectors the wave header tells; written: p_data_written.       *)
NoFile(free) == [open |-> FALSE, data |-> <<>>, buffer |-> <<>>, header |-> 0,
                 written |-> 0, free |-> free]

(* QFile::flush: what fits is written.                                     *)
Flush(f) ==
  LET n == Min({Len(f.buffer), f.free})
  IN  [f EXCEPT !.data = @ \o SubSeq(f.buffer, 1, n),
                !.buffer = SubSeq(@, n + 1, Len(@)),
                !.free = @ - n]

(* WaveFileWriter::open, which fails if QFile::open does.  Audex does not  *)
(* look at its result.                                                     *)
OpenWave(f, opens) == [NoFile(f.free) EXCEPT !.open = opens]

(* WaveFileWriter::write.  Without a file the sector is dropped; one that  *)
(* cannot be written is announced by error(), connected to nothing.        *)
WriteSector(f, sector) ==
  LET g == IF Len(f.buffer) < Chunk THEN f ELSE Flush(f)
  IN  IF ~f.open THEN f
      ELSE IF Len(f.buffer) = Chunk /\ g.buffer # <<>> THEN g
      ELSE [g EXCEPT !.buffer = Append(@, sector), !.written = @ + 1]

(* WaveFileWriter::close.  A file without data, or none, leaves nothing.   *)
(* The header can be reached only when everything before it was written;   *)
(* the end of a file that cannot is lost.                                  *)
CloseWave(f) ==
  IF f.written = 0 THEN NoFile(f.free + Len(f.data))
  ELSE LET g == Flush(f)
       IN  [g EXCEPT !.open = FALSE, !.buffer = <<>>,
                     !.header = IF g.buffer = <<>> THEN f.written ELSE 0]

(* QFile::remove *)
RemoveWave(f) == NoFile(f.free + Len(f.data))

-----------------------------------------------------------------------------
(* The thread.                                                             *)

NewThread == [running |-> FALSE, checked |-> FALSE, reading |-> FALSE, track |-> 0, current |-> 0, last |-> 0,
              mode |-> 3, never |-> TRUE, offset_done |-> FALSE,
              interrupt |-> FALSE, error |-> FALSE, overall |-> 0]

(* A mutant of SkipTracks: the sectors of a skipped track are not counted.  *)
SkipTracks_Uncounted(th, S) == th

(* CDDAExtractThread::skipTrack, for each track of S.                      *)
SkipTracks(th, S) == [th EXCEPT !.overall = @ + Frames(drive.toc, S)]

(* CDDAExtractThread::run begins, some time after it was started, with its *)
(* look at b_interrupt.                                                    *)
CheckInterrupt ==
  /\ thread.running /\ ~thread.checked
  /\ IF thread.interrupt
     THEN /\ thread' = [thread EXCEPT !.running = FALSE]
          /\ posted' = Append(posted, [signal |-> "finished"])
     ELSE /\ thread' = [thread EXCEPT !.checked = TRUE]
          /\ UNCHANGED posted
  /\ UNCHANGED <<drive, audex, file>>

(* The rest of it up to the loop.  It resets b_interrupt: a cancel() since  *)
(* the look at it is lost, and the track is read to its end.               *)
BeginRun ==
  /\ thread.running /\ thread.checked /\ ~thread.reading
  /\ LET d == IF SampleOffset # 0 /\ ~thread.offset_done THEN ApplyOffset(drive) ELSE drive
         first == FirstSector(d.toc, thread.track)
         last  == LastSector(d.toc, thread.track)
     IN
     IF first < 0 \/ last < 0
     THEN /\ thread' = [thread EXCEPT !.running = FALSE, !.interrupt = FALSE, !.error = FALSE,
                                      !.offset_done = SampleOffset # 0]
          /\ posted' = Append(posted, [signal |-> "finished"])
          /\ drive' = d
     ELSE /\ thread' = [thread EXCEPT !.reading = TRUE, !.interrupt = FALSE, !.error = FALSE,
                                      !.current = first, !.last = last,
                                      !.offset_done = SampleOffset # 0]
          /\ drive' = SetNeverSkip(SetParanoiaMode(d, thread.mode), thread.never)
          /\ UNCHANGED posted
  /\ UNCHANGED <<audex, file>>

(* One round of the loop: paranoia_read returns a sector.                  *)
ReadSector ==
  /\ thread.reading /\ ~thread.interrupt /\ ~thread.error
  /\ thread.current <= thread.last
  /\ posted' = Append(posted, [signal |-> "output", sector |-> thread.current])
  /\ thread' = [thread EXCEPT !.current = @ + 1, !.overall = @ + 1]
  /\ UNCHANGED <<drive, audex, file>>

(* One round of the loop: paranoia_read returns nothing.                   *)
ReadFails ==
  /\ thread.reading /\ ~thread.interrupt /\ ~thread.error
  /\ thread.current <= thread.last
  /\ thread' = [thread EXCEPT !.error = TRUE]
  /\ UNCHANGED <<drive, posted, audex, file>>

(* Mutants of EndRun: a read error ends the track like its last sector; a  *)
(* flag is not reset.                                                      *)
EndRun_ErrorUnsaid ==
  /\ thread.reading
  /\ thread.interrupt \/ thread.error \/ thread.current > thread.last
  /\ posted' = posted \o (IF thread.interrupt THEN <<[signal |-> "error"]>> ELSE <<>>)
                      \o <<[signal |-> "finished"]>>
  /\ thread' = [thread EXCEPT !.running = FALSE, !.reading = FALSE]
  /\ UNCHANGED <<drive, audex, file>>
EndRun_NotReset ==
  /\ thread.running /\ thread.reading
  /\ thread.interrupt \/ thread.error \/ thread.current > thread.last
  /\ posted' = Append(posted, [signal |-> "finished"])
  /\ thread' = [thread EXCEPT !.running = FALSE]
  /\ UNCHANGED <<drive, audex, file>>

(* CDDAExtractThread::run after its loop; QThread emits finished().        *)
EndRun ==
  /\ thread.reading
  /\ thread.interrupt \/ thread.error \/ thread.current > thread.last
  /\ posted' = posted \o (IF thread.interrupt THEN <<[signal |-> "error"]>> ELSE <<>>)
                      \o (IF thread.error THEN <<[signal |-> "error"]>> ELSE <<>>)
                      \o <<[signal |-> "finished"]>>
  /\ thread' = [thread EXCEPT !.running = FALSE, !.reading = FALSE]
  /\ UNCHANGED <<drive, audex, file>>

-----------------------------------------------------------------------------
(* The main thread.                                                        *)

(* What the user chose, and which targets exist already.                   *)
RipChoices == [selection : SUBSET Tracks \ {{}}, skipped : SUBSET Tracks, single_file : BOOLEAN,
           mode : Modes, never : BOOLEAN]

(* Audex::start_extract: the tracks that are skipped because their files   *)
(* exist, and the start of the thread for the next one.                    *)
StartExtract(a, th, f) ==
  LET rest == {t \in a.rip.selection : t > a.index}
      todo == IF a.rip.single_file THEN (IF a.index = 0 THEN {0} ELSE {})
              ELSE rest \ a.rip.skipped
      over == IF a.rip.single_file THEN {}
              ELSE {t \in rest : todo = {} \/ t < Min(todo)}
  IN  IF todo = {}
      THEN /\ audex' = [a EXCEPT !.index = NTracks + 1]
           /\ thread' = SkipTracks(th, over)
           /\ file' = f
      ELSE /\ audex' = [a EXCEPT !.index = IF a.rip.single_file THEN 1 ELSE Min(todo)]
           /\ thread' = [SkipTracks(th, over) EXCEPT
                           !.running = TRUE, !.checked = FALSE, !.track = Min(todo),
                           !.mode = a.rip.mode, !.never = a.rip.never]
           /\ \E opens \in BOOLEAN : file' = OpenWave(f, opens)

(* What the rip has left to do.                                            *)
Idle == ~thread.running /\ posted = <<>> /\ audex.jobs = <<>>
Over == Idle /\ (audex.finished \/ audex.index = NTracks + 1)

(* A new rip: Audex::prepare and start.                                    *)
Start(rip) ==
  /\ audex.rips < MaxRips
  /\ audex.rips = 0 \/ Over
  /\ rip.skipped \subseteq rip.selection
  /\ StartExtract([rip |-> rip, rips |-> audex.rips + 1, index |-> 0,
                   finished |-> FALSE, jobs |-> <<>>],
                  NewThread, NoFile(file.free))
  /\ UNCHANGED <<drive, posted>>

(* Audex::request_finish(false): by the user, or by an error.              *)
Stopped(a) == [a EXCEPT !.finished = TRUE]
Interrupted(th) == [th EXCEPT !.interrupt = TRUE]

(* Audex::cancel *)
Cancel ==
  /\ audex.rips > 0 /\ ~audex.finished /\ ~Over
  /\ audex' = Stopped(audex)
  /\ thread' = Interrupted(thread)
  /\ UNCHANGED <<drive, posted, file>>

(* Audex::write_to_wave *)
WriteToWave(sector) ==
  /\ file' = WriteSector(file, sector)
  /\ UNCHANGED <<audex, thread>>

(* Audex::slot_error *)
SlotError ==
  /\ audex' = Stopped(audex)
  /\ thread' = IF audex.finished THEN thread ELSE Interrupted(thread)
  /\ UNCHANGED file

(* A mutant of FinishExtract: the next track is not started.               *)
FinishExtract_LastOnly ==
  LET f == CloseWave(file)
      job == [track |-> thread.track, opened |-> file.open, data |-> f.data, header |-> f.header]
  IN  /\ audex' = [audex EXCEPT !.jobs = Append(@, job)]
      /\ file' = NoFile(f.free)
      /\ UNCHANGED thread

(* Audex::finish_extract: the wave file is closed, and removed if the rip  *)
(* was stopped, else handed over to the encoder, even if there is none.    *)
FinishExtract ==
  LET f == CloseWave(file)
      job == [track |-> thread.track, opened |-> file.open, data |-> f.data, header |-> f.header]
  IN  IF audex.finished
      THEN file' = RemoveWave(f) /\ UNCHANGED <<audex, thread>>
      ELSE StartExtract([audex EXCEPT !.jobs = Append(@, job)], thread, NoFile(f.free))

(* The event loop delivers the next signal of the thread.                  *)
Deliver ==
  /\ posted # <<>>
  /\ posted' = Tail(posted)
  /\ LET p == Head(posted) IN
     CASE p.signal = "output"   -> WriteToWave(p.sector)
       [] p.signal = "error"    -> SlotError
       [] p.signal = "finished" -> FinishExtract
  /\ UNCHANGED drive

(* The encoder is done with its wave file, which is removed.               *)
Encoded ==
  /\ audex.jobs # <<>>
  /\ audex' = [audex EXCEPT !.jobs = Tail(@)]
  /\ file' = [file EXCEPT !.free = @ + Len(Head(audex.jobs).data)]
  /\ UNCHANGED <<drive, thread, posted>>

Init ==
  /\ drive = NewDrive
  /\ thread = NewThread
  /\ posted = <<>>
  /\ audex = [rip |-> [selection |-> {}, skipped |-> {}, single_file |-> FALSE, mode |-> 3,
                       never |-> TRUE],
              rips |-> 0, index |-> 0, finished |-> FALSE, jobs |-> <<>>]
  /\ file = NoFile(Free)

Thread == CheckInterrupt \/ BeginRun \/ ReadSector \/ ReadFails \/ EndRun

Next == (\E rip \in RipChoices : Start(rip)) \/ Cancel \/ Thread \/ Deliver \/ Encoded

Spec == Init /\ [][Next]_vars

(* The scheduler runs the thread, a read returns (the retries are limited),*)
(* the event loop delivers and the encoder ends.                           *)
FairSpec == Spec /\ WF_vars(Thread) /\ WF_vars(Deliver) /\ WF_vars(Encoded)

-----------------------------------------------------------------------------
(* Properties.                                                             *)

(* The types of the variables.                                             *)
TypeOK ==
  /\ drive.toc \in [1..(NTracks + 1) -> Int] /\ drive.mask \in 0..255
  /\ thread.track \in 0..NTracks /\ thread.overall \in Nat
  /\ thread.reading => thread.running
  /\ \A i \in DOMAIN posted : posted[i].signal \in {"output", "error", "finished"}
  /\ audex.index \in 0..(NTracks + 1) /\ audex.finished \in BOOLEAN
  /\ file.free \in 0..Free
  /\ Len(file.buffer) <= Chunk

(* A wave file the encoder gets holds the sectors of its track, each once  *)
(* and in order, and its header tells their number: whatever the thread    *)
(* had queued when it ended, failed or was cancelled, before, during and   *)
(* after the start of its run().  A track whose file could not be opened   *)
(* is read and handed over all the same, and then there is no file at all, *)
(* never a part of one.                                                    *)
WaveIsTheTrack ==
  \A i \in DOMAIN audex.jobs :
    LET job   == audex.jobs[i]
        first == FirstSector(drive.toc, job.track)
        last  == LastSector(drive.toc, job.track)
    IN  /\ job.header = Len(job.data)
        /\ job.data = IF job.opened
                      THEN [n \in 1..(last - first + 1) |-> first + n - 1]
                      ELSE <<>>

(* At the end of a rip that was not stopped the sectors read or skipped    *)
(* add up to the frames of the selected tracks, the total of the overall   *)
(* progress, up to the frame numOfFramesOfTrack() lacks.                   *)
ProgressAddsUp ==
  audex.index = NTracks + 1 /\ ~audex.finished /\ ~audex.rip.single_file =>
    thread.overall - Frames(drive.toc, audex.rip.selection) \in {0, 1}

(* A rip ends, whether it is read to its end, fails or is cancelled.       *)
EventuallyOver == audex.rips > 0 ~> Over
=============================================================================
