---------------------- MODULE ExtractingProgressDialog ----------------------
(***************************************************************************)
(* The modal dialog that owns Audex during a rip.  Its message boxes run   *)
(* an event loop of their own, so the rip goes on, and may come to its     *)
(* conclusion, while a question is open; closing the dialog deletes Audex  *)
(* and with it the extraction thread.                                      *)
(***************************************************************************)
EXTENDS Audex

VARIABLES
  button,    \* the button in the button box: "cancel" | "disabled" | "stop" | "close"
  boxes,     \* the open message boxes, the topmost last
  canceled,  \* the user confirmed the cancellation
  timer,     \* the single shot of activateEmergencyStop is pending
  asked,     \* Audex::timeout was emitted (once: timeout_done)
  ejected,   \* the dialog ejected the medium
  closed     \* the dialog is closed and deleted

dialog == <<button, boxes, canceled, timer, asked, ejected, closed>>
dvars  == <<vars, dialog>>

(* A mutant of HasCancelButton: the pointer is not checked.                *)
HasCancelButton_Unchecked == TRUE

(* The button box still holds the Cancel button (button(Cancel) non-null). *)
HasCancelButton == button # "close"

(* ExtractingProgressDialog::conclusion, connected to Audex::finished: it  *)
(* runs inside every step of Audex that emits the signal.                  *)
Conclusion ==
  IF rip'.concluded > rip.concluded THEN button' = "close" ELSE UNCHANGED button

AudexStep ==
  \/ PrepareFails
  \/ \E bad \in Bad : Start(bad)
  \/ ThreadStep
  \/ LoopStep
  \/ EncoderOpens
  \/ EncoderStep

RipStep ==
  /\ ~closed
  /\ AudexStep
  /\ Conclusion
  /\ UNCHANGED <<boxes, canceled, timer, asked, ejected, closed>>

(* ExtractingProgressDialog::cancel for the Cancel button: ask.            *)
PressCancel ==
  /\ ~closed /\ rip.started /\ boxes = <<>>
  /\ button = "cancel" /\ ~canceled
  /\ boxes' = <<"cancel">>
  /\ UNCHANGED <<vars, button, canceled, timer, asked, ejected, closed>>

(* The same for the Stop button of the second attempt: eject the medium.   *)
PressStop ==
  /\ ~closed /\ boxes = <<>>
  /\ button \in {"cancel", "stop"} /\ canceled
  /\ ejected' = TRUE
  /\ UNCHANGED <<vars, button, boxes, canceled, timer, asked, closed>>

(* The answer to "Do you really want to cancel extraction?".  The button   *)
(* is disabled only if it is still there; Audex may have concluded since   *)
(* the question was asked.                                                 *)
AnswerCancel(yes) ==
  /\ ~closed
  /\ boxes # <<>> /\ boxes[Len(boxes)] = "cancel"
  /\ boxes' = SubSeq(boxes, 1, Len(boxes) - 1)
  /\ IF yes
     THEN /\ rip' = RequestFinish(rip, FALSE)
          /\ cancelled' = (cancelled \/ rip.concluded = 0)
          /\ button' = IF rip'.concluded > rip.concluded THEN "close"
                       ELSE IF HasCancelButton THEN "disabled" ELSE button
          /\ canceled' = TRUE
          /\ timer' = TRUE
     ELSE UNCHANGED <<rip, cancelled, button, canceled, timer>>
  /\ UNCHANGED <<config, encoded, asked, ejected, closed>>

(* A mutant of EmergencyTimer: the button gets its text only.              *)
EmergencyTimer_StaysDisabled ==
  /\ ~closed /\ timer
  /\ timer' = FALSE
  /\ UNCHANGED <<vars, button, boxes, canceled, asked, ejected, closed>>

(* ExtractingProgressDialog::activateEmergencyStop, five seconds later.    *)
EmergencyTimer ==
  /\ ~closed /\ timer
  /\ timer' = FALSE
  /\ button' = IF HasCancelButton THEN "stop" ELSE button
  /\ UNCHANGED <<vars, boxes, canceled, asked, ejected, closed>>

(* Audex::calculate_speed_extract found the extraction slow for too long:  *)
(* ExtractingProgressDialog::ask_timeout opens its question.               *)
AskTimeout ==
  /\ ~closed /\ Alive
  /\ rip.reading # 0 /\ ~rip.interrupt /\ ~asked
  /\ asked' = TRUE
  /\ boxes' = Append(boxes, "timeout")
  /\ UNCHANGED <<vars, button, canceled, timer, ejected, closed>>

(* The answer to "However, do you want to continue extraction?".           *)
AnswerTimeout(yes) ==
  /\ ~closed
  /\ boxes # <<>> /\ boxes[Len(boxes)] = "timeout"
  /\ boxes' = SubSeq(boxes, 1, Len(boxes) - 1)
  /\ IF yes
     THEN /\ rip' = RequestFinish(rip, FALSE)
          /\ cancelled' = (cancelled \/ rip.concluded = 0)
          /\ Conclusion
     ELSE UNCHANGED <<rip, cancelled, button>>
  /\ UNCHANGED <<config, encoded, canceled, timer, asked, ejected, closed>>

(* The Close button: closeEvent accepts it because the rip has concluded.  *)
Close ==
  /\ ~closed /\ boxes = <<>>
  /\ button = "close" /\ rip.concluded > 0
  /\ closed' = TRUE
  /\ UNCHANGED <<vars, button, boxes, canceled, timer, asked, ejected>>

DInit ==
  /\ Init
  /\ button = "cancel" /\ boxes = <<>>
  /\ canceled = FALSE /\ timer = FALSE /\ asked = FALSE
  /\ ejected = FALSE /\ closed = FALSE

DNext ==
  \/ RipStep
  \/ PressCancel
  \/ PressStop
  \/ \E yes \in BOOLEAN : AnswerCancel(yes)
  \/ EmergencyTimer
  \/ AskTimeout
  \/ \E yes \in BOOLEAN : AnswerTimeout(yes)
  \/ Close

DSpec == DInit /\ [][DNext]_dvars

(* The rip's fairness, and the timer fires.  The user owes no answer.      *)
DFairness ==
  /\ WF_dvars(RipStep /\ (PrepareFails \/ \E bad \in Bad : Start(bad)))
  /\ WF_dvars(RipStep /\ ThreadStep)
  /\ WF_dvars(RipStep /\ LoopStep)
  /\ WF_dvars(RipStep /\ EncoderStep)
  /\ WF_dvars(EmergencyTimer)

DFairSpec == DSpec /\ DFairness

-----------------------------------------------------------------------------
(* Properties.                                                             *)

(* The types of the variables.                                             *)
DTypeOK ==
  /\ button \in {"cancel", "disabled", "stop", "close"}
  /\ boxes \in Seq({"cancel", "timeout"}) /\ Len(boxes) <= 2
  /\ <<canceled, timer, asked, ejected, closed>> \in BOOLEAN \X BOOLEAN \X BOOLEAN \X BOOLEAN \X BOOLEAN

(* "ignore the close event until finished": when the dialog is closed, and *)
(* Audex deleted, no extraction thread and no encoder is running.          *)
ClosedWhenIdle == closed => Running(rip) = {}

(* From the conclusion on the dialog has its Close button, enabled: a late *)
(* answer to the question, or the emergency timer that fires after the     *)
(* conclusion, takes it away no more.                                      *)
CloseButtonStays == rip.concluded > 0 <=> button = "close"

(* The medium is ejected under a running rip only after the user confirmed *)
(* the cancellation and the extraction was told to stop.                   *)
EjectOnlyWhenStopping ==
  [][ejected' /\ ~ejected => canceled /\ rip.finished /\ rip.concluded = 0]_dvars

(* The user is never locked out, even by a read that does not return or an *)
(* encoder that does not exit: while the button is disabled the timer that *)
(* makes it Stop is pending, whatever the rip and the boxes do meanwhile.  *)
ButtonComesBack == button = "disabled" => timer /\ rip.concluded = 0

(* A confirmed cancellation, or any other end of the rip, leads to the     *)
(* conclusion even while the user leaves a question unanswered.            *)
CancelConcludes == canceled ~> rip.concluded > 0
=============================================================================
