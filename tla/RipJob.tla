------------------------------- MODULE RipJob -------------------------------
(***************************************************************************)
(* What a rip promises, whatever processes carry it out: every wanted      *)
(* track goes forward through the stages of the pipeline, one track at a   *)
(* time is extracted and one encoded, both in the order of the disc, and   *)
(* there is one verdict, after which nothing happens any more.             *)
(***************************************************************************)
EXTENDS Integers

VARIABLES
  wanted,   \* the tracks to rip, constant
  stage,    \* how far each of them is
  verdict   \* "none" until the rip is over

jobvars == <<wanted, stage, verdict>>

Stages == {"waiting", "extracting", "queued", "encoding", "through", "dropped"}

(* The stages a track may be in after one step.  A track whose file exists *)
(* goes through at once; one whose extraction was given up is dropped; a   *)
(* track is never extracted or encoded a second time.                      *)
Next1 == [waiting    |-> Stages,
          extracting |-> {"extracting", "queued", "encoding", "through", "dropped"},
          queued     |-> {"queued", "encoding", "through"},
          encoding   |-> {"encoding", "through"},
          through    |-> {"through"},
          dropped    |-> {"dropped"}]

(* Extraction and encoding take the tracks in the order of the disc.       *)
InOrder(st) ==
  \A t, u \in wanted : t < u =>
    /\ st[t] = "waiting" => st[u] = "waiting"
    /\ st[t] = "queued" => st[u] # "encoding"

(* Each of the two processes works on one track at most.                   *)
OneEach(st) ==
  \A s \in {"extracting", "encoding"}, t, u \in wanted :
    st[t] = s /\ st[u] = s => t = u

AtRest(st) == \A t \in wanted : st[t] \notin {"extracting", "encoding"}

JobInit ==
  /\ stage = [t \in wanted |-> "waiting"]
  /\ verdict = "none"

Step ==
  /\ verdict = "none"
  /\ stage' \in [wanted -> Stages]
  /\ \A t \in wanted : stage'[t] \in Next1[stage[t]]
  /\ InOrder(stage') /\ OneEach(stage')
  /\ verdict' \in {"none", "success", "failure"}
  /\ verdict' # "none" => AtRest(stage')
  /\ verdict' = "success" => \A t \in wanted : stage'[t] = "through"
  /\ UNCHANGED wanted

Spec == JobInit /\ [][Step]_jobvars
=============================================================================
