----------------------------- MODULE JobRecord -----------------------------
(***************************************************************************)
(* The record a JobStore keeps for one job, the updates the service        *)
(* applies to it and the decisions it takes after reading it.              *)
(*                                                                         *)
(* Every update of the code is update_job(job_id, {...}): the dictionary   *)
(* is merged over the stored record, so an update below is an EXCEPT that  *)
(* names exactly the keys the code sends.                                  *)
(*                                                                         *)
(* age is the time since started_at, in ticks; it stops growing at MaxAge, *)
(* past which no decision depends on it.                                   *)
(***************************************************************************)
EXTENDS Naturals

CONSTANTS
    Guarded,    \* TRUE: the job runs under run_job_body (generate, finalize)
    Takeover,   \* workflow_dispatch_takeover_seconds
    Stale       \* workflow_stale_running_seconds

ASSUME RecordAssumption ==
    /\ Guarded \in BOOLEAN
    /\ Takeover \in Nat
    /\ Stale \in Nat

Terminal == {"completed", "failed"}
Statuses == {"none", "queued", "running"} \cup Terminal
Phases   == {"none", "workflow_dispatched", "executing"}
MaxAge   == IF Takeover > Stale THEN Takeover ELSE Stale

Job == [status : Statuses, phase : Phases, run_id : BOOLEAN,
        result : BOOLEAN, error : BOOLEAN, age : 0..MaxAge]

\* get_job returns None
NoJob == [status |-> "none", phase |-> "none", run_id |-> FALSE,
          result |-> FALSE, error |-> FALSE, age |-> 0]

Aged(j) == [j EXCEPT !.age = IF @ < MaxAge THEN @ + 1 ELSE @]

-----------------------------------------------------------------------------
(* Updates                                                                 *)

\* queue_generate, queue_finalize, queue_amortization_*: the new record.
Queued(j) == [j EXCEPT !.status = "queued"]

\* _start_workflow, after start() returned a run id: no look at the record.
Dispatched(j) ==
    [j EXCEPT !.status = "running", !.phase = "workflow_dispatched",
              !.run_id = TRUE, !.age = 0]

\* begin_job_execution
Claimed(j) == [j EXCEPT !.status = "running", !.phase = "executing", !.age = 0]

\* Mutation of Saved: every job leaves "error" as it was.
SavedKeepingError(j) == [j EXCEPT !.status = "completed", !.result = TRUE]

\* The job body after its use case returned.  generate and finalize leave
\* "error" as it was; every other job sends "error": None.
Saved(j) ==
    [j EXCEPT !.status = "completed", !.result = TRUE,
              !.error = Guarded /\ @]

\* Mutation of Failed: a status no reader knows.
FailedAsError(j) == [j EXCEPT !.status = "error", !.error = TRUE]

\* The job body after its use case raised.  run_job_body leaves "result" as
\* it was; every other job sends "result": None.
Failed(j) ==
    [j EXCEPT !.status = "failed", !.error = TRUE,
              !.result = Guarded /\ @]

\* reconcile_job_terminal
Promoted(j) == [j EXCEPT !.status = "completed", !.error = FALSE]

\* fail_job_if_still_running and _mark_stale_running_failed
Aborted(j) == [j EXCEPT !.status = "failed", !.error = TRUE]

-----------------------------------------------------------------------------
(* Decisions                                                               *)

\* Mutation of MayBegin: a dispatched job counts as executing.
MayBeginQueued(j) == j.status \in {"none", "queued"}

\* begin_job_execution proceeds on a missing or queued record and on one a
\* workflow was only dispatched for; otherwise it raises JobExecutionSkipped.
MayBegin(j) ==
    \/ j.status \in {"none", "queued"}
    \/ j.status = "running" /\ j.phase = "workflow_dispatched"

\* Mutations of ReconcileVerdict: the result is not asked for; a terminal
\* record is not recognised.
VerdictWithoutResult(j) ==
    CASE j.status \in Terminal -> "yes"
      [] j.status = "running" -> "promote"
      [] OTHER -> "no"

VerdictIgnoringTerminal(j) ==
    IF j.status = "running" /\ j.result THEN "promote" ELSE "no"

\* reconcile_job_terminal: "promote" writes Promoted and then returns True.
ReconcileVerdict(j) ==
    CASE j.status \in Terminal -> "yes"
      [] j.status = "running" /\ j.result -> "promote"
      [] OTHER -> "no"

\* Mutation of RunningVerdict: the takeover age itself is still too young.
RunningVerdictLate(j) ==
    CASE j.phase = "workflow_dispatched" ->
            IF j.age > Takeover THEN "run" ELSE "skip"
      [] j.phase # "workflow_dispatched" /\ j.age >= Stale -> "fail"
      [] OTHER -> "skip"

\* _should_run_fallback_for_running, asked only of a running record.
RunningVerdict(j) ==
    CASE j.phase = "workflow_dispatched" ->
            IF j.age >= Takeover THEN "run" ELSE "skip"
      [] j.phase # "workflow_dispatched" /\ j.age >= Stale -> "fail"
      [] OTHER -> "skip"
=============================================================================
