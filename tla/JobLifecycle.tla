--------------------------- MODULE JobLifecycle ---------------------------
(***************************************************************************)
(* The life of one job: the HTTP handler that queues it, the deliveries of *)
(* its workflow step (or its background task), the API fallback that       *)
(* watches it, and the store record they all read and overwrite.           *)
(*                                                                         *)
(* Every await on the job store is a point where another actor may run.    *)
(* update_job of the Blob store is a get followed by a put of the whole    *)
(* record, with no compare-and-swap: a write is two steps, and what other  *)
(* processes put in between is lost.                                       *)
(***************************************************************************)
EXTENDS JobRecord, FiniteSets

CONSTANTS
    Workers,     \* deliveries of the workflow step; one in background mode
    Api,         \* the queue_* request handler
    Fallback,    \* the run_job_if_still_queued task
    Workflow,    \* TRUE: VercelWorkflowJobRunner, FALSE: BackgroundJobRunner
    WithFallback,\* workflow_api_fallback_enabled
    Stores,      \* "memory": MemoryJobStore, "blob": VercelBlobJobStore
    Faults,      \* what may raise: "store" and "start" calls, the "graph" setup
    Crashes,     \* the processes that may be killed: "api", "worker"
    Delay,       \* workflow_api_fallback_delay_seconds
    PollWait     \* workflow_api_fallback_workflow_wait_seconds

Runners == Workers \cup {Fallback}
Actors  == Runners \cup {Api}

ASSUME ActorAssumption ==
    /\ Api \notin Runners
    /\ Fallback \notin Workers
    /\ {Workflow, WithFallback} \subseteq BOOLEAN
    /\ Stores \subseteq {"memory", "blob"}
    /\ Faults \subseteq {"store", "start", "graph"}
    /\ Crashes \subseteq {"api", "worker"}
    /\ Delay \in Nat
    /\ PollWait \in Nat

MaxTimer == IF Delay > PollWait THEN Delay ELSE PollWait

VARIABLES
    store,     \* the deployment's job store, chosen at the start
    job,       \* the stored record
    pend,      \* per actor, the record it has merged and not yet put
    pc,        \* per actor, the await it is at
    ctx,       \* per runner, who called reconcile_job_terminal
    settled,   \* per runner, the local "terminal" of run_job_body
    started,   \* the workflow run (or background task) exists
    timer,     \* what is left of the fallback's sleep or poll window
    begun,     \* history: runners that begin_job_execution let through
    finished   \* history: runners whose use case returned

control == <<ctx, settled>>
history == <<store, begun, finished>>
vars == <<job, pend, pc, control, started, timer, history>>

Labels == {"idle", "create", "start", "dispatch",          \* queue handler
           "asleep", "check", "poll", "stale",             \* fallback
           "begin", "claim", "work", "save",               \* job body
           "reconcile", "promote", "look", "markFailed",
           "unlock", "probe", "abort",
           "done", "dropped", "dead"}
Contexts == {"none", "body", "skip", "except", "final", "abort"}

TypeOK ==
    /\ store \in Stores
    /\ job \in Job
    /\ pend \in [Actors -> Job]
    /\ pc \in [Actors -> Labels]
    /\ ctx \in [Runners -> Contexts]
    /\ settled \in [Runners -> BOOLEAN]
    /\ started \in BOOLEAN
    /\ timer \in 0..MaxTimer
    /\ begun \subseteq Runners
    /\ finished \subseteq Runners

Init ==
    /\ store \in Stores
    /\ job = NoJob
    /\ pend = [a \in Actors |-> NoJob]
    /\ pc = [a \in Actors |-> IF a = Api THEN "create" ELSE "idle"]
    /\ ctx = [r \in Runners |-> "none"]
    /\ settled = [r \in Runners |-> FALSE]
    /\ started = FALSE
    /\ timer = 0
    /\ begun = {}
    /\ finished = {}

Goto(a, label) == pc' = [pc EXCEPT ![a] = label]

\* "dropped": an exception left the actor's code and nothing handled it.
Ended == {"done", "dropped", "dead"}
Live(a) == pc[a] \notin Ended \cup {"idle"}

-----------------------------------------------------------------------------
(* reconcile_job_terminal and run_job_body's reaction to what it returns    *)

Reconciling(r, c) ==
    /\ Goto(r, "reconcile")
    /\ ctx' = [ctx EXCEPT ![r] = c]
    /\ UNCHANGED settled

\* Leave for the finally block with terminal = t.
Finally(r, t) ==
    /\ Goto(r, "unlock")
    /\ settled' = [settled EXCEPT ![r] = t]
    /\ ctx' = [ctx EXCEPT ![r] = "none"]

Leave(r, label) ==
    /\ Goto(r, label)
    /\ ctx' = [ctx EXCEPT ![r] = "none"]
    /\ UNCHANGED settled

\* An exception in the job body.  A job outside run_job_body has the claim
\* and the failure write outside its try, the use case and the save inside.
Raise(r) ==
    IF Guarded THEN Reconciling(r, "except")
    ELSE Leave(r, IF pc[r] \in {"work", "save"} THEN "markFailed" ELSE "dropped")

\* reconcile_job_terminal, called from ctx[r], returned True.
Reconciled(r) ==
    IF ctx[r] \in {"final", "abort"} THEN Leave(r, "done") ELSE Finally(r, TRUE)

\* It returned False.
NotReconciled(r) ==
    CASE ctx[r] \in {"body", "skip"} -> Goto(r, "look") /\ UNCHANGED control
      [] ctx[r] = "except" -> Leave(r, "markFailed")
      [] ctx[r] = "final"  -> Reconciling(r, "abort")
      [] ctx[r] = "abort"  -> Leave(r, "probe")
      [] OTHER             -> FALSE

\* It raised: in the try body the except clause handles it, in an except
\* clause only the finally block still runs, there it leaves the job.
ReconcileRaised(r) ==
    CASE ctx[r] = "body"                -> Reconciling(r, "except")
      [] ctx[r] \in {"skip", "except"}  -> Finally(r, FALSE)
      [] ctx[r] \in {"final", "abort"}  -> Leave(r, "dropped")
      [] OTHER                          -> FALSE

\* The await at pc[a] raised.
Throw(a) ==
    IF a \in Runners
    THEN CASE pc[a] \in {"begin", "claim", "work", "save"} -> Raise(a)
           [] pc[a] \in {"reconcile", "promote", "look"} -> ReconcileRaised(a)
           [] pc[a] = "markFailed" ->
                IF Guarded THEN Finally(a, FALSE) ELSE Leave(a, "dropped")
           [] OTHER -> Leave(a, "dropped")
    ELSE Goto(a, "dropped") /\ UNCHANGED control

-----------------------------------------------------------------------------
(* Reads of the record                                                     *)

Read(a, label) == pc[a] = label /\ pend[a] = NoJob

NoWrite == UNCHANGED <<job, pend, started, timer>>

\* begin_job_execution
Begin(r) ==
    /\ Read(r, "begin")
    /\ IF MayBegin(job)
       THEN begun' = begun \cup {r} /\ Leave(r, "claim")
       ELSE /\ IF Guarded THEN Reconciling(r, "skip") ELSE Leave(r, "done")
            /\ UNCHANGED begun
    /\ NoWrite /\ UNCHANGED <<store, finished>>

\* The use case returns, or raises (its timeout included).
UseCaseReturns(r) ==
    /\ Read(r, "work")
    /\ finished' = finished \cup {r}
    /\ Leave(r, "save")
    /\ NoWrite /\ UNCHANGED <<store, begun>>

UseCaseRaises(r) ==
    /\ Read(r, "work")
    /\ Raise(r)
    /\ NoWrite /\ UNCHANGED history

Reconcile(r) ==
    /\ Read(r, "reconcile")
    /\ CASE ReconcileVerdict(job) = "yes" -> Reconciled(r)
         [] ReconcileVerdict(job) = "no" -> NotReconciled(r)
         [] OTHER -> Goto(r, "promote") /\ UNCHANGED control
    /\ NoWrite /\ UNCHANGED history

\* run_job_body looks again after a reconcile that found nothing to do; a
\* skipped execution is terminal whatever it sees.
Look(r) ==
    /\ Read(r, "look")
    /\ Finally(r, ctx[r] = "skip" \/ job.status \in Terminal)
    /\ NoWrite /\ UNCHANGED history

\* finally: finish_lock (its errors are caught), then make the job terminal.
Unlock(r) ==
    /\ Read(r, "unlock")
    /\ IF settled[r] THEN Leave(r, "done") ELSE Reconciling(r, "final")
    /\ NoWrite /\ UNCHANGED history

\* fail_job_if_still_running, after its own reconcile
Probe(r) ==
    /\ Read(r, "probe")
    /\ Leave(r, IF job.status = "running" THEN "abort" ELSE "done")
    /\ NoWrite /\ UNCHANGED history

ReadRaises(a) ==
    /\ "store" \in Faults /\ store = "blob"
    /\ pc[a] \in {"begin", "reconcile", "look", "probe", "check", "poll"}
    /\ pend[a] = NoJob
    /\ Throw(a)
    /\ NoWrite /\ UNCHANGED history

-----------------------------------------------------------------------------
(* Writes of the record                                                    *)

WriteLabels == {"create", "dispatch", "stale", "claim", "save", "promote",
                "markFailed", "abort"}

\* The record update_job would store for actor a, merged over j.
Merged(a, j) ==
    CASE pc[a] = "create"     -> Queued(j)
      [] pc[a] = "dispatch"   -> Dispatched(j)
      [] pc[a] = "claim"      -> Claimed(j)
      [] pc[a] = "save"       -> Saved(j)
      [] pc[a] = "promote"    -> Promoted(j)
      [] pc[a] = "markFailed" -> Failed(j)
      [] OTHER                -> Aborted(j)

\* Where a runner goes once its write returned.
RunnerWrote(r) ==
    CASE pc[r] = "claim"      -> Leave(r, "work")
      [] pc[r] = "save"       ->
            IF Guarded THEN Reconciling(r, "body") ELSE Leave(r, "done")
      [] pc[r] = "promote"    -> Reconciled(r)
      [] pc[r] = "markFailed" ->
            IF Guarded THEN Finally(r, TRUE) ELSE Leave(r, "done")
      [] OTHER                -> Leave(r, "done")   \* stale, abort

\* The request handler's writes: the background task starts with the response
\* to the queued write, the fallback is scheduled after the dispatched one.
ApiWrote ==
    /\ UNCHANGED control
    /\ \/ /\ pc[Api] = "create"
          /\ Goto(Api, IF Workflow THEN "start" ELSE "done")
          /\ started' = ~Workflow
          /\ UNCHANGED timer
       \/ /\ pc[Api] = "dispatch"
          /\ pc' = [pc EXCEPT ![Api] = "done",
                              ![Fallback] = IF WithFallback THEN "asleep" ELSE @]
          /\ timer' = Delay
          /\ UNCHANGED started

Wrote(a) ==
    \/ a = Api /\ ApiWrote
    \/ a # Api /\ RunnerWrote(a) /\ UNCHANGED <<started, timer>>

\* MemoryJobStore.update_job: one step.
WriteInMemory(a) ==
    /\ store = "memory"
    /\ pc[a] \in WriteLabels
    /\ job' = Merged(a, job)
    /\ Wrote(a)
    /\ UNCHANGED <<pend, history>>

\* VercelBlobJobStore.update_job: get, merge ...
WriteReads(a) ==
    /\ store = "blob"
    /\ pc[a] \in WriteLabels /\ pend[a] = NoJob
    /\ pend' = [pend EXCEPT ![a] = Merged(a, job)]
    /\ UNCHANGED <<job, pc, control, started, timer, history>>

\* ... and put.
WritePuts(a) ==
    /\ pend[a] # NoJob
    /\ job' = pend[a]
    /\ pend' = [pend EXCEPT ![a] = NoJob]
    /\ Wrote(a)
    /\ UNCHANGED history

\* The write raises; the put may or may not have reached the store.
WriteRaises(a) ==
    /\ "store" \in Faults
    /\ pend[a] # NoJob
    /\ job' \in {job, pend[a]}
    /\ pend' = [pend EXCEPT ![a] = NoJob]
    /\ Throw(a)
    /\ UNCHANGED <<started, timer, history>>

-----------------------------------------------------------------------------
(* The request handler and the workflow service                            *)

\* vercel.workflow.start returned a run id.
StartWorkflow ==
    /\ pc[Api] = "start"
    /\ started' = TRUE
    /\ Goto(Api, "dispatch")
    /\ UNCHANGED <<job, pend, control, timer, history>>

\* It raised: the handler re-raises, and the run may exist all the same.
StartRaises ==
    /\ "start" \in Faults
    /\ pc[Api] = "start"
    /\ started' \in BOOLEAN
    /\ Goto(Api, "dropped")
    /\ UNCHANGED <<job, pend, control, timer, history>>

\* The workflow service runs the step, FastAPI the background task.
Deliver(w) ==
    /\ started
    /\ pc[w] = "idle"
    /\ Leave(w, "begin")
    /\ UNCHANGED <<job, pend, started, timer, history>>

\* init_graph_for_job, in the step and in the fallback, raises before the job
\* body is entered.
GraphRaises(r) ==
    /\ "graph" \in Faults /\ Workflow
    /\ pc[r] = "begin"
    /\ Leave(r, "dropped")
    /\ UNCHANGED <<job, pend, started, timer, history>>

-----------------------------------------------------------------------------
(* The API fallback: run_job_if_still_queued                               *)

Wake ==
    /\ pc[Fallback] = "asleep" /\ timer = 0
    /\ Leave(Fallback, "check")
    /\ UNCHANGED <<job, pend, started, timer, history>>

FallbackGoes(label) ==
    /\ Leave(Fallback, label)
    /\ timer' = IF label = "poll" THEN PollWait ELSE timer
    /\ UNCHANGED <<job, pend, started, history>>

\* A run that the store knows to be dispatched is polled before taking over.
Proceed == IF job.run_id /\ PollWait > 0 THEN "poll" ELSE "begin"

\* The one look after the delay.
Check ==
    /\ Read(Fallback, "check")
    /\ \/ job.status \in Terminal \cup {"none"} /\ FallbackGoes("done")
       \/ job.status = "queued" /\ FallbackGoes(Proceed)
       \/ /\ job.status = "running"
          /\ FallbackGoes(CASE RunningVerdict(job) = "skip" -> "done"
                            [] RunningVerdict(job) = "fail" -> "stale"
                            [] OTHER -> Proceed)

\* _poll_until_fallback_or_skip: while the window is open only a terminal
\* record or a verdict ends the loop ...
Poll ==
    /\ Read(Fallback, "poll") /\ timer > 0
    /\ \/ job.status \in Terminal /\ FallbackGoes("done")
       \/ /\ job.status = "running"
          /\ RunningVerdict(job) \in {"run", "fail"}
          /\ FallbackGoes(IF RunningVerdict(job) = "run" THEN "begin" ELSE "stale")

\* ... and the last look decides.
PollEnds ==
    /\ Read(Fallback, "poll") /\ timer = 0
    /\ \/ job.status \in Terminal /\ FallbackGoes("done")
       \/ job.status \in {"none", "queued"} /\ FallbackGoes("begin")
       \/ /\ job.status = "running"
          /\ FallbackGoes(CASE RunningVerdict(job) = "run" -> "begin"
                            [] RunningVerdict(job) = "fail" -> "stale"
                            [] OTHER -> "done")

-----------------------------------------------------------------------------
(* Time and crashes                                                        *)

\* Timers are lower bounds: a sleep may last longer than it asked for.
Tick ==
    /\ job' = IF job = NoJob THEN job ELSE Aged(job)
    /\ pend' = [a \in Actors |-> IF pend[a] = NoJob THEN NoJob ELSE Aged(pend[a])]
    /\ timer' = IF timer > 0 THEN timer - 1 ELSE 0
    /\ UNCHANGED <<pc, control, started, history>>

Kill(A) ==
    /\ pc' = [a \in Actors |-> IF a \in A /\ Live(a) THEN "dead" ELSE pc[a]]
    /\ pend' = [a \in Actors |-> IF a \in A THEN NoJob ELSE pend[a]]
    /\ UNCHANGED <<control, timer, history>>

\* A workflow worker is killed inside the step.
WorkerCrash(w) ==
    /\ "worker" \in Crashes /\ Workflow
    /\ Live(w)
    /\ Kill({w})
    /\ UNCHANGED <<job, started>>

\* The API instance goes: its handler, its fallback task and, without a
\* workflow service, its background tasks and what it kept in memory.
ApiCrash ==
    /\ "api" \in Crashes
    /\ IF Workflow
       THEN /\ Live(Api) \/ Live(Fallback)
            /\ Kill({Api, Fallback})
            /\ UNCHANGED started
       ELSE /\ \E a \in Actors : Live(a)
            /\ Kill(Actors)
            /\ started' = FALSE
    /\ job' = IF store = "blob" THEN job ELSE NoJob

-----------------------------------------------------------------------------

RunnerStep(r) ==
    \/ Begin(r) \/ UseCaseReturns(r) \/ UseCaseRaises(r)
    \/ Reconcile(r) \/ Look(r) \/ Unlock(r) \/ Probe(r)

StoreStep(a) ==
    WriteInMemory(a) \/ WriteReads(a) \/ WritePuts(a)

Next ==
    \/ \E r \in Runners : RunnerStep(r) \/ GraphRaises(r)
    \/ \E a \in Actors : StoreStep(a) \/ ReadRaises(a) \/ WriteRaises(a)
    \/ \E w \in Workers : Deliver(w) \/ WorkerCrash(w)
    \/ StartWorkflow \/ StartRaises
    \/ Wake \/ Check \/ Poll \/ PollEnds
    \/ Tick \/ ApiCrash

Spec == Init /\ [][Next]_vars

\* What the deployment schedules: the event loop runs every task whose await
\* is done, and a use case under run_with_timeout ends.  That a workflow step
\* is ever delivered is not assumed.
Fairness ==
    /\ \A r \in Runners : WF_vars(RunnerStep(r))
    /\ \A a \in Actors : WF_vars(StoreStep(a))
    /\ WF_vars(StartWorkflow)
    /\ WF_vars(Wake) /\ WF_vars(Check) /\ WF_vars(Poll) /\ WF_vars(PollEnds)
    /\ WF_vars(Tick)

FairSpec == Spec /\ Fairness

-----------------------------------------------------------------------------
(* Properties                                                              *)

(* A job is reported completed only after the use case of some execution   *)
(* has returned, however many executions, stale puts, crashes and failed   *)
(* writes there were: neither reconcile_job_terminal nor a last-writer-wins*)
(* put can turn a job nobody finished into a completed one.                *)
CompletedMeansDone == job.status = "completed" => finished # {}

(* An execution that begin_job_execution skips leaves the work to another  *)
(* one that was let through: a delivery never ends quietly with nobody     *)
(* having begun the use case.                                              *)
SkippedMeansBegun == \A w \in Workers : pc[w] = "done" => begun # {}

(* The status a client polls and the payload beside it come from the same  *)
(* outcome although several executions overwrite one record: completed has *)
(* a result and no error, failed has an error (jobs outside run_job_body). *)
TerminalPayload ==
    /\ job.status = "completed" => job.result /\ ~job.error
    /\ job.status = "failed" => job.error

(* What the client is promised: JobContract, with the stored status and    *)
(* whether any execution's use case has returned.                          *)
Contract == INSTANCE JobContract
            WITH status <- job.status, done <- finished # {},
                 durable <- store = "blob"
KeepsContract == Contract!Spec

(* A queued job ends up completed or failed and stays so.                  *)
EventuallySettled == <>[](job.status \in Terminal)

(* begin_job_execution lets one execution through "solo si nadie más está  *)
(* ejecutando o terminó": two use cases never run at once.                 *)
SingleExecution ==
    \A r, s \in Runners : pc[r] = "work" /\ pc[s] = "work" => r = s

(* "Tras workflow_dispatched, la API toma el job si el worker no pasa a    *)
(* executing": a dispatched job does not stay dispatched.                  *)
DispatchedIsTakenOver ==
    (job.status = "running" /\ job.phase = "workflow_dispatched")
        ~> (job.phase = "executing" \/ job.status \in Terminal)
=============================================================================
