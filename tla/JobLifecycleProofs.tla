------------------------- MODULE JobLifecycleProofs -------------------------
(***************************************************************************)
(* Proofs about JobLifecycle, for every set of deliveries, every delay and *)
(* either kind of store.                                                   *)
(***************************************************************************)
EXTENDS JobLifecycle, TLAPS

-----------------------------------------------------------------------------
(* The record operators keep the record's type.                            *)

LEMMA MaxAgeType == MaxAge \in Nat
  BY RecordAssumption DEF MaxAge

LEMMA NoJobType == NoJob \in Job
  BY MaxAgeType DEF NoJob, Job, Statuses, Phases

LEMMA UpdateTypes ==
    ASSUME NEW j \in Job
    PROVE  /\ Queued(j) \in Job /\ Dispatched(j) \in Job /\ Claimed(j) \in Job
           /\ Saved(j) \in Job /\ Failed(j) \in Job /\ Promoted(j) \in Job
           /\ Aborted(j) \in Job /\ Aged(j) \in Job
  <1>0. 0 \in 0..MaxAge
    BY MaxAgeType
  <1> USE DEF Job, Statuses, Phases, Terminal
  <1>1. Queued(j) \in Job
    BY DEF Queued
  <1>2. Dispatched(j) \in Job
    BY <1>0 DEF Dispatched
  <1>3. Claimed(j) \in Job
    BY <1>0 DEF Claimed
  <1>4. Saved(j) \in Job
    BY RecordAssumption DEF Saved
  <1>5. Failed(j) \in Job
    BY RecordAssumption DEF Failed
  <1>6. Promoted(j) \in Job
    BY DEF Promoted
  <1>7. Aborted(j) \in Job
    BY DEF Aborted
  <1>8. Aged(j) \in Job
    BY MaxAgeType DEF Aged
  <1>9. QED
    BY <1>1, <1>2, <1>3, <1>4, <1>5, <1>6, <1>7, <1>8

LEMMA MergedType ==
    ASSUME NEW a, NEW j \in Job
    PROVE  Merged(a, j) \in Job
  BY UpdateTypes DEF Merged

-----------------------------------------------------------------------------
(* Where the control helpers can take a runner.  Moved(a, L): a goes to one *)
(* of the labels L, nobody else moves, and the locals keep their types.     *)

Moved(a, L) ==
    /\ \E label \in L : pc' = [pc EXCEPT ![a] = label]
    /\ ctx' \in [Runners -> Contexts]
    /\ settled' \in [Runners -> BOOLEAN]

LEMMA LeaveMoves ==
    ASSUME TypeOK, NEW r \in Runners, NEW label \in Labels, Leave(r, label)
    PROVE  Moved(r, {label})
  BY DEF TypeOK, Leave, Goto, Moved, Contexts

LEMMA ReconcilingMoves ==
    ASSUME TypeOK, NEW r \in Runners, NEW c \in Contexts, Reconciling(r, c)
    PROVE  Moved(r, {"reconcile"})
  BY DEF TypeOK, Reconciling, Goto, Moved

LEMMA FinallyMoves ==
    ASSUME TypeOK, NEW r \in Runners, NEW t \in BOOLEAN, Finally(r, t)
    PROVE  Moved(r, {"unlock"})
  BY DEF TypeOK, Finally, Goto, Moved, Contexts

LEMMA MovedWider ==
    ASSUME NEW a, NEW L, NEW M, L \subseteq M, Moved(a, L)
    PROVE  Moved(a, M)
  BY DEF Moved

ControlType ==
    /\ pc \in [Actors -> Labels]
    /\ ctx \in [Runners -> Contexts]
    /\ settled \in [Runners -> BOOLEAN]

\* Whoever moves in this step goes to one of the labels L.
Shifts(L) == \A b \in Actors : pc'[b] = pc[b] \/ pc'[b] \in L

LEMMA MovedShifts ==
    ASSUME TypeOK, NEW a \in Actors, NEW L, L \subseteq Labels, Moved(a, L)
    PROVE  ControlType' /\ Shifts(L)
  BY DEF TypeOK, Moved, ControlType, Shifts

LEMMA RaiseMoves ==
    ASSUME TypeOK, NEW r \in Runners, Raise(r)
    PROVE  Moved(r, {"reconcile", "markFailed", "dropped"})
  <1>1. CASE Guarded
    BY <1>1, ReconcilingMoves, MovedWider DEF Raise, Contexts
  <1>2. CASE ~Guarded
    <2>1. PICK label \in {"markFailed", "dropped"} : Leave(r, label)
      BY <1>2 DEF Raise
    <2>2. Moved(r, {label})
      BY <2>1, LeaveMoves DEF Labels
    <2>3. QED
      BY <2>2, MovedWider
  <1>3. QED
    BY <1>1, <1>2

LEMMA ReconciledMoves ==
    ASSUME TypeOK, NEW r \in Runners, Reconciled(r)
    PROVE  Moved(r, {"done", "unlock"})
  <1>1. CASE ctx[r] \in {"final", "abort"}
    <2>1. Moved(r, {"done"})
      BY <1>1, LeaveMoves DEF Reconciled, Labels
    <2>2. QED
      BY <2>1, MovedWider
  <1>2. CASE ctx[r] \notin {"final", "abort"}
    <2>1. Moved(r, {"unlock"})
      BY <1>2, FinallyMoves DEF Reconciled
    <2>2. QED
      BY <2>1, MovedWider
  <1>3. QED
    BY <1>1, <1>2

LEMMA NotReconciledMoves ==
    ASSUME TypeOK, NEW r \in Runners, NotReconciled(r)
    PROVE  Moved(r, {"look", "markFailed", "reconcile", "probe"})
  <1>1. \/ \E label \in {"markFailed", "probe"} : Leave(r, label)
        \/ Goto(r, "look") /\ UNCHANGED control
        \/ Reconciling(r, "abort")
    BY DEF NotReconciled
  <1>2. ASSUME NEW label \in {"markFailed", "probe"}, Leave(r, label)
        PROVE  Moved(r, {label})
    BY <1>2, LeaveMoves DEF Labels
  <1>3. ASSUME Goto(r, "look"), UNCHANGED control
        PROVE  Moved(r, {"look"})
    BY <1>3 DEF Goto, control, Moved, TypeOK
  <1>4. ASSUME Reconciling(r, "abort")
        PROVE  Moved(r, {"reconcile"})
    BY <1>4, ReconcilingMoves DEF Contexts
  <1>5. QED
    BY <1>1, <1>2, <1>3, <1>4 DEF Moved

LEMMA ReconcileRaisedMoves ==
    ASSUME TypeOK, NEW r \in Runners, ReconcileRaised(r)
    PROVE  Moved(r, {"reconcile", "unlock", "dropped"})
  <1>1. \/ Reconciling(r, "except") \/ Finally(r, FALSE) \/ Leave(r, "dropped")
    BY DEF ReconcileRaised
  <1>2. ASSUME Reconciling(r, "except")
        PROVE  Moved(r, {"reconcile"})
    BY <1>2, ReconcilingMoves DEF Contexts
  <1>3. ASSUME Finally(r, FALSE)
        PROVE  Moved(r, {"unlock"})
    BY <1>3, FinallyMoves
  <1>4. ASSUME Leave(r, "dropped")
        PROVE  Moved(r, {"dropped"})
    BY <1>4, LeaveMoves DEF Labels
  <1>5. QED
    BY <1>1, <1>2, <1>3, <1>4 DEF Moved

LEMMA ThrowShifts ==
    ASSUME TypeOK, NEW a \in Actors, Throw(a)
    PROVE  /\ ControlType'
           /\ Shifts({"reconcile", "unlock", "markFailed", "dropped"})
  <1> DEFINE L == {"reconcile", "unlock", "markFailed", "dropped"}
  <1>1. CASE a \in Runners
    <2>1. \/ Raise(a) \/ ReconcileRaised(a)
          \/ Finally(a, FALSE) \/ Leave(a, "dropped")
      BY <1>1 DEF Throw
    <2>2. Moved(a, L)
      <3>1. ASSUME Raise(a) PROVE Moved(a, L)
        BY <1>1, <3>1, RaiseMoves DEF Moved
      <3>2. ASSUME ReconcileRaised(a) PROVE Moved(a, L)
        BY <1>1, <3>2, ReconcileRaisedMoves DEF Moved
      <3>3. ASSUME Finally(a, FALSE) PROVE Moved(a, L)
        BY <1>1, <3>3, FinallyMoves DEF Moved
      <3>4. ASSUME Leave(a, "dropped") PROVE Moved(a, L)
        BY <1>1, <3>4, LeaveMoves DEF Moved, Labels
      <3>5. QED
        BY <2>1, <3>1, <3>2, <3>3, <3>4
    <2>3. QED
      BY <2>2, MovedShifts DEF Labels
  <1>2. CASE a \notin Runners
    BY <1>2 DEF Throw, Goto, control, TypeOK, ControlType, Shifts, Labels
  <1>3. QED
    BY <1>1, <1>2

LEMMA RunnerWroteShifts ==
    ASSUME TypeOK, NEW r \in Runners, RunnerWrote(r)
    PROVE  ControlType' /\ Shifts({"work", "reconcile", "done", "unlock"})
  <1> DEFINE L == {"work", "reconcile", "done", "unlock"}
  <1>1. \/ \E label \in {"work", "done"} : Leave(r, label)
        \/ Reconciling(r, "body") \/ Reconciled(r) \/ Finally(r, TRUE)
    BY DEF RunnerWrote
  <1>2. Moved(r, L)
    <2>1. ASSUME NEW label \in {"work", "done"}, Leave(r, label)
          PROVE  Moved(r, L)
      BY <2>1, LeaveMoves DEF Moved, Labels
    <2>2. ASSUME Reconciling(r, "body") PROVE Moved(r, L)
      BY <2>2, ReconcilingMoves DEF Moved, Contexts
    <2>3. ASSUME Reconciled(r) PROVE Moved(r, L)
      BY <2>3, ReconciledMoves DEF Moved
    <2>4. ASSUME Finally(r, TRUE) PROVE Moved(r, L)
      BY <2>4, FinallyMoves DEF Moved
    <2>5. QED
      BY <1>1, <2>1, <2>2, <2>3, <2>4
  <1>3. QED
    BY <1>2, MovedShifts DEF Labels, Actors

LEMMA MaxTimerType ==
    MaxTimer \in Nat /\ 0 \in 0..MaxTimer
        /\ Delay \in 0..MaxTimer /\ PollWait \in 0..MaxTimer
  BY ActorAssumption DEF MaxTimer

LEMMA WroteShifts ==
    ASSUME TypeOK, NEW a \in Actors, Wrote(a)
    PROVE  /\ ControlType'
           /\ Shifts({"work", "reconcile", "done", "unlock", "start", "asleep"})
           /\ started' \in BOOLEAN
           /\ timer' \in 0..MaxTimer
  <1>1. CASE a = Api
    <2>1. ApiWrote
      BY <1>1, ActorAssumption DEF Wrote
    <2>2. CASE pc[Api] = "create"
      BY <2>1, <2>2, ActorAssumption
      DEF ApiWrote, Goto, control, TypeOK, ControlType, Shifts, Labels
    <2>3. CASE pc[Api] = "dispatch"
      BY <2>1, <2>3, MaxTimerType
      DEF ApiWrote, control, TypeOK, ControlType, Shifts, Labels
    <2>4. QED
      BY <2>1, <2>2, <2>3 DEF ApiWrote
  <1>2. CASE a # Api
    <2>1. a \in Runners /\ RunnerWrote(a) /\ UNCHANGED <<started, timer>>
      BY <1>2 DEF Wrote, Actors
    <2>2. QED
      BY <2>1, RunnerWroteShifts DEF Shifts, TypeOK
  <1>3. QED
    BY <1>1, <1>2

LEMMA BeginShifts ==
    ASSUME TypeOK, NEW r \in Runners, Begin(r)
    PROVE  ControlType' /\ Shifts({"claim", "reconcile", "done"})
  <1>1. \/ \E label \in {"claim", "done"} : Leave(r, label)
        \/ Reconciling(r, "skip")
    BY DEF Begin
  <1>2. Moved(r, {"claim", "reconcile", "done"})
    BY <1>1, LeaveMoves, ReconcilingMoves DEF Moved, Labels, Contexts
  <1>3. QED
    BY <1>2, MovedShifts DEF Labels, Actors

LEMMA ReconcileShifts ==
    ASSUME TypeOK, NEW r \in Runners, Reconcile(r)
    PROVE  /\ ControlType'
           /\ Shifts({"done", "unlock", "look", "markFailed", "reconcile",
                      "probe", "promote"})
  <1> DEFINE L == {"done", "unlock", "look", "markFailed", "reconcile",
                   "probe", "promote"}
  <1>1. \/ Reconciled(r) \/ NotReconciled(r)
        \/ Goto(r, "promote") /\ UNCHANGED control
    BY DEF Reconcile
  <1>2. ASSUME Reconciled(r) PROVE Moved(r, L)
    BY <1>2, ReconciledMoves DEF Moved
  <1>3. ASSUME NotReconciled(r) PROVE Moved(r, L)
    BY <1>3, NotReconciledMoves DEF Moved
  <1>4. ASSUME Goto(r, "promote"), UNCHANGED control PROVE Moved(r, L)
    BY <1>4 DEF Goto, control, Moved, TypeOK
  <1>5. QED
    BY <1>1, <1>2, <1>3, <1>4, MovedShifts DEF Labels, Actors

LEMMA LeaveShifts ==
    ASSUME TypeOK, NEW r \in Runners, NEW label \in Labels, Leave(r, label)
    PROVE  ControlType' /\ Shifts({label})
  BY LeaveMoves, MovedShifts DEF Actors

\* Look, Unlock and Probe, and the steps of the fallback.
LEMMA BodyShifts ==
    ASSUME TypeOK, NEW r \in Runners, Look(r) \/ Unlock(r) \/ Probe(r)
    PROVE  ControlType' /\ Shifts({"unlock", "done", "reconcile", "abort"})
  <1> DEFINE L == {"unlock", "done", "reconcile", "abort"}
  <1>1. ASSUME Look(r) PROVE Moved(r, L)
    <2>1. PICK t \in BOOLEAN : Finally(r, t)
      <3>1. (ctx[r] = "skip" \/ job.status \in Terminal) \in BOOLEAN
        OBVIOUS
      <3>2. QED
        BY <1>1, <3>1, Zenon DEF Look
    <2>2. Moved(r, {"unlock"})
      BY <2>1, FinallyMoves
    <2>3. QED
      BY <2>2, MovedWider
  <1>2. ASSUME Unlock(r) PROVE Moved(r, L)
    <2>1. Leave(r, "done") \/ Reconciling(r, "final")
      BY <1>2 DEF Unlock
    <2>2. QED
      BY <2>1, LeaveMoves, ReconcilingMoves DEF Moved, Labels, Contexts
  <1>3. ASSUME Probe(r) PROVE Moved(r, L)
    <2>1. \E label \in {"abort", "done"} : Leave(r, label)
      BY <1>3 DEF Probe
    <2>2. QED
      BY <2>1, LeaveMoves DEF Moved, Labels
  <1>4. QED
    BY <1>1, <1>2, <1>3, MovedShifts DEF Labels, Actors

FallbackStep == Wake \/ Check \/ Poll \/ PollEnds

LEMMA FallbackShifts ==
    ASSUME TypeOK, FallbackStep
    PROVE  /\ ControlType'
           /\ Shifts({"check", "done", "poll", "begin", "stale"})
           /\ timer' \in 0..MaxTimer
           /\ UNCHANGED <<job, pend, started, history>>
  <1> DEFINE L == {"check", "done", "poll", "begin", "stale"}
  <1>1. \/ Leave(Fallback, "check") /\ UNCHANGED <<job, pend, started, timer, history>>
        \/ \E label \in L : FallbackGoes(label)
    BY DEF FallbackStep, Wake, Check, Poll, PollEnds, Proceed
  <1>2. PICK label \in L : /\ Leave(Fallback, label)
                           /\ timer' \in {timer, PollWait}
                           /\ UNCHANGED <<job, pend, started, history>>
    BY <1>1 DEF FallbackGoes
  <1>3. Fallback \in Runners /\ label \in Labels
    BY DEF Runners, Labels
  <1>4. ControlType' /\ Shifts({label})
    BY <1>2, <1>3, LeaveShifts
  <1>5. QED
    BY <1>2, <1>4, MaxTimerType DEF Shifts, TypeOK

-----------------------------------------------------------------------------
(* Type correctness                                                        *)

LEMMA MergedJob ==
    ASSUME TypeOK, NEW a \in Actors
    PROVE  Merged(a, job) \in Job
  BY MergedType DEF TypeOK

LEMMA KillShifts ==
    ASSUME TypeOK, NEW A, Kill(A)
    PROVE  /\ ControlType' /\ Shifts({"dead"})
           /\ pend' \in [Actors -> Job]
           /\ \A a \in Actors : pend'[a] \in {NoJob, pend[a]}
  BY NoJobType DEF TypeOK, Kill, control, ControlType, Shifts, Labels

LEMMA TypeInit == Init => TypeOK
  BY NoJobType, MaxTimerType DEF Init, TypeOK, Labels, Contexts

LEMMA TypeNext == TypeOK /\ [Next]_vars => TypeOK'
  <1> SUFFICES ASSUME TypeOK, [Next]_vars
               PROVE  TypeOK'
    OBVIOUS
  <1> USE DEF TypeOK
  <1>1. ASSUME NEW r \in Runners, Begin(r) PROVE TypeOK'
    BY <1>1, BeginShifts DEF Begin, NoWrite, ControlType
  <1>2. ASSUME NEW r \in Runners, UseCaseReturns(r) PROVE TypeOK'
    <2>1. Leave(r, "save") /\ UNCHANGED <<store, job, pend, started, timer, begun>>
          /\ finished' = finished \cup {r}
      BY <1>2 DEF UseCaseReturns, NoWrite
    <2>2. ControlType'
      BY <2>1, LeaveShifts DEF Labels
    <2>3. QED
      BY <2>1, <2>2 DEF ControlType
  <1>3. ASSUME NEW r \in Runners, UseCaseRaises(r) PROVE TypeOK'
    <2>1. Moved(r, {"reconcile", "markFailed", "dropped"})
      BY <1>3, RaiseMoves DEF UseCaseRaises
    <2>2. ControlType'
      BY <2>1, MovedShifts DEF Labels, Actors
    <2>3. QED
      BY <1>3, <2>2 DEF UseCaseRaises, NoWrite, history, ControlType
  <1>4. ASSUME NEW r \in Runners, Reconcile(r) PROVE TypeOK'
    BY <1>4, ReconcileShifts DEF Reconcile, NoWrite, history, ControlType
  <1>5. ASSUME NEW r \in Runners, Look(r) \/ Unlock(r) \/ Probe(r)
        PROVE  TypeOK'
    BY <1>5, BodyShifts DEF Look, Unlock, Probe, NoWrite, history, ControlType
  <1>6. ASSUME NEW a \in Actors, ReadRaises(a) PROVE TypeOK'
    BY <1>6, ThrowShifts DEF ReadRaises, NoWrite, history, ControlType
  <1>7. ASSUME NEW a \in Actors, WriteInMemory(a) PROVE TypeOK'
    BY <1>7, WroteShifts, MergedJob DEF WriteInMemory, history, ControlType
  <1>8. ASSUME NEW a \in Actors, WriteReads(a) PROVE TypeOK'
    BY <1>8, MergedJob DEF WriteReads, control, history
  <1>9. ASSUME NEW a \in Actors, WritePuts(a) PROVE TypeOK'
    BY <1>9, WroteShifts, NoJobType DEF WritePuts, history, ControlType
  <1>10. ASSUME NEW a \in Actors, WriteRaises(a) PROVE TypeOK'
    BY <1>10, ThrowShifts, NoJobType DEF WriteRaises, history, ControlType
  <1>11. ASSUME StartWorkflow \/ StartRaises PROVE TypeOK'
    BY <1>11 DEF StartWorkflow, StartRaises, Goto, control, history, Labels
  <1>12. ASSUME NEW r \in Runners,
                \/ r \in Workers /\ Deliver(r)
                \/ GraphRaises(r)
         PROVE  TypeOK'
    <2>1. /\ \E label \in {"begin", "dropped"} : Leave(r, label)
          /\ UNCHANGED <<job, pend, started, timer, history>>
      BY <1>12 DEF Deliver, GraphRaises
    <2>2. ControlType'
      BY <2>1, LeaveShifts DEF Labels
    <2>3. QED
      BY <2>1, <2>2 DEF ControlType, history
  <1>13. ASSUME FallbackStep PROVE TypeOK'
    BY <1>13, FallbackShifts DEF ControlType, history
  <1>14. ASSUME Tick PROVE TypeOK'
    <2>1. \A j \in Job : Aged(j) \in Job
      BY UpdateTypes
    <2>2. job' \in Job
      BY <1>14, <2>1 DEF Tick
    <2>3. pend' \in [Actors -> Job]
      BY <1>14, <2>1, NoJobType DEF Tick
    <2>4. timer' \in 0..MaxTimer
      BY <1>14, MaxTimerType DEF Tick
    <2>5. QED
      BY <1>14, <2>2, <2>3, <2>4 DEF Tick, control, history
  <1>15. ASSUME NEW w \in Workers, WorkerCrash(w) PROVE TypeOK'
    BY <1>15, KillShifts DEF WorkerCrash, Kill, history, ControlType
  <1>16. ASSUME ApiCrash PROVE TypeOK'
    <2>1. PICK A : Kill(A)
      BY <1>16 DEF ApiCrash
    <2>2. job' \in Job /\ started' \in BOOLEAN
      BY <1>16, NoJobType DEF ApiCrash
    <2>3. QED
      BY <2>1, <2>2, KillShifts DEF Kill, history, ControlType
  <1>17. CASE UNCHANGED vars
    BY <1>17 DEF vars, control, history
  <1>18. QED
    BY <1>1, <1>2, <1>3, <1>4, <1>5, <1>6, <1>7, <1>8, <1>9, <1>10, <1>11,
       <1>12, <1>13, <1>14, <1>15, <1>16, <1>17
    DEF Next, RunnerStep, StoreStep, FallbackStep, Runners

(* Every state has the declared types: an update_job of any actor keeps the *)
(* record one that readers understand, and every exception path of          *)
(* run_job_body and of the plain jobs ends at a label of the code.          *)
THEOREM TypeCorrect == Spec => []TypeOK
  <1>1. QED
    BY TypeInit, TypeNext, PTL DEF Spec

-----------------------------------------------------------------------------
(* Completed means done                                                    *)

\* A record that neither says completed nor carries a result.
Blank(j) == j.status # "completed" /\ ~j.result

(* CompletedMeansDone is not inductive: a result in the record, or one      *)
(* merged and not yet put, is promoted or stored later, and an execution    *)
(* already past its use case saves later.                                   *)
DoneInv ==
    /\ TypeOK
    /\ finished = {} => /\ Blank(job)
                        /\ \A a \in Actors : Blank(pend[a])
                        /\ \A a \in Actors : pc[a] \notin {"save", "promote"}

LEMMA BlankMerged ==
    ASSUME TypeOK, NEW a \in Actors, Blank(job), pc[a] \notin {"save", "promote"}
    PROVE  Blank(Merged(a, job))
  <1>1. job \in Job
    BY DEF TypeOK
  <1>2. Blank(Queued(job))
    BY <1>1 DEF Blank, Queued, Job
  <1>3. Blank(Dispatched(job))
    BY <1>1 DEF Blank, Dispatched, Job
  <1>4. Blank(Claimed(job))
    BY <1>1 DEF Blank, Claimed, Job
  <1>5. Blank(Failed(job))
    BY <1>1 DEF Blank, Failed, Job
  <1>6. Blank(Aborted(job))
    BY <1>1 DEF Blank, Aborted, Job
  <1>7. QED
    BY <1>2, <1>3, <1>4, <1>5, <1>6 DEF Merged

LEMMA BlankAged == ASSUME NEW j \in Job, Blank(j) PROVE Blank(Aged(j))
  BY DEF Blank, Aged, Job

LEMMA BlankNoJob == Blank(NoJob)
  BY DEF Blank, NoJob

LEMMA DoneInit == Init => DoneInv
  <1>1. ASSUME Init PROVE \A a \in Actors : pc[a] \notin {"save", "promote"}
    BY <1>1 DEF Init
  <1>2. QED
    BY <1>1, TypeInit, BlankNoJob DEF Init, DoneInv

LEMMA DoneNext == DoneInv /\ [Next]_vars => DoneInv'
  <1> SUFFICES ASSUME DoneInv, [Next]_vars, finished' = {}
               PROVE  /\ Blank(job)'
                      /\ \A a \in Actors : Blank(pend[a])'
                      /\ \A a \in Actors : pc'[a] \notin {"save", "promote"}
    BY TypeNext DEF DoneInv
  <1> DEFINE Goal == /\ Blank(job)'
                     /\ \A a \in Actors : Blank(pend[a])'
                     /\ \A a \in Actors : pc'[a] \notin {"save", "promote"}
  <1>a. TypeOK
    BY DEF DoneInv
  <1>b. finished = {} => /\ Blank(job)
                         /\ \A a \in Actors : Blank(pend[a])
                         /\ \A a \in Actors : pc[a] \notin {"save", "promote"}
    BY DEF DoneInv
  <1>1. ASSUME NEW r \in Runners, Begin(r) PROVE Goal
    BY <1>1, <1>a, <1>b, BeginShifts DEF Begin, NoWrite, Shifts, Blank
  <1>2. ASSUME NEW r \in Runners, UseCaseReturns(r) PROVE Goal
    BY <1>2 DEF UseCaseReturns
  <1>3. ASSUME NEW r \in Runners, UseCaseRaises(r) PROVE Goal
    <2>1. Moved(r, {"reconcile", "markFailed", "dropped"})
      BY <1>3, <1>a, RaiseMoves DEF UseCaseRaises
    <2>2. Shifts({"reconcile", "markFailed", "dropped"})
      BY <2>1, <1>a, MovedShifts DEF Labels, Actors
    <2>3. QED
      BY <1>3, <1>b, <2>2 DEF UseCaseRaises, NoWrite, history, Shifts, Blank
  <1>4. ASSUME NEW r \in Runners, Reconcile(r) PROVE Goal
    <2>1. finished = {} /\ UNCHANGED <<job, pend>>
      BY <1>4 DEF Reconcile, NoWrite, history
    <2>2. ReconcileVerdict(job) # "promote"
      BY <1>b, <2>1 DEF ReconcileVerdict, Blank
    <2>3. Reconciled(r) \/ NotReconciled(r)
      BY <1>4, <2>2 DEF Reconcile, ReconcileVerdict
    <2>4. Moved(r, {"done", "unlock", "look", "markFailed", "reconcile", "probe"})
      BY <2>3, <1>a, ReconciledMoves, NotReconciledMoves DEF Moved
    <2>5. Shifts({"done", "unlock", "look", "markFailed", "reconcile", "probe"})
      BY <2>4, <1>a, MovedShifts DEF Labels, Actors
    <2>6. QED
      BY <1>b, <2>1, <2>5 DEF Shifts, Blank
  <1>5. ASSUME NEW r \in Runners, Look(r) \/ Unlock(r) \/ Probe(r) PROVE Goal
    BY <1>5, <1>a, <1>b, BodyShifts
    DEF Look, Unlock, Probe, NoWrite, history, Shifts, Blank
  <1>6. ASSUME NEW a \in Actors, ReadRaises(a) PROVE Goal
    BY <1>6, <1>a, <1>b, ThrowShifts DEF ReadRaises, NoWrite, history, Shifts, Blank
  <1>7. ASSUME NEW a \in Actors, WriteInMemory(a) PROVE Goal
    BY <1>7, <1>a, <1>b, WroteShifts, BlankMerged
    DEF WriteInMemory, history, Shifts, Blank
  <1>8. ASSUME NEW a \in Actors, WriteReads(a) PROVE Goal
    <2>1. finished = {} /\ UNCHANGED <<job, pc>>
          /\ pend' = [pend EXCEPT ![a] = Merged(a, job)]
      BY <1>8 DEF WriteReads, history
    <2>2. Blank(Merged(a, job))
      BY <2>1, <1>a, <1>b, BlankMerged
    <2>3. QED
      BY <2>1, <2>2, <1>a, <1>b DEF Blank, TypeOK
  <1>9. ASSUME NEW a \in Actors, WritePuts(a) PROVE Goal
    <2>1. finished = {} /\ job' = pend[a] /\ pend' = [pend EXCEPT ![a] = NoJob]
          /\ Wrote(a)
      BY <1>9 DEF WritePuts, history
    <2>2. QED
      BY <2>1, <1>a, <1>b, WroteShifts, BlankNoJob DEF Blank, TypeOK, Shifts
  <1>10. ASSUME NEW a \in Actors, WriteRaises(a) PROVE Goal
    <2>1. finished = {} /\ job' \in {job, pend[a]} /\ Throw(a)
          /\ pend' = [pend EXCEPT ![a] = NoJob]
      BY <1>10 DEF WriteRaises, history
    <2>2. QED
      BY <2>1, <1>a, <1>b, ThrowShifts, BlankNoJob DEF Blank, TypeOK, Shifts
  <1>11. ASSUME StartWorkflow \/ StartRaises PROVE Goal
    BY <1>11, <1>a, <1>b
    DEF StartWorkflow, StartRaises, Goto, history, Blank, TypeOK
  <1>12. ASSUME NEW r \in Runners,
                \/ r \in Workers /\ Deliver(r)
                \/ GraphRaises(r)
         PROVE  Goal
    <2>1. /\ \E label \in {"begin", "dropped"} : Leave(r, label)
          /\ UNCHANGED <<job, pend, history>>
      BY <1>12 DEF Deliver, GraphRaises
    <2>2. QED
      BY <2>1, <1>a, <1>b, LeaveShifts DEF Labels, history, Shifts, Blank
  <1>13. ASSUME FallbackStep PROVE Goal
    BY <1>13, <1>a, <1>b, FallbackShifts DEF history, Shifts, Blank
  <1>14. ASSUME Tick PROVE Goal
    <2>1. finished = {} /\ UNCHANGED pc
      BY <1>14 DEF Tick, history
    <2>2. Blank(job')
      BY <1>14, <2>1, <1>a, <1>b, BlankAged DEF Tick, TypeOK
    <2>3. \A a \in Actors : Blank(pend'[a])
      BY <1>14, <2>1, <1>a, <1>b, BlankAged, BlankNoJob DEF Tick, TypeOK
    <2>4. QED
      BY <2>1, <2>2, <2>3, <1>b DEF Blank
  <1>15. ASSUME NEW w \in Workers, WorkerCrash(w) PROVE Goal
    BY <1>15, <1>a, <1>b, KillShifts, BlankNoJob
    DEF WorkerCrash, Kill, history, Shifts, Blank
  <1>16. ASSUME ApiCrash PROVE Goal
    <2>1. PICK A : Kill(A)
      BY <1>16 DEF ApiCrash
    <2>2. job' \in {job, NoJob}
      BY <1>16 DEF ApiCrash
    <2>3. QED
      BY <2>1, <2>2, <1>a, <1>b, KillShifts, BlankNoJob
      DEF Kill, history, Shifts, Blank
  <1>17. CASE UNCHANGED vars
    BY <1>17, <1>b DEF vars, history, Blank
  <1>18. QED
    BY <1>1, <1>2, <1>3, <1>4, <1>5, <1>6, <1>7, <1>8, <1>9, <1>10, <1>11,
       <1>12, <1>13, <1>14, <1>15, <1>16, <1>17
    DEF Next, RunnerStep, StoreStep, FallbackStep, Runners

(* A job reads completed only after the use case of some execution has      *)
(* returned, for every number of deliveries, both stores, any faults and    *)
(* crashes: reconcile_job_terminal promotes on a stored result only, and a  *)
(* result is stored by nobody who has not run the use case.                 *)
THEOREM CompletedIsDone == Spec => []CompletedMeansDone
  <1>1. DoneInv => CompletedMeansDone
    BY DEF DoneInv, CompletedMeansDone, Blank
  <1>2. QED
    BY <1>1, DoneInit, DoneNext, PTL DEF Spec

-----------------------------------------------------------------------------
(* The payload of a terminal record                                        *)

\* Status and payload of a record tell the same outcome.
Agrees(j) ==
    /\ j.status = "completed" => j.result /\ ~j.error
    /\ j.status = "failed" => j.error

\* The way to reconcile_job_terminal.
Reconciliation == {"reconcile", "promote", "look", "unlock"}

(* A stale put stores the record another execution saw, so what has been    *)
(* merged must agree before it is put; and a job outside run_job_body never *)
(* comes to the reconciliation, which writes a status without a payload.    *)
PayloadInv ==
    /\ TypeOK
    /\ Agrees(job)
    /\ \A a \in Actors : Agrees(pend[a])
    /\ \A a \in Actors : pc[a] \notin Reconciliation

LEMMA AgreesMerged ==
    ASSUME ~Guarded, TypeOK, NEW a \in Actors, Agrees(job), pc[a] # "promote"
    PROVE  Agrees(Merged(a, job))
  <1>1. job \in Job
    BY DEF TypeOK
  <1>2. Agrees(Queued(job))
    BY <1>1 DEF Agrees, Queued, Job
  <1>3. Agrees(Dispatched(job))
    BY <1>1 DEF Agrees, Dispatched, Job
  <1>4. Agrees(Claimed(job))
    BY <1>1 DEF Agrees, Claimed, Job
  <1>5. Agrees(Failed(job))
    BY <1>1 DEF Agrees, Failed, Job
  <1>6. Agrees(Aborted(job))
    BY <1>1 DEF Agrees, Aborted, Job
  <1>7. Agrees(Saved(job))
    BY <1>1 DEF Agrees, Saved, Job
  <1>8. QED
    BY <1>2, <1>3, <1>4, <1>5, <1>6, <1>7 DEF Merged

LEMMA AgreesAged == ASSUME NEW j \in Job, Agrees(j) PROVE Agrees(Aged(j))
  BY DEF Agrees, Aged, Job

LEMMA AgreesNoJob == Agrees(NoJob)
  BY DEF Agrees, NoJob

LEMMA PlainThrow ==
    ASSUME ~Guarded, TypeOK, NEW a \in Actors, pc[a] \notin Reconciliation, Throw(a)
    PROVE  Shifts({"markFailed", "dropped"})
  <1>1. CASE a \in Runners
    <2>1. PICK label \in {"markFailed", "dropped"} : Leave(a, label)
      BY <1>1 DEF Throw, Raise, Reconciliation
    <2>2. Shifts({label})
      BY <1>1, <2>1, LeaveShifts DEF Labels
    <2>3. QED
      BY <2>2 DEF Shifts
  <1>2. CASE a \notin Runners
    BY <1>2 DEF Throw, Goto, TypeOK, Shifts
  <1>3. QED
    BY <1>1, <1>2

LEMMA PlainWrote ==
    ASSUME ~Guarded, TypeOK, NEW a \in Actors, pc[a] \notin Reconciliation, Wrote(a)
    PROVE  Shifts({"work", "done", "start", "asleep"})
  <1>1. CASE a = Api
    BY <1>1, ActorAssumption DEF Wrote, ApiWrote, Goto, TypeOK, Shifts
  <1>2. CASE a # Api
    <2>1. PICK label \in {"work", "done"} : Leave(a, label)
      BY <1>2 DEF Wrote, RunnerWrote, Reconciliation
    <2>2. Shifts({label})
      BY <1>2, <2>1, LeaveShifts DEF Labels, Actors
    <2>3. QED
      BY <2>2 DEF Shifts
  <1>3. QED
    BY <1>1, <1>2

LEMMA PayloadInit == Init => PayloadInv
  <1>1. ASSUME Init PROVE \A a \in Actors : pc[a] \notin Reconciliation
    BY <1>1 DEF Init, Reconciliation
  <1>2. QED
    BY <1>1, TypeInit, AgreesNoJob DEF Init, PayloadInv

LEMMA PayloadNext ==
    ASSUME ~Guarded
    PROVE  PayloadInv /\ [Next]_vars => PayloadInv'
  <1> SUFFICES ASSUME PayloadInv, [Next]_vars
               PROVE  /\ Agrees(job)'
                      /\ \A a \in Actors : Agrees(pend[a])'
                      /\ \A a \in Actors : pc'[a] \notin Reconciliation
    BY TypeNext DEF PayloadInv
  <1> DEFINE Goal == /\ Agrees(job)'
                     /\ \A a \in Actors : Agrees(pend[a])'
                     /\ \A a \in Actors : pc'[a] \notin Reconciliation
  <1>a. TypeOK
    BY DEF PayloadInv
  <1>b. /\ Agrees(job)
        /\ \A a \in Actors : Agrees(pend[a])
        /\ \A a \in Actors : pc[a] \notin Reconciliation
    BY DEF PayloadInv
  <1>c. ASSUME UNCHANGED <<job, pend>>, NEW L, L \cap Reconciliation = {}, Shifts(L)
        PROVE  Goal
    BY <1>b, <1>c DEF Shifts, Agrees
  <1>d. Runners \subseteq Actors
    BY DEF Actors
  <1>1. ASSUME NEW r \in Runners, Begin(r) PROVE Goal
    <2>1. PICK label \in {"claim", "done"} : Leave(r, label)
      BY <1>1 DEF Begin
    <2>2. QED
      BY <1>1, <1>a, <1>c, <2>1, LeaveShifts DEF Begin, NoWrite, Labels, Reconciliation
  <1>2. ASSUME NEW r \in Runners, UseCaseReturns(r) PROVE Goal
    BY <1>2, <1>a, <1>c, LeaveShifts DEF UseCaseReturns, NoWrite, Labels, Reconciliation
  <1>3. ASSUME NEW r \in Runners, UseCaseRaises(r) PROVE Goal
    <2>1. PICK label \in {"markFailed", "dropped"} : Leave(r, label)
      BY <1>3 DEF UseCaseRaises, Raise
    <2>2. QED
      BY <1>3, <1>a, <1>c, <2>1, LeaveShifts DEF UseCaseRaises, NoWrite, Labels, Reconciliation
  <1>4. ASSUME NEW r \in Runners, Reconcile(r) \/ Look(r) \/ Unlock(r) PROVE Goal
    BY <1>4, <1>b, <1>d DEF Reconcile, Look, Unlock, Read, Reconciliation
  <1>5. ASSUME NEW r \in Runners, Probe(r) PROVE Goal
    <2>1. PICK label \in {"abort", "done"} : Leave(r, label)
      BY <1>5 DEF Probe
    <2>2. QED
      BY <1>5, <1>a, <1>c, <2>1, LeaveShifts DEF Probe, NoWrite, Labels, Reconciliation
  <1>6. ASSUME NEW a \in Actors, ReadRaises(a) PROVE Goal
    BY <1>6, <1>a, <1>b, <1>c, PlainThrow DEF ReadRaises, NoWrite, Reconciliation
  <1>7. ASSUME NEW a \in Actors, WriteInMemory(a) PROVE Goal
    <2>1. Agrees(Merged(a, job))
      BY <1>a, <1>b, AgreesMerged DEF Reconciliation
    <2>2. Shifts({"work", "done", "start", "asleep"})
      BY <1>7, <1>a, <1>b, PlainWrote DEF WriteInMemory
    <2>3. QED
      BY <1>7, <1>b, <2>1, <2>2 DEF WriteInMemory, Shifts, Agrees, Reconciliation
  <1>8. ASSUME NEW a \in Actors, WriteReads(a) PROVE Goal
    <2>1. Agrees(Merged(a, job))
      BY <1>a, <1>b, AgreesMerged DEF Reconciliation
    <2>2. QED
      BY <1>8, <1>a, <1>b, <2>1 DEF WriteReads, Agrees, TypeOK
  <1>9. ASSUME NEW a \in Actors, WritePuts(a) PROVE Goal
    <2>1. Shifts({"work", "done", "start", "asleep"})
      BY <1>9, <1>a, <1>b, PlainWrote DEF WritePuts
    <2>2. job' = pend[a] /\ pend' = [pend EXCEPT ![a] = NoJob]
      BY <1>9 DEF WritePuts
    <2>3. QED
      BY <1>a, <1>b, <2>1, <2>2, AgreesNoJob DEF Shifts, Agrees, TypeOK, Reconciliation
  <1>10. ASSUME NEW a \in Actors, WriteRaises(a) PROVE Goal
    <2>1. Shifts({"markFailed", "dropped"})
      BY <1>10, <1>a, <1>b, PlainThrow DEF WriteRaises
    <2>2. job' \in {job, pend[a]} /\ pend' = [pend EXCEPT ![a] = NoJob]
      BY <1>10 DEF WriteRaises
    <2>3. QED
      BY <1>a, <1>b, <2>1, <2>2, AgreesNoJob DEF Shifts, Agrees, TypeOK, Reconciliation
  <1>11. ASSUME StartWorkflow \/ StartRaises PROVE Goal
    <2>1. UNCHANGED <<job, pend>> /\ Shifts({"dispatch", "dropped"})
      BY <1>11, <1>a DEF StartWorkflow, StartRaises, Goto, TypeOK, Shifts
    <2>2. QED
      BY <1>c, <2>1 DEF Reconciliation
  <1>12. ASSUME NEW r \in Runners,
                \/ r \in Workers /\ Deliver(r)
                \/ GraphRaises(r)
         PROVE  Goal
    <2>1. PICK label \in {"begin", "dropped"} : Leave(r, label)
      BY <1>12 DEF Deliver, GraphRaises
    <2>2. UNCHANGED <<job, pend>>
      BY <1>12 DEF Deliver, GraphRaises
    <2>3. QED
      BY <1>a, <1>c, <2>1, <2>2, LeaveShifts DEF Labels, Reconciliation
  <1>13. ASSUME FallbackStep PROVE Goal
    BY <1>13, <1>a, <1>c, FallbackShifts DEF Reconciliation
  <1>14. ASSUME Tick PROVE Goal
    <2>1. UNCHANGED pc
      BY <1>14 DEF Tick
    <2>2. Agrees(job')
      BY <1>14, <1>a, <1>b, AgreesAged DEF Tick, TypeOK
    <2>3. \A a \in Actors : Agrees(pend'[a])
      BY <1>14, <1>a, <1>b, AgreesAged, AgreesNoJob DEF Tick, TypeOK
    <2>4. QED
      BY <2>1, <2>2, <2>3, <1>b DEF Agrees
  <1>15. ASSUME NEW A, Kill(A), job' \in {job, NoJob} PROVE Goal
    <2>1. Shifts({"dead"}) /\ \A a \in Actors : pend'[a] \in {NoJob, pend[a]}
      BY <1>15, <1>a, KillShifts
    <2>2. QED
      BY <1>15, <1>b, <2>1, AgreesNoJob DEF Shifts, Agrees, Reconciliation
  <1>16. ASSUME NEW w \in Workers, WorkerCrash(w) PROVE Goal
    BY <1>15, <1>16 DEF WorkerCrash
  <1>17. ASSUME ApiCrash PROVE Goal
    BY <1>15, <1>17 DEF ApiCrash
  <1>18. CASE UNCHANGED vars
    BY <1>18, <1>b DEF vars, Agrees
  <1>19. QED
    BY <1>1, <1>2, <1>3, <1>4, <1>5, <1>6, <1>7, <1>8, <1>9, <1>10, <1>11,
       <1>12, <1>13, <1>14, <1>16, <1>17, <1>18
    DEF Next, RunnerStep, StoreStep, FallbackStep, Runners

(* The status of a job outside run_job_body and the payload beside it come  *)
(* from the same outcome, however many executions overwrite one record with *)
(* whole-record puts, whatever raises and whoever is killed.                *)
THEOREM PayloadAgrees ==
    ASSUME ~Guarded
    PROVE  Spec => []TerminalPayload
  <1>1. PayloadInv => TerminalPayload
    BY DEF PayloadInv, TerminalPayload, Agrees
  <1>2. QED
    BY <1>1, PayloadInit, PayloadNext, PTL DEF Spec

-----------------------------------------------------------------------------
(* A skipped delivery leaves the work to another one                       *)

\* Nobody is past begin_job_execution, and whoever looks at the record, now
\* or after the put of the request handler, is let through.
Untouched ==
    /\ MayBegin(job)
    /\ MayBegin(pend[Api])
    /\ \A r \in Runners : pend[r] = NoJob
    /\ pc[Api] \in {"create", "start", "dispatch", "done", "dropped", "dead"}
    /\ \A w \in Workers : pc[w] \in {"idle", "begin", "dropped", "dead"}
    /\ pc[Fallback] \in {"idle", "asleep", "check", "poll", "begin", "done",
                         "dropped", "dead"}

BegunInv == TypeOK /\ (begun = {} => Untouched)

LEMMA BegunInit == Init => BegunInv
  <1>1. ASSUME Init PROVE Untouched
    BY <1>1, ActorAssumption DEF Init, Untouched, MayBegin, NoJob, Runners, Actors
  <1>2. QED
    BY <1>1, TypeInit DEF BegunInv

LEMMA MayBeginUpdates ==
    ASSUME NEW j \in Job
    PROVE  /\ MayBegin(Queued(j)) /\ MayBegin(Dispatched(j)) /\ MayBegin(NoJob)
           /\ MayBegin(j) => MayBegin(Aged(j))
  BY DEF MayBegin, Queued, Dispatched, NoJob, Aged, Job

\* The request handler's put takes it on, and may set the fallback going.
LEMMA HandlerWrote ==
    ASSUME TypeOK, Wrote(Api)
    PROVE  /\ pc'[Api] \in {"start", "done"}
           /\ \A w \in Workers : pc'[w] = pc[w]
           /\ pc'[Fallback] \in {pc[Fallback], "asleep"}
  BY ActorAssumption DEF Wrote, ApiWrote, Goto, TypeOK, Actors, Runners

\* begun only grows.
LEMMA BegunGrows == [Next]_vars => begun \subseteq begun'
  <1> SUFFICES ASSUME [Next]_vars PROVE begun \subseteq begun'
    OBVIOUS
  <1>1. ASSUME NEW r \in Runners, RunnerStep(r) \/ GraphRaises(r)
        PROVE  begun \subseteq begun'
    BY <1>1 DEF RunnerStep, Begin, UseCaseReturns, UseCaseRaises, Reconcile, Look, Unlock, Probe,
       GraphRaises, history
  <1>2. ASSUME NEW a \in Actors, StoreStep(a) \/ ReadRaises(a) \/ WriteRaises(a)
        PROVE  begun \subseteq begun'
    BY <1>2 DEF StoreStep, WriteInMemory, WriteReads, WritePuts, ReadRaises, WriteRaises, history
  <1>3. ASSUME NEW w \in Workers, Deliver(w) \/ WorkerCrash(w)
        PROVE  begun \subseteq begun'
    BY <1>3 DEF Deliver, WorkerCrash, Kill, history
  <1>4. ASSUME \/ StartWorkflow \/ StartRaises \/ Wake \/ Check \/ Poll \/ PollEnds
               \/ Tick \/ ApiCrash
        PROVE  begun \subseteq begun'
    BY <1>4 DEF StartWorkflow, StartRaises, Wake, Check, Poll, PollEnds, FallbackGoes, Tick,
       ApiCrash, Kill, history
  <1>5. CASE UNCHANGED vars
    BY <1>5 DEF vars, history
  <1>6. QED
    BY <1>1, <1>2, <1>3, <1>4, <1>5 DEF Next

LEMMA BegunNext ==
    ASSUME "store" \notin Faults
    PROVE  BegunInv /\ [Next]_vars => BegunInv'
  <1> SUFFICES ASSUME BegunInv, [Next]_vars, begun' = {}
               PROVE  Untouched'
    BY TypeNext DEF BegunInv
  <1>a. TypeOK
    BY DEF BegunInv
  <1>b. Api \notin Runners /\ Fallback \notin Workers /\ Fallback # Api
        /\ Api \in Actors /\ Fallback \in Runners /\ Workers \subseteq Runners
        /\ Runners \subseteq Actors /\ Actors = Runners \cup {Api}
    BY ActorAssumption DEF Runners, Actors
  <1>c. begun = {}
    BY BegunGrows
  <1>d. Untouched
    BY <1>c DEF BegunInv
  <1>e. \A r \in Runners : pc[r] \in {"idle", "begin", "asleep", "check", "poll", "done",
                                      "dropped", "dead"}
    BY <1>d DEF Untouched, Runners
  <1>1. ASSUME NEW r \in Runners, RunnerStep(r) PROVE Untouched'
    <2>1. Begin(r)
      BY <1>1, <1>e DEF RunnerStep, UseCaseReturns, UseCaseRaises, Reconcile, Look, Unlock, Probe,
         Read
    <2>2. QED
      BY <2>1, <1>d DEF Begin, Untouched
  <1>2. ASSUME NEW a \in Actors, ReadRaises(a) \/ WriteRaises(a) PROVE Untouched'
    BY <1>2 DEF ReadRaises, WriteRaises
  <1>3. ASSUME NEW r \in Runners, StoreStep(r) PROVE Untouched'
    BY <1>3, <1>d, <1>e DEF StoreStep, WriteInMemory, WriteReads, WritePuts, WriteLabels, Untouched
  <1>4. ASSUME StoreStep(Api) PROVE Untouched'
    <2>1. job \in Job /\ pend \in [Actors -> Job]
      BY <1>a DEF TypeOK
    <2>2. CASE WriteInMemory(Api)
      <3>1. pc[Api] \in {"create", "dispatch"}
        BY <2>2, <1>d DEF WriteInMemory, WriteLabels, Untouched
      <3>2. MayBegin(job')
        BY <2>1, <2>2, <3>1, MayBeginUpdates DEF WriteInMemory, Merged
      <3>3. pend' = pend /\ Wrote(Api)
        BY <2>2 DEF WriteInMemory
      <3>4. QED
        BY <1>a, <1>d, <3>2, <3>3, HandlerWrote DEF Untouched, MayBegin
    <2>3. CASE WriteReads(Api)
      <3>1. pc[Api] \in {"create", "dispatch"}
        BY <2>3, <1>d DEF WriteReads, WriteLabels, Untouched
      <3>2. MayBegin(Merged(Api, job))
        BY <2>1, <3>1, MayBeginUpdates DEF Merged
      <3>3. pend' = [pend EXCEPT ![Api] = Merged(Api, job)] /\ UNCHANGED <<job, pc>>
        BY <2>3 DEF WriteReads
      <3>4. MayBegin(pend'[Api]) /\ \A r \in Runners : pend'[r] = pend[r]
        BY <1>b, <2>1, <3>2, <3>3
      <3>5. QED
        BY <1>d, <3>3, <3>4 DEF Untouched, MayBegin
    <2>4. CASE WritePuts(Api)
      <3>1. job' = pend[Api] /\ pend' = [pend EXCEPT ![Api] = NoJob] /\ Wrote(Api)
        BY <2>4 DEF WritePuts
      <3>2. pend'[Api] = NoJob /\ \A r \in Runners : pend'[r] = pend[r]
        BY <1>b, <2>1, <3>1
      <3>3. MayBegin(job') /\ MayBegin(pend'[Api])
        BY <1>d, <2>1, <3>1, <3>2, MayBeginUpdates DEF Untouched
      <3>4. QED
        BY <1>a, <1>d, <3>1, <3>2, <3>3, HandlerWrote DEF Untouched, MayBegin
    <2>5. QED
      BY <1>4, <2>2, <2>3, <2>4 DEF StoreStep
  <1>5. ASSUME StartWorkflow \/ StartRaises PROVE Untouched'
    <2>1. UNCHANGED <<job, pend>> /\ \E label \in {"dispatch", "dropped"} : Goto(Api, label)
      BY <1>5 DEF StartWorkflow, StartRaises
    <2>2. pc'[Api] \in {"dispatch", "dropped"} /\ \A r \in Runners : pc'[r] = pc[r]
      BY <1>a, <1>b, <2>1 DEF Goto, TypeOK
    <2>3. QED
      BY <1>b, <1>d, <2>1, <2>2 DEF Untouched, MayBegin
  <1>6. ASSUME NEW r \in Runners,
               \/ r \in Workers /\ Deliver(r)
               \/ GraphRaises(r)
        PROVE  Untouched'
    <2>1. UNCHANGED <<job, pend>> /\ \E label \in {"begin", "dropped"} : Goto(r, label)
      BY <1>6 DEF Deliver, GraphRaises, Leave
    <2>2. /\ pc'[r] \in {"begin", "dropped"}
          /\ \A a \in Actors : a # r => pc'[a] = pc[a]
      BY <1>a, <1>b, <2>1 DEF Goto, TypeOK
    <2>3. pc'[Api] = pc[Api] /\ \A o \in Runners : pc'[o] = pc[o] \/ pc'[o] \in {"begin", "dropped"}
      BY <1>b, <2>2
    <2>4. QED
      BY <1>b, <1>d, <2>1, <2>3 DEF Untouched, MayBegin
  <1>7. ASSUME FallbackStep PROVE Untouched'
    <2>1. job.status = "running" => RunningVerdict(job) # "fail"
      BY <1>d DEF Untouched, MayBegin, RunningVerdict
    <2>2. UNCHANGED <<job, pend>>
          /\ \E label \in {"check", "done", "poll", "begin"} : Goto(Fallback, label)
      BY <1>7, <2>1 DEF FallbackStep, Wake, Check, Poll, PollEnds, Proceed, FallbackGoes, Leave
    <2>3. /\ pc'[Fallback] \in {"check", "done", "poll", "begin"}
          /\ \A a \in Actors : a # Fallback => pc'[a] = pc[a]
      BY <1>a, <1>b, <2>2 DEF Goto, TypeOK
    <2>4. pc'[Api] = pc[Api] /\ \A w \in Workers : pc'[w] = pc[w]
      BY <1>b, <2>3
    <2>5. QED
      BY <1>d, <2>2, <2>3, <2>4 DEF Untouched, MayBegin
  <1>8. ASSUME Tick PROVE Untouched'
    <2>1. UNCHANGED pc
      BY <1>8 DEF Tick
    <2>2. MayBegin(job')
      BY <1>8, <1>a, <1>d, MayBeginUpdates DEF Tick, TypeOK, Untouched
    <2>3. MayBegin(pend'[Api]) /\ \A r \in Runners : pend'[r] = NoJob
      BY <1>8, <1>a, <1>b, <1>d, MayBeginUpdates DEF Tick, TypeOK, Untouched
    <2>4. QED
      BY <1>d, <2>1, <2>2, <2>3 DEF Untouched, MayBegin
  <1>9. ASSUME NEW A, Kill(A), job' \in {job, NoJob} PROVE Untouched'
    <2>1. \A a \in Actors : pc'[a] \in {pc[a], "dead"} /\ pend'[a] \in {NoJob, pend[a]}
      BY <1>9 DEF Kill
    <2>2. MayBegin(NoJob)
      BY DEF MayBegin, NoJob
    <2>3. MayBegin(job') /\ MayBegin(pend'[Api]) /\ \A r \in Runners : pend'[r] = NoJob
      BY <1>9, <1>b, <1>d, <2>1, <2>2 DEF Untouched
    <2>4. /\ pc'[Api] \in {pc[Api], "dead"} /\ pc'[Fallback] \in {pc[Fallback], "dead"}
          /\ \A w \in Workers : pc'[w] \in {pc[w], "dead"}
      BY <1>b, <2>1
    <2>5. QED
      BY <1>d, <2>3, <2>4 DEF Untouched, MayBegin
  <1>10. ASSUME NEW w \in Workers, WorkerCrash(w) PROVE Untouched'
    BY <1>9, <1>10 DEF WorkerCrash
  <1>11. ASSUME ApiCrash PROVE Untouched'
    BY <1>9, <1>11 DEF ApiCrash
  <1>12. CASE UNCHANGED vars
    BY <1>12, <1>d DEF vars, Untouched, MayBegin
  <1>13. QED
    BY <1>b, <1>1, <1>2, <1>3, <1>4, <1>5, <1>6, <1>7, <1>8, <1>10, <1>11, <1>12
    DEF Next, FallbackStep

(* A delivery that begin_job_execution skips leaves the work to another one *)
(* that was let through, for any number of deliveries, any delays, with     *)
(* the fallback racing them and whoever is killed: as long as the store     *)
(* does not raise (an execution whose look at the record raised marks the   *)
(* job failed and ends as well).                                            *)
THEOREM SkippedLeavesWork ==
    ASSUME "store" \notin Faults
    PROVE  Spec => []SkippedMeansBegun
  <1>1. BegunInv => SkippedMeansBegun
    BY DEF BegunInv, Untouched, SkippedMeansBegun
  <1>2. QED
    BY <1>1, BegunInit, BegunNext, PTL DEF Spec

-----------------------------------------------------------------------------
(* The contract of a job that runs in the background                       *)

\* BackgroundJobRunner under run_job_body: one task, started by the request.
InBackground == ~Workflow /\ Guarded /\ \A v, w \in Workers : v = w

\* The status an actor is about to put.
StatusPut(label) ==
    CASE label = "create" -> "queued"
      [] label = "claim" -> "running"
      [] label \in {"save", "promote"} -> "completed"
      [] OTHER -> "failed"

\* What the record says wherever the task is: nobody else writes to it.
Tracked(w) ==
    /\ pc[w] \in {"begin", "claim"} => job.status = "queued"
    /\ pc[w] \in {"work", "save", "promote", "abort"} => job.status = "running"
    /\ pc[w] \in {"save", "promote"} => finished # {}
    /\ pc[w] = "markFailed" => job.status \in {"queued", "running"}
    /\ pc[w] \in {"reconcile", "look", "unlock", "probe"} => job.status # "none"
    /\ pc[w] \notin {"asleep", "check", "poll", "stale", "create", "start", "dispatch"}
    /\ pend[w] # NoJob =>
          /\ store = "blob"
          /\ pc[w] \in {"claim", "save", "promote", "markFailed", "abort"}
          /\ pend[w].status = StatusPut(pc[w])

BackInv ==
    /\ pc[Fallback] = "idle" /\ pend[Fallback] = NoJob
    /\ pc[Api] \in {"create", "done", "dropped", "dead"}
    /\ pend[Api] # NoJob =>
          store = "blob" /\ pc[Api] = "create" /\ pend[Api].status = "queued"
    /\ pc[Api] = "create" =>
          job.status = "none" /\ ~started /\ \A w \in Workers : pc[w] = "idle"
    /\ started => \A w \in Workers : pc[w] = "idle" => job.status = "queued"
    /\ \A w \in Workers : Tracked(w)

LEMMA ActorFacts ==
    /\ Api \notin Runners /\ Fallback \notin Workers /\ Fallback # Api
    /\ Api \in Actors /\ Fallback \in Runners /\ Fallback \in Actors
    /\ Workers \subseteq Runners /\ Workers \subseteq Actors /\ Api \notin Workers
    /\ Runners = Workers \cup {Fallback} /\ Actors = Workers \cup {Fallback, Api}
  BY ActorAssumption DEF Runners, Actors

\* Only a moves, to label.
Goes(a, label) == pc'[a] = label /\ \A b \in Actors : b # a => pc'[b] = pc[b]

LEMMA GotoGoes ==
    ASSUME TypeOK, NEW a \in Actors, NEW label, Goto(a, label)
    PROVE  Goes(a, label)
  BY DEF TypeOK, Goto, Goes

LEMMA PutGoes ==
    ASSUME Guarded, TypeOK, NEW w \in Workers, Wrote(w),
           pc[w] \in {"claim", "save", "promote", "markFailed", "abort"}
    PROVE  /\ started' = started
           /\ \E label \in {"work", "reconcile", "unlock", "done"} :
                 Goes(w, label) /\ (label = "work" => pc[w] = "claim")
  <1>1. RunnerWrote(w) /\ started' = started
    BY ActorFacts DEF Wrote
  <1>2. \E label \in {"work", "reconcile", "unlock", "done"} :
           Goto(w, label) /\ (label = "work" => pc[w] = "claim")
    BY <1>1 DEF RunnerWrote, Leave, Reconciling, Reconciled, Finally
  <1>3. QED
    BY <1>1, <1>2, GotoGoes, ActorFacts

LEMMA ThrowGoes ==
    ASSUME Guarded, TypeOK, NEW w \in Workers, Throw(w),
           pc[w] \in {"begin", "claim", "work", "save", "reconcile", "promote", "look",
                      "markFailed", "probe", "abort"}
    PROVE  \E label \in {"reconcile", "unlock", "dropped"} : 
              Goes(w, label) /\ (pc[w] = "abort" => label = "dropped")
  <1>1. w \in Runners /\ w \in Actors
    BY ActorFacts
  <1>2. \E label \in {"reconcile", "unlock", "dropped"} :
           Goto(w, label) /\ (pc[w] = "abort" => label = "dropped")
    <2>1. CASE pc[w] \in {"begin", "claim", "work", "save"}
      BY <1>1, <2>1 DEF Throw, Raise, Reconciling
    <2>2. CASE pc[w] \in {"reconcile", "promote", "look"}
      <3>1. ReconcileRaised(w)
        BY <1>1, <2>2 DEF Throw
      <3>2. QED
        BY <2>2, <3>1 DEF ReconcileRaised, Reconciling, Finally, Leave
    <2>3. CASE pc[w] = "markFailed"
      BY <1>1, <2>3 DEF Throw, Finally
    <2>4. CASE pc[w] \in {"probe", "abort"}
      <3>1. Leave(w, "dropped")
        BY <1>1, <2>4 DEF Throw
      <3>2. QED
        BY <3>1 DEF Leave
    <2>5. QED
      BY <2>1, <2>2, <2>3, <2>4
  <1>3. QED
    BY <1>1, <1>2, GotoGoes

\* The task moves on; the request handler and the fallback do not.
LEMMA TaskMoves ==
    ASSUME InBackground, TypeOK, BackInv, NEW w \in Workers, NEW label, Goes(w, label),
           pc[w] # "idle" \/ started, label # "idle", started' = started,
           \A b \in Actors : b # w => pend'[b] = pend[b], store' = store, Tracked(w)'
    PROVE  BackInv'
  <1>1. \A v \in Workers : v = w
    BY DEF InBackground
  <1>2. pc[Api] # "create"
    BY DEF BackInv
  <1>3. /\ pc'[Api] = pc[Api] /\ pend'[Api] = pend[Api]
        /\ pc'[Fallback] = pc[Fallback] /\ pend'[Fallback] = pend[Fallback]
        /\ pc'[w] # "idle"
    BY ActorFacts DEF Goes
  <1>4. QED
    BY <1>1, <1>2, <1>3 DEF BackInv

LEMMA StatusMerged ==
    ASSUME TypeOK, NEW a \in Actors,
           pc[a] \in {"create", "claim", "save", "promote", "markFailed", "abort"}
    PROVE  Merged(a, job).status = StatusPut(pc[a])
  <1>1. job \in Job
    BY DEF TypeOK
  <1>2. \A j \in Job : /\ Queued(j).status = "queued" /\ Claimed(j).status = "running"
                       /\ Saved(j).status = "completed" /\ Promoted(j).status = "completed"
                       /\ Failed(j).status = "failed" /\ Aborted(j).status = "failed"
    BY DEF Job, Queued, Claimed, Saved, Promoted, Failed, Aborted
  <1>3. QED
    BY <1>1, <1>2 DEF Merged, StatusPut

LEMMA BackInit == Init => BackInv
  <1> SUFFICES ASSUME Init PROVE BackInv
    OBVIOUS
  <1>1. \A w \in Workers : Tracked(w)
    BY ActorFacts DEF Init, Tracked
  <1>2. QED
    BY <1>1, ActorFacts DEF Init, BackInv, NoJob

ContractStep == [Contract!Next]_(Contract!vars)

(* How a change of the record's status looks to the client.                 *)
LEMMA ContractSteps ==
    ASSUME store' = store
    PROVE  /\ job'.status = job.status /\ finished' = finished => ContractStep
           /\ job.status = "none" /\ job'.status = "queued" /\ finished' = finished
                => ContractStep
           /\ job.status = "queued" /\ job'.status = "running" /\ finished' = finished
                => ContractStep
           /\ job.status = "running" /\ finished # {} /\ job'.status = "completed"
                 /\ finished' = finished => ContractStep
           /\ job.status \in {"queued", "running"} /\ job'.status = "failed"
                 /\ finished' = finished => ContractStep
           /\ job.status = "running" /\ job'.status = "running" /\ finished' # {}
                => ContractStep
           /\ store # "blob" /\ job'.status = "none" /\ finished' = finished => ContractStep
  BY DEF ContractStep, Contract!Next, Contract!vars, Contract!Accept, Contract!Run,
     Contract!Complete, Contract!Fail, Contract!Perform, Contract!Forget

(* What the task puts is the next status of the contract.                   *)
LEMMA PutIsStep ==
    ASSUME NEW w \in Workers, Tracked(w), store' = store, finished' = finished,
           pc[w] \in {"claim", "save", "promote", "markFailed", "abort"},
           job'.status = StatusPut(pc[w])
    PROVE  ContractStep
  <1>1. CASE pc[w] = "claim"
    BY <1>1, ContractSteps DEF Tracked, StatusPut
  <1>2. CASE pc[w] \in {"save", "promote"}
    BY <1>2, ContractSteps DEF Tracked, StatusPut
  <1>3. CASE pc[w] \in {"markFailed", "abort"}
    BY <1>3, ContractSteps DEF Tracked, StatusPut
  <1>4. QED
    BY <1>1, <1>2, <1>3

(* The steps of the task that only read.                                    *)
LEMMA TaskReads ==
    ASSUME InBackground, DoneInv, BackInv, NEW w \in Workers, RunnerStep(w)
    PROVE  BackInv' /\ ContractStep
  <1>a. TypeOK /\ Guarded /\ Tracked(w) /\ w \in Actors /\ w \in Runners /\ job \in Job
    BY ActorFacts DEF DoneInv, TypeOK, InBackground, BackInv
  <1>b. /\ UNCHANGED <<job, pend, started, store>> /\ pend[w] = NoJob
        /\ pc[w] \in {"begin", "work", "reconcile", "look", "unlock", "probe"}
    BY DEF RunnerStep, Begin, UseCaseReturns, UseCaseRaises, Reconcile, Look, Unlock, Probe,
       NoWrite, history, Read
  <1>c. ASSUME NEW label \in {"claim", "save", "reconcile", "promote", "look", "markFailed",
                              "unlock", "probe", "abort", "done"},
               Goto(w, label),
               label = "claim" => job.status = "queued",
               label \in {"save", "promote", "abort"} => job.status = "running",
               label \in {"save", "promote"} => finished' # {},
               label = "markFailed" => job.status \in {"queued", "running"}
        PROVE  BackInv'
    <2>1. Goes(w, label)
      BY <1>a, <1>c, GotoGoes
    <2>2. job.status # "none"
      BY <1>a, <1>b DEF Tracked
    <2>3. Tracked(w)'
      BY <1>b, <1>c, <2>1, <2>2 DEF Tracked, Goes
    <2>4. QED
      BY <1>a, <1>b, <1>c, <2>1, <2>3, TaskMoves
  <1>1. CASE Begin(w)
    <2>1. job.status = "queued"
      BY <1>1, <1>a DEF Begin, Read, Tracked
    <2>2. Goto(w, "claim") /\ finished' = finished
      BY <1>1, <2>1 DEF Begin, MayBegin, Leave
    <2>3. QED
      BY <1>b, <1>c, <2>1, <2>2, ContractSteps
  <1>2. CASE UseCaseReturns(w)
    <2>1. job.status = "running" /\ Goto(w, "save") /\ finished' # {}
      BY <1>2, <1>a DEF UseCaseReturns, Read, Tracked, Leave
    <2>2. QED
      BY <1>b, <1>c, <2>1, ContractSteps
  <1>3. CASE UseCaseRaises(w)
    <2>1. Goto(w, "reconcile") /\ finished' = finished
      BY <1>3, <1>a DEF UseCaseRaises, Raise, Reconciling, history
    <2>2. QED
      BY <1>b, <1>c, <2>1, ContractSteps
  <1>4. CASE Reconcile(w)
    <2>1. finished' = finished
      BY <1>4 DEF Reconcile, history
    <2>2. CASE ReconcileVerdict(job) = "yes"
      <3>1. \E label \in {"done", "unlock"} : Goto(w, label)
        BY <1>4, <2>2 DEF Reconcile, Reconciled, Leave, Finally
      <3>2. QED
        BY <1>b, <1>c, <2>1, <3>1, ContractSteps
    <2>3. CASE ReconcileVerdict(job) = "no"
      <3>1. NotReconciled(w)
        BY <1>4, <2>3 DEF Reconcile
      <3>2. \E label \in {"look", "markFailed", "reconcile", "probe"} : Goto(w, label)
        BY <3>1 DEF NotReconciled, Leave, Reconciling
      <3>3. job.status \in {"queued", "running"}
        BY <1>a, <1>4, <2>3 DEF Reconcile, Read, Tracked, ReconcileVerdict, Job, Statuses, Terminal
      <3>4. QED
        BY <1>b, <1>c, <2>1, <3>2, <3>3, ContractSteps
    <2>4. CASE ReconcileVerdict(job) \notin {"yes", "no"}
      <3>1. Goto(w, "promote")
        BY <1>4, <2>4 DEF Reconcile
      <3>2. job.status = "running" /\ job.result
        BY <2>4 DEF ReconcileVerdict
      <3>3. finished # {}
        BY <3>2 DEF DoneInv, Blank
      <3>4. QED
        BY <1>b, <1>c, <2>1, <3>1, <3>2, <3>3, ContractSteps
    <2>5. QED
      BY <2>2, <2>3, <2>4
  <1>5. CASE Look(w)
    <2>1. Goto(w, "unlock") /\ finished' = finished
      BY <1>5 DEF Look, Finally, history
    <2>2. QED
      BY <1>b, <1>c, <2>1, ContractSteps
  <1>6. CASE Unlock(w)
    <2>1. finished' = finished /\ \E label \in {"done", "reconcile"} : Goto(w, label)
      BY <1>6 DEF Unlock, Leave, Reconciling, history
    <2>2. QED
      BY <1>b, <1>c, <2>1, ContractSteps
  <1>7. CASE Probe(w)
    <2>1. finished' = finished
          /\ \E label \in {"done", "abort"} :
                Goto(w, label) /\ (label = "abort" => job.status = "running")
      BY <1>7 DEF Probe, Leave, history
    <2>2. QED
      BY <1>b, <1>c, <2>1, ContractSteps
  <1>8. QED
    BY <1>1, <1>2, <1>3, <1>4, <1>5, <1>6, <1>7 DEF RunnerStep

(* The steps of the task that write, or raise.                              *)
LEMMA TaskWrites ==
    ASSUME InBackground, TypeOK, BackInv, NEW w \in Workers,
           StoreStep(w) \/ ReadRaises(w) \/ WriteRaises(w)
    PROVE  BackInv' /\ ContractStep
  <1>a. Guarded /\ Tracked(w) /\ w \in Actors /\ w \in Runners /\ w # Api
        /\ pend \in [Actors -> Job]
    BY ActorFacts DEF TypeOK, InBackground, BackInv
  <1>b. store' = store /\ finished' = finished
    BY DEF StoreStep, WriteInMemory, WriteReads, WritePuts, ReadRaises, WriteRaises, history
  <1> DEFINE Writing == {"claim", "save", "promote", "markFailed", "abort"}
  <1>c. pc[w] \in WriteLabels => pc[w] \in Writing
    BY <1>a DEF WriteLabels, Tracked
  <1>1. ASSUME Wrote(w), pc[w] \in Writing, job'.status = StatusPut(pc[w]), pend'[w] = NoJob,
               \A b \in Actors : b # w => pend'[b] = pend[b]
        PROVE  BackInv' /\ ContractStep
    <2>1. PICK label \in {"work", "reconcile", "unlock", "done"} :
             Goes(w, label) /\ (label = "work" => pc[w] = "claim")
      BY <1>1, <1>a, PutGoes
    <2>2. started' = started
      BY <1>1, <1>a, PutGoes
    <2>3. Tracked(w)'
      BY <1>1, <2>1 DEF Tracked, Goes, StatusPut
    <2>4. BackInv'
      BY <1>1, <1>a, <1>b, <2>1, <2>2, <2>3, TaskMoves
    <2>5. QED
      BY <1>1, <1>a, <1>b, <2>4, PutIsStep
  <1>2. CASE WriteInMemory(w)
    <2>1. pc[w] \in Writing /\ job' = Merged(w, job) /\ Wrote(w) /\ pend' = pend
      BY <1>2, <1>c DEF WriteInMemory
    <2>2. pend[w] = NoJob
      BY <1>2, <1>a DEF WriteInMemory, Tracked
    <2>3. QED
      BY <1>1, <1>a, <2>1, <2>2, StatusMerged
  <1>3. CASE WriteReads(w)
    <2>1. pc[w] \in Writing /\ UNCHANGED <<job, pc, started>>
          /\ pend' = [pend EXCEPT ![w] = Merged(w, job)]
      BY <1>3, <1>c DEF WriteReads
    <2>2. pend'[w] = Merged(w, job) /\ \A b \in Actors : b # w => pend'[b] = pend[b]
      BY <1>a, <2>1
    <2>3. Tracked(w)'
      BY <1>3, <1>a, <1>b, <2>1, <2>2, StatusMerged DEF WriteReads, Tracked
    <2>4. Goes(w, pc[w])
      BY <2>1 DEF Goes
    <2>5. BackInv'
      BY <1>3, <1>a, <1>b, <2>1, <2>2, <2>3, <2>4, TaskMoves
    <2>6. QED
      BY <1>b, <2>1, <2>5, ContractSteps
  <1>4. CASE WritePuts(w)
    <2>1. pend[w] # NoJob /\ job' = pend[w] /\ Wrote(w) /\ pend' = [pend EXCEPT ![w] = NoJob]
      BY <1>4 DEF WritePuts
    <2>2. pc[w] \in Writing /\ job'.status = StatusPut(pc[w])
      BY <1>a, <2>1 DEF Tracked
    <2>3. pend'[w] = NoJob /\ \A b \in Actors : b # w => pend'[b] = pend[b]
      BY <1>a, <2>1
    <2>4. QED
      BY <1>1, <2>1, <2>2, <2>3
  <1>5. ASSUME Throw(w), started' = started, pend'[w] = NoJob,
               \A b \in Actors : b # w => pend'[b] = pend[b],
               pc[w] \in Writing \cup {"begin", "reconcile", "look", "probe"},
               job'.status # "none"
        PROVE  BackInv'
    <2>1. PICK label \in {"reconcile", "unlock", "dropped"} : Goes(w, label)
      BY <1>5, <1>a, ThrowGoes
    <2>2. Tracked(w)'
      BY <1>5, <2>1 DEF Tracked, Goes
    <2>3. QED
      BY <1>5, <1>a, <1>b, <2>1, <2>2, TaskMoves
  <1>6. CASE ReadRaises(w)
    <2>1. /\ UNCHANGED <<job, pend, started>> /\ Throw(w) /\ pend[w] = NoJob
          /\ pc[w] \in {"begin", "reconcile", "look", "probe"}
      BY <1>6, <1>a DEF ReadRaises, NoWrite, Tracked
    <2>2. job.status # "none"
      BY <1>a, <2>1 DEF Tracked
    <2>3. QED
      BY <1>5, <1>b, <2>1, <2>2, ContractSteps
  <1>7. CASE WriteRaises(w)
    <2>1. /\ pend[w] # NoJob /\ job' \in {job, pend[w]} /\ Throw(w) /\ started' = started
          /\ pend' = [pend EXCEPT ![w] = NoJob]
      BY <1>7 DEF WriteRaises
    <2>2. pc[w] \in Writing /\ pend[w].status = StatusPut(pc[w])
      BY <1>a, <2>1 DEF Tracked
    <2>3. pend'[w] = NoJob /\ \A b \in Actors : b # w => pend'[b] = pend[b]
      BY <1>a, <2>1
    <2>4. job.status # "none" /\ StatusPut(pc[w]) # "none"
      BY <1>a, <2>2 DEF Tracked, StatusPut
    <2>5. BackInv'
      BY <1>5, <2>1, <2>2, <2>3, <2>4
    <2>6. CASE job' = job
      BY <1>b, <2>5, <2>6, ContractSteps
    <2>7. CASE job' = pend[w]
      BY <1>a, <1>b, <2>2, <2>5, <2>7, PutIsStep
    <2>8. QED
      BY <2>1, <2>6, <2>7
  <1>8. QED
    BY <1>2, <1>3, <1>4, <1>6, <1>7 DEF StoreStep

(* The request handler's steps, before there is a task.                     *)
LEMMA HandlerSteps ==
    ASSUME InBackground, TypeOK, BackInv, StoreStep(Api) \/ ReadRaises(Api) \/ WriteRaises(Api)
    PROVE  BackInv' /\ ContractStep
  <1>a. ~Workflow /\ pend \in [Actors -> Job]
    BY DEF TypeOK, InBackground
  <1>b. store' = store /\ finished' = finished
    BY DEF StoreStep, WriteInMemory, WriteReads, WritePuts, ReadRaises, WriteRaises, history
  <1>c. pc[Api] = "create"
    BY DEF StoreStep, WriteInMemory, WriteReads, WritePuts, ReadRaises, WriteRaises, WriteLabels,
       BackInv
  <1>d. job.status = "none" /\ ~started /\ \A w \in Workers : pc[w] = "idle"
    BY <1>c DEF BackInv
  <1>1. ASSUME NEW label \in {"done", "dropped"}, Goes(Api, label), pend'[Api] = NoJob,
               \A b \in Actors : b # Api => pend'[b] = pend[b],
               started' => job'.status = "queued"
        PROVE  BackInv'
    <2>1. /\ pc'[Fallback] = pc[Fallback] /\ pend'[Fallback] = pend[Fallback]
          /\ \A w \in Workers : pc'[w] = "idle" /\ pend'[w] = pend[w]
      BY <1>1, <1>d, ActorFacts DEF Goes
    <2>2. \A w \in Workers : pend'[w] = NoJob
      BY <1>d, <2>1 DEF BackInv, Tracked
    <2>3. \A w \in Workers : Tracked(w)'
      BY <2>1, <2>2 DEF Tracked
    <2>4. QED
      BY <1>1, <2>1, <2>3 DEF BackInv, Goes
  <1>2. ASSUME Wrote(Api)
        PROVE  Goes(Api, "done")
    <2>1. Goto(Api, "done")
      BY <1>2, <1>a, <1>c, ActorFacts DEF Wrote, ApiWrote
    <2>2. QED
      BY <2>1, GotoGoes, ActorFacts
  <1>3. CASE WriteInMemory(Api)
    <2>1. Wrote(Api) /\ pend' = pend /\ job' = Merged(Api, job) /\ pend[Api] = NoJob
      BY <1>3 DEF WriteInMemory, BackInv
    <2>2. job'.status = "queued"
      BY <1>c, <2>1, StatusMerged, ActorFacts DEF StatusPut
    <2>3. QED
      BY <1>1, <1>2, <1>b, <1>d, <2>1, <2>2, ContractSteps
  <1>4. CASE WriteReads(Api)
    <2>1. /\ store = "blob" /\ UNCHANGED <<job, pc, started>>
          /\ pend' = [pend EXCEPT ![Api] = Merged(Api, job)]
      BY <1>4 DEF WriteReads
    <2>2. /\ pend'[Api].status = "queued" /\ pend'[Fallback] = pend[Fallback]
          /\ \A w \in Workers : pend'[w] = pend[w]
      BY <1>a, <1>c, <2>1, StatusMerged, ActorFacts DEF StatusPut
    <2>3. \A w \in Workers : Tracked(w)'
      BY <1>b, <2>1, <2>2 DEF BackInv, Tracked
    <2>4. BackInv'
      BY <1>b, <1>c, <2>1, <2>2, <2>3 DEF BackInv
    <2>5. QED
      BY <1>b, <2>1, <2>4, ContractSteps
  <1>5. CASE WritePuts(Api)
    <2>1. /\ Wrote(Api) /\ pend' = [pend EXCEPT ![Api] = NoJob] /\ job' = pend[Api]
          /\ job'.status = "queued"
      BY <1>5 DEF WritePuts, BackInv
    <2>2. pend'[Api] = NoJob /\ \A b \in Actors : b # Api => pend'[b] = pend[b]
      BY <1>a, <2>1, ActorFacts
    <2>3. QED
      BY <1>1, <1>2, <1>b, <1>d, <2>1, <2>2, ContractSteps
  <1>6. CASE ReadRaises(Api)
    BY <1>6, <1>c DEF ReadRaises
  <1>7. CASE WriteRaises(Api)
    <2>1. /\ pend' = [pend EXCEPT ![Api] = NoJob] /\ job' \in {job, pend[Api]} /\ Throw(Api)
          /\ pend[Api].status = "queued" /\ started' = started
      BY <1>7 DEF WriteRaises, BackInv
    <2>2. Goes(Api, "dropped")
      BY <2>1, GotoGoes, ActorFacts DEF Throw
    <2>3. pend'[Api] = NoJob /\ \A b \in Actors : b # Api => pend'[b] = pend[b]
      BY <1>a, <2>1, ActorFacts
    <2>4. BackInv'
      BY <1>1, <1>d, <2>1, <2>2, <2>3
    <2>5. QED
      BY <1>b, <1>d, <2>1, <2>4, ContractSteps
  <1>8. QED
    BY <1>3, <1>4, <1>5, <1>6, <1>7 DEF StoreStep

(* A restart of the process ends the task and the handler.                  *)
LEMMA RestartSteps ==
    ASSUME InBackground, TypeOK, BackInv, ApiCrash
    PROVE  BackInv' /\ ContractStep
  <1>1. /\ Kill(Actors) /\ started' = FALSE /\ store' = store /\ finished' = finished
        /\ job' = IF store = "blob" THEN job ELSE NoJob
    BY DEF InBackground, ApiCrash, Kill, history
  <1>2. \A a \in Actors : pend'[a] = NoJob /\ pc'[a] = IF Live(a) THEN "dead" ELSE pc[a]
    BY <1>1 DEF Kill
  <1>3. pc'[Fallback] = "idle" /\ pc'[Api] \in {"done", "dropped", "dead"}
    BY <1>2, ActorFacts DEF BackInv, Live, Ended
  <1>4. ASSUME NEW w \in Workers
        PROVE  Tracked(w)'
    <2>1. pc'[w] \in {"idle", "done", "dropped", "dead"} /\ pend'[w] = NoJob
      BY <1>2, ActorFacts DEF Live, Ended
    <2>2. QED
      BY <2>1 DEF Tracked
  <1>5. BackInv'
    BY <1>1, <1>2, <1>3, <1>4, ActorFacts DEF BackInv
  <1>6. ContractStep
    BY <1>1, ContractSteps DEF NoJob
  <1>7. QED
    BY <1>5, <1>6

LEMMA StatusAged == ASSUME NEW j \in Job PROVE Aged(j).status = j.status
  BY DEF Aged, Job

LEMMA BackNext ==
    ASSUME InBackground
    PROVE  DoneInv /\ BackInv /\ [Next]_vars => BackInv' /\ ContractStep
  <1> SUFFICES ASSUME DoneInv, BackInv, [Next]_vars
               PROVE  BackInv' /\ ContractStep
    OBVIOUS
  <1>a. TypeOK /\ ~Workflow
    BY DEF DoneInv, InBackground
  <1>1. ASSUME NEW r \in Runners, RunnerStep(r) \/ GraphRaises(r)
        PROVE  BackInv' /\ ContractStep
    <2>1. RunnerStep(r)
      BY <1>1, <1>a DEF GraphRaises
    <2>2. r # Fallback
      BY <2>1 DEF BackInv, RunnerStep, Begin, UseCaseReturns, UseCaseRaises, Reconcile, Look, Unlock,
         Probe, Read
    <2>3. QED
      BY <2>1, <2>2, TaskReads, ActorFacts
  <1>2. ASSUME NEW a \in Actors, StoreStep(a) \/ ReadRaises(a) \/ WriteRaises(a)
        PROVE  BackInv' /\ ContractStep
    <2>1. a # Fallback
      BY <1>2 DEF BackInv, StoreStep, WriteInMemory, WriteReads, WritePuts, ReadRaises, WriteRaises,
         WriteLabels
    <2>2. QED
      BY <1>2, <1>a, <2>1, TaskWrites, HandlerSteps, ActorFacts
  <1>3. ASSUME NEW w \in Workers, Deliver(w)
        PROVE  BackInv' /\ ContractStep
    <2>1. /\ started /\ pc[w] = "idle" /\ Goto(w, "begin")
          /\ UNCHANGED <<job, pend, started, store, finished>>
      BY <1>3 DEF Deliver, Leave, history
    <2>2. Goes(w, "begin") /\ job.status = "queued" /\ Tracked(w)
      BY <1>a, <2>1, GotoGoes, ActorFacts DEF BackInv
    <2>3. Tracked(w)'
      BY <2>1, <2>2 DEF Tracked, Goes
    <2>4. BackInv'
      BY <1>a, <2>1, <2>2, <2>3, TaskMoves
    <2>5. QED
      BY <2>1, <2>4, ContractSteps
  <1>4. ASSUME NEW w \in Workers, WorkerCrash(w)
        PROVE  BackInv' /\ ContractStep
    BY <1>4, <1>a DEF WorkerCrash
  <1>5. ASSUME StartWorkflow \/ StartRaises \/ FallbackStep
        PROVE  BackInv' /\ ContractStep
    BY <1>5 DEF BackInv, StartWorkflow, StartRaises, FallbackStep, Wake, Check, Poll, PollEnds, Read
  <1>6. ASSUME Tick
        PROVE  BackInv' /\ ContractStep
    <2>1. job \in Job /\ pend \in [Actors -> Job] /\ UNCHANGED <<pc, started, store, finished>>
      BY <1>6, <1>a DEF Tick, TypeOK, history
    <2>2. job'.status = job.status
      BY <1>6, <2>1, StatusAged DEF Tick
    <2>3. \A a \in Actors : /\ pend[a] = NoJob => pend'[a] = NoJob
                            /\ pend'[a].status = pend[a].status
      BY <1>6, <2>1, StatusAged DEF Tick
    <2>4. \A w \in Workers : Tracked(w)'
      BY <2>1, <2>2, <2>3, ActorFacts DEF BackInv, Tracked
    <2>5. BackInv'
      BY <2>1, <2>2, <2>3, <2>4, ActorFacts DEF BackInv
    <2>6. QED
      BY <2>1, <2>2, <2>5, ContractSteps
  <1>7. CASE UNCHANGED vars
    <2>1. UNCHANGED <<job, pend, pc, started, store, finished>>
      BY <1>7 DEF vars, history
    <2>2. BackInv'
      BY <2>1 DEF BackInv, Tracked
    <2>3. QED
      BY <2>1, <2>2, ContractSteps
  <1>8. QED
    BY <1>a, <1>1, <1>2, <1>3, <1>4, <1>5, <1>6, <1>7, RestartSteps DEF Next, FallbackStep

(* A job that runs in the background keeps the contract of JobContract: it  *)
(* is queued, runs, and ends completed or failed for good, completed only   *)
(* when its use case was carried out, and only a restart of a process that  *)
(* keeps its jobs in memory forgets one, whatever the store calls raise and *)
(* whether or not a put that raised was stored.                             *)
THEOREM BackgroundKeepsContract ==
    ASSUME InBackground
    PROVE  Spec => KeepsContract
  <1>1. Init => Contract!Init
    BY DEF Init, Contract!Init, NoJob
  <1>2. DoneInv /\ BackInv /\ [Next]_vars => BackInv' /\ [Contract!Next]_(Contract!vars)
    BY BackNext DEF ContractStep
  <1>3. QED
    BY <1>1, <1>2, DoneInit, DoneNext, BackInit, PTL DEF Spec, KeepsContract, Contract!Spec
=============================================================================
