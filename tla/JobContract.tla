---------------------------- MODULE JobContract ----------------------------
(***************************************************************************)
(* What the queue endpoints promise to the flow that polls GET /jobs/{id}: *)
(* a job is queued, runs, and ends completed or failed for good; completed *)
(* means that the use case was carried out.                                *)
(***************************************************************************)
VARIABLES
    status,  \* what GET /jobs/{id} reports; "none" is a 404
    done,    \* the use case was carried out
    durable  \* the store outlives the process

vars == <<status, done, durable>>

Init == status = "none" /\ done = FALSE /\ durable \in BOOLEAN

Accept == status = "none" /\ status' = "queued" /\ UNCHANGED <<done, durable>>

Run == status = "queued" /\ status' = "running" /\ UNCHANGED <<done, durable>>

Perform == status = "running" /\ done' = TRUE /\ UNCHANGED <<status, durable>>

Complete == status = "running" /\ done /\ status' = "completed" /\ UNCHANGED <<done, durable>>

Fail == status \in {"queued", "running"} /\ status' = "failed" /\ UNCHANGED <<done, durable>>

\* A restart forgets the jobs kept in memory; nobody runs them any more.
Forget == ~durable /\ status' = "none" /\ UNCHANGED <<done, durable>>

Next == Accept \/ Run \/ Perform \/ Complete \/ Fail \/ Forget

Spec == Init /\ [][Next]_vars
=============================================================================
