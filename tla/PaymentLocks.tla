---------------------------- MODULE PaymentLocks ----------------------------
(***************************************************************************)
(* The generate and finalize locks of payment validation, as a request     *)
(* takes, keeps and frees them (PAYMENT_VALIDATION_LOCKS_ENABLED=true).    *)
(* The deployment is chosen at the start: one process with the memory      *)
(* store, or several with the Blob store and redelivered workflow steps.   *)
(*                                                                         *)
(* Every lock is held by the one holder "global": a record that is there   *)
(* belongs to whoever asks.  In the Blob store every get, put and delete   *)
(* is a step of its own; in the memory store a request that has not        *)
(* reached a real suspension lets nobody else run.                         *)
(*                                                                         *)
(* What an actor still has to do to the locks is the sequence todo of      *)
(* [do, key] operations; at is the call it is at inside the first one.     *)
(***************************************************************************)
EXTENDS Naturals, Sequences

CONSTANTS
    Requests,      \* calls of the queue endpoints, with their jobs
    Generate,      \* those of /generate/queue; the others are /finalize/queue
    Duplicates,    \* second deliveries of a job, each of the request Of[d]
    Of,
    Admin,         \* POST .../locks/cleanup-expired
    Backends,      \* "memory": MemoryJobStore, "blob": VercelBlobJobStore
    Ttl,           \* LOCK_TTL_SECONDS
    LegacyTtl,     \* a TTL of an earlier configuration, past the slack
    StartDelay,    \* the longest time from the 202 to the job's start
    MaxRun,        \* job_step_timeout_seconds
    InitialLocks   \* what an earlier process may have left behind

Actors == Requests \cup Duplicates \cup {Admin}
Keys   == {"generate", "finalize"}

NoLock     == [there |-> FALSE, left |-> 0, granted |-> 0]
Granted(t) == [there |-> TRUE, left |-> t, granted |-> t]
Locks      == [there : BOOLEAN, left : 0..LegacyTtl, granted : {0, Ttl, LegacyTtl}]

ASSUME LocksAssumption ==
    /\ Generate \subseteq Requests
    /\ Requests \cap Duplicates = {} /\ Admin \notin Requests \cup Duplicates
    /\ Of \in [Duplicates -> Requests]
    /\ Backends \subseteq {"memory", "blob"}
    /\ {Ttl, LegacyTtl, StartDelay, MaxRun} \subseteq Nat
    /\ 0 < Ttl /\ Ttl < LegacyTtl
    /\ InitialLocks \subseteq Locks

VARIABLES
    backend,  \* the job store of this deployment
    lock,     \* the stored lock of each key
    todo, at, \* per actor
    pc,       \* per actor, where the handler or the job is
    tries,    \* per request, how often it has called try_start_*
    waited,   \* per request, the time since it was queued, or its job began
    got,      \* history: the requests that acquired their lock
    overdue   \* history: a request has waited or run until its lock expired

local == <<todo, at>>
vars == <<backend, lock, local, pc, tries, waited, got, overdue>>

Labels == {"idle", "locking", "admitted", "queued", "running", "leaving",
           "refused", "raised", "done"}
Dos    == {"purge", "held", "flag", "clean", "acquire", "release"}
Calls  == {"get", "again", "delete", "put", "reread"}

TypeOK ==
    /\ backend \in Backends
    /\ lock \in [Keys -> Locks]
    /\ todo \in [Actors -> Seq([do : Dos, key : Keys])]
    /\ at \in [Actors -> Calls]
    /\ pc \in [Actors -> Labels]
    /\ tries \in [Requests -> 0..2]
    /\ waited \in [Requests -> Nat]
    /\ got \subseteq Requests
    /\ overdue \in BOOLEAN

-----------------------------------------------------------------------------

\* Mutation of ShouldRelinquish: locks of an older TTL policy are kept.
RelinquishExpired(l) == l.left = 0

\* should_relinquish_lock: expired, or granted by an older TTL policy
ShouldRelinquish(l) == l.left = 0 \/ l.granted > Ttl

Op(r)    == IF r \in Generate THEN "generate" ELSE "finalize"
Other(k) == IF k = "generate" THEN "finalize" ELSE "generate"
Do(d, k) == [do |-> d, key |-> k]
Both(d)  == <<Do(d, "generate"), Do(d, "finalize")>>

\* Mutation of TryStart: only the request's own lock is looked at.
TryStartOwnKey(r) ==
    Both("purge") \o <<Do("held", Op(r)), Do("acquire", Op(r))>>

\* try_start_generate and try_start_finalize
TryStart(r) == Both("purge") \o Both("held") \o <<Do("acquire", Op(r))>>

\* In memory an actor that is inside a call runs alone.
Inside(a) == todo[a] # <<>> \/ pc[a] = "admitted"
MayRun(a) == backend = "blob" \/ \A b \in Actors \ {a} : ~Inside(b)

Init ==
    /\ backend \in Backends
    /\ lock \in [Keys -> InitialLocks]
    /\ todo = [a \in Actors |-> <<>>]
    /\ at = [a \in Actors |-> "get"]
    /\ pc = [a \in Actors |-> "idle"]
    /\ tries = [r \in Requests |-> 0]
    /\ waited = [r \in Requests |-> 0]
    /\ got = {}
    /\ overdue = FALSE

Goto(a, label) == pc' = [pc EXCEPT ![a] = label]

\* Start on a sequence of lock operations.
Perform(a, s, label) ==
    /\ MayRun(a)
    /\ todo' = [todo EXCEPT ![a] = s]
    /\ at' = [at EXCEPT ![a] = "get"]
    /\ Goto(a, label)

Current(a) == Head(todo[a])
Call(a, call) == MayRun(a) /\ todo[a] # <<>> /\ at[a] = call

\* The operation is over; so is the handler's part after the last one.
Advance(a) ==
    /\ todo' = [todo EXCEPT ![a] = Tail(@)]
    /\ at' = [at EXCEPT ![a] = "get"]
    /\ pc' = [pc EXCEPT ![a] =
                IF Len(todo[a]) > 1 THEN @
                ELSE CASE Current(a).do = "acquire" -> "admitted"
                       [] Current(a).do = "flag"    -> "refused"
                       [] OTHER                   -> "done"]

Goes(a, call) == at' = [at EXCEPT ![a] = call] /\ UNCHANGED <<todo, pc>>

\* try_start_* returns False after refreshing the other flag; the first time
\* the handler cleans up and tries once more, the second time it answers 409.
Busy(r) ==
    /\ todo' = [todo EXCEPT ![r] =
                  <<Do("flag", Other(Op(r)))>> \o
                  (IF tries[r] = 1 THEN Both("clean") \o TryStart(r) ELSE <<>>)]
    /\ at' = [at EXCEPT ![r] = "get"]
    /\ UNCHANGED pc

-----------------------------------------------------------------------------
(* Calls on the store                                                      *)

Get(a) ==
    LET o == Current(a)
        l == lock[o.key]
        stale == l.there /\ ShouldRelinquish(l)
    IN /\ Call(a, "get")
       /\ UNCHANGED <<backend, overdue, lock, waited, got>>
       /\ CASE o.do \in {"purge", "held", "flag"} /\ stale -> Goes(a, "delete")
            [] o.do = "clean" /\ stale      -> Goes(a, "again")
            [] o.do = "release" /\ l.there  -> Goes(a, "delete")
            [] o.do = "acquire"             -> Goes(a, "put")
            [] o.do = "held" /\ l.there /\ ~stale -> Busy(a)
            [] OTHER                        -> Advance(a)
       /\ tries' = IF o.do = "held" /\ l.there /\ ~stale
                   THEN [tries EXCEPT ![a] = 2] ELSE tries

\* cleanup_expired_payment_validation_locks calls cleanup_expired_lock, which
\* looks again; when there is nothing left to clean up it calls release_lock.
GetAgain(a) ==
    /\ Call(a, "again")
    /\ LET l == lock[Current(a).key] IN
       IF l.there /\ ShouldRelinquish(l) THEN Goes(a, "delete")
       ELSE /\ todo' = [todo EXCEPT ![a] = <<Do("release", Current(a).key)>> \o Tail(@)]
            /\ at' = [at EXCEPT ![a] = "get"]
            /\ UNCHANGED pc
    /\ UNCHANGED <<backend, overdue, lock, tries, waited, got>>

\* Deletes whatever is stored by now.
Delete(a) ==
    /\ Call(a, "delete")
    /\ lock' = [lock EXCEPT ![Current(a).key] = NoLock]
    /\ Advance(a)
    /\ UNCHANGED <<backend, overdue, tries, waited, got>>

\* Mutation of Put: the lock is granted for longer than the policy says.
PutLonger(a) ==
    /\ Call(a, "put")
    /\ lock' = [lock EXCEPT ![Current(a).key] = Granted(Ttl + 1)]
    /\ got' = got \cup {a}
    /\ Goes(a, "reread")
    /\ UNCHANGED <<backend, overdue, tries, waited>>

Put(a) ==
    /\ Call(a, "put")
    /\ lock' = [lock EXCEPT ![Current(a).key] = Granted(Ttl)]
    /\ got' = got \cup {a}
    /\ Goes(a, "reread")
    /\ UNCHANGED <<backend, overdue, tries, waited>>

\* acquire_lock reads the record back and gives way to another holder; the
\* holder is always "global".
Reread(a) ==
    /\ Call(a, "reread")
    /\ Advance(a)
    /\ UNCHANGED <<backend, overdue, lock, tries, waited, got>>

-----------------------------------------------------------------------------
(* The queue handler and its job                                           *)

Arrive(r) ==
    /\ pc[r] = "idle"
    /\ Perform(r, TryStart(r), "locking")
    /\ tries' = [tries EXCEPT ![r] = 1]
    /\ UNCHANGED <<backend, overdue, lock, waited, got>>

\* Mutation of Leave: the handler's error path keeps the lock.
LeaveLocked(r) ==
    IF pc[r] = "admitted" THEN Goto(r, "done") /\ UNCHANGED local
    ELSE Perform(r, <<Do("release", Op(r))>>, "leaving")

\* finish_generate, finish_finalize
Leave(r) == Perform(r, <<Do("release", Op(r))>>, "leaving")

\* process_date is no date, or enqueue_* raised.
Rejects(r) ==
    /\ pc[r] = "admitted"
    /\ Leave(r)
    /\ UNCHANGED <<backend, overdue, lock, tries, waited, got>>

\* set_job raises outside the handler's try: the lock stays.
SetJobRaises(r) ==
    /\ backend = "blob"
    /\ pc[r] = "admitted"
    /\ Goto(r, "raised")
    /\ UNCHANGED <<backend, overdue, lock, local, tries, waited, got>>

Enqueue(r) ==
    /\ pc[r] = "admitted"
    /\ Goto(r, "queued")
    /\ waited' = [waited EXCEPT ![r] = 0]
    /\ UNCHANGED <<backend, overdue, lock, local, tries, got>>

Start(r) ==
    /\ MayRun(r)
    /\ pc[r] = "queued"
    /\ Goto(r, "running")
    /\ waited' = [waited EXCEPT ![r] = 0]
    /\ UNCHANGED <<backend, overdue, lock, local, tries, got>>

\* run_job_body's finally block
Finish(r) ==
    /\ pc[r] = "running"
    /\ Leave(r)
    /\ UNCHANGED <<backend, overdue, lock, tries, waited, got>>

\* The workflow service delivers the step again: the job is skipped and runs
\* the finally block too.
Skip(d) ==
    /\ backend = "blob"
    /\ pc[d] = "idle"
    /\ pc[Of[d]] = "running"
    /\ Perform(d, <<Do("release", Op(Of[d]))>>, "leaving")
    /\ UNCHANGED <<backend, overdue, lock, tries, waited, got>>

CleanUp ==
    /\ pc[Admin] = "idle"
    /\ Perform(Admin, Both("clean"), "locking")
    /\ UNCHANGED <<backend, overdue, lock, tries, waited, got>>

\* The request has its 202, or is about to, and its job has not ended.
Active(r) == pc[r] \in {"admitted", "queued", "running"}

\* A job that has not ended by the step's timeout is cut off; the TTL, the
\* same number of seconds, counts from before its 202.
Tick ==
    /\ backend = "memory" => \A a \in Actors : ~Inside(a)
    /\ \A r \in Requests : /\ pc[r] = "queued" => waited[r] < StartDelay
                           /\ pc[r] = "running" => waited[r] < MaxRun
    /\ waited' = [r \in Requests |->
                    waited[r] + (IF pc[r] \in {"queued", "running"} THEN 1 ELSE 0)]
    /\ lock' = [k \in Keys |->
                  [lock[k] EXCEPT !.left = IF @ > 0 THEN @ - 1 ELSE 0]]
    /\ overdue' = (overdue \/ \E r \in Requests : Active(r) /\ lock'[Op(r)].left = 0)
    /\ UNCHANGED <<backend, local, pc, tries, got>>

Next ==
    \/ \E a \in Actors : Get(a) \/ GetAgain(a) \/ Delete(a) \/ Put(a) \/ Reread(a)
    \/ \E r \in Requests :
          \/ Arrive(r) \/ Rejects(r) \/ SetJobRaises(r) \/ Enqueue(r)
          \/ Start(r) \/ Finish(r)
    \/ \E d \in Duplicates : Skip(d)
    \/ CleanUp
    \/ Tick

Spec == Init /\ [][Next]_vars

-----------------------------------------------------------------------------
(* Properties                                                              *)

(* Generate and finalize exclude each other and themselves ("mutua         *)
(* exclusión") in one process with the memory store, until a request       *)
(* outlives its own lock: from the moment a request is admitted until its  *)
(* job ends no other one is admitted, whatever is cleaned up, refused,     *)
(* rejected and tried again meanwhile.                                     *)
MutualExclusion ==
    backend = "memory" /\ ~overdue =>
        \A r, s \in Requests : Active(r) /\ Active(s) => r = s

(* Once every request that was let in has finished (none by an exception   *)
(* out of set_job), no lock that could refuse the next one is left,        *)
(* whatever gets, puts and deletes of the requests interleaved.            *)
NoOrphanLock ==
    (\A a \in Actors : pc[a] \in {"idle", "refused", "done"})
        => \A k \in Keys : lock[k].there => ShouldRelinquish(lock[k])

(* A 409 is answered only when another request really took a lock: what an *)
(* earlier process left behind, expired or granted by an older TTL policy, *)
(* never refuses a request.                                                *)
NoSpuriousConflict ==
    \A r \in Requests : pc[r] = "refused" => got \ {r} # {}
=============================================================================
