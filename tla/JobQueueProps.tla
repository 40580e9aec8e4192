----------------------------- MODULE JobQueueProps -----------------------------
(***************************************************************************)
(* What the job queue promises its callers and the shutdown.               *)
(***************************************************************************)
EXTENDS JobQueue

QueueTypeOK ==
    /\ pending \in Seq(Job)
    /\ status \in [Job -> {"new", "pending", "running", "completed", "dead", "discarded"}]
    /\ priority \in [Job -> Nat] /\ attempts \in [Job -> Nat] /\ wait \in [Job -> Nat]
    /\ streak \in Nat /\ timer \in Nat \cup {NoTimer}
    /\ ticking \in BOOLEAN /\ stopped \in BOOLEAN /\ recurring \in BOOLEAN
    /\ phase \in {"up", "draining", "drained", "gaveUp", "disconnected", "exited"}

(* A job is pending exactly when it is in the list, in it once, and at its *)
(* place: no interleaving of retries, failures and ticks loses a job, or   *)
(* hands it to two workers (jobQueue.ts:222-253, 404-424, 506-617).        *)
JobsAccounted ==
    /\ \A j \in Job : status[j] = "pending" <=> \E k \in DOMAIN pending : pending[k] = j
    /\ \A k, l \in DOMAIN pending : k < l =>
          pending[k] # pending[l] /\ Prio(k) >= Prio(l)

(* No job is left without a wake-up: while the queue is not stopped and    *)
(* jobs are pending, the timer is set, and at the latest for the time when *)
(* some pending job is due.  Enqueueing does not move a timer that is set, *)
(* so this bounds how long a worker idles (jobQueue.ts:498-532).           *)
WakesUp ==
    ~stopped /\ ~ticking /\ pending # <<>> =>
        timer # NoTimer /\ \E k \in DOMAIN pending : timer <= wait[pending[k]]

(* A job is executed maxRetries times before it is dead, and never more,   *)
(* unless an operator retries it: attempts start over only then            *)
(* (jobQueue.ts:561, 591).                                                 *)
RetriesExhausted ==
    /\ \A j \in Job : attempts[j] <= MaxRetries
    /\ \A j \in Job : status[j] = "dead" => attempts[j] = MaxRetries

(* Once the shutdown has found the queue drained no job runs any more, nor *)
(* does the schedule fire: handlers never meet a closed database.  Jobs    *)
(* that are enqueued, retried or failed meanwhile must stay where they are *)
(* (jobQueue.ts:273-283, 507; index.ts:308-317).                           *)
DrainedIsIdle ==
    phase = "drained" => Running = {} /\ ~recurring

(* No job stays pending or running for good, unless the queue stays        *)
(* stopped: every job that was enqueued ends, even when operators keep     *)
(* retrying dead jobs at a higher priority (jobQueue.ts:535-557).          *)
Ended(j) == status[j] \in {"completed", "dead", "discarded"}
JobsEnd ==
    \A j \in Job : <>[]~stopped => []<>(status[j] = "new" \/ Ended(j))
=============================================================================
