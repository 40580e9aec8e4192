---------------------------- MODULE WebhookDelivery ----------------------------
(***************************************************************************)
(* Delivery of webhooks: deliverWebhook with the two rate limiters and the *)
(* circuit breaker in front of its attempts, the bounded worker pool that  *)
(* calls it for triggered events, and the dead letters, with the requests  *)
(* of operators that redeliver or discard them                             *)
(* (backend/src/services/webhookDeliveryService.ts, webhookDeadLetter-     *)
(* Service.ts, tenantWebhookRateLimiter.ts, lib/WorkerPool.ts,             *)
(* routes/webhooks-deadletter.ts, routes/webhooks.ts).                     *)
(*                                                                         *)
(* One process; every await is a step of its own.  A call is named by its  *)
(* caller, a triggered delivery or a request, and a dead letter by the     *)
(* call that stored it.  All subscriptions are of one tenant: the buckets  *)
(* of tenants are independent.                                             *)
(***************************************************************************)
EXTENDS CircuitBreaker, Sequences, FiniteSets

CONSTANTS
    Delivery,       \* triggered deliveries, tasks of the worker pool
    Request,        \* requests of operators for a dead letter
    Concurrency,    \* workers of the pool
    MaxAttempts,    \* MAX_RETRIES: attempts of one call
    Burst,          \* capacity of the token bucket
    MaxCycles,      \* MAX_REQUEUE_CYCLES
    MaxErrors,      \* bound: statements that the database rejects
    MaxCrashes      \* bound: crashes of the process

Caller == Delivery \cup Request

ASSUME DeliveryAssumption ==
    /\ IsFiniteSet(Caller) /\ Delivery \cap Request = {}
    /\ Concurrency \in Nat \ {0} /\ MaxAttempts \in Nat \ {0} /\ Burst \in Nat \ {0}
    /\ MaxCycles \in Nat /\ MaxErrors \in Nat /\ MaxCrashes \in Nat

VARIABLES
    pc,             \* where a call is: before the await of that name
    attempt,        \* attempts
    success,        \* success
    result,         \* how the call ended
    target, kind,   \* of a request: the dead letter, and what is asked
    entry,          \* webhook_dead_letters
    queue, running, \* of the worker pool
    tokens, waiters,\* of the bucket
    breaker,        \* the circuit breaker of the service
    acked,          \* deliveries whose event the endpoint has answered with 2xx
    errors, crashes \* how often the bounded events happened

callVars == <<pc, attempt, success, result>>
poolVars == <<queue, running>>
bucketVars == <<tokens, waiters>>
askVars == <<target, kind>>
webhookVars == <<callVars, askVars, entry, poolVars, bucketVars, breaker,
                 acked, errors, crashes>>

NoEntry == [resolution |-> "absent"]
Entry == [resolution : {"none", "retried", "archived", "skipped"}, count : Nat, origin : Delivery]

Flight == {"start", "acquire", "waiting", "check", "post", "note", "log", "store"}

Origin(c) == IF c \in Delivery THEN c ELSE entry[target[c]].origin

WebhookInit ==
    /\ pc = [c \in Caller |-> "new"] /\ attempt = [c \in Caller |-> 0]
    /\ success = [c \in Caller |-> FALSE] /\ result = [c \in Caller |-> "none"]
    /\ target = [r \in Request |-> r] /\ kind = [r \in Request |-> "none"]
    /\ entry = [c \in Caller |-> NoEntry]
    /\ queue = <<>> /\ running = 0 /\ tokens = Burst /\ waiters = <<>>
    /\ breaker = Closed /\ acked = {} /\ errors = 0 /\ crashes = 0

Goto(c, step) == pc' = [pc EXCEPT ![c] = step]

(* A statement that the database rejects; the promise of the call throws.  *)
Rejected == errors < MaxErrors /\ errors' = errors + 1
Accepted == UNCHANGED errors

-----------------------------------------------------------------------------
(* The worker pool: enqueue, and what a worker does when its task settles, *)
(* by success or by a rejection.                                           *)

Trigger(d) ==
    /\ pc[d] = "new"
    /\ IF running < Concurrency
       THEN Goto(d, "start") /\ running' = running + 1 /\ UNCHANGED queue
       ELSE Goto(d, "queued") /\ queue' = Append(queue, d) /\ UNCHANGED running
    /\ UNCHANGED <<attempt, success, result, askVars, entry, bucketVars, breaker,
                   acked, errors, crashes>>

Release(c) ==
    IF queue = <<>>
    THEN Goto(c, "done") /\ running' = running - 1 /\ UNCHANGED queue
    ELSE /\ pc' = [pc EXCEPT ![c] = "done", ![Head(queue)] = "start"]
         /\ queue' = Tail(queue) /\ UNCHANGED running

(* deliverWebhook returns or throws to the worker, or to the request, that *)
(* marks the dead letter as resolved only if the endpoint has taken it.    *)
(* Mutation: whatever the endpoint answered.                               *)
ResolvesAlways(c) == TRUE
ResolvesAfter(c) == success[c]

End(c, how) ==
    /\ result' = [result EXCEPT ![c] = how]
    /\ IF c \in Delivery THEN Release(c)
       ELSE /\ UNCHANGED poolVars
            /\ Goto(c, IF how \in {"logged", "stored", "unstored"} /\ ResolvesAfter(c)
                       THEN "resolve" ELSE "done")

-----------------------------------------------------------------------------
(* deliverWebhook.                                                         *)

(* The shared limiter in Redis lets the call pass, or it is dropped.       *)
Limit(c) ==
    /\ pc[c] = "start"
    /\ \/ Goto(c, "acquire") /\ UNCHANGED <<result, poolVars>>
       \/ End(c, "limited")
    /\ UNCHANGED <<attempt, success, askVars, entry, bucketVars, breaker,
                   acked, errors, crashes>>

Acquire(c) ==
    /\ pc[c] = "acquire"
    /\ IF tokens > 0
       THEN Goto(c, "check") /\ tokens' = tokens - 1 /\ UNCHANGED waiters
       ELSE Goto(c, "waiting") /\ waiters' = Append(waiters, c) /\ UNCHANGED tokens
    /\ UNCHANGED <<attempt, success, result, askVars, entry, poolVars, breaker,
                   acked, errors, crashes>>

(* Mutation: waiting calls are served all at once.                         *)
DrainsAllAtOnce == tokens >= Len(waiters)
Drains == tokens >= 1

(* Time refills the bucket; the drain interval hands tokens to waiters,    *)
(* which a call that comes just before it overtakes.                       *)
Refill ==
    /\ tokens < Burst /\ tokens' = tokens + 1
    /\ UNCHANGED <<callVars, askVars, entry, poolVars, waiters, breaker,
                   acked, errors, crashes>>

DrainInterval ==
    /\ waiters # <<>> /\ Drains
    /\ LET n == IF tokens < Len(waiters) THEN tokens ELSE Len(waiters)
           served == {waiters[k] : k \in 1..n}
       IN  /\ tokens' = tokens - n
           /\ waiters' = SubSeq(waiters, n + 1, Len(waiters))
           /\ pc' = [c \in Caller |-> IF c \in served THEN "check" ELSE pc[c]]
    /\ UNCHANGED <<attempt, success, result, askVars, entry, poolVars, breaker,
                   acked, errors, crashes>>

(* circuitBreaker.execute: an open circuit throws before any attempt.      *)
Check(c) ==
    /\ pc[c] = "check"
    /\ IF Admits(breaker)
       THEN /\ Goto(c, "post") /\ attempt' = [attempt EXCEPT ![c] = 1]
            /\ breaker' = AfterCheck(breaker)
            /\ UNCHANGED <<result, poolVars>>
       ELSE End(c, "refused") /\ UNCHANGED <<attempt, breaker>>
    /\ UNCHANGED <<success, askVars, entry, bucketVars, acked, errors, crashes>>

(* The end of an attempt that is to be repeated while attempts are left.   *)
AttemptsLeft(c) == attempt[c] < MaxAttempts

Again(c) ==
    IF AttemptsLeft(c)
    THEN Goto(c, "post") /\ attempt' = [attempt EXCEPT ![c] = @ + 1]
    ELSE Goto(c, "log") /\ UNCHANGED attempt

(* Mutation: the last attempt decides.                                     *)
FailureResets(c) == success' = [success EXCEPT ![c] = FALSE]
FailureKeeps(c) == UNCHANGED success

(* The answer: 2xx, an answer of 4xx that ends the loop, or a failure that *)
(* is tried again (5xx, none at all, or the first 415 of a compressed      *)
(* body).  success keeps its value in the failures.                        *)
Post(c) ==
    /\ pc[c] = "post"
    /\ \/ /\ Goto(c, "note") /\ success' = [success EXCEPT ![c] = TRUE]
          /\ acked' = acked \cup {Origin(c)} /\ UNCHANGED attempt
       \/ Goto(c, "log") /\ FailureKeeps(c) /\ UNCHANGED <<attempt, acked>>
       \/ Again(c) /\ FailureKeeps(c) /\ UNCHANGED acked
    /\ UNCHANGED <<result, askVars, entry, poolVars, bucketVars, breaker,
                   errors, crashes>>

(* updateLastTriggered is in the try block of the attempt: when it throws  *)
(* the webhook is sent again.                                              *)
Note(c) ==
    /\ pc[c] = "note"
    /\ \/ Accepted /\ Goto(c, "log") /\ UNCHANGED attempt
       \/ Rejected /\ Again(c)
    /\ UNCHANGED <<success, result, askVars, entry, poolVars, bucketVars, breaker,
                   acked, crashes>>

(* Mutation: one attempt too many.                                         *)
ExhaustedByError(c) == attempt[c] > MaxAttempts
Exhausted(c) == attempt[c] >= MaxAttempts

(* logDelivery: it alone makes the function of the breaker throw.          *)
Log(c) ==
    /\ pc[c] = "log"
    /\ \/ /\ Accepted /\ ~success[c] /\ Exhausted(c)
          /\ Goto(c, "store") /\ UNCHANGED <<result, poolVars, breaker>>
       \/ /\ Accepted /\ (success[c] \/ ~Exhausted(c))
          /\ End(c, "logged") /\ breaker' = OnSuccess(breaker)
       \/ Rejected /\ End(c, "unlogged") /\ breaker' = OnFailure(breaker)
    /\ UNCHANGED <<attempt, success, askVars, entry, bucketVars, acked, crashes>>

(* storeDeadLetter; its failure is swallowed.                              *)
Store(c) ==
    /\ pc[c] = "store"
    /\ \/ /\ Accepted /\ End(c, "stored")
          /\ entry' = [entry EXCEPT ![c] =
                [resolution |-> "none", count |-> 0, origin |-> Origin(c)]]
       \/ Rejected /\ End(c, "unstored") /\ UNCHANGED entry
    /\ breaker' = OnSuccess(breaker)
    /\ UNCHANGED <<attempt, success, askVars, bucketVars, acked, crashes>>

CoolDown ==
    /\ ~breaker.cooled /\ breaker' = Cooled(breaker)
    /\ UNCHANGED <<callVars, askVars, entry, poolVars, bucketVars, acked, errors, crashes>>

-----------------------------------------------------------------------------
(* Requests of operators.  The lookup refuses an entry that is resolved,   *)
(* except on the older routes (routes/webhooks.ts), here "redeliver" and   *)
(* "skip".                                                                 *)

Kind == {"retry", "redeliver", "requeue", "discard", "skip"}

FirstStep(k) ==
    CASE k \in {"retry", "redeliver"} -> "start"
      [] k = "requeue" -> "count"
      [] k \in {"discard", "skip"} -> "resolve"

Ask(r, k, e) ==
    /\ pc[r] = "new" /\ entry[e] # NoEntry
    /\ k \notin {"redeliver", "skip"} => entry[e].resolution = "none"
    /\ Goto(r, FirstStep(k))
    /\ target' = [target EXCEPT ![r] = e] /\ kind' = [kind EXCEPT ![r] = k]
    /\ UNCHANGED <<attempt, success, result, entry, poolVars, bucketVars, breaker,
                   acked, errors, crashes>>

(* requeueDeadLetter: the guard reads, the update counts.                  *)
(* Mutation: the maximum itself is let through.                            *)
MayRequeueOnceMore(e) == entry[e].count <= MaxCycles
MayRequeue(e) == entry[e].count < MaxCycles

Count(r) ==
    /\ pc[r] = "count"
    /\ Goto(r, IF MayRequeue(target[r]) THEN "bump" ELSE "done")
    /\ UNCHANGED <<attempt, success, result, askVars, entry, poolVars, bucketVars,
                   breaker, acked, errors, crashes>>

(* The subscription may be gone by then.                                   *)
Bump(r) ==
    /\ pc[r] = "bump"
    /\ entry' = [entry EXCEPT ![target[r]].count = @ + 1,
                              ![target[r]].resolution = "none"]
    /\ Goto(r, "start") \/ Goto(r, "done")
    /\ UNCHANGED <<attempt, success, result, askVars, poolVars, bucketVars, breaker,
                   acked, errors, crashes>>

Resolve(r) ==
    /\ pc[r] = "resolve" /\ Goto(r, "done")
    /\ \/ /\ Accepted
          /\ entry' = [entry EXCEPT ![target[r]].resolution =
                CASE kind[r] = "discard" -> "archived" [] kind[r] = "skip" -> "skipped"
                  [] OTHER -> "retried"]
       \/ Rejected /\ UNCHANGED entry
    /\ UNCHANGED <<attempt, success, result, askVars, poolVars, bucketVars, breaker,
                   acked, crashes>>

-----------------------------------------------------------------------------
(* Calls, pool, bucket and breaker are in memory; the dead letters stay.   *)
Crash ==
    /\ crashes < MaxCrashes /\ crashes' = crashes + 1
    /\ pc' = [c \in Caller |-> IF pc[c] = "new" THEN "new" ELSE "done"]
    /\ result' = [c \in Caller |->
          IF pc[c] \in {"new", "done"} THEN result[c] ELSE "crashed"]
    /\ queue' = <<>> /\ running' = 0 /\ tokens' = Burst /\ waiters' = <<>>
    /\ breaker' = Closed
    /\ UNCHANGED <<attempt, success, askVars, entry, acked, errors>>

CallStep(c) ==
    \/ Limit(c) \/ Acquire(c) \/ Check(c) \/ Post(c) \/ Note(c) \/ Log(c) \/ Store(c)

RequestStep(r) == Count(r) \/ Bump(r) \/ Resolve(r)

WebhookNext ==
    \/ \E d \in Delivery : Trigger(d)
    \/ \E c \in Caller : CallStep(c)
    \/ \E r \in Request :
          \/ RequestStep(r)
          \/ \E k \in Kind, e \in Caller : Ask(r, k, e)
    \/ Refill \/ DrainInterval \/ CoolDown \/ Crash

WebhookSpec == WebhookInit /\ [][WebhookNext]_webhookVars

(* Endpoints answer or time out, the database answers, time passes.        *)
WebhookFairness ==
    /\ \A c \in Caller : WF_webhookVars(CallStep(c))
    /\ WF_webhookVars(Refill) /\ WF_webhookVars(DrainInterval)

FairWebhookSpec == WebhookSpec /\ WebhookFairness
=============================================================================
