------------------------- MODULE WebhookDeliveryProps --------------------------
(***************************************************************************)
(* What becomes of a webhook, and what the dead letters tell.              *)
(***************************************************************************)
EXTENDS WebhookDelivery

VARIABLE overlapped     \* history: two requeues of one dead letter overlapped

WebhookTypeOK ==
    /\ pc \in [Caller -> Flight \cup {"new", "queued", "count", "bump", "resolve", "done"}]
    /\ attempt \in [Caller -> 0..MaxAttempts] /\ success \in [Caller -> BOOLEAN]
    /\ result \in [Caller -> {"none", "limited", "refused", "logged", "unlogged",
                              "stored", "unstored", "crashed"}]
    /\ target \in [Request -> Caller]
    /\ kind \in [Request -> Kind \cup {"none"}]
    /\ entry \in [Caller -> Entry \cup {NoEntry}]
    /\ queue \in Seq(Delivery) /\ running \in 0..Concurrency
    /\ tokens \in 0..Burst /\ waiters \in Seq(Caller)
    /\ breaker \in Breaker /\ acked \subseteq Delivery
    /\ errors \in 0..MaxErrors /\ crashes \in 0..MaxCrashes

(* A triggered webhook that no endpoint has taken is on record, as a dead  *)
(* letter or, after an answer of 4xx, in the delivery log, unless the      *)
(* shared limiter dropped it, the process crashed, or the database has     *)
(* rejected a statement.  The circuit counts the failures of the database  *)
(* only, so no failing endpoint costs the webhooks of another one          *)
(* (webhookDeliveryService.ts:342-465).                                    *)
NoSilentLoss ==
    /\ \A d \in Delivery : pc[d] = "done" /\ d \notin acked =>
          CASE result[d] = "refused" -> errors >= FailureThreshold
            [] result[d] \in {"unlogged", "unstored"} -> errors > 0
            [] result[d] = "stored" -> entry[d] # NoEntry
            [] result[d] = "logged" -> attempt[d] < MaxAttempts
            [] OTHER -> result[d] \in {"limited", "crashed"}
    /\ breaker.state # "closed" => errors >= FailureThreshold

(* A triggered webhook becomes a dead letter only if all its attempts      *)
(* failed: one that was taken is never dead-lettered, also when the        *)
(* statement that notes it throws and the attempts that follow fail        *)
(* (webhookDeliveryService.ts:383-419, 450).                               *)
DeadLettersWereNotTaken ==
    [][\A d \in Delivery : entry[d] = NoEntry /\ entry'[d] # NoEntry =>
          d \notin acked /\ attempt[d] = MaxAttempts]_webhookVars

(* A dead letter marked retried was taken by the endpoint, whoever asked   *)
(* for it, how often, and whatever threw or crashed between the delivery   *)
(* and the mark (webhooks-deadletter.ts:141-166, 209-232).                 *)
RetriedWasTaken ==
    \A e \in Caller : entry[e] # NoEntry /\ entry[e].resolution = "retried" =>
        entry[e].origin \in acked

(* The pool loses no slot and leaves none idle: workers that throw give    *)
(* theirs back, and tasks wait only while all slots are taken              *)
(* (WorkerPool.ts:72-87).                                                  *)
PoolWorks ==
    /\ running = Cardinality({d \in Delivery : pc[d] \in Flight})
    /\ queue # <<>> => running = Concurrency
    /\ \A d \in Delivery : pc[d] = "queued" <=> \E k \in DOMAIN queue : queue[k] = d

(* Every triggered webhook comes to an end: the pool, the bucket and the   *)
(* circuit only delay it (tenantWebhookRateLimiter.ts:150-169, 219-244).   *)
DeliveriesEnd ==
    \A d \in Delivery : pc[d] # "new" ~> pc[d] = "done"

-----------------------------------------------------------------------------
(* Deliveries with the history of whether two requests were between the    *)
(* guard and the update of the requeue counter of one dead letter at once. *)
Counting(e) == {r \in Request : pc[r] = "bump" /\ target[r] = e}

Overlaps == overlapped' = (overlapped \/ \E e \in Caller : Cardinality(Counting(e)') > 1)

RequeueSpec ==
    /\ WebhookInit /\ overlapped = FALSE
    /\ [][WebhookNext /\ Overlaps]_<<webhookVars, overlapped>>

(* A dead letter is requeued MAX_REQUEUE_CYCLES times at most, across      *)
(* crashes and with retries and discards in between, as long as no two     *)
(* requeues of it overlap (webhookDeadLetterService.ts:208-240).           *)
RequeuesBounded ==
    ~overlapped => \A e \in Caller : entry[e] # NoEntry => entry[e].count <= MaxCycles
=============================================================================
