---------------------------- MODULE IdempotencyProps ----------------------------
(* What an idempotency key promises the client that repeats a request.     *)
EXTENDS Idempotency

(* Code against documentation: "If the key is IN-FLIGHT (original request  *)
(* still processing), returns 409" (idempotency.ts:191-192), and so no     *)
(* "duplicate records" are created (routes/tokens.ts:32-33).  When the     *)
(* client of a request disconnects, its key is freed although the handler  *)
(* is still at work (idempotency.ts:284-294), and the next request with    *)
(* the key is let through.                                                 *)
OneAtATime == Cardinality(Working) <= 1

(* What is left of that claim.  Work is repeated only where the code lets  *)
(* it be: once for each client that disconnected while its handler was at  *)
(* work, and once for each request that looked for the response just       *)
(* before it was stored.  Late answers of handlers whose client is gone    *)
(* free the key of whoever holds it, and still admit no more than that     *)
(* (idempotency.ts:233-294).                                               *)
RerunsBounded ==
    /\ Cardinality(Working) <= 1 + Cardinality(gone)
    /\ Cardinality(succeeded) <= 1 + Cardinality(gone) + Cardinality(stale)

(* A key is never left in flight: however the responses end, a retry that  *)
(* comes late enough is not refused (idempotency.ts:280-294).              *)
KeyIsFreed == []<>~inFlight
=============================================================================
