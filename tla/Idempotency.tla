------------------------------ MODULE Idempotency ------------------------------
(***************************************************************************)
(* One idempotency key of the backend (backend/src/middleware/             *)
(* idempotency.ts with its in-memory store) and the requests that carry    *)
(* it.  A step ends where the code awaits, returns to the event loop or    *)
(* hands over to the route.  A client may disconnect at any point of a     *)
(* request that got past the middleware; its handler goes on.              *)
(***************************************************************************)
EXTENDS Naturals, FiniteSets

CONSTANT Request

ASSUME RequestAssumption == IsFiniteSet(Request)

VARIABLES
    stored,         \* the store has a response for the key
    inFlight,       \* the key is in the in-flight set
    pc,             \* what a request does, or how it was answered
    settled,        \* the requests that completed or cleared the key
    gone,           \* history: whose client disconnected in time to matter
    succeeded,      \* history: the requests whose handler did its work
    stale           \* history: who had seen no response when one was stored

keyVars == <<stored, inFlight, pc, settled, gone, succeeded, stale>>
history == <<gone, succeeded, stale>>

At(r, s) == pc[r] = s
Goto(r, s) == pc' = [pc EXCEPT ![r] = s]
Working == {r \in Request : pc[r] = "handling"}

KeyInit ==
    /\ stored = FALSE /\ inFlight = FALSE
    /\ pc = [r \in Request |-> "new"]
    /\ settled = {} /\ gone = {} /\ succeeded = {} /\ stale = {}

(* A response that is stored is replayed; otherwise the lock is next.      *)
Get(r) ==
    /\ At(r, "new")
    /\ Goto(r, IF stored THEN "replayed" ELSE "unseen")
    /\ UNCHANGED <<stored, inFlight, settled, history>>

MarkInFlight(r) ==
    /\ At(r, "unseen")
    /\ Goto(r, IF inFlight THEN "refused" ELSE "handling")
    /\ inFlight' = TRUE
    /\ UNCHANGED <<stored, settled, history>>

(* complete() after a success, clearInFlight() after anything else: both   *)
(* free the key, whoever marked it.                                        *)
Settle(r, ok) ==
    /\ settled' = settled \cup {r}
    /\ stored' = (stored \/ ok)
    /\ inFlight' = FALSE
    /\ stale' = IF ok THEN stale \cup {q \in Request : At(q, "unseen")} ELSE stale

Worked(r, ok) == succeeded' = IF ok THEN succeeded \cup {r} ELSE succeeded

(* The handler answers with res.json, which settles even a request that    *)
(* its disconnect has settled before.                                      *)
Json(r, ok) ==
    /\ At(r, "handling")
    /\ Goto(r, "done") /\ Settle(r, ok) /\ Worked(r, ok)
    /\ UNCHANGED gone

(* The handler answers in any other way: the end of the response settles.  *)
Send(r, ok) ==
    /\ At(r, "handling")
    /\ Goto(r, IF r \in settled THEN "done" ELSE IF ok THEN "sent" ELSE "sentError")
    /\ Worked(r, ok)
    /\ UNCHANGED <<stored, inFlight, settled, gone, stale>>

(* Mutation: the end of a response is not listened for.                    *)
FinishUnnoticed(r) ==
    /\ pc[r] \in {"sent", "sentError"}
    /\ Goto(r, "done")
    /\ UNCHANGED <<stored, inFlight, settled, history>>

FinishResponse(r) ==
    /\ pc[r] \in {"sent", "sentError"}
    /\ Settle(r, At(r, "sent")) /\ Goto(r, "done")
    /\ UNCHANGED <<gone, succeeded>>

(* The client disconnects before the response is written: the key is free  *)
(* although the handler may still be at work.                              *)
Close(r) ==
    /\ pc[r] \in {"handling", "sent", "sentError"} /\ r \notin settled
    /\ Settle(r, FALSE)
    /\ Goto(r, IF At(r, "handling") THEN "handling" ELSE "done")
    /\ gone' = gone \cup {r}
    /\ UNCHANGED succeeded

(* The window of a stored response passes, which no request outlasts: the  *)
(* promise starts over.                                                    *)
Expire ==
    /\ stored /\ \A r \in Request : pc[r] \in {"new", "replayed", "refused", "done"}
    /\ stored' = FALSE
    /\ gone' = {} /\ succeeded' = {} /\ stale' = {}
    /\ UNCHANGED <<inFlight, pc, settled>>

Answer(r) == \E ok \in BOOLEAN : Json(r, ok) \/ Send(r, ok)

KeyNext ==
    \/ \E r \in Request : Get(r) \/ MarkInFlight(r) \/ Answer(r) \/ FinishResponse(r) \/ Close(r)
    \/ Expire

(* Both routes that use the middleware answer on every path, within a try  *)
(* and its catch (routes/tokens.ts:451-500, routes/campaigns.ts:154-200),  *)
(* and a response that was sent finishes or closes.                        *)
KeyFairness == \A r \in Request : WF_keyVars(Answer(r)) /\ WF_keyVars(FinishResponse(r))

KeySpec == KeyInit /\ [][KeyNext]_keyVars /\ KeyFairness
=============================================================================
