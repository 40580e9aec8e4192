---------------------------- MODULE CircuitBreaker ----------------------------
(***************************************************************************)
(* The circuit breaker of the backend (backend/src/lib/circuitBreaker.ts)  *)
(* as operators on its fields.  cooled tells that timeoutMs have passed    *)
(* since lastFailureTime.  Calls may overlap: onSuccess and onFailure      *)
(* apply to the state at that time, whatever it was at checkState.         *)
(***************************************************************************)
EXTENDS Naturals

CONSTANTS
    FailureThreshold,   \* failures in a row that open the circuit
    SuccessThreshold    \* successes that close it from half-open

ASSUME BreakerAssumption ==
    FailureThreshold \in Nat \ {0} /\ SuccessThreshold \in Nat \ {0}

Breaker == [state : {"closed", "open", "half-open"}, failures : Nat,
            successes : Nat, cooled : BOOLEAN]

Closed == [state |-> "closed", failures |-> 0, successes |-> 0, cooled |-> TRUE]

Admits(b) == b.state # "open" \/ b.cooled

(* checkState of a call that is admitted.                                  *)
AfterCheck(b) ==
    IF b.state = "open" THEN [b EXCEPT !.state = "half-open", !.successes = 0] ELSE b

(* A failure after a success in half-open leaves the circuit half-open,    *)
(* with the success counted.                                               *)
OnSuccess(b) ==
    IF b.state # "half-open" THEN [b EXCEPT !.failures = 0]
    ELSE IF b.successes + 1 >= SuccessThreshold
         THEN [b EXCEPT !.failures = 0, !.successes = 0, !.state = "closed"]
         ELSE [b EXCEPT !.failures = 0, !.successes = @ + 1]

OnFailureUncounted(b) == [b EXCEPT !.state = "open", !.cooled = FALSE]
OnFailure(b) ==
    [b EXCEPT !.failures = @ + 1, !.cooled = FALSE,
              !.state = IF b.failures + 1 >= FailureThreshold THEN "open" ELSE @]

Cooled(b) == [b EXCEPT !.cooled = TRUE]
=============================================================================
