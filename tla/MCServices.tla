------------------------------ MODULE MCServices ------------------------------
(***************************************************************************)
(* Model checking three services of the backend that share no state: the   *)
(* job queue, the idempotency keys and the saga coordinator.  Each is on   *)
(* its own: the scenario, chosen in the initial state, says which one, and *)
(* for the sagas how many there are and what goes wrong.                   *)
(***************************************************************************)
EXTENDS JobQueueProps, IdempotencyProps, SagaCoordinatorProps, TLC

VARIABLE scenario

Doubling == [n \in 1..MaxRetries |-> 2 ^ (n - 1)]

(* Bounds: failing steps, rejected calls and crashes together, and sagas   *)
(* that two workers get hold of.                                           *)
Sagas(n, processes, mishaps, shares) ==
    [part |-> "sagas", sagas |-> n, processes |-> processes,
     mishaps |-> mishaps, shares |-> shares]

Scenarios ==
    {[part |-> "jobs"], [part |-> "keys"],
     Sagas(2, 1, 2, 0), Sagas(1, 2, 4, 0), Sagas(2, 2, 1, 0),   \* recovery finds sagas alone
     Sagas(2, 1, 1, 1), Sagas(1, 2, 0, 1)}                      \* and where it does not

Some(n, S) == CHOOSE T \in SUBSET S : Cardinality(T) = n

Hosts == IF scenario.part = "sagas" THEN Some(scenario.processes, Process) ELSE {}

SagasWithin ==
    /\ \A s \in Saga \ Some(scenario.sagas, Saga) : row'[s] = NoRow
    /\ \A p \in Process \ Hosts : mode'[p] = "down"
    /\ failures' + errors' + crashes' <= scenario.mishaps
    /\ Cardinality(shared') <= scenario.shares

MCNext ==
    /\ \/ scenario.part = "jobs" /\ JobNext /\ UNCHANGED <<keyVars, sagaVars>>
       \/ scenario.part = "keys" /\ KeyNext /\ UNCHANGED <<queueVars, sagaVars>>
       \/ /\ scenario.part = "sagas"
          /\ SagaNext /\ SagasWithin
          /\ UNCHANGED <<queueVars, keyVars>>
    /\ UNCHANGED scenario

MCInit == JobInit /\ KeyInit /\ SagaInit /\ scenario \in Scenarios

(* A service that is left out has nothing to do; its fairness asks nothing.*)
MCFairness ==
    /\ JobFairness /\ KeyFairness /\ WorkFairness
    /\ \A p \in Process : WF_sagaVars(p \in Hosts /\ Starts(p))

MCSpec == MCInit /\ [][MCNext]_<<queueVars, keyVars, sagaVars, scenario>> /\ MCFairness
=============================================================================
