------------------------- MODULE SagaCoordinatorProps -------------------------
(***************************************************************************)
(* What the saga coordinator must guarantee, and what its comments claim.  *)
(*                                                                         *)
(* The guarantees end where a recovery reads the row of a saga that        *)
(* somebody is at work on: a request to the process that is starting, or   *)
(* another process.  Both then work on it, and neither looks at the other. *)
(***************************************************************************)
EXTENDS SagaCoordinator

Settled(s) == row[s] # NoRow /\ row[s].status \in {"COMPLETED", "COMPENSATED"}

(* All or nothing, but for one step: a saga that is not shared has, once   *)
(* reported completed, the effects of all its steps, and once reported     *)
(* compensated none except possibly that of the step it failed at,         *)
(* whatever crashed, threw or was taken over in between                    *)
(* (sagaCoordinator.ts:142-214).  For the step it failed at the comments   *)
(* promise more, see CompensatedLeavesNothing.                             *)
AllOrNothing ==
    \A s \in Saga \ shared : Settled(s) =>
        IF row[s].status = "COMPLETED" THEN effects[s] = StepIndex
        ELSE effects[s] \subseteq {row[s].index}

(* Compensation runs in strict reverse order (sagaCoordinator.ts:19):      *)
(* when a step is undone, all later ones are undone, but for the one that  *)
(* failed.  Resuming must start where the last worker had come to, also    *)
(* when another process takes over.                                        *)
ReverseOrder ==
    [][\A s \in Saga \ shared : \A i \in effects[s] \ effects'[s] : \A j \in effects'[s] :
          j < i \/ j = row[s].index]_sagaVars

(* A saga that is settled stays as it is, unless it was shared: the rows   *)
(* that a recovery goes through one by one may be old by then, but not     *)
(* because it, or a crash and a later recovery, settled the saga           *)
(* (sagaCoordinator.ts:110-139).  A shared saga, which a request settles   *)
(* while its row waits to be resumed, does start over.                     *)
SettledIsFinal ==
    [][\A s \in Saga \ shared : Settled(s) =>
          row'[s] = row[s] /\ effects'[s] = effects[s]]_sagaVars

(* In the end every saga that was asked for is settled, shared or not,     *)
(* unless a write or a compensation threw: crashes and failing steps leave *)
(* none half done for good (sagaCoordinator.ts:110-139).                   *)
Settles ==
    <>[](errors = 0 => \A s \in Saga : row[s] # NoRow => Settled(s))

(* Code against documentation: "compensate() at-least-once per completed   *)
(* step" (sagaCoordinator.ts:27), so nothing is left of a compensated      *)
(* saga.  The write that saves the progress of a step is in the step's try *)
(* block: when it is rejected, the completed step counts as the failed one *)
(* and is not compensated (sagaCoordinator.ts:152-174).                    *)
CompensatedLeavesNothing ==
    \A s \in Saga \ shared :
        row[s] # NoRow /\ row[s].status = "COMPENSATED" => effects[s] = {}
=============================================================================
