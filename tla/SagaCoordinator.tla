---------------------------- MODULE SagaCoordinator ---------------------------
(***************************************************************************)
(* The saga coordinator of the backend                                     *)
(* (backend/src/services/sagaCoordinator.ts) with the processes that run   *)
(* it (backend/src/index.ts).                                              *)
(*                                                                         *)
(* A saga executes its steps in order and saves its progress in its row    *)
(* after each; a step that fails makes it undo the earlier ones, latest    *)
(* first.  Every await is a step of its own.  Steps are idempotent, and    *)
(* all or nothing, as the coordinator requires of them: executing one puts *)
(* its effect in place, compensating takes it away.  A process that starts *)
(* reads the rows that are not settled, once, and resumes those sagas one  *)
(* after the other; it listens for requests, so runs sagas, already while  *)
(* it reads.  The context that steps hand on is saved with the progress    *)
(* and not modelled.                                                       *)
(***************************************************************************)
EXTENDS Naturals

CONSTANTS
    Saga,           \* executions, that is ids of rows
    Process,        \* backend processes that share the database
    Steps,          \* how many steps the definition of a saga has
    MaxFailures,    \* bound: steps that throw
    MaxErrors,      \* bound: writes and compensations that throw
    MaxCrashes      \* bound: processes that die

ASSUME SagaAssumption ==
    /\ Steps \in Nat \ {0}
    /\ MaxFailures \in Nat /\ MaxErrors \in Nat /\ MaxCrashes \in Nat
    /\ Saga \cap Process = {}

VARIABLES
    row,            \* SagaExecution: status, currentStepIndex, compensatedStepIndex
    effects,        \* the steps of a saga whose effect is in place
    worker,         \* run() of a saga, and the recovery loop of a process
    mode,           \* "down", "booting" until recovery has read the rows, "up"
    interrupted,    \* rows that recovery has read and not resumed yet
    failures, errors, crashes,  \* how often the bounded events happened
    shared          \* history: the sagas whose row a recovery read while a
                    \* worker was at them, or another recovery had them to resume

counters == <<failures, errors, crashes>>
sagaVars == <<row, effects, worker, mode, interrupted, counters, shared>>

StepIndex == 0..(Steps - 1)
NotUndone == Steps          \* compensatedStepIndex is null

NoRow == [status |-> "NONE"]
Row == [status : {"RUNNING", "COMPENSATING", "COMPENSATED", "COMPLETED"},
        index : 0..Steps, undone : 0..Steps]

(* Where a worker is: before the await of that name.                       *)
Free == [pc |-> "idle"]
Busy == [pc : {"execute", "save", "abort", "undo", "record", "settle", "complete"},
         saga : Saga, at : 0..Steps, host : Process]

SagaTypeOK ==
    /\ row \in [Saga -> Row \cup {NoRow}]
    /\ effects \in [Saga -> SUBSET StepIndex]
    /\ worker \in [Saga \cup Process -> Busy \cup {Free}]
    /\ mode \in [Process -> {"down", "booting", "up"}]
    /\ interrupted \in [Process -> [Saga -> Row \cup {NoRow}]]
    /\ failures \in 0..MaxFailures /\ errors \in 0..MaxErrors /\ crashes \in 0..MaxCrashes
    /\ shared \subseteq Saga

NothingRead == [s \in Saga |-> NoRow]

SagaInit ==
    /\ row = [s \in Saga |-> NoRow]
    /\ effects = [s \in Saga |-> {}]
    /\ worker = [w \in Saga \cup Process |-> Free]
    /\ mode = [p \in Process |-> "down"]
    /\ interrupted = [p \in Process |-> NothingRead]
    /\ failures = 0 /\ errors = 0 /\ crashes = 0
    /\ shared = {}

-----------------------------------------------------------------------------
(* The loops of executeFrom and runCompensation.                           *)

Before(pc, s, i, p) == [pc |-> pc, saga |-> s, at |-> i, host |-> p]

(* Mutation: the rollback leaves out the first step.                       *)
BackwardStopsShort(s, i, p) ==
    IF i <= 1 THEN Before("settle", s, 0, p) ELSE Before("undo", s, i - 1, p)

Forward(s, i, p) == IF i = Steps THEN Before("complete", s, i, p) ELSE Before("execute", s, i, p)

(* From the step before i down to the first.                               *)
Backward(s, i, p) ==
    IF i = 0 THEN Before("settle", s, 0, p) ELSE Before("undo", s, i - 1, p)

Goes(w, next) == worker' = [worker EXCEPT ![w] = next]

Is(w, pc) == worker[w] # Free /\ worker[w].pc = pc

-----------------------------------------------------------------------------
(* run(): creates the row and executes from the first step.  Requests come *)
(* as soon as the process listens, before it has read any row.             *)
Run(p, s) ==
    /\ mode[p] # "down"
    /\ row[s] = NoRow
    /\ row' = [row EXCEPT ![s] = [status |-> "RUNNING", index |-> 0, undone |-> NotUndone]]
    /\ Goes(s, Forward(s, 0, p))
    /\ UNCHANGED <<effects, mode, interrupted, counters, shared>>

Execute(w) ==
    /\ Is(w, "execute")
    /\ LET s == worker[w].saga IN
         /\ effects' = [effects EXCEPT ![s] = @ \cup {worker[w].at}]
         /\ Goes(w, Before("save", s, worker[w].at, worker[w].host))
    /\ UNCHANGED <<row, mode, interrupted, counters, shared>>

(* A step that throws has no effect, except what an earlier execution left.*)
StepFails(w) ==
    /\ Is(w, "execute")
    /\ failures < MaxFailures
    /\ failures' = failures + 1
    /\ Goes(w, Before("abort", worker[w].saga, worker[w].at, worker[w].host))
    /\ UNCHANGED <<row, effects, mode, interrupted, errors, crashes, shared>>

SaveStep(w) ==
    /\ Is(w, "save")
    /\ LET s == worker[w].saga IN
         /\ row' = [row EXCEPT ![s].index = worker[w].at + 1]
         /\ Goes(w, Forward(s, worker[w].at + 1, worker[w].host))
    /\ UNCHANGED <<effects, mode, interrupted, counters, shared>>

(* The write is in the same try block as the step: when it throws, done or *)
(* not, the step counts as failed.                                         *)
SaveStepFails(w) ==
    /\ Is(w, "save")
    /\ errors < MaxErrors
    /\ errors' = errors + 1
    /\ LET s == worker[w].saga IN
         /\ row' \in {row, [row EXCEPT ![s].index = worker[w].at + 1]}
         /\ Goes(w, Before("abort", s, worker[w].at, worker[w].host))
    /\ UNCHANGED <<effects, mode, interrupted, failures, crashes, shared>>

(* The catch block: the step that failed is not among those to undo.       *)
Abort(w) ==
    /\ Is(w, "abort")
    /\ LET s == worker[w].saga IN
         /\ row' = [row EXCEPT ![s].status = "COMPENSATING", ![s].index = worker[w].at]
         /\ Goes(w, Backward(s, worker[w].at, worker[w].host))
    /\ UNCHANGED <<effects, mode, interrupted, counters, shared>>

(* Mutation: the earliest completed step first.                            *)
UndoInOrder(w) ==
    /\ Is(w, "undo")
    /\ LET s == worker[w].saga IN
         /\ effects' = [effects EXCEPT ![s] = @ \ {row[s].index - 1 - worker[w].at}]
         /\ Goes(w, Before("record", s, worker[w].at, worker[w].host))
    /\ UNCHANGED <<row, mode, interrupted, counters, shared>>

Undo(w) ==
    /\ Is(w, "undo")
    /\ LET s == worker[w].saga IN
         /\ effects' = [effects EXCEPT ![s] = @ \ {worker[w].at}]
         /\ Goes(w, Before("record", s, worker[w].at, worker[w].host))
    /\ UNCHANGED <<row, mode, interrupted, counters, shared>>

RecordUndo(w) ==
    /\ Is(w, "record")
    /\ LET s == worker[w].saga IN
         /\ row' = [row EXCEPT ![s].undone = worker[w].at]
         /\ Goes(w, Backward(s, worker[w].at, worker[w].host))
    /\ UNCHANGED <<effects, mode, interrupted, counters, shared>>

EndCompensation(w) ==
    /\ Is(w, "settle")
    /\ row' = [row EXCEPT ![worker[w].saga].status = "COMPENSATED"]
    /\ Goes(w, Free)
    /\ UNCHANGED <<effects, mode, interrupted, counters, shared>>

Complete(w) ==
    /\ Is(w, "complete")
    /\ row' = [row EXCEPT ![worker[w].saga].status = "COMPLETED"]
    /\ Goes(w, Free)
    /\ UNCHANGED <<effects, mode, interrupted, counters, shared>>

(* Any other write, or a compensation, throws: run() rejects, recovery     *)
(* logs it and goes on with the next saga.  Nothing resumes this one       *)
(* before the next start of a process.                                     *)
Throws(w) ==
    /\ \E pc \in {"abort", "undo", "record", "settle", "complete"} : Is(w, pc)
    /\ errors < MaxErrors
    /\ errors' = errors + 1
    /\ Goes(w, Free)
    /\ UNCHANGED <<row, effects, mode, interrupted, failures, crashes, shared>>

-----------------------------------------------------------------------------
(* The processes.                                                          *)

Boot(p) ==
    /\ mode[p] = "down"
    /\ mode' = [mode EXCEPT ![p] = "booting"]
    /\ UNCHANGED <<row, effects, worker, interrupted, counters, shared>>

Interrupted(s) == row[s] # NoRow /\ row[s].status \in {"RUNNING", "COMPENSATING"}

Active(w, s) == worker[w] # Free /\ worker[w].saga = s
Waiting(p, s) == interrupted[p][s] # NoRow

InHands(s) ==
    \/ \E w \in Saga \cup Process : Active(w, s)
    \/ \E p \in Process : Waiting(p, s)

(* A recovery reads some of the rows.                                      *)
Reads(p, found) ==
    /\ mode[p] = "booting"
    /\ mode' = [mode EXCEPT ![p] = "up"]
    /\ interrupted' = [interrupted EXCEPT ![p] =
            [s \in Saga |-> IF s \in found THEN row[s] ELSE NoRow]]
    /\ shared' = shared \cup {s \in found : InHands(s)}
    /\ UNCHANGED <<row, effects, worker, counters>>

(* Mutation: only the rows of sagas that were going forward are read.      *)
ScanForward(p) == Reads(p, {s \in Saga : Interrupted(s) /\ row[s].status = "RUNNING"})

(* Mutation: all rows are read.                                            *)
ScanEverything(p) == Reads(p, Saga)

(* recoverInterruptedSagas() reads the rows that are not settled, whoever  *)
(* may be at work on them.                                                 *)
Scan(p) == Reads(p, {s \in Saga : Interrupted(s)})

ResumeFrom(r) == IF r.undone # NotUndone THEN r.undone ELSE r.index

(* ... and resumes them one after the other, from what it read.            *)
Resume(p, s) ==
    /\ worker[p] = Free
    /\ interrupted[p][s] # NoRow
    /\ LET r == interrupted[p][s] IN
         Goes(p, IF r.status = "RUNNING" THEN Forward(s, r.index, p)
                 ELSE Backward(s, ResumeFrom(r), p))
    /\ interrupted' = [interrupted EXCEPT ![p][s] = NoRow]
    /\ UNCHANGED <<row, effects, mode, counters, shared>>

Crash(p) ==
    /\ mode[p] # "down"
    /\ crashes < MaxCrashes
    /\ crashes' = crashes + 1
    /\ mode' = [mode EXCEPT ![p] = "down"]
    /\ worker' = [w \in Saga \cup Process |->
            IF worker[w] # Free /\ worker[w].host = p THEN Free ELSE worker[w]]
    /\ interrupted' = [interrupted EXCEPT ![p] = NothingRead]
    /\ UNCHANGED <<row, effects, failures, errors, shared>>

-----------------------------------------------------------------------------
Proceeds(w) ==
    \/ Execute(w) \/ SaveStep(w) \/ Abort(w) \/ Undo(w) \/ RecordUndo(w)
    \/ EndCompensation(w) \/ Complete(w)

Fails(w) == StepFails(w) \/ SaveStepFails(w) \/ Throws(w)

ProcessStep(p) ==
    \/ Boot(p) \/ Scan(p) \/ Crash(p)
    \/ \E s \in Saga : Run(p, s) \/ Resume(p, s)

SagaNext ==
    \/ \E w \in Saga \cup Process : Proceeds(w) \/ Fails(w)
    \/ \E p \in Process : ProcessStep(p)

SagaSpec == SagaInit /\ [][SagaNext]_sagaVars

(* Awaits end, and a process that went down is started again.  Nothing     *)
(* says that anybody asks for a saga.                                      *)
WorkFairness ==
    /\ \A w \in Saga \cup Process : WF_sagaVars(Proceeds(w))
    /\ \A p \in Process : WF_sagaVars(\E s \in Saga : Resume(p, s))

Starts(p) == Boot(p) \/ Scan(p)

SagaFairness == WorkFairness /\ \A p \in Process : WF_sagaVars(Starts(p))

FairSagaSpec == SagaSpec /\ SagaFairness
=============================================================================
