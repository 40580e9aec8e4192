------------------------ MODULE SagaCoordinatorProofs ------------------------
(***************************************************************************)
(* Sagas settle as a whole, for any number of sagas, steps and processes,  *)
(* however often these crash, and with requests at any time.  What a saga  *)
(* is promised ends where a recovery reads its row while somebody is at    *)
(* work on it: the invariant speaks of the sagas that are not shared.      *)
(***************************************************************************)
EXTENDS SagaCoordinatorProps, TLAPS

Worker == Saga \cup Process
Own == Saga \ shared

(* Workers die with their process, and only recovery leaves rows to resume.*)
Hosted ==
    /\ \A w \in Worker : worker[w] # Free =>
          /\ mode[worker[w].host] # "down"
          /\ w \in Saga => worker[w].saga = w
          /\ w \in Process => worker[w].host = w
    /\ \A p \in Process : mode[p] # "up" => interrupted[p] = NothingRead

(* A saga that is not shared has one worker at most, and none while one    *)
(* recovery, and no other, is to resume it; so the row that recovery has   *)
(* read is still the row in the database.                                  *)
Exclusive ==
    \A s \in Own :
        /\ \A v, w \in Worker : Active(v, s) /\ Active(w, s) => v = w
        /\ \A p \in Process : Waiting(p, s) =>
              /\ interrupted[p][s] = row[s] /\ Interrupted(s)
              /\ \A w \in Worker : ~Active(w, s)
              /\ \A q \in Process : Waiting(q, s) => q = p

(* What the row of a saga tells of its effects.                            *)
Running(s) == row[s] # NoRow /\ row[s].status = "RUNNING"
Compensating(s) == row[s] # NoRow /\ row[s].status = "COMPENSATING"

RowTells(s) ==
    /\ row[s] = NoRow => effects[s] = {}
    /\ Running(s) =>
          /\ row[s].undone = NotUndone
          /\ \A i \in effects[s] : i <= row[s].index
          /\ \A i \in StepIndex : i < row[s].index => i \in effects[s]
    /\ Compensating(s) =>
          /\ row[s].index < Steps
          /\ row[s].undone # NotUndone => row[s].undone < row[s].index
          /\ \A i \in effects[s] : i < ResumeFrom(row[s]) \/ i = row[s].index
    /\ Settled(s) =>
          IF row[s].status = "COMPLETED" THEN effects[s] = StepIndex
          ELSE effects[s] \subseteq {row[s].index}

(* Where a worker is, against the row of its saga.                         *)
InStep(w) ==
    LET s == worker[w].saga
        a == worker[w].at
    IN  /\ worker[w].pc \in {"execute", "save"} =>
              Running(s) /\ a = row[s].index /\ a < Steps
        /\ worker[w].pc = "save" => a \in effects[s]
        /\ worker[w].pc = "abort" =>
              Running(s) /\ a < Steps /\ \A i \in effects[s] : i <= a
        /\ worker[w].pc = "complete" => Running(s) /\ row[s].index = Steps
        /\ worker[w].pc \in {"undo", "record"} =>
              Compensating(s) /\ a + 1 = ResumeFrom(row[s])
        /\ worker[w].pc = "record" => a \notin effects[s]
        /\ worker[w].pc = "settle" => Compensating(s) /\ ResumeFrom(row[s]) = 0

SagaInv ==
    /\ Hosted
    /\ Exclusive
    /\ \A s \in Own : RowTells(s)
    /\ \A w \in Worker : worker[w] # Free /\ worker[w].saga \in Own => InStep(w)

-----------------------------------------------------------------------------
(* Types.  They hold in any circumstances, with what the next step of a    *)
(* worker takes for granted: a row, and a step of the definition.          *)
AtAStep(w) ==
    /\ row[worker[w].saga] # NoRow
    /\ worker[w].pc \in {"execute", "save", "abort", "undo", "record"} =>
          worker[w].at \in StepIndex

TypeInv ==
    /\ SagaTypeOK
    /\ \A w \in Worker : worker[w] # Free => AtAStep(w)
    /\ \A p \in Process, s \in Saga : Waiting(p, s) => row[s] # NoRow

LEMMA NoRowIsNoRow == NoRow \notin Row
  BY DEF NoRow, Row

LEMMA FreeIsNotBusy == Free \notin Busy
  BY DEF Free, Busy

LEMMA ForwardTypes ==
    ASSUME NEW s \in Saga, NEW i \in 0..Steps, NEW p \in Process
    PROVE  /\ Forward(s, i, p) \in Busy
           /\ Forward(s, i, p).saga = s /\ Forward(s, i, p).host = p
           /\ Forward(s, i, p).at = i
           /\ i = Steps => Forward(s, i, p).pc = "complete"
           /\ i # Steps => Forward(s, i, p).pc = "execute" /\ i \in StepIndex
  BY SagaAssumption DEF Forward, Before, Busy, StepIndex

LEMMA BackwardTypes ==
    ASSUME NEW s \in Saga, NEW i \in 0..Steps, NEW p \in Process
    PROVE  /\ Backward(s, i, p) \in Busy
           /\ Backward(s, i, p).saga = s /\ Backward(s, i, p).host = p
           /\ i = 0 => Backward(s, i, p).pc = "settle"
           /\ i # 0 => /\ Backward(s, i, p).pc = "undo"
                       /\ Backward(s, i, p).at = i - 1 /\ i - 1 \in StepIndex
  BY SagaAssumption DEF Backward, Before, Busy, StepIndex

LEMMA BeforeTypes ==
    ASSUME NEW s \in Saga, NEW i \in 0..Steps, NEW p \in Process,
           NEW pc \in {"execute", "save", "abort", "undo", "record", "settle", "complete"}
    PROVE  /\ Before(pc, s, i, p) \in Busy
           /\ Before(pc, s, i, p).pc = pc /\ Before(pc, s, i, p).saga = s
           /\ Before(pc, s, i, p).at = i /\ Before(pc, s, i, p).host = p
  BY DEF Before, Busy

(* A worker goes on with its saga, and writes at most the row and the      *)
(* effects of that one.                                                    *)
Works(w, next) ==
    LET s == worker[w].saga IN
    /\ worker[w] # Free
    /\ Goes(w, next)
    /\ next \in Busy \cup {Free}
    /\ next # Free => next.saga = s /\ next.host = worker[w].host
    /\ row' \in [Saga -> Row \cup {NoRow}]
    /\ row'[s] # NoRow
    /\ effects' \in [Saga -> SUBSET StepIndex]
    /\ \A t \in Saga : t # s => row'[t] = row[t] /\ effects'[t] = effects[t]
    /\ UNCHANGED <<mode, interrupted, shared>>
    /\ failures' \in 0..MaxFailures /\ errors' \in 0..MaxErrors /\ crashes' = crashes

LEMMA BusyWorker ==
    ASSUME SagaTypeOK, NEW w \in Worker, worker[w] # Free
    PROVE  /\ worker[w] \in Busy
           /\ worker[w].saga \in Saga /\ worker[w].host \in Process
           /\ worker[w].at \in 0..Steps
  BY DEF SagaTypeOK, Worker, Busy

LEMMA WorksKeepsTypes ==
    ASSUME TypeInv, NEW w \in Worker, NEW next, Works(w, next),
           next # Free => AtAStep(w)'
    PROVE  TypeInv'
<1> DEFINE s == worker[w].saga
<1>1. s \in Saga
  BY BusyWorker DEF Works, TypeInv
<1>2. worker' = [worker EXCEPT ![w] = next] /\ worker' \in [Worker -> Busy \cup {Free}]
  BY DEF Works, Goes, TypeInv, SagaTypeOK, Worker
<1>3. SagaTypeOK'
  BY <1>2 DEF Works, TypeInv, SagaTypeOK, Worker
<1>4. \A t \in Saga : row[t] # NoRow => row'[t] # NoRow
  BY <1>1 DEF Works
<1>5. ASSUME NEW v \in Worker, worker'[v] # Free PROVE AtAStep(v)'
  <2>1. CASE v = w
    BY <1>2, <1>5, <2>1 DEF TypeInv, SagaTypeOK, Worker
  <2>2. CASE v # w
    <3>1. worker'[v] = worker[v]
      BY <1>2, <2>2 DEF TypeInv, SagaTypeOK, Worker
    <3>2. AtAStep(v) /\ worker[v].saga \in Saga
      BY <1>5, <3>1, BusyWorker DEF TypeInv
    <3> QED BY <1>4, <3>1, <3>2 DEF AtAStep
  <2> QED BY <2>1, <2>2
<1>6. \A p \in Process, t \in Saga : Waiting(p, t)' => row'[t] # NoRow
  BY <1>4 DEF Works, TypeInv, Waiting
<1> QED BY <1>3, <1>5, <1>6 DEF TypeInv

(* The row of a saga that has one, with one field changed.                 *)
LEMMA RowTypes ==
    ASSUME SagaTypeOK, NEW s \in Saga, row[s] # NoRow,
           NEW i \in 0..Steps,
           NEW st \in {"RUNNING", "COMPENSATING", "COMPENSATED", "COMPLETED"}
    PROVE  /\ row[s] \in Row
           /\ [row[s] EXCEPT !.index = i] \in Row
           /\ [row[s] EXCEPT !.undone = i] \in Row
           /\ [row[s] EXCEPT !.status = st] \in Row
           /\ [row[s] EXCEPT !.status = st, !.index = i] \in Row
<1>1. row[s] \in Row
  BY DEF SagaTypeOK
<1> QED BY <1>1 DEF Row

LEMMA WorkSteps ==
    ASSUME TypeInv, NEW w \in Worker, Proceeds(w) \/ Fails(w)
    PROVE  \E next : Works(w, next) /\ (next # Free => AtAStep(w)')
<1> DEFINE s == worker[w].saga
           a == worker[w].at
           p == worker[w].host
           Goal == \E next : Works(w, next) /\ (next # Free => AtAStep(w)')
<1>1. worker[w] # Free
  BY DEF Proceeds, Fails, Execute, SaveStep, Abort, Undo, RecordUndo, EndCompensation, Complete,
         StepFails, SaveStepFails, Throws, Is
<1>2. /\ worker[w] \in Busy /\ s \in Saga /\ p \in Process /\ a \in 0..Steps
      /\ row[s] # NoRow /\ AtAStep(w) /\ SagaTypeOK
  BY <1>1, BusyWorker DEF TypeInv, AtAStep
<1>3. ASSUME NEW next \in Busy, Goes(w, next)
      PROVE  worker'[w] = next
  BY <1>3 DEF Goes, TypeInv, SagaTypeOK, Worker
<1>4. ASSUME NEW next \in Busy, next.saga = s, next.host = p, Goes(w, next),
             next.pc \in {"execute", "save", "abort", "undo", "record"} => next.at \in StepIndex,
             NEW r \in Row, row' = [row EXCEPT ![s] = r],
             effects' \in [Saga -> SUBSET StepIndex],
             \A t \in Saga : t # s => effects'[t] = effects[t],
             UNCHANGED <<mode, interrupted, crashes, shared>>,
             failures' \in 0..MaxFailures, errors' \in 0..MaxErrors
      PROVE  Goal
  <2>1. row' \in [Saga -> Row \cup {NoRow}] /\ row'[s] = r
        /\ \A t \in Saga : t # s => row'[t] = row[t]
    BY <1>2, <1>4 DEF SagaTypeOK
  <2>2. Works(w, next)
    BY <1>1, <1>4, <2>1, NoRowIsNoRow DEF Works
  <2>3. AtAStep(w)'
    BY <1>3, <1>4, <2>1, NoRowIsNoRow DEF AtAStep
  <2> QED BY <2>2, <2>3
<1>5. ASSUME Goes(w, Free), NEW r \in Row, row' = [row EXCEPT ![s] = r],
             UNCHANGED <<effects, mode, interrupted, crashes, shared>>,
             failures' \in 0..MaxFailures, errors' \in 0..MaxErrors
      PROVE  Goal
  <2>1. row' \in [Saga -> Row \cup {NoRow}] /\ row'[s] = r
        /\ \A t \in Saga : t # s => row'[t] = row[t]
    BY <1>2, <1>5 DEF SagaTypeOK
  <2>2. Works(w, Free)
    BY <1>1, <1>2, <1>5, <2>1, NoRowIsNoRow DEF Works, SagaTypeOK
  <2> QED BY <2>2
<1>6. row = [row EXCEPT ![s] = row[s]] /\ row[s] \in Row
  BY <1>2 DEF SagaTypeOK
<1>7. /\ failures \in 0..MaxFailures /\ errors \in 0..MaxErrors
      /\ effects \in [Saga -> SUBSET StepIndex]
      /\ MaxFailures \in Nat /\ MaxErrors \in Nat /\ Steps \in Nat \ {0}
  BY <1>2, SagaAssumption DEF SagaTypeOK
<1>8. CASE Execute(w)
  <2>1. a \in StepIndex
    BY <1>2, <1>8 DEF Execute, Is, AtAStep
  <2>2. /\ Before("save", s, a, p) \in Busy /\ Before("save", s, a, p).saga = s
        /\ Before("save", s, a, p).host = p /\ Before("save", s, a, p).at = a
    BY <1>2, BeforeTypes
  <2>3. effects' \in [Saga -> SUBSET StepIndex] /\ \A t \in Saga : t # s => effects'[t] = effects[t]
    BY <1>2, <1>7, <1>8, <2>1 DEF Execute
  <2> QED BY <1>4, <1>6, <1>7, <1>8, <2>1, <2>2, <2>3 DEF Execute, counters
<1>9. CASE StepFails(w)
  <2>1. a \in StepIndex
    BY <1>2, <1>9 DEF StepFails, Is, AtAStep
  <2>2. /\ Before("abort", s, a, p) \in Busy /\ Before("abort", s, a, p).saga = s
        /\ Before("abort", s, a, p).host = p /\ Before("abort", s, a, p).at = a
    BY <1>2, BeforeTypes
  <2>3. failures' \in 0..MaxFailures
    BY <1>7, <1>9 DEF StepFails
  <2> QED BY <1>4, <1>6, <1>7, <1>9, <2>1, <2>2, <2>3 DEF StepFails
<1>10. CASE SaveStep(w)
  <2>1. a \in StepIndex /\ a + 1 \in 0..Steps
    BY <1>2, <1>7, <1>10 DEF SaveStep, Is, AtAStep, StepIndex
  <2>2. [row[s] EXCEPT !.index = a + 1] \in Row
    BY <1>2, <2>1, RowTypes
  <2>3. /\ Forward(s, a + 1, p) \in Busy /\ Forward(s, a + 1, p).saga = s /\ Forward(s, a + 1, p).host = p
        /\ Forward(s, a + 1, p).pc \in {"execute", "save", "abort", "undo", "record"} =>
              Forward(s, a + 1, p).at \in StepIndex
    BY <1>2, <2>1, ForwardTypes
  <2> QED BY <1>4, <1>7, <1>10, <2>1, <2>2, <2>3 DEF SaveStep, counters
<1>11. CASE SaveStepFails(w)
  <2>1. a \in StepIndex /\ a + 1 \in 0..Steps
    BY <1>2, <1>7, <1>11 DEF SaveStepFails, Is, AtAStep, StepIndex
  <2>2. [row[s] EXCEPT !.index = a + 1] \in Row
    BY <1>2, <2>1, RowTypes
  <2>3. PICK r \in Row : row' = [row EXCEPT ![s] = r]
    BY <1>6, <1>11, <2>2 DEF SaveStepFails
  <2>4. /\ Before("abort", s, a, p) \in Busy /\ Before("abort", s, a, p).saga = s
        /\ Before("abort", s, a, p).host = p /\ Before("abort", s, a, p).at = a
    BY <1>2, BeforeTypes
  <2>5. errors' \in 0..MaxErrors
    BY <1>7, <1>11 DEF SaveStepFails
  <2> QED BY <1>4, <1>7, <1>11, <2>1, <2>3, <2>4, <2>5 DEF SaveStepFails
<1>12. CASE Abort(w)
  <2>1. [row[s] EXCEPT !.status = "COMPENSATING", !.index = a] \in Row
    BY <1>2, RowTypes
  <2>3. /\ Backward(s, a, p) \in Busy /\ Backward(s, a, p).saga = s /\ Backward(s, a, p).host = p
        /\ Backward(s, a, p).pc \in {"execute", "save", "abort", "undo", "record"} =>
              Backward(s, a, p).at \in StepIndex
    BY <1>2, BackwardTypes
  <2> QED BY <1>4, <1>7, <1>12, <2>1, <2>3 DEF Abort, counters
<1>13. CASE Undo(w)
  <2>1. a \in StepIndex
    BY <1>2, <1>13 DEF Undo, Is, AtAStep
  <2>2. /\ Before("record", s, a, p) \in Busy /\ Before("record", s, a, p).saga = s
        /\ Before("record", s, a, p).host = p /\ Before("record", s, a, p).at = a
    BY <1>2, BeforeTypes
  <2>3. effects' \in [Saga -> SUBSET StepIndex] /\ \A t \in Saga : t # s => effects'[t] = effects[t]
    BY <1>2, <1>7, <1>13 DEF Undo
  <2> QED BY <1>4, <1>6, <1>7, <1>13, <2>1, <2>2, <2>3 DEF Undo, counters
<1>14. CASE RecordUndo(w)
  <2>1. [row[s] EXCEPT !.undone = a] \in Row
    BY <1>2, RowTypes
  <2>3. /\ Backward(s, a, p) \in Busy /\ Backward(s, a, p).saga = s /\ Backward(s, a, p).host = p
        /\ Backward(s, a, p).pc \in {"execute", "save", "abort", "undo", "record"} =>
              Backward(s, a, p).at \in StepIndex
    BY <1>2, BackwardTypes
  <2> QED BY <1>4, <1>7, <1>14, <2>1, <2>3 DEF RecordUndo, counters
<1>15. CASE EndCompensation(w)
  <2>1. [row[s] EXCEPT !.status = "COMPENSATED"] \in Row
    BY <1>2, RowTypes
  <2> QED BY <1>5, <1>7, <1>15, <2>1 DEF EndCompensation, counters
<1>16. CASE Complete(w)
  <2>1. [row[s] EXCEPT !.status = "COMPLETED"] \in Row
    BY <1>2, RowTypes
  <2> QED BY <1>5, <1>7, <1>16, <2>1 DEF Complete, counters
<1>17. CASE Throws(w)
  <2>1. errors' \in 0..MaxErrors
    BY <1>7, <1>17 DEF Throws
  <2> QED BY <1>5, <1>6, <1>7, <1>17, <2>1 DEF Throws
<1> QED
  BY <1>8, <1>9, <1>10, <1>11, <1>12, <1>13, <1>14, <1>15, <1>16, <1>17 DEF Proceeds, Fails

LEMMA ResumeTypes ==
    ASSUME NEW r \in Row
    PROVE  ResumeFrom(r) \in 0..Steps /\ r.index \in 0..Steps
  BY DEF ResumeFrom, Row, NotUndone

(* What a process does as a whole keeps the rows that there are.           *)
LEMMA ProcessKeepsTypes ==
    ASSUME TypeInv, NEW p \in Process, ProcessStep(p)
    PROVE  TypeInv'
<1> USE DEF Worker
<1>1. CASE Boot(p)
  <2>1. UNCHANGED <<row, effects, worker, interrupted, counters>>
    BY <1>1 DEF Boot
  <2>2. SagaTypeOK'
    BY <1>1 DEF TypeInv, SagaTypeOK, Boot, counters
  <2> QED BY <2>1, <2>2 DEF TypeInv, AtAStep, Waiting
<1>2. CASE Scan(p)
  <2>1. UNCHANGED <<row, effects, worker, counters>>
    BY <1>2 DEF Scan, Reads
  <2>2. interrupted' \in [Process -> [Saga -> Row \cup {NoRow}]]
    BY <1>2 DEF TypeInv, SagaTypeOK, Scan, Reads
  <2>3. SagaTypeOK'
    BY <1>2, <2>2 DEF TypeInv, SagaTypeOK, Scan, Reads, counters
  <2>4. ASSUME NEW q \in Process, NEW s \in Saga, Waiting(q, s)' PROVE row'[s] # NoRow
    BY <1>2, <2>4 DEF TypeInv, SagaTypeOK, Scan, Reads, Waiting, Interrupted
  <2> QED BY <2>1, <2>3, <2>4 DEF TypeInv, AtAStep
<1>3. CASE Crash(p)
  <2>1. worker' \in [Worker -> Busy \cup {Free}]
        /\ \A w \in Worker : worker'[w] # Free => worker'[w] = worker[w]
    BY <1>3 DEF TypeInv, SagaTypeOK, Crash
  <2>2. interrupted' \in [Process -> [Saga -> Row \cup {NoRow}]]
        /\ \A q \in Process, s \in Saga : Waiting(q, s)' => Waiting(q, s)
    BY <1>3 DEF TypeInv, SagaTypeOK, Crash, NothingRead, Waiting
  <2>3. crashes' \in 0..MaxCrashes
    BY <1>3, SagaAssumption DEF TypeInv, SagaTypeOK, Crash
  <2>4. SagaTypeOK'
    BY <1>3, <2>1, <2>2, <2>3 DEF TypeInv, SagaTypeOK, Crash
  <2>5. row' = row
    BY <1>3 DEF Crash
  <2> QED BY <2>1, <2>2, <2>4, <2>5 DEF TypeInv, AtAStep
<1>4. ASSUME NEW s \in Saga, Run(p, s) PROVE TypeInv'
  <2>1. 0 \in 0..Steps
    BY SagaAssumption
  <2>2. /\ Forward(s, 0, p) \in Busy /\ Forward(s, 0, p).saga = s
        /\ Forward(s, 0, p).pc = "execute" /\ Forward(s, 0, p).at \in StepIndex
    BY <2>1, ForwardTypes, SagaAssumption
  <2>3. [status |-> "RUNNING", index |-> 0, undone |-> NotUndone] \in Row
    BY <2>1, SagaAssumption DEF Row, NotUndone
  <2>4. /\ row' \in [Saga -> Row \cup {NoRow}] /\ row'[s] # NoRow
        /\ \A t \in Saga : row[t] # NoRow => row'[t] # NoRow
    BY <1>4, <2>3, NoRowIsNoRow DEF Run, TypeInv, SagaTypeOK
  <2>5. /\ worker' \in [Worker -> Busy \cup {Free}] /\ worker'[s] = Forward(s, 0, p)
        /\ \A w \in Worker : w # s => worker'[w] = worker[w]
    BY <1>4, <2>2 DEF Run, Goes, TypeInv, SagaTypeOK
  <2>6. SagaTypeOK'
    BY <1>4, <2>4, <2>5 DEF Run, TypeInv, SagaTypeOK, counters
  <2>7. ASSUME NEW w \in Worker, worker'[w] # Free PROVE AtAStep(w)'
    <3>1. CASE w = s
      BY <2>2, <2>4, <2>5, <3>1 DEF AtAStep
    <3>2. CASE w # s
      <4>1. worker'[w] = worker[w] /\ AtAStep(w) /\ worker[w].saga \in Saga
        BY <2>5, <2>7, <3>2, BusyWorker DEF TypeInv
      <4> QED BY <2>4, <4>1 DEF AtAStep
    <3> QED BY <3>1, <3>2
  <2>8. \A q \in Process, t \in Saga : Waiting(q, t)' => row'[t] # NoRow
    BY <1>4, <2>4 DEF Run, TypeInv, Waiting
  <2> QED BY <2>6, <2>7, <2>8 DEF TypeInv
<1>5. ASSUME NEW s \in Saga, Resume(p, s) PROVE TypeInv'
  <2> DEFINE r == interrupted[p][s]
             next == IF r.status = "RUNNING" THEN Forward(s, r.index, p)
                     ELSE Backward(s, ResumeFrom(r), p)
  <2>1. r \in Row /\ row[s] # NoRow
    BY <1>5 DEF Resume, TypeInv, SagaTypeOK, Waiting
  <2>2. r.index \in 0..Steps /\ ResumeFrom(r) \in 0..Steps
    BY <2>1, ResumeTypes
  <2>3. /\ Forward(s, r.index, p) \in Busy /\ Forward(s, r.index, p).saga = s
        /\ Forward(s, r.index, p).pc \in {"execute", "save", "abort", "undo", "record"} =>
              Forward(s, r.index, p).at \in StepIndex
    BY <2>2, ForwardTypes
  <2>4. /\ Backward(s, ResumeFrom(r), p) \in Busy /\ Backward(s, ResumeFrom(r), p).saga = s
        /\ Backward(s, ResumeFrom(r), p).pc \in {"execute", "save", "abort", "undo", "record"} =>
              Backward(s, ResumeFrom(r), p).at \in StepIndex
    BY <2>2, BackwardTypes
  <2>5. /\ next \in Busy /\ next.saga = s
        /\ next.pc \in {"execute", "save", "abort", "undo", "record"} => next.at \in StepIndex
    BY <2>3, <2>4
  <2> HIDE DEF next
  <2>6. /\ worker' \in [Worker -> Busy \cup {Free}] /\ worker'[p] = next
        /\ \A w \in Worker : w # p => worker'[w] = worker[w]
    BY <1>5, <2>5 DEF Resume, Goes, TypeInv, SagaTypeOK, next
  <2>7. interrupted' \in [Process -> [Saga -> Row \cup {NoRow}]]
        /\ \A q \in Process, t \in Saga : Waiting(q, t)' => Waiting(q, t)
    BY <1>5 DEF Resume, TypeInv, SagaTypeOK, Waiting
  <2>8. UNCHANGED <<row, effects, mode, counters, shared>>
    BY <1>5 DEF Resume
  <2>9. SagaTypeOK'
    BY <2>6, <2>7, <2>8 DEF TypeInv, SagaTypeOK, counters
  <2>10. ASSUME NEW w \in Worker, worker'[w] # Free PROVE AtAStep(w)'
    <3>1. CASE w = p
      BY <2>1, <2>5, <2>6, <2>8, <3>1 DEF AtAStep
    <3>2. CASE w # p
      BY <2>6, <2>8, <2>10, <3>2 DEF AtAStep, TypeInv
    <3> QED BY <3>1, <3>2
  <2> QED BY <2>7, <2>8, <2>9, <2>10 DEF TypeInv
<1> QED
  BY <1>1, <1>2, <1>3, <1>4, <1>5 DEF ProcessStep

LEMMA TypesStep == TypeInv /\ [SagaNext]_sagaVars => TypeInv'
<1> SUFFICES ASSUME TypeInv, [SagaNext]_sagaVars PROVE TypeInv'
  OBVIOUS
<1>1. ASSUME NEW w \in Worker, Proceeds(w) \/ Fails(w) PROVE TypeInv'
  BY <1>1, WorkSteps, WorksKeepsTypes
<1>2. ASSUME NEW p \in Process, ProcessStep(p) PROVE TypeInv'
  BY <1>2, ProcessKeepsTypes
<1>3. CASE UNCHANGED sagaVars
  BY <1>3 DEF sagaVars, counters, TypeInv, SagaTypeOK, AtAStep, Waiting
<1> QED BY <1>1, <1>2, <1>3 DEF SagaNext, Worker

LEMMA TypesHold == SagaSpec => []TypeInv
<1>1. SagaInit => TypeInv
  BY SagaAssumption DEF SagaInit, TypeInv, SagaTypeOK, NothingRead, Waiting, Worker
<1> QED BY <1>1, TypesStep, PTL DEF SagaSpec

(* Rows, effects, workers and what recovery has read keep their types, in  *)
(* any circumstances: no step outside the definition is ever executed,     *)
(* compensated or recorded (sagaCoordinator.ts:142-214).                   *)
THEOREM SagaTypeCorrect == SagaSpec => []SagaTypeOK
<1>1. TypeInv => SagaTypeOK
  BY DEF TypeInv
<1> QED BY <1>1, TypesHold, PTL

-----------------------------------------------------------------------------
(* One worker's step on a saga that is not shared: it keeps row and        *)
(* effects in agreement, and its own place in agreement with the row.      *)
LEMMA AbortTells ==
    ASSUME TypeInv, SagaInv, NEW w \in Worker, NEW s \in Own, s = worker[w].saga, Abort(w)
    PROVE  RowTells(s)' /\ InStep(w)'
<1> USE DEF Own
<1> DEFINE a == worker[w].at
           p == worker[w].host
<1>1. /\ worker[w] \in Busy /\ p \in Process /\ a \in StepIndex /\ a \in 0..Steps
      /\ worker[w] # Free /\ InStep(w) /\ AtAStep(w) /\ row[s] # NoRow /\ row[s] \in Row
  BY BusyWorker, NoRowIsNoRow DEF Abort, Is, TypeInv, SagaTypeOK, SagaInv, AtAStep
<1>2. Running(s) /\ RowTells(s) /\ a < Steps /\ \A i \in effects[s] : i <= a
  BY <1>1 DEF Abort, Is, SagaInv, InStep
<1>3. row'[s] = [row[s] EXCEPT !.status = "COMPENSATING", !.index = a] /\ effects' = effects
  BY DEF Abort, TypeInv, SagaTypeOK
<1>4. /\ row'[s].status = "COMPENSATING" /\ row'[s].index = a /\ row'[s].undone = NotUndone
      /\ row'[s] # NoRow
  BY <1>1, <1>2, <1>3, NoRowIsNoRow DEF Row, RowTells
<1>5. worker'[w] = Backward(s, a, p)
  BY <1>1 DEF Abort, Goes, TypeInv, SagaTypeOK, Worker
<1>6. Compensating(s)' /\ ~Running(s)' /\ ~Settled(s)' /\ ResumeFrom(row'[s]) = a
  BY <1>4 DEF Compensating, Running, Settled, ResumeFrom
<1>7. RowTells(s)'
  <2>1. \A i \in effects[s] : i \in Nat
    BY DEF TypeInv, SagaTypeOK, StepIndex
  <2> QED BY <1>1, <1>2, <1>3, <1>4, <1>6, <2>1 DEF RowTells, StepIndex
<1>8. /\ Backward(s, a, p).saga = s
      /\ a = 0 => Backward(s, a, p).pc = "settle"
      /\ a # 0 => Backward(s, a, p).pc = "undo" /\ Backward(s, a, p).at = a - 1
  BY <1>1, BackwardTypes
<1>9. a - 1 + 1 = a
  BY <1>1 DEF StepIndex
<1>10. InStep(w)'
  BY <1>5, <1>6, <1>8, <1>9 DEF InStep
<1> QED BY <1>7, <1>10

LEMMA ForwardTells ==
    ASSUME TypeInv, SagaInv, NEW w \in Worker, NEW s \in Own, s = worker[w].saga,
           Execute(w) \/ StepFails(w) \/ SaveStep(w) \/ SaveStepFails(w)
    PROVE  RowTells(s)' /\ InStep(w)'
<1> USE DEF Own
<1> DEFINE a == worker[w].at
           p == worker[w].host
<1>1. /\ worker[w] \in Busy /\ p \in Process /\ a \in StepIndex /\ a \in 0..Steps
      /\ worker[w] # Free /\ InStep(w) /\ row[s] # NoRow /\ row[s] \in Row
  BY BusyWorker, NoRowIsNoRow
     DEF Execute, StepFails, SaveStep, SaveStepFails, Is, TypeInv, SagaTypeOK, SagaInv, AtAStep
<1>2. /\ Running(s) /\ RowTells(s) /\ a = row[s].index /\ a < Steps /\ a \in Nat
      /\ row[s].undone = NotUndone /\ effects[s] \subseteq StepIndex
      /\ \A i \in effects[s] : i <= a
      /\ \A i \in StepIndex : i < a => i \in effects[s]
  <2>1. worker[w].pc \in {"execute", "save"}
    BY DEF Execute, StepFails, SaveStep, SaveStepFails, Is
  <2>2. Running(s) /\ a = row[s].index /\ a < Steps
    BY <1>1, <2>1 DEF InStep
  <2>3. RowTells(s)
    BY DEF SagaInv
  <2>4. a \in Nat /\ effects[s] \subseteq StepIndex
    BY <1>1 DEF StepIndex, TypeInv, SagaTypeOK
  <2> QED BY <2>2, <2>3, <2>4 DEF RowTells
<1>3. ASSUME NEW pc \in {"execute", "save", "abort", "undo", "record", "settle", "complete"}
      PROVE  Before(pc, s, a, p).pc = pc /\ Before(pc, s, a, p).saga = s /\ Before(pc, s, a, p).at = a
  BY <1>1, BeforeTypes
<1>4. ASSUME NEW next, Goes(w, next) PROVE worker'[w] = next
  BY <1>4 DEF Goes, TypeInv, SagaTypeOK, Worker
<1>5. CASE Execute(w)
  <2>1. row' = row /\ effects'[s] = effects[s] \cup {a} /\ worker'[w] = Before("save", s, a, p)
    BY <1>4, <1>5 DEF Execute, TypeInv, SagaTypeOK
  <2>2. Running(s)' /\ ~Compensating(s)' /\ ~Settled(s)' /\ row'[s] # NoRow
    BY <1>2, <2>1 DEF Running, Compensating, Settled
  <2>3. RowTells(s)'
    BY <1>2, <2>1, <2>2 DEF RowTells, StepIndex
  <2>4. InStep(w)'
    <3>1. /\ Before("save", s, a, p).pc = "save" /\ Before("save", s, a, p).saga = s
          /\ Before("save", s, a, p).at = a
      BY <1>3
    <3> QED BY <1>2, <2>1, <2>2, <3>1 DEF InStep
  <2> QED BY <2>3, <2>4
<1>6. CASE StepFails(w)
  <2>1. row' = row /\ effects' = effects /\ worker'[w] = Before("abort", s, a, p)
    BY <1>4, <1>6 DEF StepFails
  <2>2. Running(s)' /\ RowTells(s)'
    BY <1>2, <2>1 DEF Running, Compensating, Settled, RowTells
  <2>3. InStep(w)'
    <3>1. /\ Before("abort", s, a, p).pc = "abort" /\ Before("abort", s, a, p).saga = s
          /\ Before("abort", s, a, p).at = a
      BY <1>3
    <3> QED BY <1>2, <2>1, <2>2, <3>1 DEF InStep
  <2> QED BY <2>2, <2>3
<1>7. ASSUME effects' = effects, row'[s] = [row[s] EXCEPT !.index = a + 1], a \in effects[s]
      PROVE  RowTells(s)' /\ Running(s)' /\ row'[s].index = a + 1
  <2>1. /\ row'[s].status = "RUNNING" /\ row'[s].index = a + 1 /\ row'[s].undone = NotUndone
        /\ row'[s] # NoRow
    <3>1. a + 1 \in 0..Steps
      BY <1>2, SagaAssumption
    <3>2. [row[s] EXCEPT !.index = a + 1] \in Row
      BY <1>1, <3>1, RowTypes DEF TypeInv
    <3>3. /\ [row[s] EXCEPT !.index = a + 1].status = row[s].status
          /\ [row[s] EXCEPT !.index = a + 1].index = a + 1
          /\ [row[s] EXCEPT !.index = a + 1].undone = row[s].undone
      BY <1>1 DEF Row
    <3> QED BY <1>2, <1>7, <3>2, <3>3, NoRowIsNoRow DEF Running
  <2>2. Running(s)' /\ ~Compensating(s)' /\ ~Settled(s)'
    BY <2>1 DEF Running, Compensating, Settled
  <2> QED BY <1>2, <1>7, <2>1, <2>2 DEF RowTells, StepIndex
<1>8. CASE SaveStep(w)
  <2>1. /\ row'[s] = [row[s] EXCEPT !.index = a + 1] /\ effects' = effects /\ a \in effects[s]
        /\ worker'[w] = Forward(s, a + 1, p)
    BY <1>1, <1>4, <1>8 DEF SaveStep, Is, InStep, TypeInv, SagaTypeOK
  <2>2. RowTells(s)' /\ Running(s)' /\ row'[s].index = a + 1
    BY <1>7, <2>1
  <2>3. a + 1 \in 0..Steps
    BY <1>2, SagaAssumption
  <2>4. /\ Forward(s, a + 1, p).saga = s /\ Forward(s, a + 1, p).at = a + 1
        /\ a + 1 = Steps => Forward(s, a + 1, p).pc = "complete"
        /\ a + 1 # Steps => Forward(s, a + 1, p).pc = "execute" /\ a + 1 \in StepIndex
    BY <1>1, <2>3, ForwardTypes
  <2>5. a + 1 \in StepIndex => a + 1 < Steps
    BY SagaAssumption DEF StepIndex
  <2>6. InStep(w)'
    BY <2>1, <2>2, <2>4, <2>5 DEF InStep
  <2> QED BY <2>2, <2>6
<1>9. CASE SaveStepFails(w)
  <2>1. /\ row'[s] = row[s] \/ row'[s] = [row[s] EXCEPT !.index = a + 1]
        /\ effects' = effects /\ a \in effects[s] /\ worker'[w] = Before("abort", s, a, p)
    BY <1>1, <1>4, <1>9 DEF SaveStepFails, Is, InStep, TypeInv, SagaTypeOK
  <2>2. RowTells(s)' /\ Running(s)'
    <3>1. CASE row'[s] = row[s]
      BY <1>2, <2>1, <3>1 DEF Running, Compensating, Settled, RowTells
    <3> QED BY <1>7, <2>1, <3>1
  <2>3. InStep(w)'
    <3>1. /\ Before("abort", s, a, p).pc = "abort" /\ Before("abort", s, a, p).saga = s
          /\ Before("abort", s, a, p).at = a
      BY <1>3
    <3> QED BY <1>2, <2>1, <2>2, <3>1 DEF InStep
  <2> QED BY <2>2, <2>3
<1> QED BY <1>5, <1>6, <1>8, <1>9

LEMMA BackwardTells ==
    ASSUME TypeInv, SagaInv, NEW w \in Worker, NEW s \in Own, s = worker[w].saga,
           Undo(w) \/ RecordUndo(w)
    PROVE  RowTells(s)' /\ InStep(w)'
<1> USE DEF Own
<1> DEFINE a == worker[w].at
           p == worker[w].host
<1>1. /\ worker[w] \in Busy /\ p \in Process /\ a \in StepIndex /\ a \in 0..Steps
      /\ worker[w] # Free /\ InStep(w) /\ row[s] # NoRow /\ row[s] \in Row
  BY BusyWorker, NoRowIsNoRow DEF Undo, RecordUndo, Is, TypeInv, SagaTypeOK, SagaInv, AtAStep
<1>2. /\ Compensating(s) /\ RowTells(s) /\ a + 1 = ResumeFrom(row[s]) /\ a \in Nat /\ a < Steps
      /\ effects[s] \subseteq StepIndex /\ Steps \in Nat
      /\ row[s].index < Steps /\ row[s].index \in Nat
      /\ row[s].undone # NotUndone => row[s].undone < row[s].index
      /\ \A i \in effects[s] : i < a + 1 \/ i = row[s].index
  <2>1. Compensating(s) /\ RowTells(s) /\ a + 1 = ResumeFrom(row[s])
    BY <1>1 DEF Undo, RecordUndo, Is, SagaInv, InStep
  <2>2. a \in Nat /\ a < Steps /\ Steps \in Nat /\ row[s].index \in Nat
    BY <1>1, SagaAssumption DEF StepIndex, Row
  <2>3. effects[s] \subseteq StepIndex
    BY DEF TypeInv, SagaTypeOK
  <2> QED BY <2>1, <2>2, <2>3 DEF RowTells
<1>3. a < row[s].index
  BY <1>1, <1>2 DEF ResumeFrom, Row, NotUndone
<1>4. ASSUME NEW next, Goes(w, next) PROVE worker'[w] = next
  BY <1>4 DEF Goes, TypeInv, SagaTypeOK, Worker
<1>5. CASE Undo(w)
  <2>1. row' = row /\ effects'[s] = effects[s] \ {a} /\ worker'[w] = Before("record", s, a, p)
    BY <1>4, <1>5 DEF Undo, TypeInv, SagaTypeOK
  <2>2. Compensating(s)' /\ ~Running(s)' /\ ~Settled(s)' /\ row'[s] # NoRow
    BY <1>2, <2>1 DEF Running, Compensating, Settled
  <2>3. RowTells(s)'
    BY <1>2, <2>1, <2>2 DEF RowTells
  <2>4. /\ Before("record", s, a, p).pc = "record" /\ Before("record", s, a, p).saga = s
        /\ Before("record", s, a, p).at = a
    BY <1>1, BeforeTypes
  <2>5. InStep(w)'
    BY <1>2, <2>1, <2>2, <2>4 DEF InStep
  <2> QED BY <2>3, <2>5
<1>6. CASE RecordUndo(w)
  <2>1. /\ row'[s] = [row[s] EXCEPT !.undone = a] /\ effects' = effects /\ a \notin effects[s]
        /\ worker'[w] = Backward(s, a, p)
    BY <1>1, <1>4, <1>6 DEF RecordUndo, Is, InStep, TypeInv, SagaTypeOK
  <2>2. /\ row'[s].status = "COMPENSATING" /\ row'[s].index = row[s].index
        /\ row'[s].undone = a /\ row'[s] # NoRow
    <3>1. [row[s] EXCEPT !.undone = a] \in Row
      BY <1>1, RowTypes DEF TypeInv
    <3>2. /\ [row[s] EXCEPT !.undone = a].status = row[s].status
          /\ [row[s] EXCEPT !.undone = a].index = row[s].index
          /\ [row[s] EXCEPT !.undone = a].undone = a
      BY <1>1 DEF Row
    <3> QED BY <1>2, <2>1, <3>1, <3>2, NoRowIsNoRow DEF Compensating
  <2>3. Compensating(s)' /\ ~Running(s)' /\ ~Settled(s)' /\ ResumeFrom(row'[s]) = a
    BY <1>2, <2>2 DEF Running, Compensating, Settled, ResumeFrom, NotUndone
  <2>4. \A i \in effects'[s] : i < a \/ i = row'[s].index
    BY <1>2, <2>1, <2>2 DEF StepIndex
  <2>5. RowTells(s)'
    BY <1>2, <1>3, <2>2, <2>3, <2>4 DEF RowTells
  <2>6. /\ Backward(s, a, p).saga = s
        /\ a = 0 => Backward(s, a, p).pc = "settle"
        /\ a # 0 => Backward(s, a, p).pc = "undo" /\ Backward(s, a, p).at = a - 1
    BY <1>1, BackwardTypes
  <2>7. a - 1 + 1 = a
    BY <1>2
  <2>8. InStep(w)'
    BY <2>1, <2>3, <2>6, <2>7 DEF InStep
  <2> QED BY <2>5, <2>8
<1> QED BY <1>5, <1>6

LEMMA EndTells ==
    ASSUME TypeInv, SagaInv, NEW w \in Worker, NEW s \in Own, s = worker[w].saga,
           EndCompensation(w) \/ Complete(w) \/ Throws(w)
    PROVE  RowTells(s)' /\ worker'[w] = Free
<1> USE DEF Own
<1>1. /\ worker[w] \in Busy /\ worker[w] # Free /\ InStep(w) /\ RowTells(s)
      /\ row[s] # NoRow /\ row[s] \in Row /\ effects[s] \subseteq StepIndex
  BY BusyWorker, NoRowIsNoRow
     DEF EndCompensation, Complete, Throws, Is, TypeInv, SagaTypeOK, SagaInv, AtAStep
<1>2. worker'[w] = Free
  BY DEF EndCompensation, Complete, Throws, Goes, TypeInv, SagaTypeOK, Worker
<1>3. CASE EndCompensation(w)
  <2>1. row'[s] = [row[s] EXCEPT !.status = "COMPENSATED"] /\ effects' = effects
    BY <1>3 DEF EndCompensation, TypeInv, SagaTypeOK
  <2>2. row'[s].status = "COMPENSATED" /\ row'[s].index = row[s].index /\ row'[s] # NoRow
    <3>1. [row[s] EXCEPT !.status = "COMPENSATED"] \in Row
      BY <1>1 DEF Row
    <3>2. /\ [row[s] EXCEPT !.status = "COMPENSATED"].status = "COMPENSATED"
          /\ [row[s] EXCEPT !.status = "COMPENSATED"].index = row[s].index
      BY <1>1 DEF Row
    <3> QED BY <2>1, <3>1, <3>2, NoRowIsNoRow
  <2>3. \A i \in effects[s] : i < 0 \/ i = row[s].index
    BY <1>1, <1>3 DEF EndCompensation, Is, InStep, RowTells
  <2>4. effects[s] \subseteq {row[s].index}
    BY <1>1, <2>3 DEF StepIndex
  <2>5. Settled(s)' /\ ~Running(s)' /\ ~Compensating(s)'
    BY <2>2 DEF Running, Compensating, Settled
  <2> QED BY <1>2, <2>1, <2>2, <2>4, <2>5 DEF RowTells
<1>4. CASE Complete(w)
  <2>1. row'[s] = [row[s] EXCEPT !.status = "COMPLETED"] /\ effects' = effects
    BY <1>4 DEF Complete, TypeInv, SagaTypeOK
  <2>2. row'[s].status = "COMPLETED" /\ row'[s] # NoRow
    BY <1>1, <2>1, NoRowIsNoRow DEF Row
  <2>3. \A i \in StepIndex : i < Steps => i \in effects[s]
    BY <1>1, <1>4 DEF Complete, Is, InStep, RowTells
  <2>4. effects[s] = StepIndex
    <3>1. \A i \in StepIndex : i < Steps
      BY SagaAssumption DEF StepIndex
    <3> QED BY <1>1, <2>3, <3>1
  <2>5. Settled(s)' /\ ~Running(s)' /\ ~Compensating(s)'
    BY <2>2 DEF Running, Compensating, Settled
  <2> QED BY <1>2, <2>1, <2>2, <2>4, <2>5 DEF RowTells
<1>5. CASE Throws(w)
  <2>1. UNCHANGED <<row, effects>>
    BY <1>5 DEF Throws
  <2> QED BY <1>1, <1>2, <2>1 DEF RowTells, Running, Compensating, Settled
<1> QED BY <1>3, <1>4, <1>5

(* Another saga's worker, and another saga's row, are not concerned.       *)
LEMMA WorksKeepsInv ==
    ASSUME TypeInv, SagaInv, NEW w \in Worker, NEW s \in Saga, s = worker[w].saga,
           NEW next, Works(w, next),
           s \in Own => RowTells(s)' /\ (worker'[w] # Free => InStep(w)')
    PROVE  SagaInv'
<1>1. /\ worker[w] # Free /\ worker'[w] = next
      /\ \A v \in Worker : v # w => worker'[v] = worker[v]
      /\ \A t \in Saga : t # s => row'[t] = row[t] /\ effects'[t] = effects[t]
      /\ UNCHANGED <<mode, interrupted, shared>>
      /\ next # Free => next.saga = s /\ next.host = worker[w].host
  BY DEF Works, Goes, TypeInv, SagaTypeOK, Worker
<1>2. \A v \in Worker, t \in Saga : Active(v, t)' => Active(v, t)
  BY <1>1 DEF Active
<1>3. Own' = Own /\ Own \subseteq Saga
  BY <1>1 DEF Own
<1>4. s \in Own => \A p \in Process : ~Waiting(p, s)
  BY <1>1 DEF SagaInv, Exclusive, Active
<1>5. Hosted'
  BY <1>1 DEF SagaInv, Hosted
<1>6. Exclusive'
  <2>1. ASSUME NEW t \in Own, NEW p \in Process, Waiting(p, t)'
        PROVE  /\ interrupted'[p][t] = row'[t] /\ Interrupted(t)'
               /\ \A v \in Worker : ~Active(v, t)'
               /\ \A q \in Process : Waiting(q, t)' => q = p
    <3>1. Waiting(p, t) /\ t # s /\ t \in Saga
      BY <1>1, <1>3, <1>4, <2>1 DEF Waiting
    <3> QED BY <1>1, <1>2, <3>1 DEF SagaInv, Exclusive, Interrupted, Waiting
  <2>2. \A t \in Own, u, v \in Worker : Active(u, t)' /\ Active(v, t)' => u = v
    BY <1>2, <1>3 DEF SagaInv, Exclusive
  <2> QED BY <1>3, <2>1, <2>2 DEF Exclusive
<1>7. ASSUME NEW t \in Own PROVE RowTells(t)'
  <2>1. CASE t # s
    BY <1>1, <1>3, <2>1 DEF SagaInv, RowTells, Running, Compensating, Settled
  <2> QED BY <2>1
<1>8. ASSUME NEW v \in Worker, worker'[v] # Free, worker'[v].saga \in Own PROVE InStep(v)'
  <2>1. CASE v # w
    <3>1. worker'[v] = worker[v] /\ worker[v].saga \in Saga /\ InStep(v)
      BY <1>1, <1>8, <2>1, BusyWorker DEF TypeInv, SagaInv
    <3>2. worker[v].saga # s
      BY <1>1, <1>8, <2>1, <3>1 DEF SagaInv, Exclusive, Active
    <3> QED BY <1>1, <3>1, <3>2 DEF InStep, Running, Compensating
  <2>2. CASE v = w
    BY <1>1, <1>8, <2>2
  <2> QED BY <2>1, <2>2
<1> QED BY <1>3, <1>5, <1>6, <1>7, <1>8 DEF SagaInv

LEMMA WorkKeepsInv ==
    ASSUME TypeInv, SagaInv, NEW w \in Worker, Proceeds(w) \/ Fails(w)
    PROVE  SagaInv'
<1>1. PICK next : Works(w, next) /\ (next # Free => AtAStep(w)')
  BY WorkSteps
<1>2. worker[w].saga \in Saga
  BY <1>1, BusyWorker DEF Works, TypeInv
<1>3. PICK s \in Saga : s = worker[w].saga
  BY <1>2
<1>4. ASSUME s \in Own PROVE RowTells(s)' /\ (worker'[w] # Free => InStep(w)')
  <2>1. CASE Execute(w) \/ StepFails(w) \/ SaveStep(w) \/ SaveStepFails(w)
    BY <1>3, <1>4, <2>1, ForwardTells
  <2>2. CASE Abort(w)
    BY <1>3, <1>4, <2>2, AbortTells
  <2>3. CASE Undo(w) \/ RecordUndo(w)
    BY <1>3, <1>4, <2>3, BackwardTells
  <2>4. CASE EndCompensation(w) \/ Complete(w) \/ Throws(w)
    BY <1>3, <1>4, <2>4, EndTells
  <2> QED BY <2>1, <2>2, <2>3, <2>4 DEF Proceeds, Fails
<1> QED BY <1>1, <1>3, <1>4, WorksKeepsInv

-----------------------------------------------------------------------------
(* The processes.  A step that changes no row and no effect, and takes     *)
(* work away at most, keeps what there is.                                 *)
LEMMA StopKeepsInv ==
    ASSUME TypeInv, SagaInv, Hosted', UNCHANGED <<row, effects, shared>>,
           \A w \in Worker : worker'[w] = worker[w] \/ worker'[w] = Free,
           \A q \in Process, s \in Saga :
              Waiting(q, s)' => Waiting(q, s) /\ interrupted'[q][s] = interrupted[q][s]
    PROVE  SagaInv'
<1>1. Own' = Own /\ Own \subseteq Saga
  BY DEF Own
<1>2. \A w \in Worker, s \in Saga : Active(w, s)' => Active(w, s)
  BY DEF Active
<1>3. Exclusive'
  <2>1. ASSUME NEW s \in Own, NEW q \in Process, Waiting(q, s)'
        PROVE  /\ interrupted'[q][s] = row'[s] /\ Interrupted(s)'
               /\ \A w \in Worker : ~Active(w, s)'
               /\ \A r \in Process : Waiting(r, s)' => r = q
    BY <1>1, <1>2, <2>1 DEF SagaInv, Exclusive, Interrupted
  <2>2. \A s \in Own, v, w \in Worker : Active(v, s)' /\ Active(w, s)' => v = w
    BY <1>1, <1>2 DEF SagaInv, Exclusive
  <2> QED BY <1>1, <2>1, <2>2 DEF Exclusive
<1>4. \A s \in Own : RowTells(s)'
  BY <1>1 DEF SagaInv, RowTells, Running, Compensating, Settled
<1>5. \A w \in Worker : worker'[w] # Free /\ worker'[w].saga \in Own => InStep(w)'
  BY DEF SagaInv, InStep, Running, Compensating
<1> QED BY <1>1, <1>3, <1>4, <1>5 DEF SagaInv

LEMMA BootKeepsInv ==
    ASSUME TypeInv, SagaInv, NEW p \in Process, Boot(p)
    PROVE  SagaInv'
<1>1. /\ UNCHANGED <<row, effects, worker, interrupted, shared>>
      /\ mode[p] = "down" /\ mode' = [mode EXCEPT ![p] = "booting"]
      /\ mode \in [Process -> {"down", "booting", "up"}]
  BY DEF Boot, TypeInv, SagaTypeOK
<1>2. Hosted'
  <2>1. \A w \in Worker : worker[w] # Free => worker[w].host \in Process
    BY BusyWorker DEF TypeInv
  <2> QED BY <1>1, <2>1 DEF SagaInv, Hosted
<1>3. \A q \in Process, s \in Saga :
         Waiting(q, s)' => Waiting(q, s) /\ interrupted'[q][s] = interrupted[q][s]
  BY <1>1 DEF Waiting
<1> QED BY <1>1, <1>2, <1>3, StopKeepsInv

LEMMA CrashKeepsInv ==
    ASSUME TypeInv, SagaInv, NEW p \in Process, Crash(p)
    PROVE  SagaInv'
<1>1. /\ UNCHANGED <<row, effects, shared>>
      /\ mode' = [mode EXCEPT ![p] = "down"]
      /\ mode \in [Process -> {"down", "booting", "up"}]
      /\ interrupted' = [interrupted EXCEPT ![p] = NothingRead]
      /\ interrupted \in [Process -> [Saga -> Row \cup {NoRow}]]
  BY DEF Crash, TypeInv, SagaTypeOK
<1>2. \A w \in Worker : worker'[w] = IF worker[w] # Free /\ worker[w].host = p
                                     THEN Free ELSE worker[w]
  BY DEF Crash, Worker
<1>3. Hosted'
  <2>1. \A w \in Worker : worker[w] # Free => worker[w].host \in Process
    BY BusyWorker DEF TypeInv
  <2>2. ASSUME NEW w \in Worker, worker'[w] # Free
        PROVE  worker'[w] = worker[w] /\ worker[w] # Free /\ worker[w].host # p
    BY <1>2, <2>2
  <2>3. \A q \in Process : mode'[q] # "up" => interrupted'[q] = NothingRead
    BY <1>1 DEF SagaInv, Hosted
  <2> QED BY <1>1, <2>1, <2>2, <2>3 DEF SagaInv, Hosted
<1>4. \A q \in Process, s \in Saga :
         Waiting(q, s)' => Waiting(q, s) /\ interrupted'[q][s] = interrupted[q][s]
  BY <1>1 DEF Waiting, NothingRead
<1> QED BY <1>1, <1>2, <1>3, <1>4, StopKeepsInv

(* Whatever a recovery reads in somebody's hands is shared from then on;   *)
(* the rest waits for it alone.                                            *)
LEMMA ScanKeepsInv ==
    ASSUME TypeInv, SagaInv, NEW p \in Process, Scan(p)
    PROVE  SagaInv'
<1>1. /\ UNCHANGED <<row, effects, worker>>
      /\ mode[p] = "booting" /\ mode' = [mode EXCEPT ![p] = "up"]
      /\ mode \in [Process -> {"down", "booting", "up"}]
      /\ shared' = shared \cup {s \in Saga : Interrupted(s) /\ InHands(s)}
      /\ \A q \in Process : q # p => interrupted'[q] = interrupted[q]
      /\ \A s \in Saga : interrupted'[p][s] = IF Interrupted(s) THEN row[s] ELSE NoRow
  BY DEF Scan, Reads, TypeInv, SagaTypeOK
<1>2. /\ Own' \subseteq Own /\ Own' \subseteq Saga
      /\ \A s \in Own' : Interrupted(s) => ~InHands(s)
  BY <1>1 DEF Own
<1>3. interrupted[p] = NothingRead
  BY <1>1 DEF SagaInv, Hosted
<1>4. Hosted'
  BY <1>1 DEF SagaInv, Hosted
<1>5. Exclusive'
  <2>1. ASSUME NEW s \in Own', NEW q \in Process, Waiting(q, s)'
        PROVE  /\ interrupted'[q][s] = row'[s] /\ Interrupted(s)'
               /\ \A w \in Worker : ~Active(w, s)'
               /\ \A r \in Process : Waiting(r, s)' => r = q
    <3>1. s \in Own /\ s \in Saga
      BY <1>2, <2>1
    <3>2. CASE q = p
      <4>1. Interrupted(s) /\ interrupted'[q][s] = row[s]
        BY <1>1, <2>1, <3>1, <3>2 DEF Waiting
      <4>2. ~InHands(s)
        BY <1>2, <2>1, <4>1
      <4>3. \A r \in Process : Waiting(r, s)' => r = q
        BY <1>1, <3>2, <4>2 DEF InHands, Waiting
      <4> QED BY <1>1, <4>1, <4>2, <4>3 DEF InHands, Active, Interrupted, Worker
    <3>3. CASE q # p
      <4>1. Waiting(q, s)
        BY <1>1, <2>1, <3>3 DEF Waiting
      <4>2. FALSE
        BY <1>2, <2>1, <3>1, <4>1 DEF SagaInv, Exclusive, InHands
      <4> QED BY <4>2
    <3> QED BY <3>2, <3>3
  <2>2. \A s \in Own', v, w \in Worker : Active(v, s)' /\ Active(w, s)' => v = w
    BY <1>1, <1>2 DEF SagaInv, Exclusive, Active
  <2> QED BY <2>1, <2>2 DEF Exclusive
<1>6. \A s \in Own' : RowTells(s)'
  BY <1>1, <1>2 DEF SagaInv, RowTells, Running, Compensating, Settled
<1>7. \A w \in Worker : worker'[w] # Free /\ worker'[w].saga \in Own' => InStep(w)'
  BY <1>1, <1>2 DEF SagaInv, InStep, Running, Compensating
<1> QED BY <1>4, <1>5, <1>6, <1>7 DEF SagaInv

LEMMA RunKeepsInv ==
    ASSUME TypeInv, SagaInv, NEW p \in Process, NEW s \in Saga, Run(p, s)
    PROVE  SagaInv'
<1> DEFINE next == Forward(s, 0, p)
<1>1. 0 \in 0..Steps /\ Steps # 0 /\ 0 < Steps
  BY SagaAssumption
<1>2. /\ next \in Busy /\ next.saga = s /\ next.host = p
      /\ next.pc = "execute" /\ next.at = 0
  BY <1>1, ForwardTypes
<1> HIDE DEF next
<1>3. /\ UNCHANGED <<mode, interrupted, effects, shared>>
      /\ mode[p] # "down" /\ row[s] = NoRow
      /\ row'[s] = [status |-> "RUNNING", index |-> 0, undone |-> NotUndone]
      /\ \A t \in Saga : t # s => row'[t] = row[t]
      /\ worker'[s] = next /\ \A w \in Worker : w # s => worker'[w] = worker[w]
  BY DEF Run, TypeInv, SagaTypeOK, Goes, Worker, next
<1>4. (\A w \in Worker : ~Active(w, s)) /\ (\A q \in Process : ~Waiting(q, s))
  BY <1>3 DEF TypeInv, AtAStep, Active
<1>5. \A w \in Worker, t \in Saga : Active(w, t)' => \/ w = s /\ t = s
                                                     \/ w # s /\ t # s /\ Active(w, t)
  BY <1>2, <1>3, <1>4 DEF Active
<1>6. Own' = Own /\ Own \subseteq Saga
  BY <1>3 DEF Own
<1>7. Hosted'
  <2>1. s \notin Process
    BY SagaAssumption
  <2> QED BY <1>2, <1>3, <2>1 DEF SagaInv, Hosted
<1>8. Exclusive'
  <2>1. ASSUME NEW t \in Own, NEW q \in Process, Waiting(q, t)'
        PROVE  /\ interrupted'[q][t] = row'[t] /\ Interrupted(t)'
               /\ \A w \in Worker : ~Active(w, t)'
               /\ \A r \in Process : Waiting(r, t)' => r = q
    <3>1. Waiting(q, t) /\ t # s /\ t \in Saga
      BY <1>3, <1>4, <1>6, <2>1 DEF Waiting
    <3> QED BY <1>3, <1>5, <3>1 DEF SagaInv, Exclusive, Interrupted, Waiting
  <2>2. \A t \in Own, v, w \in Worker : Active(v, t)' /\ Active(w, t)' => v = w
    BY <1>5, <1>6 DEF SagaInv, Exclusive
  <2> QED BY <1>6, <2>1, <2>2 DEF Exclusive
<1>9. /\ Running(s)' /\ ~Compensating(s)' /\ ~Settled(s)' /\ row'[s] # NoRow
      /\ row'[s].index = 0 /\ row'[s].undone = NotUndone
  BY <1>3 DEF Running, Compensating, Settled, NoRow
<1>10. ASSUME NEW t \in Own PROVE RowTells(t)'
  <2>1. CASE t = s
    <3>1. effects[s] = {}
      BY <1>3, <1>10, <2>1 DEF SagaInv, RowTells
    <3> QED BY <1>3, <1>9, <2>1, <3>1 DEF RowTells, StepIndex
  <2>2. CASE t # s
    BY <1>3, <1>6, <2>2 DEF SagaInv, RowTells, Running, Compensating, Settled
  <2> QED BY <2>1, <2>2
<1>11. ASSUME NEW w \in Worker, worker'[w] # Free, worker'[w].saga \in Own PROVE InStep(w)'
  <2>1. CASE w = s
    BY <1>1, <1>2, <1>3, <1>9, <2>1 DEF InStep
  <2>2. CASE w # s
    <3>1. worker'[w] = worker[w] /\ worker[w].saga \in Saga /\ worker[w].saga # s /\ InStep(w)
      BY <1>3, <1>4, <1>11, <2>2, BusyWorker DEF Active, TypeInv, SagaInv
    <3> QED BY <1>3, <3>1 DEF InStep, Running, Compensating
  <2> QED BY <2>1, <2>2
<1> QED BY <1>6, <1>7, <1>8, <1>10, <1>11 DEF SagaInv

LEMMA ResumeKeepsInv ==
    ASSUME TypeInv, SagaInv, NEW p \in Process, NEW s \in Saga, Resume(p, s)
    PROVE  SagaInv'
<1> DEFINE r == interrupted[p][s]
           next == IF r.status = "RUNNING" THEN Forward(s, r.index, p)
                   ELSE Backward(s, ResumeFrom(r), p)
<1>1. Waiting(p, s) /\ r \in Row /\ worker[p] = Free
  BY DEF Resume, Waiting, TypeInv, SagaTypeOK
<1>2. r.index \in 0..Steps /\ ResumeFrom(r) \in 0..Steps
  BY <1>1, ResumeTypes
<1>3. next # Free /\ next.saga = s /\ next.host = p
  BY <1>2, ForwardTypes, BackwardTypes, FreeIsNotBusy
<1>4. /\ UNCHANGED <<row, effects, mode, shared>>
      /\ worker'[p] = next /\ \A w \in Worker : w # p => worker'[w] = worker[w]
  BY DEF Resume, Goes, TypeInv, SagaTypeOK, Worker
<1>5. ~Waiting(p, s)'
      /\ \A q \in Process, t \in Saga : Waiting(q, t)' =>
            Waiting(q, t) /\ interrupted'[q][t] = interrupted[q][t]
  BY DEF Resume, Waiting, TypeInv, SagaTypeOK
<1>6. mode[p] = "up"
  BY <1>1 DEF SagaInv, Hosted, Waiting, NothingRead
<1>7. Own' = Own /\ Own \subseteq Saga
  BY <1>4 DEF Own
<1>8. ASSUME s \in Own
      PROVE  r = row[s] /\ Interrupted(s) /\ RowTells(s) /\ \A w \in Worker : ~Active(w, s)
  BY <1>1, <1>8 DEF SagaInv, Exclusive
<1>9. ASSUME s \in Own PROVE InStep(p)'
  <2>1. CASE r.status = "RUNNING"
    <3>1. /\ next.at = r.index
          /\ r.index = Steps => next.pc = "complete"
          /\ r.index # Steps => next.pc = "execute" /\ r.index \in StepIndex
      BY <1>2, <2>1, ForwardTypes
    <3>2. r.index \in StepIndex => r.index < Steps
      BY SagaAssumption DEF StepIndex
    <3>3. Running(s)' /\ row'[s] = r
      BY <1>4, <1>8, <1>9, <2>1 DEF Running, Interrupted
    <3> HIDE DEF next, r
    <3> QED BY <1>3, <1>4, <3>1, <3>2, <3>3 DEF InStep
  <2>2. CASE r.status # "RUNNING"
    <3>1. /\ ResumeFrom(r) = 0 => next.pc = "settle"
          /\ ResumeFrom(r) # 0 => next.pc = "undo" /\ next.at = ResumeFrom(r) - 1
      BY <1>2, <2>2, BackwardTypes
    <3>2. ResumeFrom(r) - 1 + 1 = ResumeFrom(r)
      BY <1>2
    <3>3. Compensating(s)' /\ row'[s] = r
      BY <1>4, <1>8, <1>9, <2>2 DEF Compensating, Interrupted
    <3> HIDE DEF next, r
    <3> QED BY <1>3, <1>4, <3>1, <3>2, <3>3 DEF InStep
  <2> QED BY <2>1, <2>2
<1> HIDE DEF next, r
<1>10. \A w \in Worker, t \in Saga : Active(w, t)' => \/ w = p /\ t = s
                                                      \/ w # p /\ Active(w, t)
  BY <1>3, <1>4 DEF Active
<1>11. Hosted'
  <2>1. p \notin Saga
    BY SagaAssumption
  <2>2. ASSUME NEW q \in Process, mode'[q] # "up" PROVE interrupted'[q] = NothingRead
    <3>1. q # p /\ interrupted[q] = NothingRead
      BY <1>4, <1>6, <2>2 DEF SagaInv, Hosted
    <3> QED BY <3>1 DEF Resume, TypeInv, SagaTypeOK
  <2> QED BY <1>3, <1>4, <1>6, <2>1, <2>2 DEF SagaInv, Hosted
<1>12. Exclusive'
  <2>1. ASSUME NEW t \in Own, NEW q \in Process, Waiting(q, t)'
        PROVE  /\ interrupted'[q][t] = row'[t] /\ Interrupted(t)'
               /\ \A w \in Worker : ~Active(w, t)'
               /\ \A o \in Process : Waiting(o, t)' => o = q
    <3>1. Waiting(q, t) /\ t \in Saga /\ interrupted'[q][t] = interrupted[q][t]
      BY <1>5, <1>7, <2>1
    <3>2. t # s
      BY <1>1, <1>5, <2>1, <3>1 DEF SagaInv, Exclusive
    <3> QED BY <1>4, <1>5, <1>10, <3>1, <3>2 DEF SagaInv, Exclusive, Interrupted
  <2>2. ASSUME NEW t \in Own, NEW v \in Worker, NEW w \in Worker, Active(v, t)', Active(w, t)'
        PROVE  v = w
    <3>1. CASE t = s
      BY <1>8, <1>10, <2>2, <3>1
    <3>2. CASE t # s
      BY <1>7, <1>10, <2>2, <3>2 DEF SagaInv, Exclusive
    <3> QED BY <3>1, <3>2
  <2> QED BY <1>7, <2>1, <2>2 DEF Exclusive
<1>13. \A t \in Own : RowTells(t)'
  BY <1>4, <1>7 DEF SagaInv, RowTells, Running, Compensating, Settled
<1>14. ASSUME NEW w \in Worker, worker'[w] # Free, worker'[w].saga \in Own PROVE InStep(w)'
  <2>1. CASE w # p
    BY <1>4, <1>14, <2>1 DEF SagaInv, InStep, Running, Compensating
  <2>2. CASE w = p
    BY <1>3, <1>4, <1>9, <1>14, <2>2
  <2> QED BY <2>1, <2>2
<1> QED BY <1>7, <1>11, <1>12, <1>13, <1>14 DEF SagaInv

-----------------------------------------------------------------------------
Inv == TypeInv /\ SagaInv

LEMMA InvHolds == SagaSpec => []Inv
<1>1. SagaInit => Inv
  <2> SUFFICES ASSUME SagaInit PROVE Inv
    OBVIOUS
  <2>1. TypeInv
    BY SagaAssumption DEF SagaInit, TypeInv, SagaTypeOK, NothingRead, Waiting, Worker
  <2>2. \A w \in Worker : worker[w] = Free
    BY DEF SagaInit, Worker
  <2>3. Hosted /\ Exclusive
    BY <2>2 DEF SagaInit, Hosted, Exclusive, Active, Waiting, NothingRead, Own
  <2>4. \A s \in Own : RowTells(s)
    BY DEF SagaInit, RowTells, Running, Compensating, Settled, Own
  <2> QED BY <2>1, <2>2, <2>3, <2>4 DEF Inv, SagaInv
<1>2. Inv /\ [SagaNext]_sagaVars => Inv'
  <2> SUFFICES ASSUME Inv, [SagaNext]_sagaVars PROVE SagaInv'
    BY TypesStep DEF Inv
  <2>1. ASSUME NEW w \in Worker, Proceeds(w) \/ Fails(w) PROVE SagaInv'
    BY <2>1, WorkKeepsInv DEF Inv
  <2>2. ASSUME NEW p \in Process, ProcessStep(p) PROVE SagaInv'
    BY <2>2, BootKeepsInv, ScanKeepsInv, CrashKeepsInv, RunKeepsInv, ResumeKeepsInv
       DEF Inv, ProcessStep
  <2>3. CASE UNCHANGED sagaVars
    BY <2>3 DEF sagaVars, counters, Inv, SagaInv, Hosted, Exclusive, RowTells, InStep, Active,
                Waiting, Interrupted, Running, Compensating, Settled, Own
  <2> QED BY <2>1, <2>2, <2>3 DEF SagaNext, Worker
<1> QED BY <1>1, <1>2, PTL DEF SagaSpec

(* However many sagas and processes run, whatever crashes, fails, throws   *)
(* and is taken over, a saga that no recovery read in somebody's hands is  *)
(* settled as a whole: completed with all its effects, or compensated with *)
(* none but possibly that of the step it failed at                         *)
(* (sagaCoordinator.ts:142-214).                                           *)
THEOREM SagasSettleWhole ==
    SagaSpec => []AllOrNothing
<1>1. Inv => AllOrNothing
  BY DEF Inv, SagaInv, RowTells, AllOrNothing, Own
<1> QED BY <1>1, InvHolds, PTL

(* A worker belongs to a saga that is not settled, or is shared.           *)
LEMMA WorkIsUnsettled ==
    ASSUME Inv, NEW w \in Worker, worker[w] # Free, worker[w].saga \in Own
    PROVE  worker[w].saga \in Saga /\ ~Settled(worker[w].saga)
<1>1. worker[w] \in Busy /\ worker[w].saga \in Saga /\ InStep(w)
  BY BusyWorker DEF Inv, TypeInv, SagaInv
<1>2. Running(worker[w].saga) \/ Compensating(worker[w].saga)
  BY <1>1 DEF Busy, InStep
<1> QED BY <1>1, <1>2 DEF Running, Compensating, Settled

(* The row and the effects of a settled saga are final, unless a recovery  *)
(* read its row while somebody was at work on it: no other row that waits  *)
(* to be resumed is that of a settled saga (sagaCoordinator.ts:110-139).   *)
THEOREM SettledSagasStay ==
    SagaSpec => SettledIsFinal
<1> DEFINE Stays == \A s \in Saga \ shared : Settled(s) => row'[s] = row[s] /\ effects'[s] = effects[s]
<1>1. Inv /\ [SagaNext]_sagaVars => [Stays]_sagaVars
  <2> SUFFICES ASSUME Inv, SagaNext, NEW s \in Saga \ shared, Settled(s)
               PROVE  row'[s] = row[s] /\ effects'[s] = effects[s]
    OBVIOUS
  <2>1. ASSUME NEW w \in Worker, Proceeds(w) \/ Fails(w)
        PROVE  row'[s] = row[s] /\ effects'[s] = effects[s]
    <3>1. PICK next : Works(w, next)
      BY <2>1, WorkSteps DEF Inv
    <3>2. worker[w].saga # s
      BY <3>1, WorkIsUnsettled DEF Works, Own
    <3> QED BY <3>1, <3>2 DEF Works
  <2>2. ASSUME NEW p \in Process, ProcessStep(p)
        PROVE  row'[s] = row[s] /\ effects'[s] = effects[s]
    <3>1. CASE Boot(p) \/ Scan(p) \/ Crash(p)
      BY <3>1 DEF Boot, Scan, Reads, Crash
    <3>2. ASSUME NEW t \in Saga, Run(p, t) PROVE row'[s] = row[s] /\ effects'[s] = effects[s]
      BY <3>2 DEF Run, Settled, Inv, TypeInv, SagaTypeOK
    <3>3. ASSUME NEW t \in Saga, Resume(p, t) PROVE row'[s] = row[s] /\ effects'[s] = effects[s]
      BY <3>3 DEF Resume
    <3> QED BY <2>2, <3>1, <3>2, <3>3 DEF ProcessStep
  <2> QED BY <2>1, <2>2 DEF SagaNext, Worker
<1> QED BY <1>1, InvHolds, PTL DEF SagaSpec, SettledIsFinal

(* A step of a saga that is not shared is undone only when all later ones  *)
(* are, but for the one that failed, also across crashes and takeovers by  *)
(* other processes (sagaCoordinator.ts:19).                                *)
THEOREM SagasUndoInReverse ==
    SagaSpec => ReverseOrder
<1> DEFINE Reverse == \A s \in Saga \ shared : \A i \in effects[s] \ effects'[s] : \A j \in effects'[s] :
                          j < i \/ j = row[s].index
<1>1. Inv /\ [SagaNext]_sagaVars => [Reverse]_sagaVars
  <2> SUFFICES ASSUME Inv, SagaNext, NEW s \in Saga \ shared, NEW i \in effects[s] \ effects'[s],
                      NEW j \in effects'[s]
               PROVE  j < i \/ j = row[s].index
    OBVIOUS
  <2>1. ASSUME NEW w \in Worker, Undo(w) PROVE j < i \/ j = row[s].index
    <3> DEFINE a == worker[w].at
    <3>1. worker[w].saga \in Saga /\ a \in StepIndex
      BY <2>1, BusyWorker DEF Undo, Is, Inv, TypeInv, AtAStep
    <3>2. worker[w].saga = s /\ i = a /\ j # a /\ j \in effects[s] /\ j \in StepIndex
      BY <2>1, <3>1 DEF Undo, Inv, TypeInv, SagaTypeOK
    <3>3. s \in Own /\ InStep(w)
      BY <2>1, <3>2 DEF Undo, Is, Inv, SagaInv, Own
    <3>4. Compensating(s) /\ a + 1 = ResumeFrom(row[s])
      BY <2>1, <3>1, <3>2, <3>3 DEF Undo, Is, InStep
    <3>5. j < a + 1 \/ j = row[s].index
      BY <3>2, <3>3, <3>4 DEF Inv, SagaInv, RowTells
    <3> QED BY <3>1, <3>2, <3>5 DEF StepIndex
  <2>2. ASSUME NEW w \in Worker, Proceeds(w) \/ Fails(w), ~Undo(w) PROVE effects[s] \subseteq effects'[s]
    <3>1. CASE Execute(w)
      BY <3>1 DEF Execute, Inv, TypeInv, SagaTypeOK
    <3>2. CASE ~Execute(w)
      BY <2>2, <3>2 DEF Proceeds, Fails, SaveStep, Abort, RecordUndo, EndCompensation, Complete,
                        StepFails, SaveStepFails, Throws
    <3> QED BY <3>1, <3>2
  <2>3. ASSUME NEW p \in Process, ProcessStep(p) PROVE effects' = effects
    BY <2>3 DEF ProcessStep, Boot, Scan, Reads, Crash, Run, Resume
  <2> QED BY <2>1, <2>2, <2>3 DEF SagaNext, Worker
<1> QED BY <1>1, InvHolds, PTL DEF SagaSpec, ReverseOrder
=============================================================================
