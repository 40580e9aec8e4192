---------------------------- MODULE EventListener ----------------------------
(***************************************************************************)
(* The Stellar event listener and its durable cursor, driven by leader     *)
(* election (backend/src/services/stellarEventListener.ts and              *)
(* eventCursorStore.ts).  The election's callbacks run in the step that    *)
(* handles the election's answer; every await of the listener ends a step. *)
(*                                                                         *)
(* Abstracted: the contract's events are numbered 1..tip and each closes a *)
(* ledger of its own, so a cursor is the number of the last event, NoEvent *)
(* when there is none.  What processing an event does is its number in     *)
(* handled: processEvent swallows every error, so an attempt is all that   *)
(* the loop guarantees.  Back-off delays, metrics and the chain head       *)
(* refresh are left out; giving up after the last retry is a crash of the  *)
(* process, for nothing handles the rejection of pollEvents.               *)
(***************************************************************************)
EXTENDS LeaderElection

CONSTANTS
    MaxEvents,      \* bound: events the contract emits
    MaxCatchup      \* MAX_CATCHUP_LEDGERS

ASSUME EventBoundsAssumption == MaxEvents \in Nat /\ MaxCatchup \in Nat

VARIABLES
    tip,            \* events emitted so far, on Horizon
    cursor,         \* the cursor row in the database
    handled,        \* events that processEvent was run on
    isRunning, lastCursor, fence,   \* the listener's fields, fence = fencingToken
    task,           \* runs of onBecameLeader and the poll loop it starts
    stopSave        \* cursor that stop() is saving, NoEvent if it is not

listenerVars == <<isRunning, lastCursor, fence, task, stopSave>>
eventVars == <<electionVars, tip, cursor, handled, listenerVars>>

NoEvent == 0
Idle == [pc |-> "idle", ev |-> 0, upto |-> 0]

Task == [pc : {"idle", "load", "catchup", "fetch", "validate", "process", "save", "sleep"},
         ev : Nat, upto : Nat]

EventInit ==
    /\ ElectionInit
    /\ tip = 0 /\ cursor = NoEvent /\ handled = {}
    /\ isRunning = [i \in Instance |-> FALSE]
    /\ lastCursor = [i \in Instance |-> NoEvent]
    /\ fence = [i \in Instance |-> NoToken]
    /\ task = [i \in Instance |-> [c \in Caller |-> Idle]]
    /\ stopSave = [i \in Instance |-> NoEvent]

At(i, c, pc) == Alive(i) /\ task[i][c].pc = pc
Goto(i, c, pc) == task' = [task EXCEPT ![i][c].pc = pc]

Emit ==
    /\ tip < MaxEvents
    /\ tip' = tip + 1
    /\ UNCHANGED <<electionVars, cursor, handled, listenerVars>>

-----------------------------------------------------------------------------
(* The callbacks of leader election.                                       *)

(* Mutation: the token is read from Redis when the callback runs.          *)
ElectedReadsCounter(i) ==
    /\ BecomesLeader(i)
    /\ AcquireAnswered(i)
    /\ fence' = [fence EXCEPT ![i] = Counter]
    /\ IF isRunning[i] THEN UNCHANGED task
       ELSE \E c \in Caller : At(i, c, "idle") /\ Goto(i, c, "load")
    /\ UNCHANGED <<tip, cursor, handled, isRunning, lastCursor, stopSave>>

(* onBecameLeader: a listener that runs keeps its loop; one that does not  *)
(* begins by loading the durable cursor.                                   *)
Elected(i) ==
    /\ BecomesLeader(i)
    /\ AcquireAnswered(i)
    /\ fence' = [fence EXCEPT ![i] = Oldest(i).token]
    /\ IF isRunning[i] THEN UNCHANGED task
       ELSE \E c \in Caller : At(i, c, "idle") /\ Goto(i, c, "load")
    /\ UNCHANGED <<tip, cursor, handled, isRunning, lastCursor, stopSave>>

HaltWhen(i, lost) ==
    /\ isRunning' = [isRunning EXCEPT ![i] = @ /\ ~lost]
    /\ fence' = [fence EXCEPT ![i] = IF lost THEN NoToken ELSE @]

(* onLostLeadership is raised only by a process that led.                  *)
RenewedOrRefused(i) ==
    /\ ~BecomesLeader(i)
    /\ AcquireAnswered(i)
    /\ HaltWhen(i, LosesToOther(i))
    /\ UNCHANGED <<tip, cursor, handled, lastCursor, task, stopSave>>

AttemptRejected(i) ==
    /\ AcquireRejected(i)
    /\ HaltWhen(i, leader[i])
    /\ UNCHANGED <<tip, cursor, handled, lastCursor, task, stopSave>>

-----------------------------------------------------------------------------
(* The ingestion loop.                                                     *)

(* The poll loop begins or goes round: fetch from the cursor in memory.    *)
Poll(i, c, from) ==
    task' = [task EXCEPT ![i][c] = [pc |-> "fetch", ev |-> from + 1, upto |-> 0]]

(* onBecameLeader, after its awaits; nobody asks whether leadership, or    *)
(* the process, is still there.                                            *)
Load(i, c) ==
    /\ At(i, c, "load")
    /\ lastCursor' = [lastCursor EXCEPT ![i] = cursor]
    /\ IF cursor = NoEvent
         THEN /\ isRunning' = [isRunning EXCEPT ![i] = TRUE]
              /\ Poll(i, c, cursor)
         ELSE Goto(i, c, "catchup") /\ UNCHANGED isRunning
    /\ UNCHANGED <<electionVars, tip, cursor, handled, fence, stopSave>>

(* applyCatchupPolicyIfNeeded: too far behind drops the cursor in memory;  *)
(* the chain head may be unknown or out of date.                           *)
CatchUp(i, c) ==
    /\ At(i, c, "catchup")
    /\ \E from \in {lastCursor[i]} \cup IF tip - cursor > MaxCatchup THEN {NoEvent} ELSE {} :
          /\ lastCursor' = [lastCursor EXCEPT ![i] = from]
          /\ Poll(i, c, from)
    /\ isRunning' = [isRunning EXCEPT ![i] = TRUE]
    /\ UNCHANGED <<electionVars, tip, cursor, handled, fence, stopSave>>

(* The loop turns to event ev: with a token it asks whether it still holds,*)
(* without one it halts.                                                   *)
TurnTo(i, c, ev, upto) ==
    IF fence[i] = NoToken
      THEN /\ HaltWhen(i, TRUE)
           /\ Goto(i, c, "sleep")
           /\ UNCHANGED electionVars
      ELSE /\ Validate(i, c, fence[i])
           /\ task' = [task EXCEPT ![i][c] = [pc |-> "validate", ev |-> ev, upto |-> upto]]
           /\ UNCHANGED <<isRunning, fence>>

(* Horizon answers with the events after the cursor that was sent.         *)
Fetch(i, c) ==
    LET ev == task[i][c].ev
    IN  /\ At(i, c, "fetch")
        /\ IF ev > tip
             THEN Goto(i, c, "sleep") /\ UNCHANGED <<electionVars, isRunning, fence>>
             ELSE TurnTo(i, c, ev, tip)
        /\ UNCHANGED <<tip, cursor, handled, lastCursor, stopSave>>

Validated(i) ==
    /\ ValidateAnswered(i)
    /\ LET c == Oldest(i).by
           valid == Oldest(i).status = 1
       IN  /\ Goto(i, c, IF valid THEN "process" ELSE "sleep")
           /\ HaltWhen(i, ~valid)
    /\ UNCHANGED <<tip, cursor, handled, lastCursor, stopSave>>

ValidationFails(i) ==
    /\ ValidateRejected(i)
    /\ Goto(i, OldestUnderWay(i).by, "sleep")
    /\ UNCHANGED <<tip, cursor, handled, isRunning, lastCursor, fence, stopSave>>

(* Mutation: the cursor is saved before the event is processed.            *)
ProcessSavesFirst(i, c) ==
    /\ At(i, c, "process")
    /\ cursor' = task[i][c].ev
    /\ lastCursor' = [lastCursor EXCEPT ![i] = task[i][c].ev]
    /\ Goto(i, c, "save")
    /\ UNCHANGED <<electionVars, tip, handled, isRunning, fence, stopSave>>

(* processEvent is over; the cursor moves in memory and save() is called.  *)
Process(i, c) ==
    /\ At(i, c, "process")
    /\ handled' = handled \cup {task[i][c].ev}
    /\ lastCursor' = [lastCursor EXCEPT ![i] = task[i][c].ev]
    /\ Goto(i, c, "save")
    /\ UNCHANGED <<electionVars, tip, cursor, isRunning, fence, stopSave>>

(* Mutation: the rest of the batch goes through on the first validation.   *)
SaveAndGoOn(i, c) ==
    LET t == task[i][c]
    IN  /\ At(i, c, "save")
        /\ cursor' = t.ev
        /\ task' = [task EXCEPT ![i][c] =
              IF t.ev < t.upto THEN [t EXCEPT !.pc = "process", !.ev = @ + 1]
                               ELSE [t EXCEPT !.pc = "sleep"]]
        /\ UNCHANGED <<electionVars, isRunning, fence, tip, handled, lastCursor, stopSave>>

(* The row is written; the next event of the batch, or the pause.          *)
Save(i, c) ==
    LET t == task[i][c]
    IN  /\ At(i, c, "save")
        /\ cursor' = t.ev
        /\ IF t.ev < t.upto
             THEN TurnTo(i, c, t.ev + 1, t.upto)
             ELSE Goto(i, c, "sleep") /\ UNCHANGED <<electionVars, isRunning, fence>>
        /\ UNCHANGED <<tip, handled, lastCursor, stopSave>>

(* Horizon or the database fails: the poll is over, the loop is not.       *)
PollFails(i, c) ==
    /\ At(i, c, "fetch") \/ At(i, c, "save")
    /\ errors < MaxErrors
    /\ errors' = errors + 1
    /\ Goto(i, c, "sleep")
    /\ UNCHANGED <<redisVars, pipeVars, localVars, tip, cursor, handled,
                   isRunning, lastCursor, fence, stopSave>>

(* The delay is over: the loop looks at isRunning.                         *)
Wake(i, c) ==
    /\ At(i, c, "sleep")
    /\ IF isRunning[i] THEN Poll(i, c, lastCursor[i])
       ELSE task' = [task EXCEPT ![i][c] = Idle]
    /\ UNCHANGED <<electionVars, tip, cursor, handled, isRunning, lastCursor, fence, stopSave>>

-----------------------------------------------------------------------------
(* stop(): saves the cursor in memory, if any, and then stops the election.*)

StopListener(i) ==
    /\ mode[i] = "up" /\ stopSave[i] = NoEvent
    /\ isRunning' = [isRunning EXCEPT ![i] = FALSE]
    /\ stopSave' = [stopSave EXCEPT ![i] = lastCursor[i]]
    /\ IF lastCursor[i] = NoEvent THEN Stop(i) ELSE UNCHANGED electionVars
    /\ UNCHANGED <<tip, cursor, handled, lastCursor, fence, task>>

(* The save is done, or has failed and is only logged.                     *)
StopSaved(i) ==
    /\ stopSave[i] # NoEvent
    /\ cursor' \in {cursor, stopSave[i]}
    /\ stopSave' = [stopSave EXCEPT ![i] = NoEvent]
    /\ Stop(i)
    /\ UNCHANGED <<tip, handled, isRunning, lastCursor, fence, task>>

(* The memory of a process is gone with it.                                *)
CrashListener(i) ==
    /\ Crash(i)
    /\ isRunning' = [isRunning EXCEPT ![i] = FALSE]
    /\ lastCursor' = [lastCursor EXCEPT ![i] = NoEvent]
    /\ fence' = [fence EXCEPT ![i] = NoToken]
    /\ task' = [task EXCEPT ![i] = [c \in Caller |-> Idle]]
    /\ stopSave' = [stopSave EXCEPT ![i] = NoEvent]
    /\ UNCHANGED <<tip, cursor, handled>>

-----------------------------------------------------------------------------
(* Steps of the election that raise no callback.                           *)
ElectionStep(i) ==
    /\ Start(i) \/ Beat(i) \/ Exec(i) \/ ReleaseAnswered(i) \/ ReleaseRejected(i)
    /\ UNCHANGED <<tip, cursor, handled, listenerVars>>

LeaseLapses == Lapse /\ UNCHANGED <<tip, cursor, handled, listenerVars>>

LoopStep(i, c) ==
    Load(i, c) \/ CatchUp(i, c) \/ Fetch(i, c) \/ Process(i, c) \/ Save(i, c) \/ Wake(i, c)

ListenerStep(i) ==
    \/ ElectionStep(i)
    \/ Elected(i) \/ RenewedOrRefused(i) \/ AttemptRejected(i)
    \/ Validated(i) \/ ValidationFails(i)
    \/ \E c \in Caller : LoopStep(i, c) \/ PollFails(i, c)
    \/ StopListener(i) \/ StopSaved(i) \/ CrashListener(i)

EventNext ==
    \/ Emit
    \/ LeaseLapses
    \/ \E i \in Instance : ListenerStep(i)

EventSpec == EventInit /\ [][EventNext]_eventVars

(* Events keep coming up to the bound, Redis, Horizon and the database     *)
(* answer what they do not reject, timers fire, abandoned leases lapse.    *)
EventFairness ==
    /\ WF_eventVars(Emit)
    /\ WF_eventVars(lock # NoOne /\ Abandons(lock) /\ LeaseLapses)
    /\ \A i \in Instance :
          /\ WF_eventVars(Beat(i) /\ ElectionStep(i))
          /\ WF_eventVars(Exec(i) /\ ElectionStep(i))
          /\ WF_eventVars(Elected(i) \/ RenewedOrRefused(i) \/ Validated(i)
                            \/ (ReleaseAnswered(i) /\ ElectionStep(i)))
          /\ \A c \in Caller : SF_eventVars(LoopStep(i, c))
=============================================================================
