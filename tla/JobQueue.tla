------------------------------- MODULE JobQueue -------------------------------
(***************************************************************************)
(* The in-process job queue of the backend                                 *)
(* (backend/src/services/jobQueue.ts), its recurring schedule, and the     *)
(* ordered shutdown that drains it before the database is disconnected     *)
(* (backend/src/lib/gracefulShutdown.ts, backend/src/index.ts).            *)
(*                                                                         *)
(* JavaScript runs one piece of code at a time: while a tick goes through  *)
(* the pending jobs (ticking) nothing else happens.  Handlers of running   *)
(* jobs, timers, operators and the shutdown interleave between ticks.      *)
(* Time is relative: wait and timer count down to runAt and to the tick.   *)
(***************************************************************************)
EXTENDS Naturals, Sequences, FiniteSets

CONSTANTS
    Job,            \* jobs, each enqueued at most once
    Priorities,     \* priorities that callers enqueue with
    Elevated,       \* the least priority of a retried job: 10 in the code
    Concurrency,    \* how many jobs run at once
    Streak,         \* FAIRNESS_HIGH_PRIORITY_STREAK
    MaxRetries,     \* maxRetries of a job
    Backoff,        \* the delay after each failed attempt; doubles in the code
    NoTimer         \* tickTimer is null

ASSUME JobQueueAssumption ==
    /\ IsFiniteSet(Job)
    /\ Priorities \subseteq Nat /\ Elevated \in Nat
    /\ Concurrency \in Nat \ {0} /\ Streak \in Nat \ {0}
    /\ MaxRetries \in Nat \ {0} /\ Backoff \in [1..MaxRetries -> Nat]
    /\ NoTimer \notin Nat

VARIABLES
    pending,        \* job ids, highest priority first, then oldest first
    status, priority, attempts,
    wait,           \* time until runAt of a pending job
    streak,         \* consecutiveHighPriorityJobs
    timer,          \* time until tickTimer fires, or NoTimer
    ticking,        \* tick() is under way
    stopped,
    recurring,      \* the recurring schedule is set
    phase           \* of the process: "up", "draining", then "drained" or
                    \* "gaveUp", "disconnected" and "exited"

jobVars == <<status, priority, attempts, wait>>
queueVars == <<pending, jobVars, streak, timer, ticking, stopped, recurring, phase>>

JobInit ==
    /\ pending = <<>>
    /\ status = [j \in Job |-> "new"] /\ priority = [j \in Job |-> 0]
    /\ attempts = [j \in Job |-> 0] /\ wait = [j \in Job |-> 0]
    /\ streak = 0 /\ timer = NoTimer /\ ticking = FALSE
    /\ stopped = FALSE /\ recurring = FALSE /\ phase = "up"

Running == {j \in Job : status[j] = "running"}
Idle == ~ticking /\ phase # "exited"    \* the event loop may pick another callback

-----------------------------------------------------------------------------
(* Enqueue, retry, discard.                                                *)

(* Mutation: a running job is trusted to wake the queue.                   *)
ScheduleTickIfNoneRuns ==
    timer' = IF timer # NoTimer \/ stopped \/ Running # {} THEN timer ELSE 0
ScheduleTick == timer' = IF timer # NoTimer \/ stopped THEN timer ELSE 0

(* push and the stable sort by falling priority: after its equals.         *)
Place(j, p) ==
    \E n \in 0..Len(pending) :
        /\ \A k \in 1..n : priority[pending[k]] >= p
        /\ \A k \in (n + 1)..Len(pending) : priority[pending[k]] < p
        /\ pending' = [k \in 1..(Len(pending) + 1) |->
              IF k <= n THEN pending[k] ELSE IF k = n + 1 THEN j ELSE pending[k - 1]]

Pend(j, p, delay) ==
    /\ Place(j, p)
    /\ status' = [status EXCEPT ![j] = "pending"]
    /\ priority' = [priority EXCEPT ![j] = p]
    /\ wait' = [wait EXCEPT ![j] = delay]

Enqueue(j, p) ==
    /\ Idle /\ status[j] = "new"
    /\ Pend(j, p, 0) /\ ScheduleTick
    /\ UNCHANGED <<attempts, streak, ticking, stopped, recurring, phase>>

(* The interval of scheduleRecurring enqueues with the default priority.   *)
Interval(j) == recurring /\ Enqueue(j, 0)

Retry(j) ==
    /\ Idle /\ status[j] = "dead"
    /\ Pend(j, IF priority[j] > Elevated THEN priority[j] ELSE Elevated, 0)
    /\ attempts' = [attempts EXCEPT ![j] = 0]
    /\ ScheduleTick
    /\ UNCHANGED <<streak, ticking, stopped, recurring, phase>>

Discard(j) ==
    /\ Idle /\ status[j] = "dead"
    /\ status' = [status EXCEPT ![j] = "discarded"]
    /\ UNCHANGED <<pending, priority, attempts, wait, streak, timer, ticking,
                   stopped, recurring, phase>>

-----------------------------------------------------------------------------
(* The tick.                                                               *)

TimerFires ==
    /\ Idle /\ timer = 0
    /\ timer' = NoTimer /\ ticking' = ~stopped
    /\ UNCHANGED <<pending, jobVars, streak, stopped, recurring, phase>>

Eligible == {k \in DOMAIN pending : wait[pending[k]] = 0}
Prio(k) == priority[pending[k]]
Lower == {k \in Eligible : \E l \in Eligible : Prio(l) > Prio(k)}

(* nextEligibleJobIndex: the first eligible job, or, when one of lower     *)
(* priority is owed a turn, the first below the highest.                   *)
Candidates == IF streak >= Streak /\ Lower # {} THEN Lower ELSE Eligible

IsNext(k) == k \in Candidates /\ \A l \in Candidates : k <= l

(* Mutation: the job taken stays in the list.                              *)
WithoutSplice(k) == pending
Without(k) == [l \in 1..(Len(pending) - 1) |-> IF l < k THEN pending[l] ELSE pending[l + 1]]

HasWorker == Cardinality(Running) < Concurrency

(* updateFairnessState: its last test resets the streak only where the     *)
(* first has already.                                                      *)
(* Mutation: the streak is never counted.                                  *)
StreakForgotten(k) == 0
NextStreak(k) == IF \E l \in Eligible : Prio(l) < Prio(k) THEN streak + 1 ELSE 0

Take(k) ==
    /\ ticking /\ HasWorker /\ IsNext(k)
    /\ pending' = Without(k)
    /\ streak' = NextStreak(k)
    /\ status' = [status EXCEPT ![pending[k]] = "running"]
    /\ attempts' = [attempts EXCEPT ![pending[k]] = @ + 1]
    /\ UNCHANGED <<priority, wait, timer, ticking, stopped, recurring, phase>>

Waits == {wait[pending[k]] : k \in DOMAIN pending}

EndTick ==
    /\ ticking /\ ticking' = FALSE
    /\ HasWorker => Eligible = {}
    /\ \/ pending = <<>> /\ UNCHANGED timer
       \/ timer' \in Waits /\ \A w \in Waits : timer' <= w
    /\ UNCHANGED <<pending, jobVars, streak, stopped, recurring, phase>>

-----------------------------------------------------------------------------
(* The end of a handler: the job leaves its worker and a tick is scheduled.*)

Succeed(j) ==
    /\ Idle /\ status[j] = "running"
    /\ status' = [status EXCEPT ![j] = "completed"]
    /\ ScheduleTick
    /\ UNCHANGED <<pending, priority, attempts, wait, streak, ticking,
                   stopped, recurring, phase>>

MayRetry(j) == attempts[j] < MaxRetries

Fail(j) ==
    /\ Idle /\ status[j] = "running"
    /\ \/ MayRetry(j) /\ Pend(j, priority[j], Backoff[attempts[j]])
       \/ /\ ~MayRetry(j)
          /\ status' = [status EXCEPT ![j] = "dead"]
          /\ UNCHANGED <<pending, priority, wait>>
    /\ ScheduleTick
    /\ UNCHANGED <<attempts, streak, ticking, stopped, recurring, phase>>

Finish(j) == Succeed(j) \/ Fail(j)

Countdown(t) == IF t = 0 THEN 0 ELSE t - 1

(* One unit of time; timers and runAt may also be served late.             *)
Elapse ==
    /\ Idle
    /\ \/ timer # NoTimer /\ timer > 0
       \/ \E j \in Job : wait[j] > 0
    /\ timer' = IF timer = NoTimer THEN NoTimer ELSE Countdown(timer)
    /\ wait' = [j \in Job |-> Countdown(wait[j])]
    /\ UNCHANGED <<pending, status, priority, attempts, streak, ticking,
                   stopped, recurring, phase>>

-----------------------------------------------------------------------------
(* Start, stop and shutdown.  The process schedules and starts while it    *)
(* boots, which no signal interrupts (index.ts:233-278).                   *)

Start ==
    /\ Idle /\ phase = "up" /\ stopped' = FALSE
    /\ timer' = IF timer = NoTimer THEN 0 ELSE timer
    /\ UNCHANGED <<pending, jobVars, streak, ticking, recurring, phase>>

(* Mutation: the queue goes on.                                            *)
HaltNothing == UNCHANGED <<stopped, timer>>
Halt == stopped' = TRUE /\ timer' = NoTimer

Stop ==
    /\ Idle /\ phase = "up" /\ ~stopped /\ Halt
    /\ UNCHANGED <<pending, jobVars, streak, ticking, recurring, phase>>

ScheduleRecurring ==
    /\ Idle /\ phase = "up" /\ ~recurring /\ recurring' = TRUE
    /\ UNCHANGED <<pending, jobVars, streak, timer, ticking, stopped, phase>>

Drain ==
    /\ Idle /\ phase = "up" /\ phase' = "draining"
    /\ Halt /\ recurring' = FALSE
    /\ UNCHANGED <<pending, jobVars, streak, ticking>>

(* The poll finds no active worker, or its deadline has passed.            *)
DrainEnds ==
    /\ Idle /\ phase = "draining"
    /\ phase' = IF Running = {} THEN "drained" ELSE "gaveUp"
    /\ UNCHANGED <<pending, jobVars, streak, timer, ticking, stopped, recurring>>

(* The database step follows, and then the process exits; the timeout of   *)
(* the whole sequence makes it exit from any step.                         *)
Disconnect ==
    /\ Idle /\ phase \in {"drained", "gaveUp"} /\ phase' = "disconnected"
    /\ UNCHANGED <<pending, jobVars, streak, timer, ticking, stopped, recurring>>

Exit ==
    /\ Idle /\ phase # "up" /\ phase' = "exited"
    /\ UNCHANGED <<pending, jobVars, streak, timer, ticking, stopped, recurring>>

JobNext ==
    \/ \E j \in Job :
          \/ \E p \in Priorities : Enqueue(j, p)
          \/ Interval(j) \/ Retry(j) \/ Discard(j) \/ Succeed(j) \/ Fail(j)
    \/ TimerFires \/ (\E k \in DOMAIN pending : Take(k)) \/ EndTick \/ Elapse
    \/ Start \/ Stop \/ ScheduleRecurring
    \/ Drain \/ DrainEnds \/ Disconnect \/ Exit

JobSpec == JobInit /\ [][JobNext]_queueVars

(* Timers fire and a tick goes on.  Handlers return, and time passes, also *)
(* when they are only ever ready between ticks that follow one another.    *)
JobFairness ==
    /\ WF_queueVars(TimerFires)
    /\ WF_queueVars(EndTick) /\ WF_queueVars(\E k \in DOMAIN pending : Take(k))
    /\ SF_queueVars(Elapse)
    /\ \A j \in Job : SF_queueVars(Finish(j))

FairJobSpec == JobSpec /\ JobFairness
=============================================================================
