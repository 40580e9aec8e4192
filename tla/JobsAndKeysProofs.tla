--------------------------- MODULE JobsAndKeysProofs ---------------------------
(***************************************************************************)
(* Two components of the backend that share no state.                      *)
(*                                                                         *)
(* The job queue loses no job, forgets no wake-up and is idle once it is   *)
(* drained, for any number of jobs, workers, priorities and retries.  The  *)
(* invariant has one part for the list (JobsAccounted), the only one that  *)
(* looks into the sequence; the other parts speak of the status of jobs.   *)
(* TimersSound says when the timer is not set, which is what makes setting *)
(* it to 0 when it is not set, and only then, enough.                      *)
(*                                                                         *)
(* Idempotency keys: how often the work behind one key is repeated, for    *)
(* any finite number of requests.                                          *)
(***************************************************************************)
EXTENDS JobQueueProps, IdempotencyProps, SequenceTheorems, FiniteSetTheorems, TLAPS

IsPending(j) == status[j] = "pending"

TimersSound ==
    /\ ticking => ~stopped /\ timer = NoTimer
    /\ stopped => timer = NoTimer
    /\ phase # "up" => stopped /\ ~ticking /\ ~recurring
    /\ (\A j \in Job : ~IsPending(j)) => timer \in {0, NoTimer}

Awake ==
    ~stopped /\ ~ticking /\ (\E j \in Job : IsPending(j)) =>
        timer # NoTimer /\ \E j \in Job : IsPending(j) /\ timer <= wait[j]

AttemptsSound ==
    \A j \in Job :
        /\ attempts[j] <= MaxRetries
        /\ status[j] \in {"new", "pending"} => attempts[j] < MaxRetries
        /\ status[j] = "running" => attempts[j] > 0
        /\ status[j] = "dead" => attempts[j] = MaxRetries

QueueInv ==
    /\ QueueTypeOK /\ JobsAccounted
    /\ TimersSound /\ Awake /\ AttemptsSound /\ DrainedIsIdle

-----------------------------------------------------------------------------
(* The list.                                                               *)

LEMMA FunctionIsSequence ==
    ASSUME NEW S, NEW n \in Nat, NEW f \in [1..n -> S]
    PROVE  f \in Seq(S) /\ Len(f) = n /\ DOMAIN f = 1..n
<1>1. f \in Seq(S) BY SeqDef
<1>2. DOMAIN f = 1..n /\ DOMAIN f = 1..Len(f) /\ Len(f) \in Nat
  BY <1>1, LenProperties
<1> QED BY <1>1, <1>2

(* A list without equals, sorted by falling priority, holds the pending    *)
(* jobs after one was placed in it.                                        *)
LEMMA PlacedIsAccounted ==
    ASSUME QueueTypeOK, JobsAccounted, NEW j \in Job, NEW p \in Nat, NEW d \in Nat,
           ~IsPending(j), Pend(j, p, d)
    PROVE  pending' \in Seq(Job) /\ JobsAccounted'
<1> DEFINE L == Len(pending)
<1>1. pending \in Seq(Job) /\ L \in Nat /\ pending \in [1..L -> Job] /\ DOMAIN pending = 1..L
  BY LenProperties DEF QueueTypeOK
<1>2. PICK n \in 0..L :
        /\ \A k \in 1..n : priority[pending[k]] >= p
        /\ \A k \in (n + 1)..L : priority[pending[k]] < p
        /\ pending' = [k \in 1..(L + 1) |->
              IF k <= n THEN pending[k] ELSE IF k = n + 1 THEN j ELSE pending[k - 1]]
  BY DEF Pend, Place
<1>3. pending' \in [1..(L + 1) -> Job]
  <2>1. \A k \in 1..(L + 1) :
          (IF k <= n THEN pending[k] ELSE IF k = n + 1 THEN j ELSE pending[k - 1]) \in Job
    BY <1>1, <1>2
  <2> QED BY <1>2, <2>1
<1>4. pending' \in Seq(Job) /\ DOMAIN pending' = 1..(L + 1)
  BY <1>1, <1>3, FunctionIsSequence
<1>5. /\ \A k \in 1..n : pending'[k] = pending[k]
      /\ pending'[n + 1] = j
      /\ \A k \in (n + 2)..(L + 1) : pending'[k] = pending[k - 1]
  BY <1>1, <1>2
<1>6. /\ status \in [Job -> {"new", "pending", "running", "completed", "dead", "discarded"}]
      /\ priority \in [Job -> Nat]
      /\ status' = [status EXCEPT ![j] = "pending"]
      /\ priority' = [priority EXCEPT ![j] = p]
  BY DEF QueueTypeOK, Pend
<1>7. \A k \in 1..L : pending[k] \in Job /\ pending[k] # j
  BY <1>1 DEF JobsAccounted, IsPending
<1>8. \A i \in Job : status'[i] = "pending" <=> \E k \in DOMAIN pending' : pending'[k] = i
  <2>1. status'[j] = "pending" /\ \E k \in DOMAIN pending' : pending'[k] = j
    BY <1>1, <1>4, <1>5, <1>6
  <2>2. ASSUME NEW i \in Job, i # j, status'[i] = "pending"
        PROVE  \E k \in DOMAIN pending' : pending'[k] = i
    <3>1. PICK k \in 1..L : pending[k] = i
      BY <1>1, <1>6, <2>2 DEF JobsAccounted
    <3>2. CASE k <= n
      BY <1>1, <1>4, <1>5, <3>1, <3>2
    <3>3. CASE k > n
      <4>1. k + 1 \in (n + 2)..(L + 1) /\ (k + 1) - 1 = k
        BY <1>1, <3>1, <3>3
      <4>2. pending'[k + 1] = i BY <1>5, <3>1, <4>1
      <4> QED BY <1>1, <1>4, <4>1, <4>2
    <3> QED BY <1>1, <3>1, <3>2, <3>3
  <2>3. ASSUME NEW i \in Job, i # j, NEW k \in DOMAIN pending', pending'[k] = i
        PROVE  status'[i] = "pending"
    <3>1. PICK l \in 1..L : pending[l] = i
      <4>1. CASE k <= n
        BY <1>1, <1>4, <1>5, <2>3, <4>1
      <4>2. CASE k = n + 1
        BY <1>5, <2>3, <4>2
      <4>3. CASE k > n + 1
        BY <1>1, <1>4, <1>5, <2>3, <4>3
      <4> QED BY <1>1, <1>4, <4>1, <4>2, <4>3
    <3> QED BY <1>1, <1>6, <2>3, <3>1 DEF JobsAccounted
  <2> QED BY <2>1, <2>2, <2>3
<1>9. \A k, l \in DOMAIN pending' : k < l =>
        pending'[k] # pending'[l] /\ priority'[pending'[k]] >= priority'[pending'[l]]
  <2> SUFFICES ASSUME NEW k \in 1..(L + 1), NEW l \in 1..(L + 1), k < l
               PROVE  /\ pending'[k] # pending'[l]
                      /\ priority'[pending'[k]] >= priority'[pending'[l]]
    BY <1>4
  <2>0. \A x, y \in 1..L : x < y =>
          /\ pending[x] # pending[y]
          /\ priority'[pending[x]] >= priority'[pending[y]]
    BY <1>1, <1>6, <1>7 DEF JobsAccounted, Prio
  <2>1. CASE l <= n
    BY <1>1, <1>5, <2>0, <2>1
  <2>2. CASE l = n + 1
    <3>1. pending'[l] = j /\ priority'[j] = p
      BY <1>5, <1>6, <2>2
    <3>2. k \in 1..n /\ k \in 1..L /\ pending'[k] = pending[k] /\ priority[pending[k]] >= p
      BY <1>1, <1>2, <1>5, <2>2
    <3> QED BY <1>6, <1>7, <3>1, <3>2
  <2>3. CASE l > n + 1 /\ k = n + 1
    <3>1. pending'[k] = j /\ priority'[j] = p
      BY <1>5, <1>6, <2>3
    <3>2. l - 1 \in (n + 1)..L /\ l - 1 \in 1..L /\ pending'[l] = pending[l - 1]
      BY <1>1, <1>5, <2>3
    <3>3. priority[pending[l - 1]] < p
      BY <1>2, <3>2
    <3> QED BY <1>6, <1>7, <3>1, <3>2, <3>3
  <2>4. CASE l > n + 1 /\ k <= n
    <3>1. l - 1 \in 1..L /\ k \in 1..L /\ k < l - 1
      BY <1>1, <2>4
    <3> QED BY <1>1, <1>5, <2>0, <2>4, <3>1
  <2>5. CASE l > n + 1 /\ k > n + 1
    <3>1. l - 1 \in 1..L /\ k - 1 \in 1..L /\ k - 1 < l - 1
      BY <1>1, <2>5
    <3> QED BY <1>1, <1>5, <2>0, <2>5, <3>1
  <2> QED BY <1>1, <2>1, <2>2, <2>3, <2>4, <2>5
<1> QED BY <1>4, <1>8, <1>9 DEF JobsAccounted, Prio

(* A worker takes a job out of the list.                                   *)
LEMMA TakenIsAccounted ==
    ASSUME QueueTypeOK, JobsAccounted, NEW k \in DOMAIN pending, Take(k)
    PROVE  pending' \in Seq(Job) /\ JobsAccounted'
<1> DEFINE L == Len(pending)
<1>1. pending \in Seq(Job) /\ L \in Nat /\ pending \in [1..L -> Job] /\ DOMAIN pending = 1..L
  BY LenProperties DEF QueueTypeOK
<1>2. k \in 1..L /\ L - 1 \in Nat /\ pending[k] \in Job
  BY <1>1
<1>3. pending' = [l \in 1..(L - 1) |-> IF l < k THEN pending[l] ELSE pending[l + 1]]
  BY DEF Take, Without
<1>4. pending' \in Seq(Job) /\ DOMAIN pending' = 1..(L - 1)
  <2>1. \A l \in 1..(L - 1) : (IF l < k THEN pending[l] ELSE pending[l + 1]) \in Job
    BY <1>1, <1>2
  <2>2. pending' \in [1..(L - 1) -> Job]
    BY <1>3, <2>1
  <2> QED BY <1>2, <2>2, FunctionIsSequence
<1>5. /\ \A l \in 1..(L - 1) : l < k => pending'[l] = pending[l]
      /\ \A l \in 1..(L - 1) : l >= k => pending'[l] = pending[l + 1]
  BY <1>1, <1>2, <1>3
<1>6. /\ status \in [Job -> {"new", "pending", "running", "completed", "dead", "discarded"}]
      /\ status' = [status EXCEPT ![pending[k]] = "running"]
      /\ priority' = priority
  BY DEF QueueTypeOK, Take
<1>7. \A i \in Job : status'[i] = "pending" <=> \E l \in DOMAIN pending' : pending'[l] = i
  <2>1. ASSUME NEW i \in Job, status'[i] = "pending"
        PROVE  \E l \in DOMAIN pending' : pending'[l] = i
    <3>1. status[i] = "pending" /\ i # pending[k]
      BY <1>2, <1>6, <2>1
    <3>2. PICK x \in 1..L : pending[x] = i
      BY <1>1, <3>1 DEF JobsAccounted
    <3>3. x # k BY <3>1, <3>2
    <3>4. CASE x < k
      BY <1>2, <1>4, <1>5, <3>2, <3>4
    <3>5. CASE x > k
      <4>1. x - 1 \in 1..(L - 1) /\ x - 1 >= k /\ (x - 1) + 1 = x
        BY <1>2, <3>2, <3>5
      <4>2. pending'[x - 1] = i BY <1>5, <3>2, <4>1
      <4> QED BY <1>4, <4>1, <4>2
    <3> QED BY <1>2, <3>2, <3>3, <3>4, <3>5
  <2>2. ASSUME NEW l \in DOMAIN pending'
        PROVE  status'[pending'[l]] = "pending"
    <3>1. PICK x \in 1..L : x # k /\ pending'[l] = pending[x]
      <4>1. CASE l < k
        BY <1>2, <1>4, <1>5, <2>2, <4>1
      <4>2. CASE l >= k
        BY <1>2, <1>4, <1>5, <2>2, <4>2
      <4> QED BY <1>2, <1>4, <2>2, <4>1, <4>2
    <3>2. pending[x] # pending[k] /\ pending[x] \in Job
      BY <1>1, <1>2, <3>1 DEF JobsAccounted
    <3>3. status[pending[x]] = "pending"
      BY <1>1, <3>1, <3>2 DEF JobsAccounted
    <3> QED BY <1>2, <1>6, <3>1, <3>2, <3>3
  <2> QED BY <2>1, <2>2
<1>8. \A l, m \in DOMAIN pending' : l < m =>
        pending'[l] # pending'[m] /\ priority[pending'[l]] >= priority[pending'[m]]
  <2> SUFFICES ASSUME NEW l \in 1..(L - 1), NEW m \in 1..(L - 1), l < m
               PROVE  /\ pending'[l] # pending'[m]
                      /\ priority[pending'[l]] >= priority[pending'[m]]
    BY <1>4
  <2>0. \A x, y \in 1..L : x < y =>
          pending[x] # pending[y] /\ priority[pending[x]] >= priority[pending[y]]
    BY <1>1 DEF JobsAccounted, Prio
  <2>1. CASE m < k
    BY <1>2, <1>5, <2>0, <2>1
  <2>2. CASE l < k /\ m >= k
    <3>1. m + 1 \in 1..L /\ l \in 1..L /\ l < m + 1
      BY <1>2, <2>2
    <3> QED BY <1>5, <2>0, <2>2, <3>1
  <2>3. CASE l >= k
    <3>1. m + 1 \in 1..L /\ l + 1 \in 1..L /\ l + 1 < m + 1 /\ m >= k
      BY <1>2, <2>3
    <3> QED BY <1>5, <2>0, <2>3, <3>1
  <2> QED BY <1>2, <2>1, <2>2, <2>3
<1> QED BY <1>4, <1>6, <1>7, <1>8 DEF JobsAccounted, Prio

-----------------------------------------------------------------------------
(* The types and the list.                                                 *)

LEMMA PendKeepsTypes ==
    ASSUME QueueTypeOK, JobsAccounted, NEW j \in Job, NEW p \in Nat, NEW d \in Nat,
           ~IsPending(j), Pend(j, p, d), ScheduleTick,
           attempts' \in [Job -> Nat],
           UNCHANGED <<streak, ticking, stopped, recurring, phase>>
    PROVE  QueueTypeOK' /\ JobsAccounted'
<1>1. pending' \in Seq(Job) /\ JobsAccounted' BY PlacedIsAccounted
<1>2. /\ status' \in [Job -> {"new", "pending", "running", "completed", "dead", "discarded"}]
      /\ priority' \in [Job -> Nat] /\ wait' \in [Job -> Nat]
  BY DEF Pend, QueueTypeOK
<1>3. timer' \in Nat \cup {NoTimer} BY DEF ScheduleTick, QueueTypeOK
<1> QED BY <1>1, <1>2, <1>3 DEF QueueTypeOK

(* A job that was not pending and is not becomes something else.           *)
LEMMA OthersKeepTypes ==
    ASSUME QueueTypeOK, JobsAccounted, NEW j \in Job, ~IsPending(j),
           NEW s \in {"running", "completed", "dead", "discarded"},
           status' = [status EXCEPT ![j] = s],
           UNCHANGED <<pending, priority, attempts, wait, streak, ticking, stopped,
                       recurring, phase>>,
           timer' \in Nat \cup {NoTimer}
    PROVE  QueueTypeOK' /\ JobsAccounted'
<1>1. status' \in [Job -> {"new", "pending", "running", "completed", "dead", "discarded"}]
  BY DEF QueueTypeOK
<1>2. \A i \in Job : status'[i] = "pending" <=> status[i] = "pending"
  BY DEF QueueTypeOK, IsPending
<1> QED BY <1>1, <1>2 DEF QueueTypeOK, JobsAccounted, Prio

LEMMA ListKept ==
    ASSUME QueueInv, JobNext
    PROVE  QueueTypeOK' /\ JobsAccounted'
<1> USE DEF QueueInv
<1>1. ASSUME NEW j \in Job, NEW p \in Nat, Enqueue(j, p)
      PROVE  QueueTypeOK' /\ JobsAccounted'
  BY <1>1, PendKeepsTypes DEF Enqueue, IsPending, QueueTypeOK
<1>2. ASSUME NEW j \in Job, Retry(j)
      PROVE  QueueTypeOK' /\ JobsAccounted'
  <2> DEFINE p == IF priority[j] > Elevated THEN priority[j] ELSE Elevated
  <2>1. p \in Nat /\ ~IsPending(j) /\ attempts' \in [Job -> Nat]
    BY <1>2, JobQueueAssumption DEF QueueTypeOK, Retry, IsPending
  <2>2. Pend(j, p, 0) /\ ScheduleTick /\ UNCHANGED <<streak, ticking, stopped, recurring, phase>>
    BY <1>2 DEF Retry
  <2> QED BY <2>1, <2>2, PendKeepsTypes
<1>3. ASSUME NEW j \in Job, Discard(j) \/ Succeed(j)
      PROVE  QueueTypeOK' /\ JobsAccounted'
  <2>1. timer' \in Nat \cup {NoTimer} /\ ~IsPending(j)
    BY <1>3 DEF Discard, Succeed, ScheduleTick, QueueTypeOK, IsPending
  <2> QED BY <1>3, <2>1, OthersKeepTypes DEF Discard, Succeed
<1>4. ASSUME NEW j \in Job, Fail(j)
      PROVE  QueueTypeOK' /\ JobsAccounted'
  <2>1. timer' \in Nat \cup {NoTimer} /\ ~IsPending(j) /\ attempts' \in [Job -> Nat]
    BY <1>4 DEF Fail, ScheduleTick, QueueTypeOK, IsPending
  <2>2. CASE MayRetry(j) /\ Pend(j, priority[j], Backoff[attempts[j]])
    <3>1. attempts[j] \in 1..MaxRetries
      BY <1>4, <2>2, JobQueueAssumption DEF Fail, MayRetry, AttemptsSound, QueueTypeOK
    <3>2. priority[j] \in Nat /\ Backoff[attempts[j]] \in Nat
      BY <3>1, JobQueueAssumption DEF QueueTypeOK
    <3> QED BY <1>4, <2>1, <2>2, <3>2, PendKeepsTypes DEF Fail
  <2>3. CASE status' = [status EXCEPT ![j] = "dead"] /\ UNCHANGED <<pending, priority, wait>>
    BY <1>4, <2>1, <2>3, OthersKeepTypes DEF Fail
  <2> QED BY <1>4, <2>2, <2>3 DEF Fail
<1>5. ASSUME NEW k \in DOMAIN pending, Take(k)
      PROVE  QueueTypeOK' /\ JobsAccounted'
  <2>1. pending' \in Seq(Job) /\ JobsAccounted' BY <1>5, TakenIsAccounted
  <2>2. pending[k] \in Job BY LenProperties DEF QueueTypeOK
  <2>3. /\ status' \in [Job -> {"new", "pending", "running", "completed", "dead", "discarded"}]
        /\ attempts' \in [Job -> Nat] /\ streak' \in Nat
    BY <1>5, <2>2 DEF Take, NextStreak, QueueTypeOK
  <2> QED BY <1>5, <2>1, <2>3 DEF Take, QueueTypeOK
<1>6. CASE EndTick
  <2>1. timer' \in Nat \cup {NoTimer}
    <3>1. \A k \in DOMAIN pending : wait[pending[k]] \in Nat
      BY LenProperties DEF QueueTypeOK
    <3> QED BY <1>6, <3>1 DEF EndTick, Waits, QueueTypeOK
  <2> QED BY <1>6, <2>1 DEF EndTick, QueueTypeOK, JobsAccounted, Prio, jobVars
<1>7. CASE Elapse
  <2>1. timer' \in Nat \cup {NoTimer} /\ wait' \in [Job -> Nat]
    BY <1>7 DEF Elapse, Countdown, QueueTypeOK
  <2> QED BY <1>7, <2>1 DEF Elapse, QueueTypeOK, JobsAccounted, Prio
<1>8. CASE TimerFires \/ Start \/ Stop \/ Drain
  <2>1. /\ UNCHANGED <<pending, status, priority, attempts, wait, streak>>
        /\ timer' \in Nat \cup {NoTimer} /\ ticking' \in BOOLEAN /\ stopped' \in BOOLEAN
        /\ recurring' \in BOOLEAN /\ phase' \in {"up", "draining"} \cup {phase}
    <3>1. CASE TimerFires
      <4>1. ticking' = ~stopped BY <3>1 DEF TimerFires
      <4>2. ticking' \in BOOLEAN BY <4>1, Zenon
      <4>3. stopped' = stopped /\ recurring' = recurring /\ phase' = phase
        BY <3>1 DEF TimerFires
      <4> QED BY <3>1, <4>2, <4>3 DEF TimerFires, QueueTypeOK, jobVars
    <3>2. CASE Start BY <3>2 DEF Start, QueueTypeOK, jobVars
    <3>3. CASE Stop BY <3>3 DEF Stop, Halt, QueueTypeOK, jobVars
    <3>4. CASE Drain BY <3>4 DEF Drain, Halt, QueueTypeOK, jobVars
    <3> QED BY <1>8, <3>1, <3>2, <3>3, <3>4
  <2> QED BY <2>1 DEF QueueTypeOK, JobsAccounted, Prio
<1>9. CASE ScheduleRecurring \/ DrainEnds \/ Disconnect \/ Exit
  <2>1. /\ UNCHANGED <<pending, status, priority, attempts, wait, streak, timer,
                       ticking, stopped>>
        /\ recurring' \in BOOLEAN
        /\ phase' \in {"drained", "gaveUp", "disconnected", "exited"} \cup {phase}
    BY <1>9 DEF ScheduleRecurring, DrainEnds, Disconnect, Exit, QueueTypeOK, jobVars
  <2> QED BY <2>1 DEF QueueTypeOK, JobsAccounted, Prio
<1> QED BY <1>1, <1>2, <1>3, <1>4, <1>5, <1>6, <1>7, <1>8, <1>9, JobQueueAssumption
     DEF JobNext, Interval

-----------------------------------------------------------------------------
(* The wake-ups.  In the list a job is pending when it is at some place.   *)

LEMMA AwakeIsWakesUp ==
    ASSUME QueueTypeOK, JobsAccounted
    PROVE  Awake <=> WakesUp
<1>1. \A k \in DOMAIN pending : pending[k] \in Job
  BY LenProperties DEF QueueTypeOK
<1>2. pending # <<>> <=> \E k \in DOMAIN pending : TRUE
  <2>1. Len(pending) \in Nat /\ DOMAIN pending = 1..Len(pending)
    BY LenProperties DEF QueueTypeOK
  <2>2. pending = <<>> <=> Len(pending) = 0 BY EmptySeq DEF QueueTypeOK
  <2>3. (\E k \in 1..Len(pending) : TRUE) <=> Len(pending) # 0 BY <2>1
  <2> QED BY <2>1, <2>2, <2>3
<1>3. (\E j \in Job : IsPending(j)) <=> pending # <<>>
  BY <1>1, <1>2 DEF JobsAccounted, IsPending
<1>4. (\E j \in Job : IsPending(j) /\ timer <= wait[j])
        <=> \E k \in DOMAIN pending : timer <= wait[pending[k]]
  BY <1>1 DEF JobsAccounted, IsPending
<1> QED BY <1>3, <1>4 DEF Awake, WakesUp

(* A job becomes pending, outside a tick, and a tick is scheduled.         *)
LEMMA PendKeepsWakeUps ==
    ASSUME QueueTypeOK, TimersSound, Awake, NEW j \in Job, NEW p \in Nat, NEW d \in Nat,
           ~IsPending(j), ~ticking, Pend(j, p, d), ScheduleTick,
           UNCHANGED <<ticking, stopped, recurring, phase>>
    PROVE  TimersSound' /\ Awake'
<1>1. /\ status' = [status EXCEPT ![j] = "pending"] /\ wait' = [wait EXCEPT ![j] = d]
      /\ status \in [Job -> {"new", "pending", "running", "completed", "dead", "discarded"}]
      /\ wait \in [Job -> Nat] /\ timer \in Nat \cup {NoTimer}
      /\ timer' = IF timer # NoTimer \/ stopped THEN timer ELSE 0
  BY DEF Pend, ScheduleTick, QueueTypeOK
<1>2. IsPending(j)' /\ \A i \in Job : i # j => (IsPending(i)' <=> IsPending(i)) /\ wait'[i] = wait[i]
  BY <1>1 DEF IsPending
<1>3. wait'[j] \in Nat BY <1>1
<1>4. TimersSound' BY <1>1, <1>2 DEF TimersSound
<1>5. Awake'
  <2>1. CASE stopped BY <2>1 DEF Awake
  <2>2. CASE ~stopped /\ timer = NoTimer
    BY <1>1, <1>2, <1>3, <2>2, JobQueueAssumption DEF Awake
  <2>3. CASE ~stopped /\ timer # NoTimer /\ \E i \in Job : IsPending(i)
    <3>1. PICK i \in Job : IsPending(i) /\ timer <= wait[i]
      BY <2>3 DEF Awake
    <3>2. IsPending(i)' /\ timer' <= wait'[i] /\ timer' # NoTimer
      BY <1>1, <1>2, <2>3, <3>1
    <3> QED BY <3>2 DEF Awake
  <2>4. CASE ~stopped /\ timer # NoTimer /\ ~\E i \in Job : IsPending(i)
    <3>1. timer' = 0 /\ timer' # NoTimer
      BY <1>1, <2>4 DEF TimersSound
    <3> QED BY <1>2, <1>3, <3>1 DEF Awake
  <2> QED BY <2>1, <2>2, <2>3, <2>4
<1> QED BY <1>4, <1>5

(* The pending jobs stay the same, outside a tick, and so does the timer,  *)
(* unless it was not set.                                                  *)
LEMMA SamePendingWakeUps ==
    ASSUME QueueTypeOK, TimersSound, Awake, ~ticking,
           \A i \in Job : (IsPending(i)' <=> IsPending(i)) /\ wait'[i] = wait[i],
           \/ timer' = timer /\ stopped' = stopped
           \/ timer = NoTimer /\ timer' = 0 /\ stopped' = FALSE,
           ticking' = ticking,
           phase' # "up" => stopped' /\ ~recurring'
    PROVE  TimersSound' /\ Awake'
<1>1. wait \in [Job -> Nat] BY DEF QueueTypeOK
<1>2. \A i \in Job : IsPending(i) => 0 <= wait'[i]
  BY <1>1
<1>3. CASE timer' = timer /\ stopped' = stopped
  BY <1>3 DEF TimersSound, Awake
<1>4. CASE timer = NoTimer /\ timer' = 0 /\ stopped' = FALSE
  BY <1>2, <1>4, JobQueueAssumption DEF TimersSound, Awake
<1> QED BY <1>3, <1>4

-----------------------------------------------------------------------------
(* Each action keeps the wake-ups.                                         *)

LEMMA WakeUpsKept ==
    ASSUME QueueInv, JobNext
    PROVE  TimersSound' /\ Awake'
<1> USE DEF QueueInv
<1>1. ASSUME NEW j \in Job, NEW p \in Nat, Enqueue(j, p)
      PROVE  TimersSound' /\ Awake'
  <2>1. /\ ~IsPending(j) /\ ~ticking /\ Pend(j, p, 0) /\ ScheduleTick
        /\ UNCHANGED <<ticking, stopped, recurring, phase>>
    BY <1>1 DEF Enqueue, Idle, IsPending
  <2> QED BY <2>1, PendKeepsWakeUps
<1>2. ASSUME NEW j \in Job, Retry(j)
      PROVE  TimersSound' /\ Awake'
  <2> DEFINE p == IF priority[j] > Elevated THEN priority[j] ELSE Elevated
  <2>1. /\ p \in Nat /\ ~IsPending(j) /\ ~ticking /\ Pend(j, p, 0) /\ ScheduleTick
        /\ UNCHANGED <<ticking, stopped, recurring, phase>>
    BY <1>2, JobQueueAssumption DEF Retry, Idle, IsPending, QueueTypeOK
  <2> QED BY <2>1, PendKeepsWakeUps
<1>3. ASSUME NEW j \in Job,
             Discard(j) \/ Succeed(j) \/ (Fail(j) /\ status' = [status EXCEPT ![j] = "dead"]
                                                  /\ UNCHANGED wait)
      PROVE  TimersSound' /\ Awake'
  <2>1. /\ ~IsPending(j) /\ ~ticking
        /\ \E s \in {"completed", "dead", "discarded"} : status' = [status EXCEPT ![j] = s]
        /\ UNCHANGED <<wait, ticking, stopped, recurring, phase>>
    BY <1>3 DEF Discard, Succeed, Fail, Idle, IsPending
  <2>2. \A i \in Job : (IsPending(i)' <=> IsPending(i)) /\ wait'[i] = wait[i]
    BY <2>1 DEF IsPending, QueueTypeOK
  <2>3. timer' = timer \/ (timer = NoTimer /\ timer' = 0 /\ ~stopped)
    BY <1>3 DEF Discard, Succeed, Fail, ScheduleTick
  <2>4. phase' # "up" => stopped' /\ ~recurring' BY <2>1 DEF TimersSound
  <2>5. stopped' = stopped /\ (~stopped => stopped' = FALSE)
    BY <2>1 DEF QueueTypeOK
  <2> QED BY <2>1, <2>2, <2>3, <2>4, <2>5, SamePendingWakeUps
<1>4. ASSUME NEW j \in Job, Fail(j)
      PROVE  TimersSound' /\ Awake'
  <2>1. CASE MayRetry(j) /\ Pend(j, priority[j], Backoff[attempts[j]])
    <3>1. attempts[j] \in 1..MaxRetries
      BY <1>4, <2>1, JobQueueAssumption DEF Fail, MayRetry, AttemptsSound, QueueTypeOK
    <3>2. priority[j] \in Nat /\ Backoff[attempts[j]] \in Nat
      BY <3>1, JobQueueAssumption DEF QueueTypeOK
    <3>3. /\ ~IsPending(j) /\ ~ticking /\ ScheduleTick
          /\ UNCHANGED <<ticking, stopped, recurring, phase>>
      BY <1>4 DEF Fail, Idle, IsPending
    <3> QED BY <2>1, <3>2, <3>3, PendKeepsWakeUps
  <2>2. CASE status' = [status EXCEPT ![j] = "dead"] /\ UNCHANGED wait
    BY <1>3, <1>4, <2>2
  <2> QED BY <1>4, <2>1, <2>2 DEF Fail
<1>5. ASSUME NEW k \in DOMAIN pending, Take(k)
      PROVE  TimersSound' /\ Awake'
  <2>1. pending[k] \in Job /\ IsPending(pending[k])
    BY LenProperties DEF QueueTypeOK, JobsAccounted, IsPending
  <2>2. ticking /\ UNCHANGED <<timer, ticking, stopped, recurring, phase>>
    BY <1>5 DEF Take
  <2> QED BY <2>2 DEF TimersSound, Awake
<1>6. CASE EndTick
  <2>1. /\ ticking /\ ticking' = FALSE
        /\ UNCHANGED <<pending, status, priority, wait, stopped, recurring, phase>>
        /\ \/ pending = <<>> /\ timer' = timer
           \/ timer' \in Waits /\ \A w \in Waits : timer' <= w
    BY <1>6 DEF EndTick, jobVars
  <2>2. \A k \in DOMAIN pending : pending[k] \in Job /\ wait[pending[k]] \in Nat
    BY LenProperties DEF QueueTypeOK
  <2>3. ~stopped /\ timer = NoTimer /\ phase = "up" BY <2>1 DEF TimersSound
  <2>4. CASE pending = <<>> /\ timer' = timer
    <3>1. \A j \in Job : ~IsPending(j)
      <4>1. DOMAIN pending = {} BY <2>4, EmptySeq, LenProperties
      <4> QED BY <4>1 DEF JobsAccounted, IsPending
    <3>2. \A j \in Job : ~IsPending(j)' BY <2>1, <3>1 DEF IsPending
    <3> QED BY <2>1, <2>3, <2>4, <3>2 DEF TimersSound, Awake
  <2>5. CASE timer' \in Waits
    <3>1. PICK k \in DOMAIN pending : timer' = wait[pending[k]]
      BY <2>5 DEF Waits
    <3>2. /\ pending[k] \in Job /\ timer' \in Nat /\ IsPending(pending[k])'
          /\ timer' <= wait'[pending[k]]
      BY <2>1, <2>2, <3>1 DEF JobsAccounted, IsPending
    <3> QED BY <2>1, <2>3, <3>2, JobQueueAssumption DEF TimersSound, Awake
  <2> QED BY <2>1, <2>4, <2>5
<1>7. CASE Elapse
  <2>1. /\ ~ticking /\ UNCHANGED <<status, ticking, stopped, recurring, phase>>
        /\ timer' = IF timer = NoTimer THEN NoTimer ELSE Countdown(timer)
        /\ \A j \in Job : wait'[j] = Countdown(wait[j])
    BY <1>7 DEF Elapse, Idle
  <2>2. \A j \in Job : (IsPending(j)' <=> IsPending(j)) /\ wait[j] \in Nat
    BY <2>1 DEF IsPending, QueueTypeOK
  <2>3. (timer' = NoTimer <=> timer = NoTimer) /\ (timer = 0 => timer' = 0)
    BY <2>1, JobQueueAssumption DEF Countdown, QueueTypeOK
  <2>4. TimersSound' BY <2>1, <2>2, <2>3 DEF TimersSound
  <2>5. ASSUME timer # NoTimer, NEW j \in Job, timer <= wait[j]
        PROVE  timer' <= wait'[j]
    BY <2>1, <2>2, <2>5 DEF Countdown, QueueTypeOK
  <2> QED BY <2>1, <2>2, <2>3, <2>4, <2>5 DEF Awake
<1>8. CASE TimerFires
  <2>1. /\ ~ticking /\ timer = 0 /\ timer' = NoTimer /\ ticking' = ~stopped
        /\ UNCHANGED <<status, wait, stopped, recurring, phase>>
    BY <1>8 DEF TimerFires, Idle, jobVars
  <2>2. ~stopped BY <2>1, JobQueueAssumption DEF TimersSound
  <2> QED BY <2>1, <2>2 DEF TimersSound, Awake
<1>9. CASE Start
  <2>1. /\ ~ticking /\ stopped' = FALSE /\ phase' = "up"
        /\ timer' = IF timer = NoTimer THEN 0 ELSE timer
        /\ UNCHANGED <<status, wait, ticking, recurring>>
    BY <1>9 DEF Start, Idle, jobVars
  <2>2. \A i \in Job : (IsPending(i)' <=> IsPending(i)) /\ wait'[i] = wait[i]
    BY <2>1 DEF IsPending
  <2>3. timer # NoTimer => stopped' = stopped
    BY <2>1 DEF TimersSound, QueueTypeOK
  <2>4. \/ timer' = timer /\ stopped' = stopped
        \/ timer = NoTimer /\ timer' = 0 /\ stopped' = FALSE
    BY <2>1, <2>3
  <2> QED BY <2>1, <2>2, <2>4, SamePendingWakeUps
<1>10. CASE Stop \/ Drain
  BY <1>10, JobQueueAssumption DEF Stop, Drain, Halt, Idle, jobVars, TimersSound, Awake, IsPending
<1>11. CASE ScheduleRecurring \/ DrainEnds \/ Disconnect \/ Exit
  <2>1. /\ ~ticking /\ UNCHANGED <<status, wait, timer, ticking, stopped>>
        /\ phase' # "up" => phase # "up" /\ recurring' = recurring
    BY <1>11 DEF ScheduleRecurring, DrainEnds, Disconnect, Exit, Idle, jobVars
  <2>2. \A i \in Job : (IsPending(i)' <=> IsPending(i)) /\ wait'[i] = wait[i]
    BY <2>1 DEF IsPending
  <2>3. phase' # "up" => stopped' /\ ~recurring' BY <2>1 DEF TimersSound
  <2> QED BY <2>1, <2>2, <2>3, SamePendingWakeUps
<1> QED BY <1>1, <1>2, <1>3, <1>4, <1>5, <1>6, <1>7, <1>8, <1>9, <1>10, <1>11,
     JobQueueAssumption DEF JobNext, Interval

-----------------------------------------------------------------------------
(* Retries and the shutdown.                                               *)

LEMMA AttemptsKept ==
    ASSUME QueueInv, JobNext
    PROVE  AttemptsSound'
<1> USE DEF QueueInv
<1>0. /\ attempts \in [Job -> Nat] /\ MaxRetries \in Nat \ {0}
      /\ status \in [Job -> {"new", "pending", "running", "completed", "dead", "discarded"}]
  BY JobQueueAssumption DEF QueueTypeOK
<1>1. ASSUME NEW j \in Job, NEW p \in Nat, Enqueue(j, p)
      PROVE  AttemptsSound'
  BY <1>0, <1>1 DEF Enqueue, Pend, AttemptsSound
<1>2. ASSUME NEW j \in Job, Retry(j)
      PROVE  AttemptsSound'
  BY <1>0, <1>2 DEF Retry, Pend, AttemptsSound
<1>3. ASSUME NEW j \in Job, Discard(j) \/ Succeed(j)
      PROVE  AttemptsSound'
  BY <1>0, <1>3 DEF Discard, Succeed, AttemptsSound
<1>4. ASSUME NEW j \in Job, Fail(j)
      PROVE  AttemptsSound'
  BY <1>0, <1>4 DEF Fail, MayRetry, Pend, AttemptsSound
<1>5. ASSUME NEW k \in DOMAIN pending, Take(k)
      PROVE  AttemptsSound'
  <2>1. pending[k] \in Job /\ status[pending[k]] = "pending"
    BY LenProperties DEF QueueTypeOK, JobsAccounted
  <2>2. /\ status' = [status EXCEPT ![pending[k]] = "running"]
        /\ attempts' = [attempts EXCEPT ![pending[k]] = @ + 1]
    BY <1>5 DEF Take
  <2> QED BY <1>0, <2>1, <2>2 DEF AttemptsSound
<1>6. CASE UNCHANGED <<status, attempts>>
  BY <1>6 DEF AttemptsSound
<1>7. (\/ TimerFires \/ EndTick \/ Elapse \/ Start \/ Stop \/ ScheduleRecurring
       \/ Drain \/ DrainEnds \/ Disconnect \/ Exit) => UNCHANGED <<status, attempts>>
  BY DEF TimerFires, EndTick, Elapse, Start, Stop, ScheduleRecurring, Drain, DrainEnds,
         Disconnect, Exit, jobVars
<1> QED BY <1>1, <1>2, <1>3, <1>4, <1>5, <1>6, <1>7, JobQueueAssumption
     DEF JobNext, Interval

LEMMA DrainedStaysIdle ==
    ASSUME QueueInv, JobNext
    PROVE  DrainedIsIdle'
<1> USE DEF QueueInv
<1>0. status \in [Job -> {"new", "pending", "running", "completed", "dead", "discarded"}]
  BY DEF QueueTypeOK
<1>1. ASSUME NEW j \in Job, NEW p \in Nat, Enqueue(j, p)
      PROVE  DrainedIsIdle'
  BY <1>0, <1>1 DEF Enqueue, Pend, DrainedIsIdle, Running
<1>2. ASSUME NEW j \in Job, Retry(j) \/ Discard(j) \/ Succeed(j) \/ Fail(j)
      PROVE  DrainedIsIdle'
  <2>1. /\ phase' = phase /\ recurring' = recurring
        /\ \E s \in {"pending", "completed", "dead", "discarded"} :
              status' = [status EXCEPT ![j] = s]
    BY <1>2 DEF Retry, Discard, Succeed, Fail, Pend
  <2>2. Running' \subseteq Running
    BY <1>0, <2>1 DEF Running
  <2> QED BY <2>1, <2>2 DEF DrainedIsIdle
<1>3. ASSUME NEW k \in DOMAIN pending, Take(k)
      PROVE  DrainedIsIdle'
  BY <1>3 DEF Take, TimersSound, DrainedIsIdle
<1>4. CASE TimerFires \/ EndTick \/ Elapse
  BY <1>4 DEF TimerFires, EndTick, Elapse, DrainedIsIdle, Running, jobVars
<1>5. CASE Start \/ Stop \/ ScheduleRecurring \/ Drain \/ Disconnect \/ Exit
  BY <1>5 DEF Start, Stop, ScheduleRecurring, Drain, Disconnect, Exit, DrainedIsIdle
<1>6. CASE DrainEnds
  BY <1>6 DEF DrainEnds, TimersSound, DrainedIsIdle, Running, jobVars
<1> QED BY <1>1, <1>2, <1>3, <1>4, <1>5, <1>6, JobQueueAssumption DEF JobNext, Interval

-----------------------------------------------------------------------------
(* The invariant and what follows.                                         *)

LEMMA QueueInvInit == JobInit => QueueInv
<1> SUFFICES ASSUME JobInit PROVE QueueInv OBVIOUS
<1> USE JobQueueAssumption DEF JobInit
<1>1. QueueTypeOK BY EmptySeq DEF QueueTypeOK
<1>2. DOMAIN pending = {} BY EmptySeq, LenProperties
<1>3. JobsAccounted BY <1>2 DEF JobsAccounted
<1>4. TimersSound /\ Awake BY DEF TimersSound, Awake, IsPending
<1>5. AttemptsSound /\ DrainedIsIdle BY DEF AttemptsSound, DrainedIsIdle
<1> QED BY <1>1, <1>3, <1>4, <1>5 DEF QueueInv

LEMMA QueueInvStutters ==
    ASSUME QueueInv, UNCHANGED queueVars
    PROVE  QueueInv'
BY DEF QueueInv, queueVars, jobVars, QueueTypeOK, JobsAccounted, TimersSound, Awake,
       AttemptsSound, DrainedIsIdle, IsPending, Running, Prio

(* The invariant of the job queue, for every value of the constants.       *)
THEOREM QueueInvariant == JobSpec => []QueueInv
<1>1. QueueInv /\ [JobNext]_queueVars => QueueInv'
  BY ListKept, WakeUpsKept, AttemptsKept, DrainedStaysIdle, QueueInvStutters DEF QueueInv
<1> QED BY <1>1, QueueInvInit, PTL DEF JobSpec

(* The queue's variables have their types.                                 *)
THEOREM QueueTypeCorrect == JobSpec => []QueueTypeOK
<1>1. QueueInv => QueueTypeOK BY DEF QueueInv
<1> QED BY <1>1, QueueInvariant, PTL

(* No job is lost, listed twice or out of its place (jobQueue.ts:222-253,  *)
(* 404-424, 506-617).                                                      *)
THEOREM NoJobIsLost == JobSpec => []JobsAccounted
<1>1. QueueInv => JobsAccounted BY DEF QueueInv
<1> QED BY <1>1, QueueInvariant, PTL

(* The timer is set whenever jobs wait, and soon enough for one of them    *)
(* (jobQueue.ts:498-532).                                                  *)
THEOREM NoWakeUpIsForgotten == JobSpec => []WakesUp
<1>1. QueueInv => WakesUp BY AwakeIsWakesUp DEF QueueInv
<1> QED BY <1>1, QueueInvariant, PTL

(* A job is dead after exactly maxRetries attempts (jobQueue.ts:561, 591). *)
THEOREM DeadAfterMaxRetries == JobSpec => []RetriesExhausted
<1>1. QueueInv => RetriesExhausted
  BY DEF QueueInv, AttemptsSound, RetriesExhausted
<1> QED BY <1>1, QueueInvariant, PTL

(* No handler runs in a process whose queue was drained                    *)
(* (jobQueue.ts:273-283, 507).                                             *)
THEOREM DrainedQueueIsIdle == JobSpec => []DrainedIsIdle
<1>1. QueueInv => DrainedIsIdle BY DEF QueueInv
<1> QED BY <1>1, QueueInvariant, PTL

-----------------------------------------------------------------------------
(* Idempotency keys.                                                       *)

Step == {"new", "unseen", "replayed", "refused", "handling", "sent", "sentError", "done"}

(* The requests that are past the lock and have not ended.                 *)
Keeping == {r \in Request : pc[r] \in {"handling", "sent", "sentError"}}
Lock == IF inFlight THEN 1 ELSE 0

KeyTypes ==
    /\ stored \in BOOLEAN /\ inFlight \in BOOLEAN
    /\ pc \in [Request -> Step]
    /\ settled \subseteq Request /\ succeeded \subseteq Request /\ stale \subseteq Request
    /\ gone \subseteq settled

RecordsSound ==
    /\ \A r \in Request : pc[r] \in {"sent", "sentError"} => r \notin settled
    /\ \A r \in Request :
          pc[r] \in {"new", "unseen", "handling", "sentError"} => r \notin succeeded
    /\ IF stored THEN \A r \in Request : pc[r] = "unseen" => r \in stale ELSE stale = {}

(* While nothing is stored, whoever has worked or is at work past the lock *)
(* is the one that holds it, or makes up for one that is gone.  Once a     *)
(* response is stored, only who had missed it adds to them.                *)
WorkBounded ==
    /\ Cardinality(Keeping) <= Lock + Cardinality(gone)
    /\ ~stored => Cardinality(Keeping \cup succeeded) <= Lock + Cardinality(gone)
    /\ stored => Cardinality((Keeping \cup succeeded) \ stale) <= 1 + Cardinality(gone)

KeyInv == KeyTypes /\ RecordsSound /\ WorkBounded

-----------------------------------------------------------------------------
LEMMA Fewer ==
    ASSUME NEW T, IsFiniteSet(T), NEW S \in SUBSET T
    PROVE  /\ IsFiniteSet(S) /\ Cardinality(S) \in Nat /\ Cardinality(T) \in Nat
           /\ Cardinality(S) <= Cardinality(T)
BY FS_Subset, FS_CardinalityType

LEMMA OneMore ==
    ASSUME NEW T, IsFiniteSet(T), NEW x
    PROVE  /\ IsFiniteSet(T \cup {x}) /\ Cardinality(T) \in Nat
           /\ Cardinality(T \cup {x}) \in Nat
           /\ Cardinality(T \cup {x}) <= Cardinality(T) + 1
           /\ x \notin T => Cardinality(T \cup {x}) = Cardinality(T) + 1
<1>1. CASE x \in T
  <2>1. T \cup {x} = T BY <1>1
  <2>2. Cardinality(T) \in Nat BY FS_CardinalityType
  <2>3. IsFiniteSet(T \cup {x}) /\ Cardinality(T \cup {x}) = Cardinality(T)
    BY <2>1, Zenon
  <2> QED BY <1>1, <2>2, <2>3
<1>2. CASE x \notin T
  <2>1. IsFiniteSet(T \cup {x}) /\ Cardinality(T \cup {x}) = Cardinality(T) + 1
    BY <1>2, FS_AddElement
  <2> QED BY <2>1, FS_CardinalityType
<1> QED BY <1>1, <1>2

LEMMA OneLess ==
    ASSUME NEW T, IsFiniteSet(T), NEW x \in T
    PROVE  /\ IsFiniteSet(T \ {x}) /\ Cardinality(T) \in Nat
           /\ Cardinality(T \ {x}) = Cardinality(T) - 1
BY FS_RemoveElement, FS_CardinalityType

(* All sets that are counted are sets of requests.                         *)
LEMMA Counted ==
    ASSUME KeyTypes
    PROVE  /\ IsFiniteSet(Keeping) /\ IsFiniteSet(gone)
           /\ IsFiniteSet(Keeping \cup succeeded)
           /\ IsFiniteSet((Keeping \cup succeeded) \ stale)
           /\ Cardinality(Keeping) \in Nat /\ Cardinality(gone) \in Nat
           /\ Cardinality(Keeping \cup succeeded) \in Nat
           /\ Cardinality((Keeping \cup succeeded) \ stale) \in Nat
           /\ Lock \in {0, 1}
<1>1. /\ Keeping \subseteq Request /\ gone \subseteq Request
      /\ (Keeping \cup succeeded) \subseteq Request
      /\ ((Keeping \cup succeeded) \ stale) \subseteq Request
  BY DEF Keeping, KeyTypes
<1>2. Lock \in {0, 1} BY DEF Lock
<1> QED BY <1>1, <1>2, Fewer, RequestAssumption

-----------------------------------------------------------------------------
LEMMA KeyInvInit == KeyInit => KeyInv
<1> SUFFICES ASSUME KeyInit PROVE KeyInv OBVIOUS
<1>1. KeyTypes BY DEF KeyInit, KeyTypes, Step
<1>2. RecordsSound BY DEF KeyInit, RecordsSound
<1>3. /\ Keeping = {} /\ gone = {} /\ Keeping \cup succeeded = {} /\ Lock = 0 /\ ~stored
  BY DEF KeyInit, Keeping, Lock
<1>4. WorkBounded BY <1>3, FS_EmptySet DEF WorkBounded
<1> QED BY <1>1, <1>2, <1>4 DEF KeyInv

(* A request takes the lock: it adds one, for the lock, or had missed the  *)
(* response.                                                               *)
LEMMA MarkKeepsInv ==
    ASSUME KeyInv, NEW r \in Request, MarkInFlight(r)
    PROVE  KeyInv'
<1> USE DEF KeyInv
<1>1. KeyTypes' BY DEF KeyTypes, MarkInFlight, At, Goto, history, Step
<1>2. RecordsSound' BY DEF KeyTypes, RecordsSound, MarkInFlight, At, Goto, history
<1>3. WorkBounded'
  <2>1. gone' = gone /\ succeeded' = succeeded /\ stale' = stale /\ stored' = stored
    BY DEF MarkInFlight, history
  <2>2. CASE inFlight
    <3>1. Keeping' = Keeping /\ Lock' = Lock
      BY <2>2 DEF Keeping, Lock, MarkInFlight, At, Goto, KeyTypes
    <3> QED BY <2>1, <3>1 DEF WorkBounded
  <2>3. CASE ~inFlight
    <3>1. Keeping' = Keeping \cup {r} /\ Lock = 0 /\ Lock' = 1
      BY <2>3 DEF Keeping, Lock, MarkInFlight, At, Goto, KeyTypes
    <3>2. Keeping' \cup succeeded' = (Keeping \cup succeeded) \cup {r} BY <2>1, <3>1
    <3>3. stored => r \in stale BY DEF RecordsSound, MarkInFlight, At
    <3>4. stored => (Keeping' \cup succeeded') \ stale' = (Keeping \cup succeeded) \ stale
      BY <2>1, <3>2, <3>3
    <3>5. Cardinality(Keeping') <= Cardinality(Keeping) + 1 /\ Cardinality(Keeping') \in Nat
      BY <3>1, Counted, OneMore
    <3>6. /\ Cardinality(Keeping' \cup succeeded') <= Cardinality(Keeping \cup succeeded) + 1
          /\ Cardinality(Keeping' \cup succeeded') \in Nat
      BY <3>2, Counted, OneMore
    <3> QED BY <2>1, <3>1, <3>4, <3>5, <3>6, Counted DEF WorkBounded
  <2> QED BY <2>2, <2>3
<1> QED BY <1>1, <1>2, <1>3

LEMMA JsonKeepsInv ==
    ASSUME KeyInv, NEW r \in Request, NEW ok \in BOOLEAN, Json(r, ok)
    PROVE  KeyInv'
<1> USE DEF KeyInv
<1>1. KeyTypes'
  BY DEF KeyTypes, Json, Settle, Worked, At, Goto, Step
<1>2. RecordsSound'
  BY DEF KeyTypes, RecordsSound, Json, Settle, Worked, At, Goto
<1>3. WorkBounded'
  <2>1. /\ r \in Keeping /\ Keeping' = Keeping \ {r} /\ gone' = gone
        /\ Lock' = 0 /\ r \notin succeeded
    BY DEF Json, Settle, At, Goto, Keeping, KeyTypes, Lock, RecordsSound
  <2>2. Cardinality(Keeping') <= Lock' + Cardinality(gone')
    <3>1. Cardinality(Keeping') = Cardinality(Keeping) - 1 BY <2>1, Counted, OneLess
    <3> QED BY <2>1, <3>1, Counted DEF WorkBounded
  <2>3. CASE ok
    <3>1. /\ stored' = TRUE /\ stale \subseteq stale'
          /\ Keeping' \cup succeeded' = Keeping \cup succeeded
      BY <2>1, <2>3 DEF Json, Settle, Worked, KeyTypes
    <3>2. /\ ((Keeping' \cup succeeded') \ stale') \subseteq ((Keeping \cup succeeded) \ stale)
          /\ ((Keeping' \cup succeeded') \ stale') \subseteq (Keeping \cup succeeded)
      BY <3>1
    <3>3. Cardinality((Keeping' \cup succeeded') \ stale') <= 1 + Cardinality(gone')
      BY <2>1, <3>2, Counted, Fewer DEF WorkBounded, KeyTypes
    <3> QED BY <2>2, <3>1, <3>3 DEF WorkBounded
  <2>4. CASE ~ok
    <3>1. /\ stored' = stored /\ stale' = stale
          /\ Keeping' \cup succeeded' = (Keeping \cup succeeded) \ {r}
      BY <2>1, <2>4 DEF Json, Settle, Worked, KeyTypes
    <3>2. Cardinality(Keeping' \cup succeeded') = Cardinality(Keeping \cup succeeded) - 1
      BY <2>1, <3>1, Counted, OneLess
    <3>3. ((Keeping' \cup succeeded') \ stale') \subseteq ((Keeping \cup succeeded) \ stale)
      BY <3>1
    <3>4. Cardinality((Keeping' \cup succeeded') \ stale') <=
             Cardinality((Keeping \cup succeeded) \ stale)
          /\ Cardinality((Keeping' \cup succeeded') \ stale') \in Nat
      BY <3>3, Counted, Fewer
    <3> QED BY <2>1, <2>2, <3>1, <3>2, <3>4, Counted DEF WorkBounded
  <2> QED BY <2>3, <2>4
<1> QED BY <1>1, <1>2, <1>3

(* The work is counted before and after; a request that its disconnect had *)
(* settled ends here.                                                      *)
LEMMA SendKeepsInv ==
    ASSUME KeyInv, NEW r \in Request, NEW ok \in BOOLEAN, Send(r, ok)
    PROVE  KeyInv'
<1> USE DEF KeyInv
<1>1. KeyTypes' BY DEF KeyTypes, Send, Worked, At, Goto, Step
<1>2. RecordsSound' BY DEF KeyTypes, RecordsSound, Send, Worked, At, Goto
<1>3. WorkBounded'
  <2>1. /\ r \in Keeping /\ Keeping' \subseteq Keeping
        /\ (Keeping' \cup succeeded') \subseteq (Keeping \cup succeeded)
        /\ gone' = gone /\ stale' = stale /\ stored' = stored /\ Lock' = Lock
    BY DEF Send, Worked, At, Goto, Keeping, KeyTypes, Lock
  <2>2. ((Keeping' \cup succeeded') \ stale') \subseteq ((Keeping \cup succeeded) \ stale)
    BY <2>1
  <2>3. /\ Cardinality(Keeping') <= Cardinality(Keeping)
        /\ Cardinality(Keeping') \in Nat
    BY <2>1, Counted, Fewer
  <2>4. /\ Cardinality(Keeping' \cup succeeded') <= Cardinality(Keeping \cup succeeded)
        /\ Cardinality(Keeping' \cup succeeded') \in Nat
    BY <2>1, Counted, Fewer
  <2>5. /\ Cardinality((Keeping' \cup succeeded') \ stale') <=
              Cardinality((Keeping \cup succeeded) \ stale)
        /\ Cardinality((Keeping' \cup succeeded') \ stale') \in Nat
    BY <2>2, Counted, Fewer
  <2> QED BY <2>1, <2>3, <2>4, <2>5, Counted DEF WorkBounded
<1> QED BY <1>1, <1>2, <1>3

LEMMA FinishKeepsInv ==
    ASSUME KeyInv, NEW r \in Request, FinishResponse(r)
    PROVE  KeyInv'
<1> USE DEF KeyInv
<1>1. KeyTypes' BY DEF KeyTypes, FinishResponse, Settle, At, Goto, Step
<1>2. RecordsSound' BY DEF KeyTypes, RecordsSound, FinishResponse, Settle, At, Goto
<1>3. WorkBounded'
  <2>1. /\ r \in Keeping /\ Keeping' = Keeping \ {r} /\ gone' = gone
        /\ succeeded' = succeeded /\ Lock' = 0 /\ stale \subseteq stale'
    BY DEF FinishResponse, Settle, Goto, Keeping, KeyTypes, Lock
  <2>2. Cardinality(Keeping') <= Lock' + Cardinality(gone')
    <3>1. Cardinality(Keeping') = Cardinality(Keeping) - 1 BY <2>1, Counted, OneLess
    <3> QED BY <2>1, <3>1, Counted DEF WorkBounded
  <2>3. /\ ((Keeping' \cup succeeded') \ stale') \subseteq ((Keeping \cup succeeded) \ stale)
        /\ ((Keeping' \cup succeeded') \ stale') \subseteq (Keeping \cup succeeded)
    BY <2>1
  <2>4. Cardinality((Keeping' \cup succeeded') \ stale') <= 1 + Cardinality(gone')
    BY <2>1, <2>3, Counted, Fewer DEF WorkBounded, KeyTypes
  <2>5. ASSUME ~stored'
        PROVE  Cardinality(Keeping' \cup succeeded') <= Lock' + Cardinality(gone')
    <3>1. ~stored /\ r \notin succeeded
      BY <2>5 DEF FinishResponse, Settle, At, RecordsSound, KeyTypes
    <3>2. Keeping' \cup succeeded' = (Keeping \cup succeeded) \ {r} BY <2>1, <3>1
    <3>3. Cardinality(Keeping' \cup succeeded') = Cardinality(Keeping \cup succeeded) - 1
      BY <2>1, <3>2, Counted, OneLess
    <3> QED BY <2>1, <3>1, <3>3, Counted DEF WorkBounded
  <2> QED BY <2>2, <2>4, <2>5 DEF WorkBounded
<1> QED BY <1>1, <1>2, <1>3

(* The one that is gone pays for the lock it frees.                        *)
LEMMA CloseKeepsInv ==
    ASSUME KeyInv, NEW r \in Request, Close(r)
    PROVE  KeyInv'
<1> USE DEF KeyInv
<1>1. KeyTypes' BY DEF KeyTypes, Close, Settle, At, Goto, Step
<1>2. RecordsSound' BY DEF KeyTypes, RecordsSound, Close, Settle, At, Goto
<1>3. WorkBounded'
  <2>1. /\ Keeping' \subseteq Keeping /\ gone' = gone \cup {r} /\ r \notin gone
        /\ succeeded' = succeeded /\ stale' = stale /\ stored' = stored /\ Lock' = 0
    BY DEF Close, Settle, At, Goto, Keeping, KeyTypes, Lock
  <2>2. Cardinality(gone') = Cardinality(gone) + 1
    BY <2>1, Counted, OneMore
  <2>3. /\ (Keeping' \cup succeeded') \subseteq (Keeping \cup succeeded)
        /\ ((Keeping' \cup succeeded') \ stale') \subseteq ((Keeping \cup succeeded) \ stale)
    BY <2>1
  <2>4. Cardinality(Keeping') <= Cardinality(Keeping) /\ Cardinality(Keeping') \in Nat
    BY <2>1, Counted, Fewer
  <2>5. /\ Cardinality(Keeping' \cup succeeded') <= Cardinality(Keeping \cup succeeded)
        /\ Cardinality(Keeping' \cup succeeded') \in Nat
    BY <2>3, Counted, Fewer
  <2>6. /\ Cardinality((Keeping' \cup succeeded') \ stale') <=
              Cardinality((Keeping \cup succeeded) \ stale)
        /\ Cardinality((Keeping' \cup succeeded') \ stale') \in Nat
    BY <2>3, Counted, Fewer
  <2> QED BY <2>1, <2>2, <2>4, <2>5, <2>6, Counted DEF WorkBounded
<1> QED BY <1>1, <1>2, <1>3

LEMMA ExpireKeepsInv == ASSUME KeyInv, Expire PROVE KeyInv'
<1> USE DEF KeyInv
<1>1. KeyTypes' BY DEF KeyTypes, Expire
<1>2. RecordsSound' BY DEF KeyTypes, RecordsSound, Expire
<1>3. /\ Keeping' = {} /\ succeeded' = {} /\ gone' = {} /\ ~stored' /\ Lock' \in {0, 1}
  BY DEF Expire, Keeping, Lock
<1>4. Keeping' \cup succeeded' = {} BY <1>3
<1>5. WorkBounded' BY <1>3, <1>4, FS_EmptySet DEF WorkBounded
<1> QED BY <1>1, <1>2, <1>5

LEMMA GetKeepsInv == ASSUME KeyInv, NEW r \in Request, Get(r) PROVE KeyInv'
<1> USE DEF KeyInv
<1>1. KeyTypes' BY DEF KeyTypes, Get, At, Goto, history, Step
<1>2. RecordsSound' BY DEF KeyTypes, RecordsSound, Get, At, Goto, history
<1>3. /\ Keeping' = Keeping /\ succeeded' = succeeded /\ gone' = gone /\ stale' = stale
      /\ stored' = stored /\ Lock' = Lock
  BY DEF Get, At, Goto, Keeping, Lock, history, KeyTypes
<1>4. WorkBounded' BY <1>3 DEF WorkBounded
<1> QED BY <1>1, <1>2, <1>4

LEMMA KeyInvStep == ASSUME KeyInv, [KeyNext]_keyVars PROVE KeyInv'
<1>1. CASE UNCHANGED keyVars
  BY <1>1 DEF keyVars, KeyInv, KeyTypes, RecordsSound, WorkBounded, Keeping, Lock
<1>2. ASSUME NEW r \in Request,
             Get(r) \/ MarkInFlight(r) \/ Answer(r) \/ FinishResponse(r) \/ Close(r)
      PROVE  KeyInv'
  BY <1>2, GetKeepsInv, MarkKeepsInv, JsonKeepsInv, SendKeepsInv, FinishKeepsInv,
     CloseKeepsInv DEF Answer
<1> QED BY <1>1, <1>2, ExpireKeepsInv DEF KeyNext

(* The bookkeeping of the key is an invariant: whoever is past the lock is *)
(* paid for by the lock, by a client that is gone, or by having missed the *)
(* response.                                                               *)
THEOREM KeyInvariant == KeySpec => []KeyInv
<1>1. KeySpec => KeyInit /\ [][KeyNext]_keyVars BY DEF KeySpec
<1> QED BY <1>1, KeyInvInit, KeyInvStep, PTL

LEMMA BoundsFollow == ASSUME KeyInv PROVE RerunsBounded
<1> USE DEF KeyInv
<1>1. Cardinality(Working) <= 1 + Cardinality(gone)
  <2>1. Working \subseteq Keeping BY DEF Working, Keeping
  <2>2. Cardinality(Working) <= Cardinality(Keeping) /\ Cardinality(Working) \in Nat
    BY <2>1, Counted, Fewer
  <2> QED BY <2>2, Counted DEF WorkBounded
<1>2. Cardinality(succeeded) <= 1 + Cardinality(gone) + Cardinality(stale)
  <2>1. IsFiniteSet(succeeded) /\ IsFiniteSet(stale)
    BY Fewer, RequestAssumption DEF KeyTypes
  <2>2. Cardinality(succeeded) \in Nat /\ Cardinality(stale) \in Nat
    BY <2>1, FS_CardinalityType
  <2>3. CASE ~stored
    <3>1. Cardinality(succeeded) <= Cardinality(Keeping \cup succeeded)
      BY Counted, Fewer
    <3> QED BY <2>2, <2>3, <3>1, Counted DEF WorkBounded
  <2>4. CASE stored
    <3> DEFINE Early == (Keeping \cup succeeded) \ stale
    <3>1. /\ IsFiniteSet(Early) /\ Cardinality(Early) \in Nat
          /\ Cardinality(Early) <= 1 + Cardinality(gone)
      BY <2>4, Counted DEF WorkBounded
    <3>2. /\ IsFiniteSet(Early \cup stale)
          /\ Cardinality(Early \cup stale) =
                Cardinality(Early) + Cardinality(stale) - Cardinality(Early \cap stale)
      BY <2>1, <3>1, FS_Union
    <3>3. Early \cap stale = {} /\ succeeded \subseteq Early \cup stale OBVIOUS
    <3>4. Cardinality(Early \cap stale) = 0 BY <3>3, FS_EmptySet
    <3>5. Cardinality(succeeded) <= Cardinality(Early \cup stale)
      BY <3>2, <3>3, Fewer
    <3> HIDE DEF Early
    <3> QED BY <2>2, <3>1, <3>2, <3>4, <3>5, Counted
  <2> QED BY <2>3, <2>4
<1> QED BY <1>1, <1>2 DEF RerunsBounded

(* However clients disconnect and handlers answer, the work behind a key   *)
(* is repeated only for those that left or looked too early.               *)
THEOREM WorkIsRarelyRepeated == KeySpec => []RerunsBounded
BY KeyInvariant, BoundsFollow, PTL
=============================================================================
