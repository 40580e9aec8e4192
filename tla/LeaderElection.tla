---------------------------- MODULE LeaderElection ----------------------------
(***************************************************************************)
(* Leader election over a Redis lease with fencing tokens                  *)
(* (backend/src/lib/leaderElection.ts).                                    *)
(*                                                                         *)
(* Each process has one Redis connection: its commands are executed in the *)
(* order they were sent and answered in that order, and between sending,   *)
(* execution and answer anything else may happen, in this process too:     *)
(* setInterval fires whether or not the previous beat was answered.  Each  *)
(* Lua script is one atomic step of Redis.  An instance id is a fresh UUID *)
(* per process, so a crashed process comes back as another member of       *)
(* Instance.  The lease lapses at any moment: time is not modelled, for a  *)
(* paused process or a slow network makes any renewal late.                *)
(***************************************************************************)
EXTENDS Naturals, Sequences

CONSTANTS
    Instance,       \* the processes that contend for the role
    NoOne,          \* not an instance: the lock key is absent
    Caller,         \* the places in one process that validate a token
    MaxPipe,        \* bound: commands of a process under way at once
    MaxLapses,      \* bound: leases that lapse although their holder is up
    MaxErrors       \* bound: commands that are rejected

ASSUME NoOneAssumption == NoOne \notin Instance
ASSUME BoundsAssumption == MaxPipe \in Nat /\ MaxLapses \in Nat /\ MaxErrors \in Nat

VARIABLES
    lock,           \* lock key: who holds the lease
    winners,        \* its length is the counter key; winners[t] won token t
    requests,       \* commands sent and not yet executed
    replies,        \* commands executed and not yet answered to the process
    leader,         \* this.leader
    fencingToken,   \* this.fencingToken, NoToken for null
    mode,           \* "new" before start(), "up", "stopped" from stop() on, "dead"
    timer,          \* the heartbeat interval is set
    lapses, errors  \* how often the bounded events happened

redisVars == <<lock, winners, lapses>>
pipeVars == <<requests, replies>>
localVars == <<leader, fencingToken, mode, timer>>
electionVars == <<redisVars, pipeVars, localVars, errors>>

NoToken == 0
Counter == Len(winners)

Acquire == {"start", "beat"}
Op == Acquire \cup {"validate", "release"}

(* A request, or (with the status the script answered) a reply.            *)
Command == [op : Op, by : Caller \cup {NoOne}, token : Nat, status : 0..2]

ElectionTypes ==
    /\ lock \in Instance \cup {NoOne}
    /\ winners \in Seq(Instance)
    /\ requests \in [Instance -> Seq(Command)]
    /\ replies \in [Instance -> Seq(Command)]
    /\ leader \in [Instance -> BOOLEAN]
    /\ fencingToken \in [Instance -> Nat]
    /\ mode \in [Instance -> {"new", "up", "stopped", "dead"}]
    /\ timer \in [Instance -> BOOLEAN]
    /\ lapses \in 0..MaxLapses /\ errors \in 0..MaxErrors

(* No token is in use that was not issued.                                 *)
ElectionTypeOK ==
    ElectionTypes /\ \A i \in Instance : fencingToken[i] \in 0..Counter

ElectionInit ==
    /\ lock = NoOne
    /\ winners = <<>>
    /\ requests = [i \in Instance |-> <<>>]
    /\ replies = [i \in Instance |-> <<>>]
    /\ leader = [i \in Instance |-> FALSE]
    /\ fencingToken = [i \in Instance |-> NoToken]
    /\ mode = [i \in Instance |-> "new"]
    /\ timer = [i \in Instance |-> FALSE]
    /\ lapses = 0 /\ errors = 0

Alive(i) == mode[i] # "dead"
Beating(i) == Alive(i) /\ timer[i]
Abandons(i) == mode[i] \in {"stopped", "dead"} /\ ~timer[i]
InPipe(i) == Len(requests[i]) + Len(replies[i])

-----------------------------------------------------------------------------
(* The process.                                                            *)

Send(i, op, c, t) ==
    requests' = [requests EXCEPT
        ![i] = Append(@, [op |-> op, by |-> c, token |-> t, status |-> 0])]

(* start(): the first attempt; the interval is set once it is answered.    *)
Start(i) ==
    /\ mode[i] = "new"
    /\ mode' = [mode EXCEPT ![i] = "up"]
    /\ Send(i, "start", NoOne, NoToken)
    /\ UNCHANGED <<redisVars, replies, leader, fencingToken, timer, errors>>

(* The interval fires.                                                     *)
Beat(i) ==
    /\ Beating(i)
    /\ InPipe(i) < MaxPipe
    /\ Send(i, "beat", NoOne, NoToken)
    /\ UNCHANGED <<redisVars, replies, localVars, errors>>

(* validateFencingToken(token), from the place c in the process.           *)
Validate(i, c, t) ==
    /\ Alive(i)
    /\ InPipe(i) < MaxPipe
    /\ Send(i, "validate", c, t)
    /\ UNCHANGED <<redisVars, replies, localVars, errors>>

(* stop(): clears the interval that is set, if any; only a process that    *)
(* takes itself for the leader releases, and awaits that first.            *)
Stop(i) ==
    /\ mode[i] = "up"
    /\ mode' = [mode EXCEPT ![i] = "stopped"]
    /\ timer' = [timer EXCEPT ![i] = FALSE]
    /\ IF leader[i]
         THEN Send(i, "release", NoOne, NoToken) /\ UNCHANGED fencingToken
         ELSE /\ fencingToken' = [fencingToken EXCEPT ![i] = NoToken]
              /\ UNCHANGED requests
    /\ UNCHANGED <<redisVars, replies, leader, errors>>

(* The process dies; commands that it has sent may still be executed.      *)
Crash(i) ==
    /\ Alive(i)
    /\ mode' = [mode EXCEPT ![i] = "dead"]
    /\ leader' = [leader EXCEPT ![i] = FALSE]
    /\ fencingToken' = [fencingToken EXCEPT ![i] = NoToken]
    /\ timer' = [timer EXCEPT ![i] = FALSE]
    /\ replies' = [replies EXCEPT ![i] = <<>>]
    /\ UNCHANGED <<redisVars, requests, errors>>

-----------------------------------------------------------------------------
(* Redis.                                                                  *)

Answer(i, status, token) ==
    /\ requests' = [requests EXCEPT ![i] = Tail(@)]
    /\ replies' = IF Alive(i)
                    THEN [replies EXCEPT ![i] = Append(@,
                            [Head(requests[i]) EXCEPT !.status = status, !.token = token])]
                    ELSE replies
    /\ UNCHANGED <<localVars, lapses, errors>>

Sent(i, op) == requests[i] # <<>> /\ Head(requests[i]).op \in op

(* Mutations: a new election does not store the counter; the holder is     *)
(* refused like anybody else.                                              *)
AcquireWithoutIncr(i) ==
    /\ Sent(i, Acquire)
    /\ lock' = IF lock = NoOne THEN i ELSE lock
    /\ IF lock \in {NoOne, i} THEN Answer(i, 1, Counter + 1) ELSE Answer(i, 0, 0)
    /\ UNCHANGED winners

AcquireNeverRenews(i) ==
    /\ Sent(i, Acquire)
    /\ IF lock = NoOne
         THEN lock' = i /\ winners' = Append(winners, i) /\ Answer(i, 1, Counter + 1)
         ELSE UNCHANGED <<lock, winners>> /\ Answer(i, 0, 0)

(* ACQUIRE_OR_RENEW_SCRIPT: SET and INCR, or PEXPIRE, or nothing.          *)
AcquireOrRenew(i) ==
    /\ Sent(i, Acquire)
    /\ \/ /\ lock = NoOne
          /\ lock' = i
          /\ winners' = Append(winners, i)
          /\ Answer(i, 1, Counter + 1)
       \/ /\ lock = i
          /\ UNCHANGED <<lock, winners>>
          /\ Answer(i, 2, Counter)
       \/ /\ lock \notin {NoOne, i}
          /\ UNCHANGED <<lock, winners>>
          /\ Answer(i, 0, 0)

(* VALIDATE_FENCING_TOKEN_SCRIPT.                                          *)
ExecValidate(i) ==
    /\ Sent(i, {"validate"})
    /\ LET t == Head(requests[i]).token
       IN  Answer(i, IF t = Counter THEN 1 ELSE 0, t)
    /\ UNCHANGED <<lock, winners>>

(* RELEASE_SCRIPT: compare and delete.                                     *)
Release(i) ==
    /\ Sent(i, {"release"})
    /\ lock' = IF lock = i THEN NoOne ELSE lock
    /\ Answer(i, 1, NoToken)
    /\ UNCHANGED winners

Exec(i) == AcquireOrRenew(i) \/ ExecValidate(i) \/ Release(i)

(* PX: the lease of a holder that is gone always lapses in the end; that   *)
(* of one that is up lapses when its first answer or its renewals are late.*)
Lapse ==
    /\ lock # NoOne
    /\ lock' = NoOne
    /\ lapses' = IF Abandons(lock) THEN lapses ELSE lapses + 1
    /\ lapses' <= MaxLapses
    /\ UNCHANGED <<winners, pipeVars, localVars, errors>>

-----------------------------------------------------------------------------
(* The answers reach the process.                                          *)

Oldest(i) == Head(replies[i])

Answered(i, op) == Alive(i) /\ replies[i] # <<>> /\ Oldest(i).op \in op
Consume(i) == replies' = [replies EXCEPT ![i] = Tail(@)]

(* start() goes on and sets the interval, whatever happened meanwhile.     *)
SetTimer(i, op) ==
    timer' = IF op = "start" THEN [timer EXCEPT ![i] = TRUE] ELSE timer

(* The events that tryAcquireOrRenew raises.                               *)
BecomesLeader(i) == Answered(i, Acquire) /\ Oldest(i).status = 1
LosesToOther(i) == Answered(i, Acquire) /\ Oldest(i).status = 0 /\ leader[i]

(* Mutation: the token is read from the counter when the answer arrives.   *)
AcquireAnsweredStale(i) ==
    /\ Answered(i, Acquire)
    /\ Consume(i)
    /\ leader' = [leader EXCEPT ![i] = Oldest(i).status # 0]
    /\ fencingToken' = [fencingToken EXCEPT ![i] = Counter]
    /\ SetTimer(i, Oldest(i).op)
    /\ UNCHANGED <<redisVars, requests, mode, errors>>

AcquireAnswered(i) ==
    /\ Answered(i, Acquire)
    /\ Consume(i)
    /\ leader' = [leader EXCEPT ![i] = Oldest(i).status # 0]
    /\ fencingToken' = IF Oldest(i).status = 0 THEN fencingToken
                       ELSE [fencingToken EXCEPT ![i] = Oldest(i).token]
    /\ SetTimer(i, Oldest(i).op)
    /\ UNCHANGED <<redisVars, requests, mode, errors>>

ValidateAnswered(i) ==
    /\ Answered(i, {"validate"})
    /\ Consume(i)
    /\ UNCHANGED <<redisVars, requests, localVars, errors>>

ReleaseAnswered(i) ==
    /\ Answered(i, {"release"})
    /\ Consume(i)
    /\ leader' = [leader EXCEPT ![i] = FALSE]
    /\ fencingToken' = [fencingToken EXCEPT ![i] = NoToken]
    /\ UNCHANGED <<redisVars, requests, mode, timer, errors>>

(* The oldest command under way is rejected, executed or not.              *)
OldestUnderWay(i) == IF replies[i] # <<>> THEN Oldest(i) ELSE Head(requests[i])

Rejects(i, op) ==
    /\ Alive(i)
    /\ InPipe(i) > 0
    /\ OldestUnderWay(i).op \in op
    /\ errors < MaxErrors
    /\ errors' = errors + 1
    /\ IF replies[i] # <<>>
         THEN Consume(i) /\ UNCHANGED requests
         ELSE requests' = [requests EXCEPT ![i] = Tail(@)] /\ UNCHANGED replies
    /\ UNCHANGED redisVars

(* Fail closed: a rejected attempt is a lost lease.                        *)
AcquireRejected(i) ==
    /\ Rejects(i, Acquire)
    /\ leader' = [leader EXCEPT ![i] = FALSE]
    /\ SetTimer(i, OldestUnderWay(i).op)
    /\ UNCHANGED <<fencingToken, mode>>

ValidateRejected(i) == Rejects(i, {"validate"}) /\ UNCHANGED localVars

(* Best effort: stop() goes on as if the lease had been released.          *)
ReleaseRejected(i) ==
    /\ Rejects(i, {"release"})
    /\ leader' = [leader EXCEPT ![i] = FALSE]
    /\ fencingToken' = [fencingToken EXCEPT ![i] = NoToken]
    /\ UNCHANGED <<mode, timer>>

-----------------------------------------------------------------------------
(* Election by itself; whoever uses it adds the validations.               *)
Step(i) ==
    \/ Start(i) \/ Beat(i) \/ Stop(i) \/ Crash(i)
    \/ AcquireOrRenew(i) \/ Release(i)
    \/ AcquireAnswered(i) \/ ReleaseAnswered(i)
    \/ AcquireRejected(i) \/ ReleaseRejected(i)

ElectionNext == (\E i \in Instance : Step(i)) \/ Lapse

ElectionSpec == ElectionInit /\ [][ElectionNext]_electionVars

(* The interval keeps firing, Redis executes what it received and its      *)
(* answers arrive, and a lease that nobody renews lapses.  Nothing says    *)
(* that anybody calls start() or stop(), or that anything fails.           *)
ElectionFairness ==
    /\ \A i \in Instance :
          /\ WF_electionVars(Beat(i))
          /\ WF_electionVars(AcquireOrRenew(i) \/ Release(i))
          /\ WF_electionVars(AcquireAnswered(i) \/ ReleaseAnswered(i))
    /\ WF_electionVars(lock # NoOne /\ Abandons(lock) /\ Lapse)

FairElectionSpec == ElectionSpec /\ ElectionFairness
=============================================================================
