------------------------ MODULE EventListenerProofs --------------------------
(***************************************************************************)
(* Leader election and the event listener that it drives.  Fencing tokens  *)
(* name terms, for any number of processes and any length of the pipes;    *)
(* the listener skips no event and presents tokens of its own only, for    *)
(* any number of processes, poll loops and events, whatever crashes,       *)
(* stops, lapses and errors there are, and a superseded process writes the *)
(* cursor once per loop and takeover at most.  The first part considers    *)
(* steps of the election and of whoever validates tokens on the same       *)
(* connection, so its lemmas serve the listener too.                       *)
(***************************************************************************)
EXTENDS EventListenerProps, SequenceTheorems, FiniteSetTheorems, TLAPS

(* A failure of the client itself, out of the bounded number of errors.    *)
ClientFails ==
    /\ errors < MaxErrors
    /\ errors' = errors + 1
    /\ UNCHANGED <<redisVars, pipeVars, localVars>>

ClientStep(i) ==
    \/ ClientFails
    \/ \E c \in Caller, t \in Nat : Validate(i, c, t)
    \/ ExecValidate(i)
    \/ ValidateAnswered(i)
    \/ ValidateRejected(i)

AnyNext == ElectionNext \/ \E i \in Instance : ClientStep(i)

-----------------------------------------------------------------------------
(* What each step does to the pipe and to the beliefs of process i.        *)

Sends(i) ==
    /\ \E r \in Command : requests' = [requests EXCEPT ![i] = Append(@, r)]
    /\ UNCHANGED <<redisVars, replies>>

LEMMA SendSends ==
    ASSUME NEW i \in Instance, NEW op \in Op, NEW c \in Caller \cup {NoOne}, NEW t \in Nat,
           Send(i, op, c, t), UNCHANGED <<redisVars, replies>>
    PROVE  Sends(i)
<1>1. [op |-> op, by |-> c, token |-> t, status |-> 0] \in Command
  BY DEF Command
<1> QED BY <1>1 DEF Send, Sends

(* Sequences of commands stay such when one is added or taken.             *)
LEMMA AppendCommand ==
    ASSUME NEW f \in [Instance -> Seq(Command)], NEW i \in Instance, NEW r \in Command
    PROVE  [f EXCEPT ![i] = Append(@, r)] \in [Instance -> Seq(Command)]
<1>1. Append(f[i], r) \in Seq(Command)
  BY AppendProperties
<1> QED BY <1>1

LEMMA TailCommand ==
    ASSUME NEW f \in [Instance -> Seq(Command)], NEW i \in Instance, f[i] # <<>>
    PROVE  /\ [f EXCEPT ![i] = Tail(@)] \in [Instance -> Seq(Command)]
           /\ Head(f[i]) \in Command
<1>1. Tail(f[i]) \in Seq(Command) /\ Head(f[i]) \in Command
  BY HeadTailProperties
<1> QED BY <1>1

LEMMA SendTypes ==
    ASSUME ElectionTypes, NEW i \in Instance, Sends(i)
    PROVE  requests' \in [Instance -> Seq(Command)]
  BY AppendCommand DEF Sends, ElectionTypes

LEMMA AnswerTypes ==
    ASSUME ElectionTypes, NEW i \in Instance, requests[i] # <<>>,
           NEW status \in 0..2, NEW token \in Nat, Answer(i, status, token)
    PROVE  /\ requests' \in [Instance -> Seq(Command)]
           /\ replies' \in [Instance -> Seq(Command)]
<1>1. Head(requests[i]) \in Command
  BY TailCommand DEF ElectionTypes
<1>2. [Head(requests[i]) EXCEPT !.status = status, !.token = token] \in Command
  BY <1>1 DEF Command
<1>3. requests' \in [Instance -> Seq(Command)]
  BY TailCommand DEF ElectionTypes, Answer
<1>4. replies' \in [Instance -> Seq(Command)]
  BY <1>2, AppendCommand DEF ElectionTypes, Answer
<1> QED BY <1>3, <1>4

LEMMA CounterType ==
    ASSUME ElectionTypes
    PROVE  /\ Counter \in Nat
           /\ \A j \in Instance : Append(winners, j) \in Seq(Instance)
  BY LenProperties, AppendProperties DEF ElectionTypes, Counter

LEMMA OldestType ==
    ASSUME ElectionTypes, NEW i \in Instance
    PROVE  /\ replies[i] # <<>> => Oldest(i) \in Command
           /\ InPipe(i) > 0 => OldestUnderWay(i) \in Command
  BY TailCommand, EmptySeq DEF ElectionTypes, Oldest, InPipe, OldestUnderWay

LEMMA ClearToken ==
    ASSUME NEW f \in [Instance -> Nat], NEW i \in Instance
    PROVE  [f EXCEPT ![i] = NoToken] \in [Instance -> Nat]
  BY DEF NoToken

LEMMA ClearFlag ==
    ASSUME NEW f \in [Instance -> BOOLEAN], NEW i \in Instance
    PROVE  [f EXCEPT ![i] = FALSE] \in [Instance -> BOOLEAN]
  OBVIOUS

LEMMA TypesStep ==
    ASSUME ElectionTypes, [AnyNext]_electionVars
    PROVE  ElectionTypes'
<1> USE NoOneAssumption, BoundsAssumption
<1> USE DEF redisVars, pipeVars, localVars
<1>1. ASSUME NEW i \in Instance, Start(i) PROVE ElectionTypes'
  <2>1. Sends(i)
    BY <1>1, SendSends DEF Start, Op, Acquire, NoToken
  <2> QED BY <1>1, <2>1, SendTypes DEF Start, ElectionTypes
<1>2. ASSUME NEW i \in Instance, Beat(i) PROVE ElectionTypes'
  <2>1. Sends(i)
    BY <1>2, SendSends DEF Beat, Op, Acquire, NoToken
  <2> QED BY <1>2, <2>1, SendTypes DEF Beat, ElectionTypes
<1>3. ASSUME NEW i \in Instance, NEW c \in Caller, NEW t \in Nat, Validate(i, c, t)
      PROVE  ElectionTypes'
  <2>1. Sends(i)
    BY <1>3, SendSends DEF Validate, Op
  <2> QED BY <1>3, <2>1, SendTypes DEF Validate, ElectionTypes
<1>4. ASSUME NEW i \in Instance, Stop(i) PROVE ElectionTypes'
  <2>1. CASE leader[i]
    <3>1. Sends(i)
      BY <1>4, <2>1, SendSends DEF Stop, Op, NoToken
    <3> QED BY <1>4, <2>1, <3>1, SendTypes DEF Stop, ElectionTypes
  <2>2. CASE ~leader[i]
    <3>1. /\ fencingToken' = [fencingToken EXCEPT ![i] = NoToken]
          /\ mode' = [mode EXCEPT ![i] = "stopped"]
          /\ timer' = [timer EXCEPT ![i] = FALSE]
          /\ UNCHANGED <<redisVars, pipeVars, leader, errors>>
      BY <1>4, <2>2 DEF Stop
    <3> QED BY <3>1, ClearToken, ClearFlag DEF ElectionTypes
  <2> QED BY <2>1, <2>2
<1>5. ASSUME NEW i \in Instance, Crash(i) PROVE ElectionTypes'
  BY <1>5, EmptySeq DEF Crash, ElectionTypes, NoToken
<1>6. ASSUME NEW i \in Instance, Exec(i) PROVE ElectionTypes'
  <2>1. requests[i] # <<>> /\ Counter \in Nat /\ Head(requests[i]) \in Command
    BY <1>6, CounterType, TailCommand
       DEF Exec, AcquireOrRenew, ExecValidate, Release, Sent, ElectionTypes
  <2>2. PICK status \in 0..2, token \in Nat : Answer(i, status, token)
    BY <1>6, <2>1 DEF Exec, AcquireOrRenew, ExecValidate, Release, NoToken, Command
  <2>3. /\ requests' \in [Instance -> Seq(Command)]
        /\ replies' \in [Instance -> Seq(Command)]
    BY <2>1, <2>2, AnswerTypes
  <2>4. /\ lock' \in Instance \cup {NoOne}
        /\ winners' \in Seq(Instance)
    BY <1>6, CounterType DEF Exec, AcquireOrRenew, ExecValidate, Release, ElectionTypes
  <2> QED BY <2>2, <2>3, <2>4 DEF Answer, ElectionTypes
<1>7. ASSUME NEW i \in Instance, AcquireAnswered(i) PROVE ElectionTypes'
  <2>1. Oldest(i) \in Command
    BY <1>7, OldestType DEF AcquireAnswered, Answered
  <2>2. replies' \in [Instance -> Seq(Command)]
    BY <1>7, TailCommand DEF AcquireAnswered, Answered, Consume, ElectionTypes
  <2> QED BY <1>7, <2>1, <2>2 DEF AcquireAnswered, SetTimer, ElectionTypes, Command
<1>8. ASSUME NEW i \in Instance, ValidateAnswered(i) \/ ReleaseAnswered(i)
      PROVE  ElectionTypes'
  <2>0. replies[i] # <<>> /\ replies' = [replies EXCEPT ![i] = Tail(@)]
    BY <1>8 DEF ValidateAnswered, ReleaseAnswered, Answered, Consume
  <2>1. replies' \in [Instance -> Seq(Command)]
    BY <2>0, TailCommand DEF ElectionTypes
  <2>2. CASE ValidateAnswered(i)
    BY <2>1, <2>2 DEF ValidateAnswered, ElectionTypes
  <2>3. CASE ReleaseAnswered(i)
    BY <2>1, <2>3, ClearToken, ClearFlag DEF ReleaseAnswered, ElectionTypes
  <2> QED BY <1>8, <2>2, <2>3
<1>9. ASSUME NEW i \in Instance,
             AcquireRejected(i) \/ ValidateRejected(i) \/ ReleaseRejected(i)
      PROVE  ElectionTypes'
  <2>1. PICK op : Rejects(i, op)
    BY <1>9 DEF AcquireRejected, ValidateRejected, ReleaseRejected
  <2>2. requests \in [Instance -> Seq(Command)] /\ replies \in [Instance -> Seq(Command)]
    BY DEF ElectionTypes
  <2>3. ASSUME replies[i] # <<>>
        PROVE  /\ requests' \in [Instance -> Seq(Command)]
               /\ replies' \in [Instance -> Seq(Command)]
    <3>1. requests' = requests /\ replies' = [replies EXCEPT ![i] = Tail(@)]
      BY <2>1, <2>3 DEF Rejects, Consume
    <3> QED BY <2>2, <2>3, <3>1, TailCommand
  <2>4. ASSUME replies[i] = <<>>
        PROVE  /\ requests' \in [Instance -> Seq(Command)]
               /\ replies' \in [Instance -> Seq(Command)]
    <3>1. requests' = [requests EXCEPT ![i] = Tail(@)] /\ replies' = replies
      BY <2>1, <2>4 DEF Rejects
    <3>2. requests[i] # <<>>
      BY <2>1, <2>4 DEF Rejects, InPipe
    <3> QED BY <2>2, <3>1, <3>2, TailCommand
  <2>5. /\ requests' \in [Instance -> Seq(Command)]
         /\ replies' \in [Instance -> Seq(Command)]
    BY <2>3, <2>4
  <2>6. lock' = lock /\ winners' = winners /\ lapses' = lapses /\ errors' \in 0..MaxErrors
    BY <2>1 DEF Rejects, ElectionTypes
  <2>7. CASE AcquireRejected(i)
    <3>1. timer' \in [Instance -> BOOLEAN]
      BY <2>7 DEF AcquireRejected, SetTimer, ElectionTypes
    <3> QED BY <2>5, <2>6, <2>7, <3>1, ClearFlag DEF AcquireRejected, ElectionTypes
  <2>8. CASE ValidateRejected(i)
    BY <2>5, <2>6, <2>8 DEF ValidateRejected, ElectionTypes
  <2>9. CASE ReleaseRejected(i)
    BY <2>5, <2>6, <2>9, ClearToken, ClearFlag DEF ReleaseRejected, ElectionTypes
  <2> QED BY <1>9, <2>7, <2>8, <2>9
<1>10. CASE Lapse
  BY <1>10 DEF Lapse, ElectionTypes
<1>11. CASE UNCHANGED electionVars
  BY <1>11 DEF electionVars, ElectionTypes
<1>12. CASE ClientFails
  BY <1>12 DEF ClientFails, ElectionTypes
<1> QED
  BY <1>1, <1>2, <1>3, <1>4, <1>5, <1>6, <1>7, <1>8, <1>9, <1>10, <1>11, <1>12
     DEF AnyNext, ElectionNext, Step, ClientStep, Exec

-----------------------------------------------------------------------------
(* A term once won stays won: winners only grows.                          *)
WinnersGrow == winners' = winners \/ \E j \in Instance : winners' = Append(winners, j)

LEMMA WonStays ==
    ASSUME ElectionTypes, WinnersGrow, NEW i, NEW t, Won(winners, i, t)
    PROVE  Won(winners', i, t)
<1>1. CASE winners' = winners
  BY <1>1 DEF Won, Counter
<1>2. ASSUME NEW j \in Instance, winners' = Append(winners, j) PROVE Won(winners', i, t)
  <2>1. Len(winners') = Len(winners) + 1 /\ \A n \in 1..Len(winners) : winners'[n] = winners[n]
    BY <1>2, AppendProperties DEF ElectionTypes
  <2>2. Len(winners) \in Nat
    BY LenProperties DEF ElectionTypes
  <2> QED BY <2>1, <2>2 DEF Won, Counter
<1> QED BY <1>1, <1>2 DEF WinnersGrow

LEMMA NewestIsWon ==
    ASSUME ElectionTypes, NEW j \in Instance, winners' = Append(winners, j)
    PROVE  Won(winners', j, Counter') /\ Counter' = Counter + 1
<1>1. Len(winners') = Len(winners) + 1 /\ winners'[Len(winners) + 1] = j
  BY AppendProperties DEF ElectionTypes
<1>2. Len(winners) \in Nat
  BY LenProperties DEF ElectionTypes
<1> QED BY <1>1, <1>2 DEF Won, Counter

(* A process whose beliefs and answers do not change keeps its terms.      *)
LEMMA UntouchedKeeps ==
    ASSUME ElectionTypes, WinnersGrow, NEW i \in Instance, OwnTerms(i),
           fencingToken'[i] = fencingToken[i], replies'[i] = replies[i]
    PROVE  OwnTerms(i)'
<1>1. fencingToken'[i] # NoToken => Won(winners', i, fencingToken'[i])
  BY WonStays DEF OwnTerms
<1>2. ASSUME NEW n \in 1..Len(replies'[i]), Granted(replies'[i][n])
      PROVE  Won(winners', i, replies'[i][n].token)
  BY <1>2, WonStays DEF OwnTerms
<1> QED BY <1>1, <1>2 DEF OwnTerms

(* Forgetting the token, or the answers, only drops terms.                 *)
LEMMA ForgetKeeps ==
    ASSUME ElectionTypes, winners' = winners, NEW i \in Instance, OwnTerms(i),
           fencingToken'[i] \in {fencingToken[i], NoToken},
           replies'[i] \in {replies[i], <<>>},
           \A n \in 1..Len(replies[i]) : replies[i][n].token \in Nat
    PROVE  OwnTerms(i)'
<1>1. fencingToken'[i] # NoToken => Won(winners', i, fencingToken'[i])
  BY DEF OwnTerms, Won, Counter
<1>2. Len(<<>>) = 0
  OBVIOUS
<1>3. ASSUME NEW n \in 1..Len(replies'[i]), Granted(replies'[i][n])
      PROVE  /\ n \in 1..Len(replies[i]) /\ replies'[i] = replies[i]
             /\ Won(winners', i, replies'[i][n].token)
             /\ fencingToken'[i] <= replies'[i][n].token
  BY <1>2, <1>3 DEF OwnTerms, Won, Counter, NoToken
<1> QED BY <1>1, <1>3 DEF OwnTerms

(* An answer that grants the newest term comes last in the order.          *)
LEMMA AnswerKeeps ==
    ASSUME ElectionTypes, WinnersGrow, NEW i \in Instance, OwnTerms(i),
           fencingToken' = fencingToken, NEW r \in Command,
           replies' = [replies EXCEPT ![i] = Append(@, r)],
           Granted(r) => r.token = Counter' /\ Won(winners', i, r.token)
    PROVE  OwnTerms(i)'
<1> DEFINE L == Len(replies[i])
<1>1. /\ L \in Nat
      /\ Len(replies'[i]) = L + 1
      /\ \A n \in 1..L : replies'[i][n] = replies[i][n]
      /\ replies'[i][L + 1] = r
  BY AppendProperties, LenProperties DEF ElectionTypes
<1>2. Len(winners) \in Nat /\ Len(winners') \in Nat /\ Len(winners) <= Len(winners')
  BY LenProperties, AppendProperties DEF ElectionTypes, WinnersGrow
<1>3. \A t : Won(winners, i, t) => Won(winners', i, t) /\ t <= Counter'
  BY <1>2, WonStays DEF Won, Counter
<1>4. fencingToken'[i] # NoToken => Won(winners', i, fencingToken'[i])
  BY <1>3 DEF OwnTerms
<1>5. fencingToken[i] <= Counter'
  BY <1>2, <1>3 DEF OwnTerms, NoToken, Counter
<1>6. ASSUME NEW n \in 1..Len(replies'[i]), Granted(replies'[i][n])
      PROVE  /\ Won(winners', i, replies'[i][n].token)
             /\ fencingToken'[i] <= replies'[i][n].token
             /\ \A m \in 1..Len(replies'[i]) : n < m /\ Granted(replies'[i][m]) =>
                   replies'[i][n].token <= replies'[i][m].token
  <2>1. CASE n \in 1..L
    <3>1. Won(winners, i, replies[i][n].token) /\ fencingToken[i] <= replies[i][n].token
      BY <1>1, <1>6, <2>1 DEF OwnTerms
    <3>2. replies[i][n].token <= Counter'
      BY <1>3, <3>1
    <3>3. ASSUME NEW m \in 1..(L + 1), n < m, Granted(replies'[i][m])
          PROVE  replies'[i][n].token <= replies'[i][m].token
      <4>1. CASE m \in 1..L
        BY <1>1, <1>6, <2>1, <3>3, <4>1 DEF OwnTerms
      <4>2. CASE m = L + 1
        BY <1>1, <2>1, <3>2, <3>3, <4>2
      <4> QED BY <1>1, <4>1, <4>2
    <3> QED BY <1>1, <1>3, <2>1, <3>1, <3>3
  <2>2. CASE n = L + 1
    BY <1>1, <1>5, <1>6, <2>2
  <2> QED BY <1>1, <1>6, <2>1, <2>2
<1> QED BY <1>4, <1>6 DEF OwnTerms

(* Taking the oldest answer off; the token of one that grants is adopted.  *)
LEMMA ConsumeKeeps ==
    ASSUME ElectionTypes, winners' = winners, NEW i \in Instance, OwnTerms(i),
           replies[i] # <<>>, replies' = [replies EXCEPT ![i] = Tail(@)],
           \/ fencingToken'[i] \in {fencingToken[i], NoToken}
           \/ Granted(Oldest(i)) /\ fencingToken'[i] = Oldest(i).token
    PROVE  OwnTerms(i)'
<1> DEFINE L == Len(replies[i])
<1>1. /\ L \in Nat /\ L >= 1
      /\ Len(replies'[i]) = L - 1
      /\ \A n \in 1..(L - 1) : replies'[i][n] = replies[i][n + 1]
      /\ \A n \in 1..L : replies[i][n] \in Command
      /\ replies[i][1] = Oldest(i)
  <2>1. replies[i] \in Seq(Command) /\ replies'[i] = Tail(replies[i])
    BY DEF ElectionTypes
  <2>2. L \in Nat \ {0}
    BY <2>1, EmptySeq
  <2>3. \A n \in 1..L : replies[i][n] \in Command
    BY <2>1, ElementOfSeq
  <2>4. replies[i][1] = Oldest(i)
    BY <2>1, <2>2 DEF Oldest
  <2>5. /\ Len(Tail(replies[i])) = L - 1
        /\ \A n \in 1..Len(Tail(replies[i])) : Tail(replies[i])[n] = replies[i][n + 1]
    BY <2>1, <2>2, HeadTailProperties
  <2>6. Len(replies'[i]) = L - 1
    BY <2>1, <2>5
  <2>7. \A n \in 1..(L - 1) : replies'[i][n] = replies[i][n + 1]
    BY <2>1, <2>5
  <2> QED BY <2>2, <2>3, <2>4, <2>6, <2>7
<1>2. \A t : Won(winners, i, t) => Won(winners', i, t)
  BY DEF Won, Counter
<1>3. fencingToken'[i] # NoToken => Won(winners', i, fencingToken'[i])
  BY <1>1, <1>2 DEF OwnTerms
<1>4. ASSUME NEW n \in 1..(L - 1), Granted(replies[i][n + 1])
      PROVE  /\ Won(winners, i, replies[i][n + 1].token)
             /\ fencingToken[i] <= replies[i][n + 1].token
             /\ Granted(Oldest(i)) => Oldest(i).token <= replies[i][n + 1].token
  <2>1. n + 1 \in 1..L /\ 1 \in 1..L /\ 1 < n + 1
    BY <1>1
  <2> QED BY <1>1, <1>4, <2>1 DEF OwnTerms
<1>5. ASSUME NEW n \in 1..(L - 1), Granted(replies[i][n + 1])
      PROVE  fencingToken'[i] <= replies[i][n + 1].token
  BY <1>1, <1>4, <1>5 DEF NoToken, Won
<1>6. ASSUME NEW n \in 1..(L - 1), NEW m \in 1..(L - 1), n < m,
             Granted(replies[i][n + 1]), Granted(replies[i][m + 1])
      PROVE  replies[i][n + 1].token <= replies[i][m + 1].token
  <2>1. n + 1 \in 1..L /\ m + 1 \in 1..L /\ n + 1 < m + 1
    BY <1>1, <1>6
  <2> QED BY <1>6, <2>1 DEF OwnTerms
<1> QED BY <1>1, <1>2, <1>3, <1>4, <1>5, <1>6 DEF OwnTerms

-----------------------------------------------------------------------------
LEMMA TokensInit == ElectionInit => ElectionTypes /\ TokensAreWon
<1> SUFFICES ASSUME ElectionInit PROVE ElectionTypes /\ TokensAreWon
  OBVIOUS
<1>1. <<>> \in Seq(Command) /\ <<>> \in Seq(Instance) /\ Len(<<>>) = 0
  BY EmptySeq
<1>2. ElectionTypes
  BY <1>1, BoundsAssumption DEF ElectionInit, ElectionTypes, NoToken
<1>3. TokensAreWon
  BY <1>1 DEF ElectionInit, TokensAreWon, OwnTerms
<1> QED BY <1>2, <1>3

(* Steps that move neither lease nor belief.                               *)
LEMMA QuietKeepsTokens ==
    ASSUME ElectionTypes, TokensAreWon,
           UNCHANGED <<lock, winners, replies, fencingToken>>
    PROVE  TokensAreWon'
<1>1. \A i \in Instance : OwnTerms(i)'
  BY UntouchedKeeps DEF TokensAreWon, WinnersGrow
<1> QED BY <1>1 DEF TokensAreWon, Counter

(* Steps of process i that take answers or forget.                         *)
LEMMA LocalKeepsTokens ==
    ASSUME ElectionTypes, TokensAreWon, UNCHANGED <<lock, winners>>, NEW i \in Instance,
           OwnTerms(i)',
           \A j \in Instance : j # i =>
               fencingToken'[j] = fencingToken[j] /\ replies'[j] = replies[j]
    PROVE  TokensAreWon'
<1>1. \A j \in Instance : OwnTerms(j)'
  BY UntouchedKeeps DEF TokensAreWon, WinnersGrow
<1> QED BY <1>1 DEF TokensAreWon, Counter

(* Redis answers process i: what it grants is the newest term.             *)
LEMMA AnsweredKeepsTokens ==
    ASSUME ElectionTypes, TokensAreWon, WinnersGrow, NEW i \in Instance,
           requests[i] # <<>>, Head(requests[i]) \in Command,
           NEW s \in 0..2, NEW t \in Nat, Answer(i, s, t),
           \/ Head(requests[i]).op \notin Acquire
           \/ s = 0
           \/ t = Counter' /\ Won(winners', i, Counter'),
           lock' # NoOne => Won(winners', lock', Counter')
    PROVE  TokensAreWon'
<1>1. fencingToken' = fencingToken
  BY DEF Answer, localVars
<1>2. \A j \in Instance : j # i => replies'[j] = replies[j]
  BY DEF Answer, ElectionTypes
<1>3. \A j \in Instance : j # i => OwnTerms(j)'
  BY <1>1, <1>2, UntouchedKeeps DEF TokensAreWon
<1>4. OwnTerms(i)
  BY DEF TokensAreWon
<1>5. ASSUME Alive(i) PROVE OwnTerms(i)'
  <2>1. PICK r : r = [Head(requests[i]) EXCEPT !.status = s, !.token = t]
    OBVIOUS
  <2>2. r \in Command /\ r.op = Head(requests[i]).op /\ r.status = s /\ r.token = t
    BY <2>1 DEF Command
  <2>3. replies' = [replies EXCEPT ![i] = Append(@, r)]
    BY <1>5, <2>1 DEF Answer
  <2>4. Granted(r) => r.token = Counter' /\ Won(winners', i, r.token)
    BY <2>2 DEF Granted
  <2> QED BY <1>1, <1>4, <2>2, <2>3, <2>4, AnswerKeeps
<1>6. ASSUME ~Alive(i) PROVE OwnTerms(i)'
  <2>1. replies' = replies
    BY <1>6 DEF Answer
  <2> QED BY <1>1, <1>4, <2>1, UntouchedKeeps
<1>7. \A j \in Instance : OwnTerms(j)'
  BY <1>3, <1>5, <1>6
<1> QED BY <1>7 DEF TokensAreWon

LEMMA TokensStep ==
    ASSUME ElectionTypes, TokensAreWon, [AnyNext]_electionVars
    PROVE  TokensAreWon'
<1> USE NoOneAssumption DEF redisVars, pipeVars, localVars
<1>1. ASSUME NEW i \in Instance,
             \/ Start(i) \/ Beat(i) \/ \E c \in Caller, t \in Nat : Validate(i, c, t)
      PROVE  TokensAreWon'
  BY <1>1, QuietKeepsTokens DEF Start, Beat, Validate
<1>2. ASSUME NEW i \in Instance, NEW t \in {fencingToken[i], NoToken},
             NEW rs \in {replies[i], <<>>},
             fencingToken' = [fencingToken EXCEPT ![i] = t],
             replies' = [replies EXCEPT ![i] = rs], UNCHANGED <<lock, winners>>
      PROVE  TokensAreWon'
  <2>1. fencingToken'[i] = t /\ replies'[i] = rs
    BY <1>2 DEF ElectionTypes
  <2>2. OwnTerms(i)'
    <3>1. \A n \in 1..Len(replies[i]) : replies[i][n].token \in Nat
      <4>1. \A n \in 1..Len(replies[i]) : replies[i][n] \in Command
        BY ElementOfSeq DEF ElectionTypes
      <4> QED BY <4>1 DEF Command
    <3> QED BY <1>2, <2>1, <3>1, ForgetKeeps DEF TokensAreWon
  <2>3. \A j \in Instance : j # i =>
            fencingToken'[j] = fencingToken[j] /\ replies'[j] = replies[j]
    BY <1>2 DEF ElectionTypes
  <2> QED BY <1>2, <2>2, <2>3, LocalKeepsTokens
<1>3. ASSUME NEW i \in Instance, Stop(i) PROVE TokensAreWon'
  <2>1. /\ UNCHANGED <<lock, winners>>
        /\ replies' = [replies EXCEPT ![i] = replies[i]]
        /\ \E t \in {fencingToken[i], NoToken} :
              fencingToken' = [fencingToken EXCEPT ![i] = t]
    BY <1>3 DEF Stop, ElectionTypes
  <2> QED BY <1>2, <2>1
<1>4. ASSUME NEW i \in Instance, Crash(i) PROVE TokensAreWon'
  BY <1>2, <1>4 DEF Crash
<1>5. ASSUME NEW i \in Instance, Exec(i) PROVE TokensAreWon'
  <2>1. requests[i] # <<>> /\ Counter \in Nat /\ Head(requests[i]) \in Command
    BY <1>5, CounterType, TailCommand
       DEF Exec, AcquireOrRenew, ExecValidate, Release, Sent, ElectionTypes
  <2>2. CASE AcquireOrRenew(i) /\ lock = NoOne
    <3>1. lock' = i /\ winners' = Append(winners, i) /\ Answer(i, 1, Counter + 1)
      BY <2>2 DEF AcquireOrRenew
    <3>2. WinnersGrow /\ Won(winners', i, Counter') /\ Counter' = Counter + 1
      BY <3>1, NewestIsWon DEF WinnersGrow
    <3>3. Counter + 1 \in Nat /\ 1 \in 0..2
      BY <2>1
    <3> QED BY <2>1, <3>1, <3>2, <3>3, AnsweredKeepsTokens
  <2>3. CASE AcquireOrRenew(i) /\ lock = i
    <3>1. UNCHANGED <<lock, winners>> /\ Answer(i, 2, Counter)
      BY <2>3 DEF AcquireOrRenew
    <3>2. WinnersGrow /\ Won(winners', i, Counter') /\ Counter' = Counter
      BY <2>3, <3>1 DEF WinnersGrow, TokensAreWon, Counter
    <3>3. lock' # NoOne => Won(winners', lock', Counter')
      BY <2>3, <3>1, <3>2
    <3>4. 2 \in 0..2
      OBVIOUS
    <3> QED BY <2>1, <3>1, <3>2, <3>3, <3>4, AnsweredKeepsTokens
  <2>4. CASE AcquireOrRenew(i) /\ lock \notin {NoOne, i}
    <3>1. UNCHANGED <<lock, winners>> /\ Answer(i, 0, 0)
      BY <2>4 DEF AcquireOrRenew
    <3>2. WinnersGrow /\ 0 \in 0..2 /\ 0 \in Nat
      BY <3>1 DEF WinnersGrow
    <3>3. lock' # NoOne => Won(winners', lock', Counter')
      BY <3>1 DEF TokensAreWon, Counter
    <3> QED BY <2>1, <3>1, <3>2, <3>3, AnsweredKeepsTokens
  <2>5. CASE ExecValidate(i) \/ Release(i)
    <3>1. PICK s \in 0..2, t \in Nat : Answer(i, s, t)
      BY <2>1, <2>5 DEF ExecValidate, Release, Command, NoToken
    <3>2. /\ winners' = winners /\ lock' \in {lock, NoOne}
          /\ Head(requests[i]).op \notin Acquire
      BY <2>5 DEF ExecValidate, Release, Sent, Acquire
    <3>3. WinnersGrow
      BY <3>2 DEF WinnersGrow
    <3>4. lock' # NoOne => Won(winners', lock', Counter')
      BY <3>2 DEF TokensAreWon, Counter
    <3> QED BY <2>1, <3>1, <3>2, <3>3, <3>4, AnsweredKeepsTokens
  <2> QED BY <1>5, <2>2, <2>3, <2>4, <2>5 DEF Exec, AcquireOrRenew
<1>6. ASSUME NEW i \in Instance, UNCHANGED <<lock, winners>>, replies[i] # <<>>, Consume(i),
             \/ fencingToken' = fencingToken
             \/ fencingToken' = [fencingToken EXCEPT ![i] = NoToken]
             \/ /\ Granted(Oldest(i))
                /\ fencingToken' = [fencingToken EXCEPT ![i] = Oldest(i).token]
      PROVE  TokensAreWon'
  <2>1. OwnTerms(i)'
    BY <1>6, ConsumeKeeps DEF Consume, TokensAreWon, ElectionTypes
  <2> QED BY <1>6, <2>1, LocalKeepsTokens DEF Consume, ElectionTypes
<1>7. ASSUME NEW i \in Instance,
             AcquireAnswered(i) \/ ValidateAnswered(i) \/ ReleaseAnswered(i)
      PROVE  TokensAreWon'
  <2>1. replies[i] # <<>> /\ Consume(i) /\ UNCHANGED <<lock, winners>>
    BY <1>7 DEF AcquireAnswered, ValidateAnswered, ReleaseAnswered, Answered
  <2>2. \/ fencingToken' = fencingToken
        \/ fencingToken' = [fencingToken EXCEPT ![i] = NoToken]
        \/ /\ Granted(Oldest(i))
           /\ fencingToken' = [fencingToken EXCEPT ![i] = Oldest(i).token]
    BY <1>7 DEF AcquireAnswered, ValidateAnswered, ReleaseAnswered, Answered, Granted
  <2> QED BY <1>6, <2>1, <2>2
<1>8. ASSUME NEW i \in Instance,
             AcquireRejected(i) \/ ValidateRejected(i) \/ ReleaseRejected(i)
      PROVE  TokensAreWon'
  <2>1. PICK op : Rejects(i, op)
    BY <1>8 DEF AcquireRejected, ValidateRejected, ReleaseRejected
  <2>2. /\ UNCHANGED <<lock, winners>>
        /\ \/ fencingToken' = fencingToken
           \/ fencingToken' = [fencingToken EXCEPT ![i] = NoToken]
    BY <1>8, <2>1 DEF AcquireRejected, ValidateRejected, ReleaseRejected, Rejects
  <2>3. CASE replies[i] # <<>>
    BY <1>6, <2>1, <2>2, <2>3 DEF Rejects
  <2>4. CASE replies[i] = <<>>
    <3>1. replies' = [replies EXCEPT ![i] = replies[i]]
      BY <2>1, <2>4 DEF Rejects, ElectionTypes
    <3>2. \E t \in {fencingToken[i], NoToken} :
              fencingToken' = [fencingToken EXCEPT ![i] = t]
      BY <2>2 DEF ElectionTypes
    <3> QED BY <1>2, <2>2, <3>1, <3>2
  <2> QED BY <2>3, <2>4
<1>9. CASE Lapse
  <2>1. \A i \in Instance : OwnTerms(i)'
    BY <1>9, UntouchedKeeps DEF Lapse, TokensAreWon, WinnersGrow
  <2> QED BY <1>9, <2>1 DEF Lapse, TokensAreWon
<1>10. CASE ClientFails \/ UNCHANGED electionVars
  BY <1>10, QuietKeepsTokens DEF ClientFails, electionVars
<1> QED
  BY <1>1, <1>3, <1>4, <1>5, <1>7, <1>8, <1>9, <1>10
     DEF AnyNext, ElectionNext, Step, ClientStep, Exec

-----------------------------------------------------------------------------
ElectionInv == ElectionTypes /\ TokensAreWon

LEMMA InvariantStep == ElectionInv /\ [AnyNext]_electionVars => ElectionInv'
  BY TypesStep, TokensStep DEF ElectionInv

LEMMA InvariantHolds == ElectionSpec => []ElectionInv
<1>1. ElectionInit => ElectionInv
  BY TokensInit DEF ElectionInv
<1>2. ElectionInv /\ [ElectionNext]_electionVars => ElectionInv'
  BY InvariantStep DEF AnyNext
<1> QED BY <1>1, <1>2, PTL DEF ElectionSpec

(* Every token that a process has, or is about to be answered, is one that *)
(* the lease script issued to it, in the order it issued them, and the     *)
(* holder of the lock won the newest (leaderElection.ts:91-104, 176-205).  *)
THEOREM TokensWon == ElectionSpec => []TokensAreWon
<1>1. ElectionInv => TokensAreWon
  BY DEF ElectionInv
<1> QED BY <1>1, InvariantHolds, PTL

(* The state keeps its types and no process uses a token above the counter *)
(* (leaderElection.ts:61-111).                                             *)
THEOREM ElectionTypeCorrect == ElectionSpec => []ElectionTypeOK
<1>1. ASSUME ElectionInv PROVE ElectionTypeOK
  <2>1. \A i \in Instance : fencingToken[i] # NoToken => Won(winners, i, fencingToken[i])
    BY <1>1 DEF ElectionInv, TokensAreWon, OwnTerms
  <2>2. Counter \in Nat /\ \A i \in Instance : fencingToken[i] \in Nat
    BY <1>1, CounterType DEF ElectionInv, ElectionTypes
  <2>3. ASSUME NEW i \in Instance PROVE fencingToken[i] \in 0..Counter
    <3>1. CASE fencingToken[i] = NoToken
      BY <2>2, <3>1 DEF NoToken
    <3>2. CASE fencingToken[i] # NoToken
      <4>1. fencingToken[i] \in 1..Counter
        BY <2>1, <3>2 DEF Won, Counter
      <4> QED BY <2>2, <4>1
    <3> QED BY <3>1, <3>2
  <2>4. ElectionTypes
    BY <1>1 DEF ElectionInv
  <2> QED BY <2>3, <2>4, Zenon DEF ElectionTypeOK
<1>2. ElectionInv => ElectionTypeOK
  BY <1>1
<1> QED BY <1>2, InvariantHolds, PTL

(* No two processes hold one fencing token, whoever believes to lead       *)
(* (leaderElection.ts:13-24).                                              *)
THEOREM NoTokenIsShared == ElectionSpec => []NoSharedToken
<1>1. ElectionInv => NoSharedToken
  BY DEF ElectionInv, TokensAreWon, OwnTerms, NoSharedToken, Won
<1> QED BY <1>1, InvariantHolds, PTL

-----------------------------------------------------------------------------
(* The refinement: every step is one of the abstract lease, or a stutter.  *)

(* Only the belief of process i changes, and only to none.                 *)
LEMMA ForgettingResigns ==
    ASSUME NEW i \in Instance, UNCHANGED <<lock, winners>>,
           \/ fencingToken' = fencingToken
           \/ fencingToken' = [fencingToken EXCEPT ![i] = NoToken]
    PROVE  [Lease!LeaseNext]_Lease!leaseVars
<1>1. CASE fencingToken' = fencingToken
  BY <1>1 DEF Lease!leaseVars
<1>2. CASE fencingToken' = [fencingToken EXCEPT ![i] = NoToken]
  <2>1. Lease!Resign(i)
    BY <1>2 DEF Lease!Resign, NoToken
  <2> QED BY <2>1 DEF Lease!LeaseNext
<1> QED BY <1>1, <1>2

LEMMA LosingVacates ==
    ASSUME lock' \in {lock, NoOne}, UNCHANGED <<winners, fencingToken>>
    PROVE  [Lease!LeaseNext]_Lease!leaseVars
<1>1. CASE lock' = lock
  BY <1>1 DEF Lease!leaseVars
<1>2. CASE lock # NoOne /\ lock' = NoOne
  <2>1. Lease!Vacate
    BY <1>2 DEF Lease!Vacate
  <2> QED BY <2>1 DEF Lease!LeaseNext
<1> QED BY <1>1, <1>2

(* A granted answer is for a term that its receiver won, and not an older  *)
(* one than that it believes in.                                           *)
LEMMA AnswersTeach ==
    ASSUME ElectionInv, NEW i \in Instance, AcquireAnswered(i)
    PROVE  [Lease!LeaseNext]_Lease!leaseVars
<1> USE DEF redisVars
<1>1. UNCHANGED <<lock, winners>> /\ Oldest(i).op \in Acquire
  BY DEF AcquireAnswered, Answered
<1>2. CASE Oldest(i).status = 0
  BY <1>1, <1>2, ForgettingResigns DEF AcquireAnswered
<1>3. CASE Oldest(i).status # 0
  <2>1. fencingToken' = [fencingToken EXCEPT ![i] = Oldest(i).token]
    BY <1>3 DEF AcquireAnswered
  <2>2. replies[i] \in Seq(Command) /\ replies[i] # <<>> /\ fencingToken[i] \in Nat
    BY DEF ElectionInv, ElectionTypes, AcquireAnswered, Answered
  <2>3. 1 \in 1..Len(replies[i]) /\ replies[i][1] = Oldest(i)
    <3>1. Len(replies[i]) \in Nat \ {0} /\ Head(replies[i]) = replies[i][1]
      BY <2>2, EmptySeq
    <3> QED BY <3>1 DEF Oldest
  <2>4. Granted(replies[i][1])
    BY <1>1, <1>3, <2>3 DEF Granted
  <2>5. Won(winners, i, Oldest(i).token) /\ fencingToken[i] <= Oldest(i).token
    BY <2>3, <2>4 DEF ElectionInv, TokensAreWon, OwnTerms
  <2>6. CASE Oldest(i).token = fencingToken[i]
    <3>1. fencingToken' = fencingToken
      BY <2>1, <2>6 DEF ElectionInv, ElectionTypes
    <3> QED BY <1>1, <3>1, ForgettingResigns
  <2>7. CASE Oldest(i).token # fencingToken[i]
    <3>1. Oldest(i).token \in Lease!Won(i) /\ Oldest(i).token > fencingToken[i]
      BY <2>2, <2>5, <2>7, SMTT(20) DEF Won, Lease!Won
    <3>2. Lease!Learn(i)
      BY <1>1, <2>1, <3>1 DEF Lease!Learn
    <3> QED BY <3>2 DEF Lease!LeaseNext
  <2> QED BY <2>6, <2>7
<1> QED BY <1>2, <1>3

LEMMA StepImplements ==
    ASSUME ElectionInv, [AnyNext]_electionVars
    PROVE  [Lease!LeaseNext]_Lease!leaseVars
<1> USE NoOneAssumption DEF redisVars, pipeVars, localVars
<1>1. ASSUME NEW i \in Instance,
             \/ Start(i) \/ Beat(i) \/ Stop(i) \/ Crash(i)
             \/ \E c \in Caller, t \in Nat : Validate(i, c, t)
             \/ ReleaseAnswered(i) \/ ValidateAnswered(i)
      PROVE  [Lease!LeaseNext]_Lease!leaseVars
  <2>1. /\ UNCHANGED <<lock, winners>>
        /\ \/ fencingToken' = fencingToken
           \/ fencingToken' = [fencingToken EXCEPT ![i] = NoToken]
    BY <1>1 DEF Start, Beat, Stop, Crash, Validate, ReleaseAnswered, ValidateAnswered
  <2> QED BY <2>1, ForgettingResigns
<1>2. ASSUME NEW i \in Instance,
             AcquireRejected(i) \/ ValidateRejected(i) \/ ReleaseRejected(i)
      PROVE  [Lease!LeaseNext]_Lease!leaseVars
  <2>1. /\ UNCHANGED <<lock, winners>>
        /\ \/ fencingToken' = fencingToken
           \/ fencingToken' = [fencingToken EXCEPT ![i] = NoToken]
    BY <1>2 DEF AcquireRejected, ValidateRejected, ReleaseRejected, Rejects
  <2> QED BY <2>1, ForgettingResigns
<1>3. ASSUME NEW i \in Instance, AcquireOrRenew(i)
      PROVE  [Lease!LeaseNext]_Lease!leaseVars
  <2>1. fencingToken' = fencingToken
    BY <1>3 DEF AcquireOrRenew, Answer
  <2>2. CASE lock = NoOne
    <3>1. Lease!Elect(i)
      BY <1>3, <2>1, <2>2 DEF AcquireOrRenew, Lease!Elect
    <3> QED BY <3>1 DEF Lease!LeaseNext
  <2>3. CASE lock # NoOne
    BY <1>3, <2>1, <2>3, LosingVacates DEF AcquireOrRenew
  <2> QED BY <2>2, <2>3
<1>4. ASSUME NEW i \in Instance, ExecValidate(i) \/ Release(i)
      PROVE  [Lease!LeaseNext]_Lease!leaseVars
  <2>1. lock' \in {lock, NoOne} /\ UNCHANGED <<winners, fencingToken>>
    BY <1>4 DEF ExecValidate, Release, Answer
  <2> QED BY <2>1, LosingVacates
<1>5. CASE Lapse
  BY <1>5, LosingVacates DEF Lapse
<1>6. CASE ClientFails \/ UNCHANGED electionVars
  BY <1>6 DEF ClientFails, electionVars, Lease!leaseVars
<1> QED
  BY <1>1, <1>2, <1>3, <1>4, <1>5, <1>6, AnswersTeach
     DEF AnyNext, ElectionNext, Step, ClientStep, Exec

(* The election implements the fenced lease: one holder, numbered terms,   *)
(* and beliefs that only ever move to later terms that the process won     *)
(* itself (leaderElection.ts:61-296).                                      *)
THEOREM ElectionImplementsLease == ElectionSpec => ImplementsFencedLease
<1>1. ElectionInit => Lease!LeaseInit
  BY DEF ElectionInit, Lease!LeaseInit, NoToken
<1>2. ElectionInv /\ [ElectionNext]_electionVars => [Lease!LeaseNext]_Lease!leaseVars
  BY StepImplements DEF AnyNext
<1> QED
  BY <1>1, <1>2, InvariantHolds, PTL
     DEF ElectionSpec, ImplementsFencedLease, Lease!FencedLeaseSpec

-----------------------------------------------------------------------------
(* The event listener.                                                     *)

PC == {"idle", "load", "catchup", "fetch", "validate", "process", "save", "sleep"}

ListenerTypes ==
    /\ cursor \in Nat
    /\ isRunning \in [Instance -> BOOLEAN]
    /\ lastCursor \in [Instance -> Nat]
    /\ fence \in [Instance -> Nat]
    /\ task \in [Instance -> [Caller -> Task]]
    /\ stopSave \in [Instance -> Nat]

(* Stronger than GapFree: a run keeps its place also where it does not use *)
(* it, so that whichever answer wakes it up, it goes on at the right event.*)
NoGap ==
    /\ HandledUpTo(cursor)
    /\ \A i \in Instance :
          /\ HandledUpTo(lastCursor[i]) /\ HandledUpTo(stopSave[i])
          /\ \A c \in Caller :
                /\ HandledUpTo(task[i][c].ev - 1)
                /\ task[i][c].pc = "save" => HandledUpTo(task[i][c].ev)

LEMMA NoGapIsGapFree == NoGap => GapFree
  BY DEF NoGap, GapFree

-----------------------------------------------------------------------------
(* What the ways of moving a run do.                                       *)
Put(i, c, t) == task' = [task EXCEPT ![i][c] = t]

LEMMA PutMoves ==
    ASSUME ListenerTypes, NEW i \in Instance, NEW c \in Caller, NEW t \in Task,
           Put(i, c, t)
    PROVE  /\ task' \in [Instance -> [Caller -> Task]]
           /\ task'[i][c] = t
           /\ \A j \in Instance, d \in Caller : j # i \/ d # c => task'[j][d] = task[j][d]
  BY DEF ListenerTypes, Put

LEMMA GotoMoves ==
    ASSUME ListenerTypes, NEW i \in Instance, NEW c, NEW pc \in PC, Goto(i, c, pc)
    PROVE  /\ task' \in [Instance -> [Caller -> Task]]
           /\ \A j \in Instance, d \in Caller :
                 /\ task'[j][d].ev = task[j][d].ev
                 /\ \/ task'[j][d].pc = task[j][d].pc
                    \/ j = i /\ d = c /\ task'[j][d].pc = pc
<1>1. task' = [task EXCEPT ![i] = [task[i] EXCEPT ![c] = [task[i][c] EXCEPT !.pc = pc]]]
  BY DEF Goto
<1>2. task \in [Instance -> [Caller -> Task]]
  BY DEF ListenerTypes
<1>3. CASE c \in Caller
  <2> DEFINE t == [task[i][c] EXCEPT !.pc = pc]
  <2>1. t \in Task /\ t.ev = task[i][c].ev /\ t.pc = pc
    <3>1. task[i][c] \in Task
      BY <1>2, <1>3
    <3> QED BY <3>1 DEF Task, PC
  <2>2. Put(i, c, t)
    BY <1>1 DEF Put
  <2> HIDE DEF t
  <2> QED BY <1>3, <2>1, <2>2, PutMoves
<1>4. CASE c \notin Caller
  <2>1. [task[i] EXCEPT ![c] = [task[i][c] EXCEPT !.pc = pc]] = task[i]
    <3>1. task[i] \in [Caller -> Task]
      BY <1>2
    <3> QED BY <1>4, <3>1
  <2>2. task' = task
    BY <1>1, <1>2, <2>1
  <2> QED BY <1>2, <2>2
<1> QED BY <1>3, <1>4

LEMMA TaskTypes ==
    ASSUME ListenerTypes, NEW i \in Instance, NEW c \in Caller
    PROVE  /\ task[i][c] \in Task /\ task[i][c].ev \in Nat /\ task[i][c].upto \in Nat
           /\ Idle \in Task
           /\ \A n \in Nat : [pc |-> "fetch", ev |-> n + 1, upto |-> 0] \in Task
  BY DEF ListenerTypes, Task, Idle

(* A halt does not move anything but the flag and the token.               *)
LEMMA HaltTypes ==
    ASSUME ListenerTypes, NEW i \in Instance, NEW lost \in BOOLEAN, HaltWhen(i, lost)
    PROVE  /\ isRunning' \in [Instance -> BOOLEAN]
           /\ fence' \in [Instance -> Nat]
           /\ \A j \in Instance : fence'[j] = fence[j] \/ fence'[j] = NoToken
  BY DEF ListenerTypes, HaltWhen, NoToken

LEMMA TurnMoves ==
    ASSUME ListenerTypes, NEW i \in Instance, NEW c \in Caller,
           NEW e \in Nat, NEW u \in Nat, TurnTo(i, c, e, u)
    PROVE  /\ task' \in [Instance -> [Caller -> Task]]
           /\ isRunning' \in [Instance -> BOOLEAN]
           /\ fence' \in [Instance -> Nat]
           /\ \A j \in Instance : fence'[j] = fence[j] \/ fence'[j] = NoToken
           /\ \A j \in Instance, d \in Caller : j # i \/ d # c => task'[j][d] = task[j][d]
           /\ task'[i][c].ev \in {task[i][c].ev, e} /\ task'[i][c].pc # "save"
           /\ Validate(i, c, fence[i]) \/ UNCHANGED electionVars
<1>1. CASE fence[i] = NoToken
  <2>1. HaltWhen(i, TRUE) /\ Goto(i, c, "sleep") /\ UNCHANGED electionVars
    BY <1>1 DEF TurnTo
  <2>2. \A j \in Instance, d \in Caller : j # i \/ d # c => task'[j][d] = task[j][d]
    BY <2>1 DEF Goto, ListenerTypes
  <2>3. task'[i][c].ev = task[i][c].ev /\ task'[i][c].pc = "sleep"
    BY <2>1 DEF Goto, ListenerTypes, Task
  <2> QED BY <2>1, <2>2, <2>3, HaltTypes, GotoMoves DEF PC
<1>2. CASE fence[i] # NoToken
  <2>1. /\ Validate(i, c, fence[i]) /\ UNCHANGED <<isRunning, fence>>
        /\ task' = [task EXCEPT ![i][c] = [pc |-> "validate", ev |-> e, upto |-> u]]
    BY <1>2 DEF TurnTo
  <2>2. [pc |-> "validate", ev |-> e, upto |-> u] \in Task
    BY DEF Task
  <2> QED BY <2>1, <2>2, PutMoves DEF ListenerTypes
<1> QED BY <1>1, <1>2

-----------------------------------------------------------------------------
(* To the election, every step of a listener is a step of its own, or of a *)
(* client that validates.                                                  *)
LEMMA ListenerElects ==
    ASSUME ListenerTypes, [EventNext]_eventVars
    PROVE  [AnyNext]_electionVars
<1>1. ASSUME NEW i \in Instance, NEW c \in Caller, LoopStep(i, c)
      PROVE  [AnyNext]_electionVars
  <2>1. UNCHANGED electionVars \/ Validate(i, c, fence[i])
    BY <1>1 DEF LoopStep, Load, CatchUp, Fetch, Process, Save, Wake, TurnTo
  <2>2. fence[i] \in Nat
    BY DEF ListenerTypes
  <2> QED BY <2>1, <2>2 DEF AnyNext, ClientStep
<1>2. ASSUME NEW i \in Instance, NEW c \in Caller, PollFails(i, c)
      PROVE  [AnyNext]_electionVars
  BY <1>2 DEF PollFails, ClientFails, AnyNext, ClientStep
<1>3. ASSUME NEW i \in Instance, ElectionStep(i)
      PROVE  [AnyNext]_electionVars
  BY <1>3 DEF ElectionStep, Exec, AnyNext, ElectionNext, Step, ClientStep
<1>4. ASSUME NEW i \in Instance, Elected(i) \/ RenewedOrRefused(i) \/ AttemptRejected(i)
      PROVE  [AnyNext]_electionVars
  BY <1>4 DEF Elected, RenewedOrRefused, AttemptRejected, AnyNext, ElectionNext, Step
<1>5. ASSUME NEW i \in Instance, Validated(i) \/ ValidationFails(i)
      PROVE  [AnyNext]_electionVars
  BY <1>5 DEF Validated, ValidationFails, AnyNext, ClientStep
<1>6. ASSUME NEW i \in Instance, StopListener(i) \/ StopSaved(i) \/ CrashListener(i)
      PROVE  [AnyNext]_electionVars
  BY <1>6 DEF StopListener, StopSaved, CrashListener, AnyNext, ElectionNext, Step
<1>7. CASE Emit \/ LeaseLapses \/ UNCHANGED eventVars
  BY <1>7 DEF Emit, LeaseLapses, eventVars, AnyNext, ElectionNext
<1> QED
  BY <1>1, <1>2, <1>3, <1>4, <1>5, <1>6, <1>7 DEF EventNext, ListenerStep

-----------------------------------------------------------------------------
(* The listener's own steps.                                               *)
Kept == ListenerTypes /\ NoGap

(* Nothing that was processed is forgotten, and what moves goes to a place *)
(* up to which everything was processed.                                   *)
LEMMA MovesBehindHandled ==
    ASSUME Kept, ListenerTypes', handled \subseteq handled',
           cursor' = cursor \/ HandledUpTo(cursor)',
           \A j \in Instance :
              /\ lastCursor'[j] = lastCursor[j] \/ HandledUpTo(lastCursor[j])'
              /\ stopSave'[j] = stopSave[j] \/ HandledUpTo(stopSave[j])',
           \A j \in Instance, d \in Caller :
              /\ task'[j][d].ev = task[j][d].ev \/ HandledUpTo(task[j][d].ev - 1)'
              /\ task'[j][d].pc = "save" =>
                    \/ task[j][d].pc = "save" /\ task'[j][d].ev = task[j][d].ev
                    \/ HandledUpTo(task[j][d].ev)'
    PROVE  Kept'
<1>1. \A n : 1..n \subseteq handled => 1..n \subseteq handled'
  OBVIOUS
<1>2. 1..cursor' \subseteq handled'
  BY <1>1 DEF Kept, NoGap, HandledUpTo
<1>3. ASSUME NEW j \in Instance
      PROVE  1..lastCursor'[j] \subseteq handled' /\ 1..stopSave'[j] \subseteq handled'
  BY <1>1 DEF Kept, NoGap, HandledUpTo
<1>4. ASSUME NEW j \in Instance, NEW d \in Caller
      PROVE  1..(task'[j][d].ev - 1) \subseteq handled'
  BY <1>1 DEF Kept, NoGap, HandledUpTo
<1>5. ASSUME NEW j \in Instance, NEW d \in Caller, task'[j][d].pc = "save"
      PROVE  1..task'[j][d].ev \subseteq handled'
  BY <1>1, <1>5 DEF Kept, NoGap, HandledUpTo
<1> QED BY <1>2, <1>3, <1>4, <1>5 DEF Kept, NoGap, HandledUpTo

LEMMA GotoKeeps ==
    ASSUME Kept, NEW i \in Instance, NEW c, NEW pc \in PC \ {"save"}, Goto(i, c, pc),
           UNCHANGED <<handled, cursor, lastCursor, stopSave>>,
           isRunning' \in [Instance -> BOOLEAN], fence' \in [Instance -> Nat]
    PROVE  Kept'
<1>1. ListenerTypes
  BY DEF Kept
<1>2. /\ task' \in [Instance -> [Caller -> Task]]
      /\ \A j \in Instance, d \in Caller :
            /\ task'[j][d].ev = task[j][d].ev
            /\ \/ task'[j][d].pc = task[j][d].pc
               \/ j = i /\ d = c /\ task'[j][d].pc = pc
  BY <1>1, GotoMoves
<1>3. ListenerTypes'
  BY <1>1, <1>2 DEF ListenerTypes
<1>4. \A j \in Instance, d \in Caller :
         /\ task'[j][d].ev = task[j][d].ev \/ HandledUpTo(task[j][d].ev - 1)'
         /\ task'[j][d].pc = "save" =>
               task[j][d].pc = "save" /\ task'[j][d].ev = task[j][d].ev
  BY <1>2
<1> QED BY <1>3, <1>4, MovesBehindHandled

-----------------------------------------------------------------------------
LEMMA CallbacksKeep ==
    ASSUME Kept, ElectionTypes, NEW i \in Instance,
           Elected(i) \/ RenewedOrRefused(i) \/ AttemptRejected(i)
    PROVE  Kept'
<1>1. CASE Elected(i)
  <2>1. Oldest(i).token \in Nat
    BY <1>1, OldestType DEF Elected, BecomesLeader, Answered, Command
  <2>2. /\ fence' \in [Instance -> Nat] /\ isRunning' \in [Instance -> BOOLEAN]
        /\ UNCHANGED <<handled, cursor, lastCursor, stopSave>>
    BY <1>1, <2>1 DEF Elected, Kept, ListenerTypes
  <2>3. CASE UNCHANGED task
    BY <2>2, <2>3, MovesBehindHandled DEF Kept, ListenerTypes
  <2>4. ASSUME NEW c \in Caller, Goto(i, c, "load") PROVE Kept'
    BY <2>2, <2>4, GotoKeeps DEF PC
  <2> QED BY <1>1, <2>3, <2>4 DEF Elected
<1>2. CASE RenewedOrRefused(i) \/ AttemptRejected(i)
  <2>1. PICK lost : lost \in BOOLEAN /\ HaltWhen(i, lost)
    <3>1. leader[i] \in BOOLEAN
      BY DEF ElectionTypes
    <3>2. LosesToOther(i) \in BOOLEAN
      BY DEF LosesToOther, Answered
    <3> QED BY <1>2, <3>1, <3>2 DEF RenewedOrRefused, AttemptRejected
  <2>2. fence' \in [Instance -> Nat] /\ isRunning' \in [Instance -> BOOLEAN]
    BY <2>1, HaltTypes DEF Kept
  <2>3. UNCHANGED <<cursor, handled, lastCursor, task, stopSave>>
    BY <1>2 DEF RenewedOrRefused, AttemptRejected
  <2> QED BY <2>2, <2>3, MovesBehindHandled DEF Kept, ListenerTypes
<1> QED BY <1>1, <1>2

LEMMA ValidationsKeep ==
    ASSUME Kept, NEW i \in Instance, Validated(i) \/ ValidationFails(i)
    PROVE  Kept'
<1>1. CASE Validated(i)
  <2> DEFINE valid == Oldest(i).status = 1
             pc == IF valid THEN "process" ELSE "sleep"
  <2>1. Goto(i, Oldest(i).by, pc) /\ HaltWhen(i, ~valid)
    BY <1>1 DEF Validated
  <2>4. pc \in PC \ {"save"} /\ (~valid) \in BOOLEAN
    BY DEF PC
  <2>2. fence' \in [Instance -> Nat] /\ isRunning' \in [Instance -> BOOLEAN]
    BY <2>1, HaltTypes DEF Kept
  <2>3. UNCHANGED <<handled, cursor, lastCursor, stopSave>>
    BY <1>1 DEF Validated
  <2> HIDE DEF pc, valid
  <2> QED BY <2>1, <2>2, <2>3, <2>4, GotoKeeps
<1>2. CASE ValidationFails(i)
  <2>1. /\ Goto(i, OldestUnderWay(i).by, "sleep")
        /\ UNCHANGED <<handled, cursor, lastCursor, stopSave, isRunning, fence>>
    BY <1>2 DEF ValidationFails
  <2> QED BY <2>1, GotoKeeps DEF PC, Kept, ListenerTypes
<1> QED BY <1>1, <1>2

(* A turn to an event whose predecessors were processed.                   *)
LEMMA TurnKeeps ==
    ASSUME Kept, NEW i \in Instance, NEW c \in Caller, NEW e \in Nat, NEW u \in Nat,
           TurnTo(i, c, e, u), 1..(e - 1) \subseteq handled,
           UNCHANGED <<handled, lastCursor, stopSave>>,
           cursor' \in Nat, cursor' = cursor \/ HandledUpTo(cursor)'
    PROVE  Kept'
<1>1. /\ task' \in [Instance -> [Caller -> Task]]
      /\ isRunning' \in [Instance -> BOOLEAN]
      /\ fence' \in [Instance -> Nat]
      /\ \A j \in Instance, d \in Caller : j # i \/ d # c => task'[j][d] = task[j][d]
      /\ task'[i][c].ev \in {task[i][c].ev, e} /\ task'[i][c].pc # "save"
  BY TurnMoves DEF Kept
<1>2. ListenerTypes'
  BY <1>1 DEF Kept, ListenerTypes
<1>3. ASSUME NEW j \in Instance, NEW d \in Caller
      PROVE  /\ task'[j][d].ev = task[j][d].ev \/ HandledUpTo(task[j][d].ev - 1)'
             /\ task'[j][d].pc = "save" =>
                   task[j][d].pc = "save" /\ task'[j][d].ev = task[j][d].ev
  <2>1. CASE j = i /\ d = c
    BY <1>1, <2>1 DEF HandledUpTo
  <2>2. CASE ~(j = i /\ d = c)
    BY <1>1, <2>2
  <2> QED BY <2>1, <2>2
<1> QED BY <1>2, <1>3, MovesBehindHandled

(* A poll from a cursor up to which everything was processed.              *)
LEMMA PollKeeps ==
    ASSUME Kept, NEW i \in Instance, NEW c \in Caller, NEW from \in Nat,
           Poll(i, c, from), 1..from \subseteq handled,
           UNCHANGED <<handled, cursor, fence, stopSave>>,
           isRunning' \in [Instance -> BOOLEAN],
           lastCursor' \in [Instance -> Nat],
           \A j \in Instance : lastCursor'[j] \in {lastCursor[j], from}
    PROVE  Kept'
<1> DEFINE t == [pc |-> "fetch", ev |-> from + 1, upto |-> 0]
<1>1. t \in Task /\ t.ev - 1 = from /\ t.pc = "fetch"
  BY DEF Task
<1>2. /\ task' \in [Instance -> [Caller -> Task]]
      /\ task'[i][c] = t
      /\ \A j \in Instance, d \in Caller : j # i \/ d # c => task'[j][d] = task[j][d]
  <2>1. ListenerTypes /\ Put(i, c, t)
    BY DEF Poll, Put, Kept
  <2> HIDE DEF t
  <2> QED BY <1>1, <2>1, PutMoves
<1>3. ListenerTypes'
  BY <1>2 DEF Kept, ListenerTypes
<1>4. ASSUME NEW j \in Instance, NEW d \in Caller
      PROVE  /\ task'[j][d].ev = task[j][d].ev \/ HandledUpTo(task[j][d].ev - 1)'
             /\ task'[j][d].pc = "save" =>
                   task[j][d].pc = "save" /\ task'[j][d].ev = task[j][d].ev
  <2>1. CASE j = i /\ d = c
    BY <1>1, <1>2, <2>1 DEF HandledUpTo
  <2>2. CASE ~(j = i /\ d = c)
    BY <1>2, <2>2
  <2> QED BY <2>1, <2>2
<1>5. \A j \in Instance : lastCursor'[j] = lastCursor[j] \/ HandledUpTo(lastCursor[j])'
  BY DEF HandledUpTo
<1> QED BY <1>3, <1>4, <1>5, MovesBehindHandled

LEMMA LoopKeeps ==
    ASSUME Kept, tip \in Nat, NEW i \in Instance, NEW c \in Caller,
           LoopStep(i, c) \/ PollFails(i, c)
    PROVE  Kept'
<1> USE DEF NoEvent
<1> DEFINE ev == task[i][c].ev
<1>1. /\ ListenerTypes /\ ev \in Nat /\ task[i][c].upto \in Nat
      /\ cursor \in Nat /\ lastCursor[i] \in Nat
      /\ 1..cursor \subseteq handled /\ 1..lastCursor[i] \subseteq handled
      /\ 1..(ev - 1) \subseteq handled
      /\ task[i][c].pc = "save" => 1..ev \subseteq handled
  BY TaskTypes DEF Kept, NoGap, ListenerTypes, HandledUpTo
<1>2. /\ isRunning \in [Instance -> BOOLEAN] /\ lastCursor \in [Instance -> Nat]
      /\ fence \in [Instance -> Nat]
  BY <1>1 DEF ListenerTypes
<1>3. CASE Load(i, c)
  <2>1. /\ UNCHANGED <<handled, cursor, fence, stopSave>>
        /\ isRunning' \in [Instance -> BOOLEAN] /\ lastCursor' \in [Instance -> Nat]
        /\ \A j \in Instance : lastCursor'[j] \in {lastCursor[j], cursor}
    BY <1>1, <1>2, <1>3 DEF Load
  <2>2. CASE cursor = NoEvent
    BY <1>1, <1>3, <2>1, <2>2, PollKeeps DEF Load
  <2>3. CASE cursor # NoEvent
    <3>1. Goto(i, c, "catchup") /\ "catchup" \in PC
      BY <1>3, <2>3 DEF Load, PC
    <3>2. /\ task' \in [Instance -> [Caller -> Task]]
          /\ \A j \in Instance, d \in Caller :
                /\ task'[j][d].ev = task[j][d].ev
                /\ task'[j][d].pc \in {task[j][d].pc, "catchup"}
      BY <1>1, <3>1, GotoMoves
    <3>3. ListenerTypes'
      BY <1>1, <2>1, <3>2 DEF ListenerTypes
    <3>4. \A j \in Instance : lastCursor'[j] = lastCursor[j] \/ HandledUpTo(lastCursor[j])'
      BY <1>1, <2>1 DEF HandledUpTo
    <3> QED BY <2>1, <3>2, <3>3, <3>4, MovesBehindHandled
  <2> QED BY <2>2, <2>3
<1>4. CASE CatchUp(i, c)
  <2>1. PICK from \in {lastCursor[i], NoEvent} :
            /\ lastCursor' = [lastCursor EXCEPT ![i] = from]
            /\ Poll(i, c, from)
    BY <1>4 DEF CatchUp
  <2>2. from \in Nat /\ 1..from \subseteq handled
    BY <1>1, <2>1
  <2>3. /\ UNCHANGED <<handled, cursor, fence, stopSave>>
        /\ isRunning' \in [Instance -> BOOLEAN] /\ lastCursor' \in [Instance -> Nat]
        /\ \A j \in Instance : lastCursor'[j] \in {lastCursor[j], from}
    BY <1>2, <1>4, <2>1, <2>2 DEF CatchUp
  <2> QED BY <2>1, <2>2, <2>3, PollKeeps
<1>5. CASE Fetch(i, c)
  <2>1. UNCHANGED <<handled, cursor, lastCursor, stopSave>>
    BY <1>5 DEF Fetch
  <2>2. CASE ev > tip
    BY <1>2, <1>5, <2>1, <2>2, GotoKeeps DEF Fetch, PC
  <2>3. CASE ~(ev > tip)
    <3>1. TurnTo(i, c, ev, tip)
      BY <1>5, <2>3 DEF Fetch
    <3> QED BY <1>1, <2>1, <3>1, TurnKeeps
  <2> QED BY <2>2, <2>3
<1>6. CASE Process(i, c)
  <2>1. /\ handled' = handled \cup {ev} /\ Goto(i, c, "save")
        /\ lastCursor' = [lastCursor EXCEPT ![i] = ev]
        /\ UNCHANGED <<cursor, isRunning, fence, stopSave>>
    BY <1>6 DEF Process
  <2>2. /\ task' \in [Instance -> [Caller -> Task]]
        /\ \A j \in Instance, d \in Caller :
              /\ task'[j][d].ev = task[j][d].ev
              /\ \/ task'[j][d].pc = task[j][d].pc
                 \/ j = i /\ d = c /\ task'[j][d].pc = "save"
    BY <1>1, <2>1, GotoMoves DEF PC
  <2>3. ListenerTypes'
    BY <1>1, <2>1, <2>2 DEF ListenerTypes
  <2>4. 1..ev \subseteq handled'
    BY <1>1, <2>1
  <2>5. \A j \in Instance : lastCursor'[j] = lastCursor[j] \/ HandledUpTo(lastCursor[j])'
    BY <1>2, <2>1, <2>4 DEF HandledUpTo
  <2>6. ASSUME NEW j \in Instance, NEW d \in Caller
        PROVE  /\ task'[j][d].ev = task[j][d].ev \/ HandledUpTo(task[j][d].ev - 1)'
               /\ task'[j][d].pc = "save" =>
                     \/ task[j][d].pc = "save" /\ task'[j][d].ev = task[j][d].ev
                     \/ HandledUpTo(task[j][d].ev)'
    BY <2>2, <2>4 DEF HandledUpTo
  <2> QED BY <2>1, <2>3, <2>5, <2>6, MovesBehindHandled
<1>7. CASE Save(i, c)
  <2>1. /\ UNCHANGED <<handled, lastCursor, stopSave>>
        /\ cursor' = ev /\ 1..ev \subseteq handled
    BY <1>1, <1>7 DEF Save, At
  <2>2. cursor' \in Nat /\ HandledUpTo(cursor)'
    BY <1>1, <2>1 DEF HandledUpTo
  <2>3. CASE ev < task[i][c].upto
    <3>1. TurnTo(i, c, ev + 1, task[i][c].upto) /\ ev + 1 \in Nat /\ (ev + 1) - 1 = ev
      BY <1>1, <1>7, <2>3 DEF Save
    <3> QED BY <1>1, <2>1, <2>2, <3>1, TurnKeeps
  <2>4. CASE ~(ev < task[i][c].upto)
    <3>1. Goto(i, c, "sleep") /\ UNCHANGED <<isRunning, fence>>
      BY <1>7, <2>4 DEF Save
    <3>2. /\ task' \in [Instance -> [Caller -> Task]]
          /\ \A j \in Instance, d \in Caller :
                /\ task'[j][d].ev = task[j][d].ev
                /\ task'[j][d].pc \in {task[j][d].pc, "sleep"}
      BY <1>1, <3>1, GotoMoves DEF PC
    <3>3. ListenerTypes'
      BY <1>1, <2>1, <2>2, <3>1, <3>2 DEF ListenerTypes
    <3> QED BY <2>1, <2>2, <3>2, <3>3, MovesBehindHandled
  <2> QED BY <2>3, <2>4
<1>8. CASE Wake(i, c)
  <2>1. UNCHANGED <<handled, cursor, isRunning, lastCursor, fence, stopSave>>
    BY <1>8 DEF Wake
  <2>2. CASE isRunning[i]
    BY <1>1, <1>2, <1>8, <2>1, <2>2, PollKeeps DEF Wake
  <2>3. CASE ~isRunning[i]
    <3>1. Put(i, c, Idle)
      BY <1>8, <2>3 DEF Wake, Put
    <3>2. /\ task' \in [Instance -> [Caller -> Task]]
          /\ \A j \in Instance, d \in Caller :
                task'[j][d] \in {task[j][d], Idle}
      <4>1. Idle \in Task
        BY <1>1, TaskTypes
      <4>2. /\ task' \in [Instance -> [Caller -> Task]]
            /\ task'[i][c] = Idle
            /\ \A j \in Instance, d \in Caller :
                  j # i \/ d # c => task'[j][d] = task[j][d]
        BY <1>1, <3>1, <4>1, PutMoves
      <4> QED BY <4>2
    <3>3. ListenerTypes'
      BY <1>1, <2>1, <3>2 DEF ListenerTypes
    <3>4. \A j \in Instance, d \in Caller :
             /\ task'[j][d].ev = task[j][d].ev \/ HandledUpTo(task[j][d].ev - 1)'
             /\ task'[j][d].pc = "save" => task'[j][d] = task[j][d]
      BY <3>2 DEF Idle, HandledUpTo
    <3> QED BY <2>1, <3>3, <3>4, MovesBehindHandled
  <2> QED BY <2>2, <2>3
<1>9. CASE PollFails(i, c)
  BY <1>2, <1>9, GotoKeeps DEF PollFails, PC
<1> QED BY <1>3, <1>4, <1>5, <1>6, <1>7, <1>8, <1>9 DEF LoopStep

(* stop() saves a cursor that was reached; a crash leaves none.            *)
LEMMA StopsKeep ==
    ASSUME Kept, NEW i \in Instance, StopListener(i) \/ StopSaved(i) \/ CrashListener(i)
    PROVE  Kept'
<1> USE DEF NoEvent
<1>1. /\ ListenerTypes
      /\ \A j \in Instance : /\ 1..lastCursor[j] \subseteq handled
                             /\ 1..stopSave[j] \subseteq handled
  BY DEF Kept, NoGap, HandledUpTo
<1>2. CASE StopListener(i)
  <2>1. /\ UNCHANGED <<cursor, handled, lastCursor, fence, task>>
        /\ isRunning' = [isRunning EXCEPT ![i] = FALSE]
        /\ stopSave' = [stopSave EXCEPT ![i] = lastCursor[i]]
    BY <1>2 DEF StopListener
  <2>2. ListenerTypes'
    BY <1>1, <2>1 DEF ListenerTypes
  <2>3. \A j \in Instance : stopSave'[j] = stopSave[j] \/ HandledUpTo(stopSave[j])'
    BY <1>1, <2>1 DEF ListenerTypes, HandledUpTo
  <2> QED BY <2>1, <2>2, <2>3, MovesBehindHandled
<1>3. CASE StopSaved(i)
  <2>1. /\ UNCHANGED <<handled, isRunning, lastCursor, fence, task>>
        /\ cursor' \in {cursor, stopSave[i]}
        /\ stopSave' = [stopSave EXCEPT ![i] = 0]
    BY <1>3 DEF StopSaved
  <2>2. ListenerTypes'
    BY <1>1, <2>1 DEF ListenerTypes
  <2>3. \A j \in Instance : stopSave'[j] = stopSave[j] \/ HandledUpTo(stopSave[j])'
    BY <1>1, <2>1 DEF ListenerTypes, HandledUpTo
  <2>4. cursor' = cursor \/ HandledUpTo(cursor)'
    BY <1>1, <2>1 DEF HandledUpTo
  <2> QED BY <2>1, <2>2, <2>3, <2>4, MovesBehindHandled
<1>4. CASE CrashListener(i)
  <2>1. /\ UNCHANGED <<cursor, handled>>
        /\ isRunning' = [isRunning EXCEPT ![i] = FALSE]
        /\ lastCursor' = [lastCursor EXCEPT ![i] = 0]
        /\ fence' = [fence EXCEPT ![i] = NoToken]
        /\ task' = [task EXCEPT ![i] = [c \in Caller |-> Idle]]
        /\ stopSave' = [stopSave EXCEPT ![i] = 0]
    BY <1>4 DEF CrashListener
  <2>2. [c \in Caller |-> Idle] \in [Caller -> Task]
    BY DEF Idle, Task
  <2>3. ListenerTypes'
    BY <1>1, <2>1, <2>2 DEF ListenerTypes, NoToken
  <2>4. \A j \in Instance, d \in Caller : task'[j][d] = task[j][d] \/ task'[j][d] = Idle
    BY <1>1, <2>1 DEF ListenerTypes
  <2>5. \A j \in Instance, d \in Caller :
           /\ task'[j][d].ev = task[j][d].ev \/ HandledUpTo(task[j][d].ev - 1)'
           /\ task'[j][d].pc = "save" => task'[j][d] = task[j][d]
    BY <2>4 DEF Idle, HandledUpTo
  <2>6. \A j \in Instance :
           /\ lastCursor'[j] = lastCursor[j] \/ HandledUpTo(lastCursor[j])'
           /\ stopSave'[j] = stopSave[j] \/ HandledUpTo(stopSave[j])'
    BY <1>1, <2>1 DEF ListenerTypes, HandledUpTo
  <2> QED BY <2>1, <2>3, <2>5, <2>6, MovesBehindHandled
<1> QED BY <1>2, <1>3, <1>4

-----------------------------------------------------------------------------
EventInv == ElectionInv /\ tip \in Nat /\ Kept

LEMMA EventInvStep ==
    ASSUME EventInv, [EventNext]_eventVars
    PROVE  EventInv'
<1>1. ElectionTypes /\ Kept /\ tip \in Nat /\ ElectionInv
  BY DEF EventInv, ElectionInv
<1>2. ElectionInv'
  BY <1>1, ListenerElects, InvariantStep DEF Kept
<1>3. tip' \in Nat
  BY <1>1 DEF EventNext, Emit, LeaseLapses, ListenerStep, ElectionStep, Elected,
              RenewedOrRefused, AttemptRejected, Validated, ValidationFails, LoopStep,
              Load, CatchUp, Fetch, Process, Save, Wake, PollFails, StopListener,
              StopSaved, CrashListener, eventVars
<1>4. ASSUME UNCHANGED <<cursor, handled, listenerVars>> PROVE Kept'
  BY <1>1, <1>4, MovesBehindHandled DEF Kept, ListenerTypes, listenerVars
<1>5. ASSUME Emit \/ LeaseLapses \/ UNCHANGED eventVars PROVE Kept'
  <2>1. UNCHANGED <<cursor, handled, listenerVars>>
    BY <1>5 DEF Emit, LeaseLapses, eventVars
  <2> QED BY <1>4, <2>1
<1>6. ASSUME NEW i \in Instance, ListenerStep(i) PROVE Kept'
  <2>1. CASE ElectionStep(i)
    BY <1>4, <2>1 DEF ElectionStep
  <2>2. ASSUME NEW c \in Caller, LoopStep(i, c) \/ PollFails(i, c) PROVE Kept'
    BY <1>1, <2>2, LoopKeeps
  <2> QED BY <1>1, <1>6, <2>1, <2>2, CallbacksKeep, ValidationsKeep, StopsKeep
          DEF ListenerStep
<1>7. Kept'
  <2>1. \/ Emit \/ LeaseLapses \/ UNCHANGED eventVars
        \/ \E i \in Instance : ListenerStep(i)
    BY DEF EventNext
  <2> QED BY <1>5, <1>6, <2>1
<1> QED BY <1>2, <1>3, <1>7 DEF EventInv

LEMMA EventInvInit == EventInit => EventInv
<1> SUFFICES ASSUME EventInit PROVE EventInv
  OBVIOUS
<1>1. ElectionInv
  BY TokensInit DEF EventInit, ElectionInv
<1>2. tip \in Nat /\ Idle \in Task
  BY DEF EventInit, Idle, Task
<1>3. ListenerTypes
  BY <1>2 DEF EventInit, ListenerTypes, NoEvent, NoToken
<1>4. NoGap
  BY DEF EventInit, NoGap, HandledUpTo, NoEvent, Idle
<1> QED BY <1>1, <1>2, <1>3, <1>4 DEF EventInv, Kept

LEMMA EventInvHolds == EventSpec => []EventInv
<1>1. EventInv /\ [EventNext]_eventVars => EventInv'
  BY EventInvStep
<1> QED BY <1>1, EventInvInit, PTL DEF EventSpec

(* Every event up to the durable cursor, and up to any cursor in memory or *)
(* under way, has been processed, whichever loops overlapped, were demoted,*)
(* failed or crashed (stellarEventListener.ts:271-362, eventCursorStore.ts *)
(* :15-16).                                                                *)
THEOREM NothingIsSkipped == EventSpec => []GapFree
<1>1. EventInv => GapFree
  BY NoGapIsGapFree DEF EventInv, Kept
<1> QED BY <1>1, EventInvHolds, PTL

-----------------------------------------------------------------------------
(* The token of process i is one that it won, and neither its belief nor   *)
(* an answer to come is for an older term.                                 *)
Behind(i, t) ==
    /\ Won(winners, i, t)
    /\ fencingToken[i] # NoToken => t <= fencingToken[i]
    /\ \A n \in 1..Len(replies[i]) :
          Granted(replies[i][n]) => t <= replies[i][n].token

FencesBehind == \A i \in Instance : fence[i] # NoToken => Behind(i, fence[i])

(* What a step may do to the answers and the belief of process i: nothing, *)
(* forget them, add an answer of the newest term, or take the oldest one.  *)
Forgets(i) ==
    /\ fencingToken'[i] \in {fencingToken[i], NoToken}
    /\ replies'[i] \in {replies[i], <<>>}

Gains(i) ==
    /\ fencingToken'[i] = fencingToken[i]
    /\ \E r \in Command : /\ replies'[i] = Append(replies[i], r)
                          /\ Granted(r) => r.token = Counter'

Takes(i) ==
    /\ replies[i] # <<>> /\ replies'[i] = Tail(replies[i])
    /\ \/ fencingToken'[i] \in {fencingToken[i], NoToken}
       \/ Granted(Oldest(i)) /\ fencingToken'[i] = Oldest(i).token

LEMMA BehindStays ==
    ASSUME ElectionTypes, WinnersGrow, NEW i \in Instance, NEW t \in Nat, Behind(i, t),
           Forgets(i) \/ Gains(i) \/ Takes(i)
    PROVE  Behind(i, t)'
<1> DEFINE L == Len(replies[i])
<1>1. Won(winners', i, t)
  BY WonStays DEF Behind
<1>2. L \in Nat /\ replies[i] \in Seq(Command) /\ Len(<<>>) = 0
  BY LenProperties DEF ElectionTypes
<1>3. CASE Forgets(i)
  <2>1. fencingToken'[i] # NoToken => t <= fencingToken'[i]
    BY <1>3 DEF Forgets, Behind
  <2>2. \A n \in 1..Len(replies'[i]) : Granted(replies'[i][n]) => t <= replies'[i][n].token
    BY <1>2, <1>3 DEF Forgets, Behind
  <2> QED BY <1>1, <2>1, <2>2 DEF Behind
<1>4. CASE Gains(i)
  <2>1. PICK r \in Command : /\ replies'[i] = Append(replies[i], r)
                             /\ Granted(r) => r.token = Counter'
    BY <1>4 DEF Gains
  <2>2. /\ Len(replies'[i]) = L + 1
        /\ \A n \in 1..L : replies'[i][n] = replies[i][n]
        /\ replies'[i][L + 1] = r
    BY <1>2, <2>1, AppendProperties
  <2>3. t <= Counter'
    BY <1>1 DEF Won, Counter
  <2>4. ASSUME NEW n \in 1..Len(replies'[i]), Granted(replies'[i][n])
        PROVE  t <= replies'[i][n].token
    <3>1. CASE n \in 1..L
      BY <2>2, <2>4, <3>1 DEF Behind
    <3>2. CASE n = L + 1
      BY <2>1, <2>2, <2>3, <2>4, <3>2
    <3> QED BY <1>2, <2>2, <3>1, <3>2
  <2> QED BY <1>1, <1>4, <2>4 DEF Behind, Gains
<1>5. CASE Takes(i)
  <2>1. /\ L \in Nat \ {0} /\ Len(replies'[i]) = L - 1
        /\ \A n \in 1..(L - 1) : replies'[i][n] = replies[i][n + 1]
        /\ Oldest(i) = replies[i][1]
    BY <1>2, <1>5, EmptySeq, HeadTailProperties DEF Takes, Oldest
  <2>2. fencingToken'[i] # NoToken => t <= fencingToken'[i]
    BY <1>5, <2>1 DEF Takes, Behind
  <2>3. \A n \in 1..(L - 1) : Granted(replies[i][n + 1]) => t <= replies[i][n + 1].token
    BY <2>1 DEF Behind
  <2> QED BY <1>1, <2>1, <2>2, <2>3 DEF Behind
<1> QED BY <1>3, <1>4, <1>5

Moves(i) == Forgets(i) \/ Gains(i) \/ Takes(i)

LEMMA OneMoves ==
    ASSUME NEW i \in Instance, Moves(i),
           \A j \in Instance : j # i =>
              fencingToken'[j] = fencingToken[j] /\ replies'[j] = replies[j]
    PROVE  \A j \in Instance : Moves(j)
  BY DEF Moves, Forgets

LEMMA AnswerMoves ==
    ASSUME ElectionTypes, NEW i \in Instance, requests[i] # <<>>,
           NEW s \in 0..2, NEW t \in Nat, Answer(i, s, t),
           Head(requests[i]).op \in Acquire /\ s # 0 => t = Counter'
    PROVE  \A j \in Instance : Moves(j)
<1>1. Head(requests[i]) \in Command
  BY TailCommand DEF ElectionTypes
<1>2. fencingToken' = fencingToken /\ replies \in [Instance -> Seq(Command)]
  BY DEF Answer, localVars, ElectionTypes
<1>3. CASE Alive(i)
  <2>1. PICK r : r = [Head(requests[i]) EXCEPT !.status = s, !.token = t]
    OBVIOUS
  <2>2. r \in Command /\ r.op = Head(requests[i]).op /\ r.status = s /\ r.token = t
    BY <1>1, <2>1 DEF Command
  <2>3. replies' = [replies EXCEPT ![i] = Append(@, r)]
    BY <1>3, <2>1 DEF Answer
  <2>4. Gains(i)
    BY <1>2, <2>2, <2>3 DEF Gains, Granted
  <2> QED BY <1>2, <2>3, <2>4, OneMoves DEF Moves
<1>4. CASE ~Alive(i)
  BY <1>2, <1>4 DEF Answer, Moves, Forgets
<1> QED BY <1>3, <1>4

LEMMA StepMoves ==
    ASSUME ElectionTypes, [AnyNext]_electionVars
    PROVE  WinnersGrow /\ \A i \in Instance : Moves(i)
<1> USE DEF redisVars, pipeVars, localVars
<1>1. ASSUME UNCHANGED <<winners, fencingToken, replies>>
      PROVE  WinnersGrow /\ \A i \in Instance : Moves(i)
  BY <1>1 DEF WinnersGrow, Moves, Forgets
<1>2. ASSUME NEW i \in Instance,
             \/ Start(i) \/ Beat(i) \/ \E c \in Caller, t \in Nat : Validate(i, c, t)
      PROVE  WinnersGrow /\ \A j \in Instance : Moves(j)
  BY <1>1, <1>2 DEF Start, Beat, Validate
<1>3. CASE Lapse \/ ClientFails \/ UNCHANGED electionVars
  <2>1. UNCHANGED <<winners, fencingToken, replies>>
    BY <1>3 DEF Lapse, ClientFails, electionVars
  <2> QED BY <1>1, <2>1
<1>4. ASSUME NEW i \in Instance, winners' = winners, Moves(i),
             \A j \in Instance : j # i =>
                fencingToken'[j] = fencingToken[j] /\ replies'[j] = replies[j]
      PROVE  WinnersGrow /\ \A j \in Instance : Moves(j)
  BY <1>4, OneMoves DEF WinnersGrow
<1>5. ASSUME NEW i \in Instance, Stop(i) \/ Crash(i)
      PROVE  WinnersGrow /\ \A j \in Instance : Moves(j)
  <2>1. Forgets(i) /\ winners' = winners
    BY <1>5 DEF Stop, Crash, Forgets, ElectionTypes
  <2>2. \A j \in Instance : j # i =>
            fencingToken'[j] = fencingToken[j] /\ replies'[j] = replies[j]
    BY <1>5 DEF Stop, Crash, ElectionTypes
  <2> QED BY <1>4, <2>1, <2>2 DEF Moves
<1>6. ASSUME NEW i \in Instance, Exec(i)
      PROVE  WinnersGrow /\ \A j \in Instance : Moves(j)
  <2>1. requests[i] # <<>> /\ Counter \in Nat /\ Head(requests[i]) \in Command
    BY <1>6, CounterType, TailCommand
       DEF Exec, AcquireOrRenew, ExecValidate, Release, Sent, ElectionTypes
  <2>2. WinnersGrow
    BY <1>6 DEF Exec, AcquireOrRenew, ExecValidate, Release, WinnersGrow
  <2>3. PICK s \in 0..2, t \in Nat :
            /\ Answer(i, s, t)
            /\ Head(requests[i]).op \in Acquire /\ s # 0 => t = Counter'
    <3>1. CASE AcquireOrRenew(i) /\ lock = NoOne
      <4>1. winners' = Append(winners, i) /\ Answer(i, 1, Counter + 1)
        BY <3>1, NoOneAssumption DEF AcquireOrRenew
      <4>2. Counter' = Counter + 1
        BY <4>1, NewestIsWon
      <4> QED BY <2>1, <4>1, <4>2
    <3>2. CASE AcquireOrRenew(i) /\ lock # NoOne
      <4>1. winners' = winners /\ (Answer(i, 2, Counter) \/ Answer(i, 0, 0))
        BY <3>2 DEF AcquireOrRenew
      <4>2. Counter' = Counter
        BY <4>1 DEF Counter
      <4> QED BY <2>1, <4>1, <4>2
    <3>3. CASE ExecValidate(i) \/ Release(i)
      <4>1. PICK s \in 0..2, t \in Nat : Answer(i, s, t)
        BY <2>1, <3>3 DEF ExecValidate, Release, Command, NoToken
      <4>2. Head(requests[i]).op \notin Acquire
        BY <3>3 DEF ExecValidate, Release, Sent, Acquire
      <4> QED BY <4>1, <4>2
    <3> QED BY <1>6, <3>1, <3>2, <3>3 DEF Exec
  <2> QED BY <2>1, <2>2, <2>3, AnswerMoves
<1>7. ASSUME NEW i \in Instance,
             AcquireAnswered(i) \/ ValidateAnswered(i) \/ ReleaseAnswered(i)
      PROVE  WinnersGrow /\ \A j \in Instance : Moves(j)
  <2>1. replies[i] # <<>> /\ Consume(i) /\ winners' = winners
    BY <1>7 DEF AcquireAnswered, ValidateAnswered, ReleaseAnswered, Answered
  <2>2. \/ fencingToken' = fencingToken
        \/ fencingToken' = [fencingToken EXCEPT ![i] = NoToken]
        \/ /\ Granted(Oldest(i))
           /\ fencingToken' = [fencingToken EXCEPT ![i] = Oldest(i).token]
    BY <1>7 DEF AcquireAnswered, ValidateAnswered, ReleaseAnswered, Answered, Granted
  <2>3. Takes(i)
    BY <2>1, <2>2 DEF Takes, Consume, ElectionTypes
  <2>4. \A j \in Instance : j # i =>
            fencingToken'[j] = fencingToken[j] /\ replies'[j] = replies[j]
    BY <2>1, <2>2 DEF Consume, ElectionTypes
  <2> QED BY <1>4, <2>1, <2>3, <2>4 DEF Moves
<1>8. ASSUME NEW i \in Instance,
             AcquireRejected(i) \/ ValidateRejected(i) \/ ReleaseRejected(i)
      PROVE  WinnersGrow /\ \A j \in Instance : Moves(j)
  <2>1. PICK op : Rejects(i, op)
    BY <1>8 DEF AcquireRejected, ValidateRejected, ReleaseRejected
  <2>2. /\ winners' = winners
        /\ \/ fencingToken' = fencingToken
           \/ fencingToken' = [fencingToken EXCEPT ![i] = NoToken]
    BY <1>8, <2>1 DEF AcquireRejected, ValidateRejected, ReleaseRejected, Rejects
  <2>3. replies' = replies \/ (replies[i] # <<>> /\ Consume(i))
    BY <2>1 DEF Rejects
  <2>4. Forgets(i) \/ Takes(i)
    BY <2>2, <2>3 DEF Forgets, Takes, Consume, ElectionTypes
  <2>5. \A j \in Instance : j # i =>
            fencingToken'[j] = fencingToken[j] /\ replies'[j] = replies[j]
    BY <2>2, <2>3 DEF Consume, ElectionTypes
  <2> QED BY <1>4, <2>2, <2>4, <2>5 DEF Moves
<1> QED
  BY <1>2, <1>3, <1>5, <1>6, <1>7, <1>8
     DEF AnyNext, ElectionNext, Step, ClientStep, Exec

(* A listener gets a token only from the answer that elects its process.   *)
LEMMA FenceMoves ==
    ASSUME Kept, [EventNext]_eventVars, NEW i \in Instance
    PROVE  fence'[i] \in {fence[i], NoToken} \/ Elected(i)
<1>1. ListenerTypes /\ fence \in [Instance -> Nat]
  BY DEF Kept, ListenerTypes
<1>2. ASSUME UNCHANGED fence PROVE fence'[i] = fence[i]
  BY <1>2
<1>3. ASSUME NEW j \in Instance, NEW lost, HaltWhen(j, lost)
      PROVE  fence'[i] \in {fence[i], NoToken}
  BY <1>1, <1>3 DEF HaltWhen
<1>4. ASSUME NEW j \in Instance, NEW c, NEW e, NEW u, TurnTo(j, c, e, u)
      PROVE  fence'[i] \in {fence[i], NoToken}
  BY <1>2, <1>3, <1>4 DEF TurnTo
<1>5. ASSUME NEW j \in Instance, ListenerStep(j)
      PROVE  fence'[i] \in {fence[i], NoToken} \/ Elected(i)
  <2>1. CASE Elected(j)
    <3>1. CASE i = j
      BY <2>1, <3>1
    <3>2. CASE i # j
      BY <1>1, <2>1, <3>2 DEF Elected
    <3> QED BY <3>1, <3>2
  <2>2. CASE ElectionStep(j) \/ ValidationFails(j) \/ StopListener(j) \/ StopSaved(j)
    BY <1>2, <2>2 DEF ElectionStep, ValidationFails, StopListener, StopSaved, listenerVars
  <2>3. CASE RenewedOrRefused(j) \/ AttemptRejected(j)
    BY <1>3, <2>3 DEF RenewedOrRefused, AttemptRejected
  <2>4. CASE Validated(j)
    BY <1>3, <2>4 DEF Validated
  <2>5. ASSUME NEW c \in Caller, LoopStep(j, c) \/ PollFails(j, c)
        PROVE  fence'[i] \in {fence[i], NoToken}
    BY <1>2, <1>4, <2>5 DEF LoopStep, Load, CatchUp, Fetch, Process, Save, Wake, PollFails
  <2>6. CASE CrashListener(j)
    BY <1>1, <2>6 DEF CrashListener
  <2> QED BY <1>5, <2>1, <2>2, <2>3, <2>4, <2>5, <2>6 DEF ListenerStep
<1>6. CASE Emit \/ LeaseLapses \/ UNCHANGED eventVars
  BY <1>2, <1>6 DEF Emit, LeaseLapses, eventVars, listenerVars
<1> QED BY <1>5, <1>6 DEF EventNext

LEMMA FencesStep ==
    ASSUME EventInv, EventInv', FencesBehind, [EventNext]_eventVars
    PROVE  FencesBehind'
<1>1. /\ ElectionTypes /\ ListenerTypes /\ Kept
      /\ WinnersGrow /\ \A i \in Instance : Moves(i)
  BY ListenerElects, StepMoves DEF EventInv, ElectionInv, Kept
<1>2. ASSUME NEW i \in Instance, NEW t \in Nat, Behind(i, t)
      PROVE  /\ Won(winners', i, t)
             /\ fencingToken'[i] # NoToken => t <= fencingToken'[i]
             /\ \A n \in 1..Len(replies'[i]) :
                   Granted(replies'[i][n]) => t <= replies'[i][n].token
  <2>1. Forgets(i) \/ Gains(i) \/ Takes(i)
    BY <1>1 DEF Moves
  <2>2. Behind(i, t)'
    BY <1>1, <1>2, <2>1, BehindStays
  <2> QED BY <2>2 DEF Behind
<1>3. ASSUME NEW i \in Instance, fence'[i] # NoToken PROVE Behind(i, fence[i])'
  <2>1. CASE fence'[i] = fence[i]
    <3>1. fence[i] # NoToken /\ fence[i] \in Nat
      BY <1>1, <1>3, <2>1 DEF ListenerTypes
    <3>2. Behind(i, fence[i])
      BY <3>1 DEF FencesBehind
    <3> QED BY <1>2, <2>1, <3>1, <3>2 DEF Behind
  <2>2. CASE Elected(i)
    <3>1. /\ fence'[i] = Oldest(i).token /\ fencingToken'[i] = Oldest(i).token
      BY <1>1, <2>2 DEF Elected, AcquireAnswered, BecomesLeader, ListenerTypes, ElectionTypes
    <3>2. OwnTerms(i)'
      BY DEF EventInv, ElectionInv, TokensAreWon
    <3>3. fencingToken'[i] \in Nat
      BY DEF EventInv, ElectionInv, ElectionTypes
    <3> QED BY <1>3, <3>1, <3>2, <3>3 DEF OwnTerms, Behind
  <2> QED BY <1>1, <1>3, <2>1, <2>2, FenceMoves
<1> QED BY <1>3 DEF FencesBehind

(* A listener presents only a token that its own process won, and never    *)
(* one newer than its process holds, however late the callbacks run        *)
(* (stellarEventListener.ts:212-245, 340-353).                             *)
THEOREM ListenersPresentTheirOwn == EventSpec => []FencesAreOwn
<1>1. EventInit => FencesBehind
  BY DEF EventInit, FencesBehind
<1>2. EventInv /\ EventInv' /\ FencesBehind /\ [EventNext]_eventVars => FencesBehind'
  BY FencesStep
<1>3. FencesBehind => FencesAreOwn
  BY DEF FencesBehind, Behind, FencesAreOwn, Won
<1> QED BY <1>1, <1>2, <1>3, EventInvHolds, PTL DEF EventSpec

-----------------------------------------------------------------------------
(* Stale writes.  A loop has one validation under way at most, and waits   *)
(* for it.                                                                 *)
Validates(r, c) == r.op = "validate" /\ r.by = c

Asks(s, c) == \E n \in 1..Len(s) : Validates(s[n], c)
AsksOnce(s, c) == \A m, n \in 1..Len(s) : Validates(s[m], c) /\ Validates(s[n], c) => m = n
Confirms(s, c) == \E n \in 1..Len(s) : Validates(s[n], c) /\ s[n].status = 1

LEMMA AskedMore ==
    ASSUME NEW s \in Seq(Command), NEW r \in Command, NEW c
    PROVE  /\ Asks(Append(s, r), c) <=> Asks(s, c) \/ Validates(r, c)
           /\ AsksOnce(s, c) /\ ~(Asks(s, c) /\ Validates(r, c)) => AsksOnce(Append(s, r), c)
           /\ Confirms(Append(s, r), c) => Confirms(s, c) \/ (Validates(r, c) /\ r.status = 1)
<1> DEFINE q == Append(s, r)
<1>1. /\ Len(s) \in Nat /\ Len(q) = Len(s) + 1 /\ q[Len(s) + 1] = r
      /\ \A n \in 1..Len(s) : q[n] = s[n]
  BY AppendProperties, LenProperties
<1> HIDE DEF q
<1>2. 1..Len(q) = 1..Len(s) \cup {Len(s) + 1}
  BY <1>1
<1>3. /\ Asks(q, c) <=> Asks(s, c) \/ Validates(r, c)
      /\ Confirms(q, c) => Confirms(s, c) \/ (Validates(r, c) /\ r.status = 1)
  BY <1>1, <1>2 DEF Asks, Confirms
<1>4. ASSUME AsksOnce(s, c), ~(Asks(s, c) /\ Validates(r, c)) PROVE AsksOnce(q, c)
  BY <1>1, <1>2, <1>4 DEF Asks, AsksOnce
<1> QED BY <1>3, <1>4 DEF q

LEMMA AskedLess ==
    ASSUME NEW s \in Seq(Command), s # <<>>, NEW c
    PROVE  /\ Asks(Tail(s), c) => Asks(s, c)
           /\ Validates(Head(s), c) => Asks(s, c)
           /\ AsksOnce(s, c) => AsksOnce(Tail(s), c)
           /\ AsksOnce(s, c) /\ Validates(Head(s), c) => ~Asks(Tail(s), c)
           /\ Confirms(Tail(s), c) => Confirms(s, c)
           /\ Validates(Head(s), c) /\ Head(s).status = 1 => Confirms(s, c)
<1> DEFINE q == Tail(s)
           h == Head(s)
<1>1. /\ Len(s) \in Nat \ {0} /\ Len(q) = Len(s) - 1 /\ h = s[1]
      /\ \A n \in 1..Len(q) : q[n] = s[n + 1]
  BY EmptySeq, HeadTailProperties
<1> HIDE DEF q, h
<1>2. /\ 1 \in 1..Len(s)
      /\ \A n \in 1..Len(q) : n + 1 \in 1..Len(s) /\ n + 1 # 1
      /\ \A m, n \in 1..Len(q) : m + 1 = n + 1 => m = n
  BY <1>1
<1>3. /\ Asks(q, c) => Asks(s, c)
      /\ Validates(h, c) => Asks(s, c)
      /\ Confirms(q, c) => Confirms(s, c)
      /\ Validates(h, c) /\ h.status = 1 => Confirms(s, c)
  BY <1>1, <1>2 DEF Asks, Confirms
<1>4. ASSUME AsksOnce(s, c) PROVE AsksOnce(q, c)
  BY <1>1, <1>2, <1>4 DEF AsksOnce
<1>5. ASSUME AsksOnce(s, c), Validates(h, c), Asks(q, c) PROVE FALSE
  BY <1>1, <1>2, <1>5 DEF AsksOnce, Asks
<1> QED BY <1>3, <1>4, <1>5 DEF q, h

(* What a step may do to the pipe and the loops of a process that is alive.*)
AtWork(i, c) == task[i][c].pc \in {"process", "save"}
Patient(i, c) == task'[i][c].pc = task[i][c].pc \/ task[i][c].pc # "validate"
NoNewWork(i, c) == AtWork(i, c)' => AtWork(i, c)

Stays(i) ==
    /\ requests'[i] = requests[i] /\ replies'[i] = replies[i]
    /\ \A c \in Caller : Patient(i, c) /\ NoNewWork(i, c)

Posts(i) ==
    \E r \in Command :
        /\ requests'[i] = Append(requests[i], r) /\ replies'[i] = replies[i]
        /\ r.op = "validate" => Won(winners, i, r.token)
        /\ \A c \in Caller :
              /\ Patient(i, c) /\ NoNewWork(i, c)
              /\ Validates(r, c) => task[i][c].pc # "validate" /\ task'[i][c].pc = "validate"

Serves(i) ==
    /\ requests[i] # <<>> /\ requests'[i] = Tail(requests[i])
    /\ \E r \in Command :
          /\ replies'[i] = Append(replies[i], r)
          /\ r.op = Head(requests[i]).op /\ r.by = Head(requests[i]).by
          /\ r.op = "validate" /\ r.status = 1 =>
                winners' = winners /\ Head(requests[i]).token = Counter
    /\ task'[i] = task[i]

Hears(i) ==
    /\ replies[i] # <<>> /\ replies'[i] = Tail(replies[i]) /\ requests'[i] = requests[i]
    /\ \A c \in Caller :
          /\ Patient(i, c) \/ Validates(Head(replies[i]), c)
          /\ NoNewWork(i, c) \/ (Validates(Head(replies[i]), c) /\ Head(replies[i]).status = 1)

Drops(i) ==
    /\ replies'[i] = replies[i]
    /\ requests[i] # <<>> /\ requests'[i] = Tail(requests[i])
    /\ \A c \in Caller :
          /\ Patient(i, c) \/ Validates(Head(requests[i]), c)
          /\ NoNewWork(i, c)

PipeStep(i) ==
    Alive(i)' => Alive(i) /\ (Stays(i) \/ Posts(i) \/ Serves(i) \/ Hears(i) \/ Drops(i))

OneAnswer(i) ==
    \A c \in Caller :
        /\ AsksOnce(requests[i], c) /\ AsksOnce(replies[i], c)
        /\ ~(Asks(requests[i], c) /\ Asks(replies[i], c))
        /\ Asks(requests[i], c) \/ Asks(replies[i], c) => task[i][c].pc = "validate"

OwnRequests(i) ==
    \A n \in 1..Len(requests[i]) :
        requests[i][n].op = "validate" => Won(winners, i, requests[i][n].token)

PipesSound == \A i \in Instance : Alive(i) => OneAnswer(i) /\ OwnRequests(i)

(* A loop that was validated, or is about to be told so.                   *)
Armed(i, c) == Alive(i) /\ (AtWork(i, c) \/ Confirms(replies[i], c))

LEMMA PipeKeepsAnswers ==
    ASSUME ElectionTypes, NEW i \in Instance, PipeStep(i), Alive(i)', OneAnswer(i)
    PROVE  OneAnswer(i)'
<1>1. requests[i] \in Seq(Command) /\ replies[i] \in Seq(Command)
  BY DEF ElectionTypes
<1> SUFFICES ASSUME NEW c \in Caller
             PROVE  /\ AsksOnce(requests'[i], c) /\ AsksOnce(replies'[i], c)
                    /\ ~(Asks(requests'[i], c) /\ Asks(replies'[i], c))
                    /\ Asks(requests'[i], c) \/ Asks(replies'[i], c) =>
                          task'[i][c].pc = "validate"
  BY DEF OneAnswer
<1>2. /\ AsksOnce(requests[i], c) /\ AsksOnce(replies[i], c)
      /\ ~(Asks(requests[i], c) /\ Asks(replies[i], c))
      /\ Asks(requests[i], c) \/ Asks(replies[i], c) => task[i][c].pc = "validate"
  BY DEF OneAnswer
<1>3. CASE Stays(i)
  BY <1>2, <1>3 DEF Stays, Patient
<1>4. CASE Posts(i)
  <2>1. PICK r \in Command :
            /\ requests'[i] = Append(requests[i], r) /\ replies'[i] = replies[i]
            /\ Patient(i, c)
            /\ Validates(r, c) => task[i][c].pc # "validate" /\ task'[i][c].pc = "validate"
    BY <1>4 DEF Posts
  <2> QED BY <1>1, <1>2, <2>1, AskedMore DEF Patient
<1>5. CASE Serves(i)
  <2>1. PICK r \in Command :
            /\ replies'[i] = Append(replies[i], r)
            /\ Validates(r, c) <=> Validates(Head(requests[i]), c)
    BY <1>5 DEF Serves, Validates
  <2>2. requests[i] # <<>> /\ requests'[i] = Tail(requests[i]) /\ task'[i] = task[i]
    BY <1>5 DEF Serves
  <2>3. /\ Asks(requests'[i], c) => Asks(requests[i], c)
        /\ Validates(r, c) => Asks(requests[i], c) /\ ~Asks(requests'[i], c)
        /\ AsksOnce(requests'[i], c)
    BY <1>1, <1>2, <2>1, <2>2, AskedLess
  <2>4. Asks(replies'[i], c) <=> Asks(replies[i], c) \/ Validates(r, c)
    BY <1>1, <2>1, AskedMore
  <2>5. AsksOnce(replies'[i], c)
    BY <1>1, <1>2, <2>1, <2>3, AskedMore
  <2> QED BY <1>2, <2>2, <2>3, <2>4, <2>5
<1>6. CASE Hears(i)
  <2>1. /\ replies[i] # <<>> /\ replies'[i] = Tail(replies[i]) /\ requests'[i] = requests[i]
        /\ Patient(i, c) \/ Validates(Head(replies[i]), c)
    BY <1>6 DEF Hears
  <2>2. /\ Asks(replies'[i], c) => Asks(replies[i], c)
        /\ AsksOnce(replies'[i], c)
        /\ Validates(Head(replies[i]), c) => Asks(replies[i], c) /\ ~Asks(replies'[i], c)
    BY <1>1, <1>2, <2>1, AskedLess
  <2> QED BY <1>2, <2>1, <2>2 DEF Patient
<1>7. CASE Drops(i)
  <2>1. /\ replies'[i] = replies[i]
        /\ requests[i] # <<>> /\ requests'[i] = Tail(requests[i])
        /\ Patient(i, c) \/ Validates(Head(requests[i]), c)
    BY <1>7 DEF Drops
  <2>2. /\ Asks(requests'[i], c) => Asks(requests[i], c)
        /\ AsksOnce(requests'[i], c)
        /\ Validates(Head(requests[i]), c) => Asks(requests[i], c) /\ ~Asks(requests'[i], c)
    BY <1>1, <1>2, <2>1, AskedLess
  <2> QED BY <1>2, <2>1, <2>2 DEF Patient
<1> QED BY <1>3, <1>4, <1>5, <1>6, <1>7 DEF PipeStep

LEMMA PipeKeepsRequests ==
    ASSUME ElectionTypes, WinnersGrow, NEW i \in Instance, PipeStep(i), Alive(i)', OwnRequests(i)
    PROVE  OwnRequests(i)'
<1>1. requests[i] \in Seq(Command)
  BY DEF ElectionTypes
<1>2. \A t : Won(winners, i, t) => Won(winners', i, t)
  BY WonStays
<1> SUFFICES ASSUME NEW n \in 1..Len(requests'[i]), requests'[i][n].op = "validate"
             PROVE  Won(winners', i, requests'[i][n].token)
  BY DEF OwnRequests
<1>3. CASE requests'[i] = requests[i]
  BY <1>2, <1>3 DEF OwnRequests
<1>4. CASE Posts(i)
  <2>1. PICK r \in Command : /\ requests'[i] = Append(requests[i], r)
                             /\ r.op = "validate" => Won(winners, i, r.token)
    BY <1>4 DEF Posts
  <2>2. /\ Len(requests[i]) \in Nat /\ Len(requests'[i]) = Len(requests[i]) + 1
        /\ \A m \in 1..Len(requests[i]) : requests'[i][m] = requests[i][m]
        /\ requests'[i][Len(requests[i]) + 1] = r
    BY <1>1, <2>1, AppendProperties, LenProperties
  <2>3. n \in 1..Len(requests[i]) \/ n = Len(requests[i]) + 1
    BY <2>2
  <2> QED BY <1>2, <2>1, <2>2, <2>3 DEF OwnRequests
<1>5. CASE requests[i] # <<>> /\ requests'[i] = Tail(requests[i])
  <2>1. /\ Len(requests[i]) \in Nat \ {0} /\ Len(requests'[i]) = Len(requests[i]) - 1
        /\ requests'[i][n] = requests[i][n + 1]
    BY <1>1, <1>5, EmptySeq, HeadTailProperties
  <2>2. n + 1 \in 1..Len(requests[i])
    BY <2>1
  <2> QED BY <1>2, <2>1, <2>2 DEF OwnRequests
<1> QED BY <1>3, <1>4, <1>5 DEF PipeStep, Stays, Serves, Hears, Drops

(* A loop is told that it may go on only while its process won the newest  *)
(* term.                                                                   *)
LEMMA PipeArms ==
    ASSUME ElectionTypes, NEW i \in Instance, PipeStep(i), OwnRequests(i),
           NEW c \in Caller, Armed(i, c)'
    PROVE  Armed(i, c) \/ (winners' = winners /\ NotSuperseded(i))
<1>1. requests[i] \in Seq(Command) /\ replies[i] \in Seq(Command)
  BY DEF ElectionTypes
<1>2. Alive(i) /\ (AtWork(i, c)' \/ Confirms(replies'[i], c))
  BY DEF Armed, PipeStep
<1>3. CASE Stays(i) \/ Posts(i) \/ Drops(i)
  <2>1. NoNewWork(i, c) /\ replies'[i] = replies[i]
    BY <1>3 DEF Stays, Posts, Drops
  <2> QED BY <1>2, <2>1 DEF NoNewWork, Armed
<1>4. CASE Serves(i)
  <2>1. PICK r \in Command :
            /\ replies'[i] = Append(replies[i], r)
            /\ r.op = Head(requests[i]).op
            /\ r.op = "validate" /\ r.status = 1 =>
                  winners' = winners /\ Head(requests[i]).token = Counter
    BY <1>4 DEF Serves
  <2>2. task'[i] = task[i] /\ requests[i] # <<>>
    BY <1>4 DEF Serves
  <2>3. CASE AtWork(i, c)' \/ Confirms(replies[i], c)
    BY <1>2, <2>2, <2>3 DEF Armed, AtWork
  <2>4. CASE Validates(r, c) /\ r.status = 1
    <3>1. winners' = winners /\ Head(requests[i]).token = Counter /\ Head(requests[i]).op = "validate"
      BY <2>1, <2>4 DEF Validates
    <3>2. 1 \in 1..Len(requests[i]) /\ requests[i][1] = Head(requests[i])
      <4>1. Len(requests[i]) \in Nat \ {0} /\ Head(requests[i]) = requests[i][1]
        BY <1>1, <2>2, EmptySeq
      <4> QED BY <4>1
    <3>3. Won(winners, i, Counter)
      BY <3>1, <3>2 DEF OwnRequests
    <3>4. winners # <<>>
      BY <3>3 DEF Won
    <3> QED BY <3>1, <3>3, <3>4 DEF Won, NotSuperseded
  <2> QED BY <1>1, <1>2, <2>1, <2>3, <2>4, AskedMore
<1>5. CASE Hears(i)
  <2>1. /\ replies[i] # <<>> /\ replies'[i] = Tail(replies[i])
        /\ NoNewWork(i, c) \/ (Validates(Head(replies[i]), c) /\ Head(replies[i]).status = 1)
    BY <1>5 DEF Hears
  <2>2. /\ Confirms(replies'[i], c) => Confirms(replies[i], c)
        /\ Validates(Head(replies[i]), c) /\ Head(replies[i]).status = 1 =>
              Confirms(replies[i], c)
    BY <1>1, <2>1, AskedLess
  <2> QED BY <1>2, <2>1, <2>2 DEF NoNewWork, Armed
<1> QED BY <1>2, <1>3, <1>4, <1>5 DEF PipeStep, Armed

(* Every step of a listener is one of these, on its own pipe and loops.    *)
LEMMA OthersUntouched ==
    ASSUME ElectionTypes, ListenerTypes, NEW i \in Instance, ListenerStep(i),
           NEW j \in Instance, j # i
    PROVE  /\ requests'[j] = requests[j] /\ replies'[j] = replies[j]
           /\ mode'[j] = mode[j] /\ task'[j] = task[j]
<1> USE DEF redisVars, pipeVars, localVars, electionVars, listenerVars
<1>0. /\ requests \in [Instance -> Seq(Command)] /\ replies \in [Instance -> Seq(Command)]
      /\ mode \in [Instance -> {"new", "up", "stopped", "dead"}]
      /\ task \in [Instance -> [Caller -> Task]]
  BY DEF ElectionTypes, ListenerTypes
<1>1. ASSUME NEW c, NEW pc, Goto(i, c, pc) PROVE task'[j] = task[j]
  BY <1>0, <1>1 DEF Goto
<1>2. ASSUME NEW c, NEW from, Poll(i, c, from) PROVE task'[j] = task[j]
  BY <1>0, <1>2 DEF Poll
<1>3. ASSUME NEW op, NEW c, NEW t, Send(i, op, c, t) PROVE requests'[j] = requests[j]
  BY <1>0, <1>3 DEF Send
<1>4. ASSUME NEW op, Rejects(i, op)
      PROVE  requests'[j] = requests[j] /\ replies'[j] = replies[j]
  BY <1>0, <1>4 DEF Rejects, Consume
<1>5. ASSUME Consume(i) PROVE replies'[j] = replies[j]
  BY <1>0, <1>5 DEF Consume
<1>6. ASSUME NEW s, NEW t, Answer(i, s, t)
      PROVE  requests'[j] = requests[j] /\ replies'[j] = replies[j] /\ mode'[j] = mode[j]
  BY <1>0, <1>6 DEF Answer
<1>7. CASE ElectionStep(i)
  <2>1. task'[j] = task[j]
    BY <1>7 DEF ElectionStep
  <2>2. CASE Start(i) \/ Beat(i)
    <3>1. replies' = replies /\ mode'[j] = mode[j]
      BY <1>0, <2>2 DEF Start, Beat
    <3> QED BY <2>1, <2>2, <3>1, <1>3 DEF Start, Beat
  <2>3. CASE Exec(i)
    <3>1. PICK s, t : Answer(i, s, t)
      BY <2>3 DEF Exec, AcquireOrRenew, ExecValidate, Release
    <3> QED BY <2>1, <3>1, <1>6
  <2>4. CASE ReleaseAnswered(i)
    BY <2>1, <2>4, <1>5 DEF ReleaseAnswered
  <2>5. CASE ReleaseRejected(i)
    BY <2>1, <2>5, <1>4 DEF ReleaseRejected
  <2> QED BY <1>7, <2>2, <2>3, <2>4, <2>5 DEF ElectionStep
<1>8. CASE Elected(i) \/ RenewedOrRefused(i)
  <2>1. AcquireAnswered(i) /\ task'[j] = task[j]
    BY <1>8, <1>1 DEF Elected, RenewedOrRefused
  <2> QED BY <2>1, <1>5 DEF AcquireAnswered
<1>9. CASE AttemptRejected(i)
  BY <1>9, <1>4 DEF AttemptRejected, AcquireRejected
<1>10. CASE Validated(i)
  <2>1. ValidateAnswered(i) /\ task'[j] = task[j]
    BY <1>10, <1>1 DEF Validated
  <2> QED BY <2>1, <1>5 DEF ValidateAnswered
<1>11. CASE ValidationFails(i)
  BY <1>11, <1>1, <1>4 DEF ValidationFails, ValidateRejected
<1>12. ASSUME NEW c \in Caller, NEW ev, NEW upto, TurnTo(i, c, ev, upto)
       PROVE  /\ requests'[j] = requests[j] /\ replies'[j] = replies[j]
              /\ mode'[j] = mode[j] /\ task'[j] = task[j]
  <2>1. CASE fence[i] = NoToken
    BY <2>1, <1>12, <1>1 DEF TurnTo
  <2>2. CASE fence[i] # NoToken
    <3>1. Validate(i, c, fence[i]) /\ task'[j] = task[j]
      BY <1>0, <2>2, <1>12 DEF TurnTo
    <3> QED BY <3>1, <1>3 DEF Validate
  <2> QED BY <2>1, <2>2
<1>13. ASSUME NEW c \in Caller, LoopStep(i, c) \/ PollFails(i, c)
       PROVE  /\ requests'[j] = requests[j] /\ replies'[j] = replies[j]
              /\ mode'[j] = mode[j] /\ task'[j] = task[j]
  <2>1. CASE Load(i, c)
    BY <2>1, <1>1, <1>2 DEF Load
  <2>2. CASE CatchUp(i, c)
    BY <2>2, <1>2 DEF CatchUp
  <2>3. CASE Process(i, c) \/ PollFails(i, c)
    BY <2>3, <1>1 DEF Process, PollFails
  <2>4. CASE Wake(i, c)
    <3>1. task'[j] = task[j]
      BY <1>0, <2>4, <1>2 DEF Wake
    <3> QED BY <2>4, <3>1 DEF Wake
  <2>5. CASE Fetch(i, c) \/ Save(i, c)
    <3>1. \/ \E ev, upto : TurnTo(i, c, ev, upto)
          \/ Goto(i, c, "sleep") /\ UNCHANGED electionVars
      BY <2>5 DEF Fetch, Save
    <3> QED BY <3>1, <1>1, <1>12
  <2> QED BY <1>13, <2>1, <2>2, <2>3, <2>4, <2>5 DEF LoopStep
<1>14. ASSUME Stop(i) PROVE requests'[j] = requests[j] /\ replies'[j] = replies[j] /\ mode'[j] = mode[j]
  BY <1>0, <1>3, <1>14 DEF Stop
<1>15. CASE StopListener(i) \/ StopSaved(i)
  <2>1. (Stop(i) \/ UNCHANGED electionVars) /\ task' = task
    BY <1>15 DEF StopListener, StopSaved
  <2> QED BY <2>1, <1>14
<1>16. CASE CrashListener(i)
  BY <1>0, <1>16 DEF CrashListener, Crash
<1> QED
  BY <1>7, <1>8, <1>9, <1>10, <1>11, <1>13, <1>15, <1>16 DEF ListenerStep

(* Any way of moving a run that neither ends a validation nor begins work. *)
Gently(i) == \A c \in Caller : Patient(i, c) /\ NoNewWork(i, c)

LEMMA SameTaskGently ==
    ASSUME NEW i \in Instance, task'[i] = task[i]
    PROVE  Gently(i)
  BY DEF Gently, Patient, NoNewWork, AtWork

LEMMA GotoGently ==
    ASSUME ListenerTypes, NEW i \in Instance, NEW c \in Caller,
           NEW pc \in PC \ {"process", "save"}, Goto(i, c, pc), task[i][c].pc # "validate"
    PROVE  Gently(i)
  BY GotoMoves DEF Gently, Patient, NoNewWork, AtWork

LEMMA PutGently ==
    ASSUME ListenerTypes, NEW i \in Instance, NEW c \in Caller, NEW t \in Task, Put(i, c, t),
           t.pc \notin {"process", "save"}, task[i][c].pc # "validate"
    PROVE  Gently(i)
  BY PutMoves DEF Gently, Patient, NoNewWork, AtWork

LEMMA SendPosts ==
    ASSUME ElectionTypes, NEW i \in Instance, NEW op \in Op \ {"validate"},
           Send(i, op, NoOne, NoToken), replies'[i] = replies[i], Gently(i)
    PROVE  Posts(i)
<1> DEFINE r == [op |-> op, by |-> NoOne, token |-> NoToken, status |-> 0]
<1>1. r \in Command /\ r.op # "validate"
  BY DEF Command, NoToken
<1>2. requests'[i] = Append(requests[i], r)
  BY DEF Send, ElectionTypes
<1> HIDE DEF r
<1> QED BY <1>1, <1>2 DEF Posts, Gently, Validates

LEMMA ValidatePosts ==
    ASSUME ElectionTypes, NEW i \in Instance, NEW c \in Caller, NEW t \in Nat,
           Won(winners, i, t), Validate(i, c, t), Gently(i),
           task[i][c].pc # "validate", task'[i][c].pc = "validate"
    PROVE  Posts(i)
<1> DEFINE r == [op |-> "validate", by |-> c, token |-> t, status |-> 0]
<1>1. r \in Command /\ r.by = c /\ r.token = t
  BY DEF Command, Op
<1>2. requests'[i] = Append(requests[i], r) /\ replies'[i] = replies[i]
  BY DEF Validate, Send, ElectionTypes
<1> HIDE DEF r
<1> QED BY <1>1, <1>2 DEF Posts, Gently, Validates

LEMMA AnswerServes ==
    ASSUME ElectionTypes, NEW i \in Instance, NEW s \in 0..2, NEW t \in Nat,
           Alive(i), requests[i] # <<>>, Answer(i, s, t), task'[i] = task[i],
           Head(requests[i]).op = "validate" /\ s = 1 =>
               winners' = winners /\ Head(requests[i]).token = Counter
    PROVE  Serves(i)
<1> DEFINE h == Head(requests[i])
           r == [h EXCEPT !.status = s, !.token = t]
<1>1. h \in Command
  BY DEF ElectionTypes
<1>2. r \in Command /\ r.op = h.op /\ r.by = h.by /\ r.status = s
  BY <1>1 DEF Command
<1>3. requests'[i] = Tail(requests[i]) /\ replies'[i] = Append(replies[i], r)
  BY DEF Answer, ElectionTypes
<1> HIDE DEF r
<1> QED BY <1>2, <1>3 DEF Serves

LEMMA ExecServes ==
    ASSUME ElectionTypes, NEW i \in Instance, Alive(i), Exec(i), task'[i] = task[i]
    PROVE  Serves(i)
<1>1. Counter \in Nat /\ Counter + 1 \in Nat
  BY CounterType
<1>2. Head(requests[i]) \in Command \/ requests[i] = <<>>
  BY DEF ElectionTypes
<1>3. CASE AcquireOrRenew(i)
  <2>1. requests[i] # <<>> /\ Head(requests[i]).op # "validate"
    BY <1>3 DEF AcquireOrRenew, Sent, Acquire
  <2>2. PICK s \in 0..2, t \in Nat : Answer(i, s, t)
    BY <1>1, <1>3 DEF AcquireOrRenew
  <2> QED BY <2>1, <2>2, AnswerServes
<1>4. CASE ExecValidate(i)
  <2> DEFINE t == Head(requests[i]).token
             s == IF t = Counter THEN 1 ELSE 0
  <2>1. requests[i] # <<>> /\ winners' = winners /\ Answer(i, s, t)
    BY <1>4 DEF ExecValidate, Sent
  <2>2. t \in Nat /\ s \in 0..2 /\ (s = 1 => t = Counter)
    BY <1>2, <2>1 DEF Command
  <2> HIDE DEF s
  <2> QED BY <2>1, <2>2, AnswerServes
<1>5. CASE Release(i)
  <2>1. requests[i] # <<>> /\ Head(requests[i]).op # "validate" /\ Answer(i, 1, NoToken)
    BY <1>5 DEF Release, Sent
  <2> QED BY <2>1, AnswerServes DEF NoToken
<1> QED BY <1>3, <1>4, <1>5 DEF Exec
(* The oldest command of a process is heard, or is dropped unexecuted.     *)
LEMMA ConsumeHears ==
    ASSUME ElectionTypes, NEW i \in Instance, replies[i] # <<>>, Consume(i),
           requests'[i] = requests[i],
           \A c \in Caller :
              /\ Patient(i, c) \/ Validates(Head(replies[i]), c)
              /\ NoNewWork(i, c) \/ (Validates(Head(replies[i]), c) /\ Head(replies[i]).status = 1)
    PROVE  Hears(i)
<1>1. replies'[i] = Tail(replies[i])
  BY DEF Consume, ElectionTypes
<1> QED BY <1>1 DEF Hears

LEMMA RejectHearsOrDrops ==
    ASSUME ElectionTypes, NEW i \in Instance, NEW op, Rejects(i, op),
           \A c \in Caller : Patient(i, c) \/ Validates(OldestUnderWay(i), c),
           \A c \in Caller : NoNewWork(i, c)
    PROVE  Hears(i) \/ Drops(i)
<1>1. CASE replies[i] # <<>>
  <2>1. Consume(i) /\ requests' = requests /\ OldestUnderWay(i) = Head(replies[i])
    BY <1>1 DEF Rejects, OldestUnderWay, Oldest
  <2> QED BY <1>1, <2>1, ConsumeHears
<1>2. CASE replies[i] = <<>>
  <2>1. /\ requests' = [requests EXCEPT ![i] = Tail(@)] /\ replies' = replies
        /\ OldestUnderWay(i) = Head(requests[i])
    BY <1>2 DEF Rejects, OldestUnderWay
  <2>2. requests[i] # <<>>
    <3>1. Len(requests[i]) + Len(replies[i]) > 0
      BY DEF Rejects, InPipe
    <3> QED BY <1>2, <3>1
  <2>3. requests'[i] = Tail(requests[i])
    BY <2>1 DEF ElectionTypes
  <2> QED BY <2>1, <2>2, <2>3 DEF Drops
<1> QED BY <1>1, <1>2

LEMMA ElectionStepPipe ==
    ASSUME ElectionTypes, NEW i \in Instance, ElectionStep(i)
    PROVE  PipeStep(i)
<1>1. task' = task
  BY DEF ElectionStep, listenerVars
<1>2. Gently(i) /\ \A c \in Caller : Patient(i, c) /\ NoNewWork(i, c)
  BY <1>1, SameTaskGently DEF Gently
<1>3. CASE Start(i)
  <2>1. Alive(i) /\ replies' = replies /\ Send(i, "start", NoOne, NoToken)
    BY <1>3 DEF Start, Alive
  <2> QED BY <1>2, <2>1, SendPosts DEF PipeStep, Op, Acquire
<1>4. CASE Beat(i)
  <2>1. Alive(i) /\ replies' = replies /\ Send(i, "beat", NoOne, NoToken)
    BY <1>4 DEF Beat, Beating
  <2> QED BY <1>2, <2>1, SendPosts DEF PipeStep, Op, Acquire
<1>5. CASE Exec(i)
  <2>1. mode' = mode
    BY <1>5 DEF Exec, AcquireOrRenew, ExecValidate, Release, Answer, localVars
  <2> QED BY <1>1, <1>5, <2>1, ExecServes DEF PipeStep, Alive
<1>6. CASE ReleaseAnswered(i)
  <2>1. Alive(i) /\ replies[i] # <<>> /\ Consume(i) /\ requests' = requests
    BY <1>6 DEF ReleaseAnswered, Answered
  <2> QED BY <1>2, <2>1, ConsumeHears DEF PipeStep
<1>7. CASE ReleaseRejected(i)
  <2>1. Alive(i) /\ Rejects(i, {"release"})
    BY <1>7 DEF ReleaseRejected, Rejects
  <2> QED BY <1>2, <2>1, RejectHearsOrDrops DEF PipeStep
<1> QED BY <1>3, <1>4, <1>5, <1>6, <1>7 DEF ElectionStep

LEMMA CallbackPipe ==
    ASSUME ElectionTypes, ListenerTypes, NEW i \in Instance,
           Elected(i) \/ RenewedOrRefused(i) \/ AttemptRejected(i)
    PROVE  PipeStep(i)
<1>1. Gently(i)
  <2>1. CASE task' = task
    BY <2>1, SameTaskGently
  <2>2. ASSUME NEW c \in Caller, At(i, c, "idle"), Goto(i, c, "load") PROVE Gently(i)
    BY <2>2, GotoGently DEF At, PC
  <2> QED BY <2>1, <2>2 DEF Elected, RenewedOrRefused, AttemptRejected
<1>2. \A c \in Caller : Patient(i, c) /\ NoNewWork(i, c)
  BY <1>1 DEF Gently
<1>3. CASE Elected(i) \/ RenewedOrRefused(i)
  <2>1. Alive(i) /\ replies[i] # <<>> /\ Consume(i) /\ requests' = requests
    BY <1>3 DEF Elected, RenewedOrRefused, AcquireAnswered, Answered
  <2> QED BY <1>2, <2>1, ConsumeHears DEF PipeStep
<1>4. CASE AttemptRejected(i)
  <2>1. Alive(i) /\ Rejects(i, Acquire)
    BY <1>4 DEF AttemptRejected, AcquireRejected, Rejects
  <2> QED BY <1>2, <2>1, RejectHearsOrDrops DEF PipeStep
<1> QED BY <1>3, <1>4

LEMMA ValidationPipe ==
    ASSUME ElectionTypes, ListenerTypes, NEW i \in Instance,
           Validated(i) \/ ValidationFails(i)
    PROVE  PipeStep(i)
<1>1. CASE Validated(i)
  <2> DEFINE c == Oldest(i).by
             pc == IF Oldest(i).status = 1 THEN "process" ELSE "sleep"
  <2>1. /\ Alive(i) /\ replies[i] # <<>> /\ Consume(i) /\ requests' = requests
        /\ Oldest(i).op = "validate" /\ Goto(i, c, pc)
    BY <1>1 DEF Validated, ValidateAnswered, Answered
  <2>2. pc \in PC /\ (pc \in {"process", "save"} => Oldest(i).status = 1)
    BY DEF PC
  <2> HIDE DEF pc
  <2>3. ASSUME NEW d \in Caller
        PROVE  /\ Patient(i, d) \/ Validates(Head(replies[i]), d)
               /\ NoNewWork(i, d) \/ (Validates(Head(replies[i]), d) /\ Head(replies[i]).status = 1)
    <3>1. task'[i][d].pc = task[i][d].pc \/ (d = c /\ task'[i][d].pc = pc)
      BY <2>1, <2>2, GotoMoves
    <3> QED BY <2>1, <2>2, <3>1 DEF Patient, NoNewWork, AtWork, Validates, Oldest
  <2> QED BY <2>1, <2>3, ConsumeHears DEF PipeStep
<1>2. CASE ValidationFails(i)
  <2> DEFINE c == OldestUnderWay(i).by
  <2>1. /\ Alive(i) /\ Rejects(i, {"validate"}) /\ OldestUnderWay(i).op = "validate"
        /\ Goto(i, c, "sleep")
    BY <1>2 DEF ValidationFails, ValidateRejected, Rejects
  <2>2. ASSUME NEW d \in Caller
        PROVE  (Patient(i, d) \/ Validates(OldestUnderWay(i), d)) /\ NoNewWork(i, d)
    <3>1. task'[i][d].pc = task[i][d].pc \/ (d = c /\ task'[i][d].pc = "sleep")
      BY <2>1, GotoMoves DEF PC
    <3> QED BY <2>1, <3>1 DEF Patient, NoNewWork, AtWork, Validates
  <2> QED BY <2>1, <2>2, RejectHearsOrDrops DEF PipeStep
<1> QED BY <1>1, <1>2
LEMMA GentleStays ==
    ASSUME NEW i \in Instance, UNCHANGED <<requests, replies>>, Gently(i)
    PROVE  Stays(i)
  BY DEF Stays, Gently

LEMMA TurnPipe ==
    ASSUME ElectionTypes, ListenerTypes, FencesBehind, NEW i \in Instance, NEW c \in Caller,
           NEW e \in Nat, NEW u \in Nat, TurnTo(i, c, e, u), Alive(i),
           task[i][c].pc # "validate"
    PROVE  PipeStep(i)
<1>1. CASE fence[i] = NoToken
  <2>1. Goto(i, c, "sleep") /\ UNCHANGED <<requests, replies>>
    BY <1>1 DEF TurnTo, electionVars, pipeVars
  <2> QED BY <2>1, GotoGently, GentleStays DEF PipeStep, PC
<1>2. CASE fence[i] # NoToken
  <2> DEFINE t == [pc |-> "validate", ev |-> e, upto |-> u]
  <2>1. t \in Task /\ t.pc = "validate"
    BY DEF Task
  <2>2. Validate(i, c, fence[i]) /\ Put(i, c, t)
    BY <1>2 DEF TurnTo, Put
  <2>3. fence[i] \in Nat /\ Won(winners, i, fence[i])
    BY <1>2 DEF ListenerTypes, FencesBehind, Behind
  <2> HIDE DEF t
  <2>4. Gently(i) /\ task'[i][c].pc = "validate"
    BY <2>1, <2>2, PutGently, PutMoves
  <2>5. Posts(i)
    BY <2>2, <2>3, <2>4, ValidatePosts
  <2> QED BY <2>5 DEF PipeStep
<1> QED BY <1>1, <1>2

LEMMA LoopPipe ==
    ASSUME ElectionTypes, ListenerTypes, FencesBehind, tip \in Nat,
           NEW i \in Instance, NEW c \in Caller, LoopStep(i, c) \/ PollFails(i, c)
    PROVE  PipeStep(i)
<1>1. Alive(i)
  BY DEF LoopStep, Load, CatchUp, Fetch, Process, Save, Wake, PollFails, At
<1>2. task[i][c] \in Task /\ task[i][c].ev \in Nat /\ task[i][c].upto \in Nat /\ Idle \in Task
  BY TaskTypes
<1>3. ASSUME UNCHANGED <<requests, replies>>, Gently(i) PROVE PipeStep(i)
  BY <1>1, <1>3, GentleStays DEF PipeStep
<1>4. ASSUME NEW n \in Nat, Poll(i, c, n), task[i][c].pc # "validate" PROVE Gently(i)
  <2> DEFINE t == [pc |-> "fetch", ev |-> n + 1, upto |-> 0]
  <2>1. t \in Task /\ t.pc = "fetch"
    BY DEF Task
  <2>2. Put(i, c, t)
    BY <1>4 DEF Poll, Put
  <2> HIDE DEF t
  <2> QED BY <1>4, <2>1, <2>2, PutGently
<1>5. CASE Load(i, c)
  <2>1. UNCHANGED <<requests, replies>> /\ task[i][c].pc = "load"
    BY <1>5 DEF Load, At, electionVars, pipeVars
  <2>2. Goto(i, c, "catchup") \/ Poll(i, c, cursor)
    BY <1>5 DEF Load
  <2>3. cursor \in Nat
    BY DEF ListenerTypes
  <2> QED BY <2>1, <2>2, <2>3, <1>3, <1>4, GotoGently DEF PC
<1>6. CASE CatchUp(i, c)
  <2>1. UNCHANGED <<requests, replies>> /\ task[i][c].pc = "catchup"
    BY <1>6 DEF CatchUp, At, electionVars, pipeVars
  <2>2. PICK from \in {lastCursor[i]} \cup IF tip - cursor > MaxCatchup THEN {NoEvent} ELSE {} :
           Poll(i, c, from)
    BY <1>6 DEF CatchUp
  <2>3. from \in Nat
    BY <2>2 DEF ListenerTypes, NoEvent
  <2> QED BY <2>1, <2>2, <2>3, <1>3, <1>4
<1>7. CASE Wake(i, c)
  <2>1. UNCHANGED <<requests, replies>> /\ task[i][c].pc = "sleep"
    BY <1>7 DEF Wake, At, electionVars, pipeVars
  <2>2. Poll(i, c, lastCursor[i]) \/ Put(i, c, Idle)
    BY <1>7 DEF Wake, Put
  <2>3. lastCursor[i] \in Nat /\ Idle.pc = "idle"
    BY DEF ListenerTypes, Idle
  <2> QED BY <1>2, <2>1, <2>2, <2>3, <1>3, <1>4, PutGently
<1>8. CASE Process(i, c)
  <2>1. UNCHANGED <<requests, replies>> /\ task[i][c].pc = "process" /\ Goto(i, c, "save")
    BY <1>8 DEF Process, At, electionVars, pipeVars
  <2>2. Gently(i)
    BY <2>1, GotoMoves DEF PC, Gently, Patient, NoNewWork, AtWork
  <2> QED BY <2>1, <2>2, <1>3
<1>9. CASE PollFails(i, c)
  <2>1. UNCHANGED <<requests, replies>> /\ task[i][c].pc \in {"fetch", "save"}
        /\ Goto(i, c, "sleep")
    BY <1>9 DEF PollFails, At, pipeVars
  <2> QED BY <2>1, <1>3, GotoGently DEF PC
<1>10. CASE Fetch(i, c) \/ Save(i, c)
  <2>1. task[i][c].pc # "validate"
    BY <1>10 DEF Fetch, Save, At
  <2>2. \/ TurnTo(i, c, task[i][c].ev, tip)
        \/ TurnTo(i, c, task[i][c].ev + 1, task[i][c].upto)
        \/ Goto(i, c, "sleep") /\ UNCHANGED electionVars
    BY <1>10 DEF Fetch, Save
  <2>3. CASE Goto(i, c, "sleep") /\ UNCHANGED electionVars
    BY <2>1, <2>3, <1>3, GotoGently DEF PC, electionVars, pipeVars
  <2>4. task[i][c].ev + 1 \in Nat
    BY <1>2
  <2> QED BY <1>1, <1>2, <2>1, <2>2, <2>3, <2>4, TurnPipe
<1> QED BY <1>5, <1>6, <1>7, <1>8, <1>9, <1>10 DEF LoopStep

LEMMA StopPipe ==
    ASSUME ElectionTypes, NEW i \in Instance,
           StopListener(i) \/ StopSaved(i) \/ CrashListener(i)
    PROVE  PipeStep(i)
<1>1. CASE StopListener(i) \/ StopSaved(i)
  <2>1. Gently(i)
    BY <1>1, SameTaskGently DEF StopListener, StopSaved
  <2>2. CASE UNCHANGED electionVars
    BY <2>1, <2>2, GentleStays DEF PipeStep, electionVars, pipeVars, localVars, Alive
  <2>3. CASE Stop(i)
    <3>1. Alive(i) /\ replies' = replies
      BY <2>3 DEF Stop, Alive
    <3>2. CASE requests' = requests
      BY <2>1, <3>1, <3>2, GentleStays DEF PipeStep
    <3>3. CASE Send(i, "release", NoOne, NoToken)
      BY <2>1, <3>1, <3>3, SendPosts DEF PipeStep, Op, Acquire
    <3> QED BY <2>3, <3>2, <3>3 DEF Stop
  <2> QED BY <1>1, <2>2, <2>3 DEF StopListener, StopSaved
<1>2. CASE CrashListener(i)
  <2>1. mode'[i] = "dead"
    BY <1>2 DEF CrashListener, Crash, ElectionTypes
  <2> QED BY <2>1 DEF PipeStep, Alive
<1> QED BY <1>1, <1>2

(* Whatever happens, every process takes such a step.                      *)
LEMMA EveryPipe ==
    ASSUME EventInv, FencesBehind, [EventNext]_eventVars, NEW j \in Instance
    PROVE  PipeStep(j)
<1>1. ElectionTypes /\ ListenerTypes /\ tip \in Nat
  BY DEF EventInv, ElectionInv, Kept
<1>2. ASSUME requests'[j] = requests[j], replies'[j] = replies[j],
             mode'[j] = mode[j], task'[j] = task[j]
      PROVE  PipeStep(j)
  BY <1>2, SameTaskGently DEF Gently, Stays, PipeStep, Alive
<1>3. CASE Emit \/ LeaseLapses \/ UNCHANGED eventVars
  <2>1. UNCHANGED <<requests, replies, mode, task>>
    BY <1>3 DEF Emit, LeaseLapses, Lapse, eventVars, electionVars, pipeVars, localVars,
                listenerVars
  <2> QED BY <1>2, <2>1
<1>4. ASSUME NEW i \in Instance, ListenerStep(i) PROVE PipeStep(j)
  <2>1. CASE j # i
    BY <1>1, <1>2, <1>4, <2>1, OthersUntouched
  <2>2. PipeStep(i)
    <3>1. ASSUME NEW c \in Caller, LoopStep(i, c) \/ PollFails(i, c) PROVE PipeStep(i)
      BY <1>1, <3>1, LoopPipe
    <3> QED
      BY <1>1, <1>4, <3>1, ElectionStepPipe, CallbackPipe, ValidationPipe, StopPipe
         DEF ListenerStep
  <2> QED BY <2>1, <2>2
<1> QED
  <2>1. \/ Emit \/ LeaseLapses \/ UNCHANGED eventVars
        \/ \E i \in Instance : ListenerStep(i)
    BY DEF EventNext
  <2> QED BY <1>3, <1>4, <2>1

LEMMA PipesStep ==
    ASSUME EventInv, EventInv', FencesBehind, PipesSound, [EventNext]_eventVars
    PROVE  PipesSound'
<1>1. ElectionTypes /\ WinnersGrow
  BY ListenerElects, StepMoves DEF EventInv, ElectionInv, Kept
<1> SUFFICES ASSUME NEW i \in Instance, Alive(i)'
             PROVE  OneAnswer(i)' /\ OwnRequests(i)'
  BY DEF PipesSound
<1>2. PipeStep(i)
  BY EveryPipe
<1>3. OneAnswer(i) /\ OwnRequests(i)
  BY <1>2 DEF PipeStep, PipesSound
<1> QED BY <1>1, <1>2, <1>3, PipeKeepsAnswers, PipeKeepsRequests
(* Every stale write is paid for by a takeover: when another process wins, *)
(* the loops of the one that was superseded may each have a write that was *)
(* validated before, and no loop is ever validated again for an older term.*)
StaleLoops == {p \in Instance \X Caller : ~NotSuperseded(p[1]) /\ Armed(p[1], p[2])}

LoopsRecorded ==
    /\ active \subseteq Caller
    /\ \A i \in Instance, c \in Caller : task[i][c] # Idle => c \in active

Counted == staleWrites + Cardinality(StaleLoops) <= Cardinality(active) * Cardinality(Takeovers)

StaleInv == PipesSound /\ LoopsRecorded /\ staleWrites \in Nat /\ Counted

LEMMA ProductGrows ==
    ASSUME NEW a \in Nat, NEW b \in Nat, NEW s \in Nat, NEW t \in Nat, a <= b, s <= t
    PROVE  a * s <= b * t
<1>1. PICK d \in Nat : b = a + d
  <2>1. b - a \in Nat /\ b = a + (b - a)
    OBVIOUS
  <2> QED BY <2>1
<1>2. PICK e \in Nat : t = s + e
  <2>1. t - s \in Nat /\ t = s + (t - s)
    OBVIOUS
  <2> QED BY <2>1
<1>3. b * t = a * s + (a * e + d * s + d * e)
  BY <1>1, <1>2
<1>4. a * s \in Nat /\ a * e + d * s + d * e \in Nat
  OBVIOUS
<1> QED BY <1>3, <1>4

(* A loop that is armed has run.                                           *)
LEMMA ArmedIsActive ==
    ASSUME PipesSound, LoopsRecorded, NEW i \in Instance, NEW c \in Caller, Armed(i, c)
    PROVE  c \in active
<1>1. CASE AtWork(i, c)
  BY <1>1 DEF AtWork, LoopsRecorded, Idle
<1>2. CASE Alive(i) /\ Confirms(replies[i], c)
  <2>1. Asks(replies[i], c)
    BY <1>2 DEF Confirms, Asks
  <2>2. task[i][c].pc = "validate"
    BY <1>2, <2>1 DEF PipesSound, OneAnswer
  <2> QED BY <2>2 DEF LoopsRecorded, Idle
<1> QED BY <1>1, <1>2 DEF Armed

(* A save is the only write its loop was armed for.                        *)
LEMMA SaveDisarms ==
    ASSUME ElectionTypes, ListenerTypes, PipesSound, NEW i \in Instance, NEW c \in Caller,
           Save(i, c)
    PROVE  Armed(i, c) /\ ~Armed(i, c)' /\ winners' = winners
<1>1. Alive(i) /\ task[i][c].pc = "save"
  BY DEF Save, At
<1>2. task[i][c].ev + 1 \in Nat /\ task[i][c].upto \in Nat
  BY TaskTypes
<1>3. ~Confirms(replies[i], c)
  BY <1>1 DEF PipesSound, OneAnswer, Confirms, Asks
<1>4. CASE TurnTo(i, c, task[i][c].ev + 1, task[i][c].upto)
  <2>1. UNCHANGED <<replies, winners>>
    BY <1>4 DEF TurnTo, Validate, electionVars, pipeVars, redisVars
  <2>2. task'[i][c].pc \in {"validate", "sleep"}
    <3>1. CASE fence[i] = NoToken
      <4>1. Goto(i, c, "sleep")
        BY <1>4, <3>1 DEF TurnTo
      <4>2. task'[i][c].pc = "sleep"
        BY <4>1 DEF Goto, ListenerTypes, Task
      <4> QED BY <4>2
    <3>2. CASE fence[i] # NoToken
      <4> DEFINE t == [pc |-> "validate", ev |-> task[i][c].ev + 1, upto |-> task[i][c].upto]
      <4>1. t \in Task /\ t.pc = "validate"
        BY <1>2 DEF Task
      <4>2. Put(i, c, t)
        BY <1>4, <3>2 DEF TurnTo, Put
      <4> HIDE DEF t
      <4> QED BY <4>1, <4>2, PutMoves
    <3> QED BY <3>1, <3>2
  <2> QED BY <1>1, <1>3, <2>1, <2>2 DEF Armed, AtWork
<1>5. CASE Goto(i, c, "sleep") /\ UNCHANGED electionVars
  <2>1. UNCHANGED <<replies, winners>>
    BY <1>5 DEF electionVars, pipeVars, redisVars
  <2>2. task'[i][c].pc = "sleep"
    BY <1>5 DEF Goto, ListenerTypes, Task
  <2> QED BY <1>1, <1>3, <2>1, <2>2 DEF Armed, AtWork
<1> QED BY <1>4, <1>5 DEF Save

LEMMA RecordedStep ==
    ASSUME LoopsRecorded, Recording \/ UNCHANGED <<task, history>>
    PROVE  LoopsRecorded' /\ active \subseteq active'
<1>1. CASE Recording
  <2>1. active' = active \cup {c \in Caller : \E i \in Instance : task'[i][c] # task[i][c]}
    BY <1>1 DEF Recording
  <2> QED BY <2>1 DEF LoopsRecorded
<1>2. CASE UNCHANGED <<task, history>>
  BY <1>2 DEF LoopsRecorded, history
<1> QED BY <1>1, <1>2

LEMMA FinitelyMany ==
    ASSUME ElectionTypes, active \subseteq Caller
    PROVE  /\ IsFiniteSet(StaleLoops) /\ Cardinality(StaleLoops) \in Nat
           /\ IsFiniteSet(active) /\ Cardinality(active) \in Nat
           /\ IsFiniteSet(Takeovers) /\ Cardinality(Takeovers) \in Nat
<1>1. IsFiniteSet(Instance \X Caller)
  BY FiniteAssumption, FS_Product
<1>2. IsFiniteSet(StaleLoops) /\ IsFiniteSet(active)
  BY <1>1, FiniteAssumption, FS_Subset DEF StaleLoops
<1>3. IsFiniteSet(Takeovers)
  <2>1. Counter \in Nat /\ winners \in Seq(Instance)
    BY CounterType DEF ElectionTypes
  <2>2. Takeovers \in SUBSET (1..Counter)
    BY <2>1, LenProperties DEF Takeovers, Counter
  <2>3. IsFiniteSet(1..Counter)
    <3>1. 1 \in Int /\ Counter \in Int
      BY <2>1
    <3> QED BY ONLY <3>1, FS_Interval
  <2> QED BY ONLY <2>2, <2>3, FS_Subset
<1> QED BY <1>2, <1>3, FS_CardinalityType
(* What a step does to the newest term, and to the loops that are stale.   *)
LEMMA NewestStays ==
    ASSUME ElectionTypes, EventInv, FencesBehind, PipesSound, LoopsRecorded,
           [EventNext]_eventVars, winners' = winners
    PROVE  Takeovers' = Takeovers /\ StaleLoops' \subseteq StaleLoops
<1>1. Takeovers' = Takeovers
  BY DEF Takeovers
<1>2. ASSUME NEW i \in Instance, NEW c \in Caller, ~NotSuperseded(i)', Armed(i, c)'
      PROVE  ~NotSuperseded(i) /\ Armed(i, c)
  <2>1. ~NotSuperseded(i)
    BY <1>2 DEF NotSuperseded, Counter
  <2>2. PipeStep(i)
    BY EveryPipe
  <2>3. OwnRequests(i)
    BY <1>2, <2>2 DEF PipeStep, PipesSound, Armed
  <2> QED BY <1>2, <2>1, <2>2, <2>3, PipeArms
<1> QED BY <1>1, <1>2 DEF StaleLoops

LEMMA NewestMoves ==
    ASSUME ElectionTypes, EventInv, FencesBehind, PipesSound, LoopsRecorded,
           [EventNext]_eventVars, NEW k \in Instance, winners' = Append(winners, k)
    PROVE  \/ Takeovers \subseteq Takeovers' /\ StaleLoops' \subseteq StaleLoops
           \/ /\ Takeovers' = Takeovers \cup {Counter + 1} /\ Counter + 1 \notin Takeovers
              /\ \E w \in Instance : StaleLoops' \subseteq StaleLoops \cup ({w} \X active)
<1> DEFINE n == Counter
<1>1. /\ n \in Nat /\ n = Len(winners) /\ Len(winners') = n + 1 /\ winners'[n + 1] = k
      /\ \A t \in 1..n : winners'[t] = winners[t] /\ winners[t] \in Instance
      /\ DOMAIN winners = 1..n /\ DOMAIN winners' = 1..(n + 1)
      /\ (winners = <<>> <=> n = 0) /\ winners' # <<>> /\ winners' # winners
  <2>1. winners \in Seq(Instance)
    BY DEF ElectionTypes
  <2>2. /\ Len(winners) \in Nat /\ Len(winners') = Len(winners) + 1
        /\ winners'[Len(winners) + 1] = k /\ winners' \in Seq(Instance)
        /\ \A t \in 1..Len(winners) : winners'[t] = winners[t]
    BY <2>1, AppendProperties, LenProperties
  <2>3. /\ \A t \in 1..Len(winners) : winners[t] \in Instance
        /\ DOMAIN winners = 1..Len(winners) /\ DOMAIN winners' = 1..Len(winners')
    BY <2>1, <2>2, ElementOfSeq, LenProperties
  <2>4. winners = <<>> <=> Len(winners) = 0
    BY <2>1, EmptySeq
  <2>5. winners' # <<>> /\ winners' # winners
    BY <2>1, <2>2, EmptySeq
  <2> QED BY <2>2, <2>3, <2>4, <2>5 DEF Counter
<1>2. \A i \in Instance : NotSuperseded(i)' <=> i = k
  BY <1>1 DEF NotSuperseded, Counter
<1>3. \A i \in Instance : NotSuperseded(i) <=> n # 0 /\ winners[n] = i
  BY <1>1 DEF NotSuperseded
<1>4. ASSUME NEW i \in Instance, NEW c \in Caller, Armed(i, c)' PROVE Armed(i, c) /\ c \in active
  <2>1. PipeStep(i)
    BY EveryPipe
  <2>2. OwnRequests(i)
    BY <1>4, <2>1 DEF PipeStep, PipesSound, Armed
  <2>3. Armed(i, c)
    BY <1>1, <1>4, <2>1, <2>2, PipeArms
  <2> QED BY <2>3, ArmedIsActive
<1>5. /\ Takeovers = {t \in 1..n : t > 1 /\ winners[t] # winners[t - 1]}
      /\ Takeovers' = {t \in 1..(n + 1) : t > 1 /\ winners'[t] # winners'[t - 1]}
  BY <1>1 DEF Takeovers
<1> HIDE DEF n
<1>6. \A t \in 1..n : t > 1 => winners'[t] = winners[t] /\ winners'[t - 1] = winners[t - 1]
  BY <1>1
<1>7. Takeovers \subseteq Takeovers' /\ Takeovers' \subseteq Takeovers \cup {n + 1}
      /\ n + 1 \notin Takeovers
  BY ONLY <1>1, <1>5, <1>6
<1>8. CASE n = 0 \/ winners[n] = k
  <2>1. \A i \in Instance : ~NotSuperseded(i)' => ~NotSuperseded(i)
    BY <1>2, <1>3, <1>8
  <2> QED BY <1>4, <1>7, <2>1 DEF StaleLoops
<1>9. CASE n # 0 /\ winners[n] # k
  <2>1. n + 1 \in Takeovers'
    BY ONLY <1>1, <1>5, <1>9
  <2>2. winners[n] \in Instance
    BY <1>1, <1>9
  <2>3. StaleLoops' \subseteq StaleLoops \cup ({winners[n]} \X active)
    <3> SUFFICES ASSUME NEW i \in Instance, NEW c \in Caller, Armed(i, c)'
                 PROVE  <<i, c>> \in StaleLoops \cup ({winners[n]} \X active)
      BY DEF StaleLoops
    <3>1. CASE NotSuperseded(i)
      BY <1>3, <1>4, <3>1
    <3>2. CASE ~NotSuperseded(i)
      BY <1>4, <3>2 DEF StaleLoops
    <3> QED BY <3>1, <3>2
  <2> QED BY <1>7, <2>1, <2>2, <2>3 DEF n
<1> QED BY <1>8, <1>9
LEMMA StaleSaveDisarms ==
    ASSUME ElectionTypes, ListenerTypes, PipesSound, StaleSave
    PROVE  winners' = winners /\ \E p \in StaleLoops : p \notin StaleLoops'
<1>1. PICK i \in Instance, c \in Caller : ~NotSuperseded(i) /\ Save(i, c)
  BY DEF StaleSave
<1>2. Armed(i, c) /\ ~Armed(i, c)' /\ winners' = winners
  BY <1>1, SaveDisarms
<1>3. <<i, c>> \in StaleLoops /\ <<i, c>> \notin StaleLoops'
  BY <1>1, <1>2 DEF StaleLoops
<1> QED BY <1>2, <1>3

LEMMA CountedStep ==
    ASSUME EventInv, EventInv', FencesBehind, StaleInv, LoopsRecorded',
           [EventNext]_eventVars, active \subseteq active',
           staleWrites' = staleWrites \/ (StaleSave /\ staleWrites' = staleWrites + 1)
    PROVE  staleWrites' \in Nat /\ Counted'
<1> DEFINE S == Cardinality(StaleLoops)
           A == Cardinality(active)
           T == Cardinality(Takeovers)
           S2 == Cardinality(StaleLoops')
           A2 == Cardinality(active')
           T2 == Cardinality(Takeovers')
           w2 == staleWrites'
<1>1. /\ ElectionTypes /\ ListenerTypes /\ WinnersGrow
      /\ PipesSound /\ LoopsRecorded /\ staleWrites \in Nat
      /\ staleWrites + S <= A * T
  BY ListenerElects, StepMoves DEF EventInv, ElectionInv, Kept, StaleInv, Counted
<1>2. /\ IsFiniteSet(StaleLoops) /\ S \in Nat /\ IsFiniteSet(active) /\ A \in Nat
      /\ IsFiniteSet(Takeovers) /\ T \in Nat
  BY <1>1, FinitelyMany DEF LoopsRecorded
<1>3. /\ IsFiniteSet(StaleLoops') /\ S2 \in Nat /\ IsFiniteSet(active') /\ A2 \in Nat
      /\ IsFiniteSet(Takeovers') /\ T2 \in Nat
  <2>1. ElectionTypes' /\ (active \subseteq Caller)'
    BY DEF EventInv, ElectionInv, LoopsRecorded
  <2>2. (ElectionTypes /\ active \subseteq Caller =>
            /\ IsFiniteSet(StaleLoops) /\ Cardinality(StaleLoops) \in Nat
            /\ IsFiniteSet(active) /\ Cardinality(active) \in Nat
            /\ IsFiniteSet(Takeovers) /\ Cardinality(Takeovers) \in Nat)'
    BY FinitelyMany, PTL
  <2> QED BY <2>1, <2>2
<1>4. A <= A2
  BY <1>3, FS_Subset
<1>5. w2 \in Nat
  BY <1>1
<1>6. ASSUME Takeovers \subseteq Takeovers', StaleLoops' \subseteq StaleLoops
      PROVE  w2 + S2 <= A2 * T2
  <2>1. T <= T2
    BY <1>3, <1>6, FS_Subset
  <2>2. A * T <= A2 * T2
    BY ONLY <1>2, <1>3, <1>4, <2>1, ProductGrows
  <2>3. w2 + S2 <= staleWrites + S
    <3>1. CASE w2 = staleWrites
      <4>1. S2 <= S
        BY <1>2, <1>6, FS_Subset
      <4> QED BY ONLY <1>1, <1>2, <1>3, <3>1, <4>1
    <3>2. CASE StaleSave /\ w2 = staleWrites + 1
      <4>1. PICK p \in StaleLoops : p \notin StaleLoops'
        BY <1>1, <3>2, StaleSaveDisarms
      <4>2. IsFiniteSet(StaleLoops \ {p}) /\ Cardinality(StaleLoops \ {p}) = S - 1
        BY <1>2, <4>1, FS_RemoveElement
      <4>3. StaleLoops' \in SUBSET (StaleLoops \ {p})
        BY <1>6, <4>1
      <4>4. S2 <= S - 1
        BY <4>2, <4>3, FS_Subset
      <4> QED BY ONLY <1>1, <1>2, <1>3, <3>2, <4>4
    <3> QED BY <3>1, <3>2
  <2>4. A * T \in Nat /\ A2 * T2 \in Nat
    BY ONLY <1>2, <1>3
  <2> HIDE DEF S, A, T, S2, A2, T2, w2
  <2> QED BY ONLY <1>1, <1>2, <1>3, <1>5, <2>2, <2>3, <2>4
<1>7. ASSUME winners' = winners PROVE w2 + S2 <= A2 * T2
  BY <1>1, <1>6, <1>7, NewestStays
<1>8. ASSUME NEW k \in Instance, winners' = Append(winners, k)
      PROVE  w2 + S2 <= A2 * T2
  <2>1. CASE Takeovers \subseteq Takeovers' /\ StaleLoops' \subseteq StaleLoops
    BY <1>6, <2>1
  <2>2. ASSUME Takeovers' = Takeovers \cup {Counter + 1}, Counter + 1 \notin Takeovers,
               NEW w \in Instance, StaleLoops' \subseteq StaleLoops \cup ({w} \X active)
        PROVE  w2 + S2 <= A2 * T2
    <3>1. T2 = T + 1
      BY <1>2, <2>2, FS_AddElement
    <3>2. IsFiniteSet({w} \X active) /\ Cardinality({w} \X active) = A
      <4>1. IsFiniteSet({w}) /\ Cardinality({w}) = 1
        BY FS_Singleton
      <4>2. /\ IsFiniteSet({w} \X active)
            /\ Cardinality({w} \X active) = Cardinality({w}) * A
        BY ONLY <1>2, <4>1, FS_Product
      <4> QED BY <1>2, <4>1, <4>2
    <3>3. S2 <= S + A
      <4> DEFINE U == StaleLoops \cup ({w} \X active)
                 I == StaleLoops \cap ({w} \X active)
      <4>1. IsFiniteSet(U) /\ Cardinality(U) = S + A - Cardinality(I)
        BY ONLY <1>2, <3>2, FS_Union
      <4>2. Cardinality(I) \in Nat
        BY <1>2, FS_Subset, FS_CardinalityType
      <4>3. S2 <= Cardinality(U)
        BY <2>2, <4>1, FS_Subset
      <4> HIDE DEF S, A, T, S2, A2, T2, w2, U, I
      <4> QED BY ONLY <1>2, <1>3, <4>1, <4>2, <4>3
    <3>4. w2 = staleWrites
      <4>1. winners' # winners
        <5>1. Len(winners') = Len(winners) + 1 /\ Len(winners) \in Nat
          BY <1>1, <1>8, AppendProperties, LenProperties DEF ElectionTypes
        <5> QED BY <5>1
      <4> QED BY <1>1, <4>1, StaleSaveDisarms
    <3>5. A * T + A = A * (T + 1) /\ A * T \in Nat /\ A2 * (T + 1) \in Nat
      BY ONLY <1>2, <1>3
    <3>6. A * (T + 1) <= A2 * (T + 1)
      BY ONLY <1>2, <1>3, <1>4, ProductGrows
    <3> HIDE DEF S, A, T, S2, A2, T2, w2
    <3> QED BY ONLY <1>1, <1>2, <1>3, <3>1, <3>3, <3>4, <3>5, <3>6
  <2> QED BY <1>1, <1>8, <2>1, <2>2, NewestMoves
<1>9. w2 + S2 <= A2 * T2
  BY <1>1, <1>7, <1>8 DEF WinnersGrow
<1> QED BY <1>5, <1>9 DEF Counted

(* Validating every event before it is processed leaves a superseded       *)
(* process one stale cursor write per loop and takeover, however large the *)
(* batch and whatever overlapped (stellarEventListener.ts:340-357).        *)
THEOREM StaleWritesStayBounded == StaleSpec => []StaleWritesBounded
<1> DEFINE Inv == EventInv /\ FencesBehind /\ StaleInv
<1>1. StaleInit => Inv
  <2> SUFFICES ASSUME StaleInit PROVE Inv
    OBVIOUS
  <2>1. EventInv /\ FencesBehind
    BY EventInvInit DEF StaleInit, EventInit, FencesBehind
  <2>2. /\ \A i \in Instance : requests[i] = <<>> /\ replies[i] = <<>>
        /\ \A i \in Instance, c \in Caller : task[i][c] = Idle
    BY DEF StaleInit, EventInit, ElectionInit
  <2>3. LoopsRecorded
    BY <2>2 DEF StaleInit, LoopsRecorded
  <2>4. PipesSound /\ \A i \in Instance, c \in Caller : ~Armed(i, c)
    <3>1. Len(<<>>) = 0
      BY LenProperties, EmptySeq
    <3>2. 1..Len(<<>>) = {}
      BY <3>1
    <3> QED BY <2>2, <3>2 DEF PipesSound, OneAnswer, OwnRequests, AsksOnce, Asks, Confirms,
                             Armed, AtWork, Idle
  <2>5. StaleLoops = {}
    BY <2>4 DEF StaleLoops
  <2>6. Cardinality(StaleLoops) = 0
    BY <2>5, FS_EmptySet
  <2>7. Cardinality(active) \in Nat /\ Cardinality(Takeovers) \in Nat
    BY <2>1, <2>3, FinitelyMany DEF EventInv, ElectionInv, LoopsRecorded
  <2>8. 0 <= Cardinality(active) * Cardinality(Takeovers)
    BY ONLY <2>7
  <2>9. staleWrites = 0
    BY DEF StaleInit
  <2> QED BY <2>1, <2>3, <2>4, <2>6, <2>8, <2>9 DEF StaleInv, Counted
<1>2. Inv /\ [EventNext /\ Recording]_<<eventVars, history>> => Inv'
  <2> SUFFICES ASSUME Inv, [EventNext /\ Recording]_<<eventVars, history>> PROVE Inv'
    OBVIOUS
  <2>1. [EventNext]_eventVars /\ (Recording \/ UNCHANGED <<task, history>>)
    BY DEF eventVars, listenerVars
  <2>2. EventInv'
    BY <2>1, EventInvStep
  <2>3. FencesBehind' /\ PipesSound'
    BY <2>1, <2>2, FencesStep, PipesStep DEF StaleInv
  <2>4. LoopsRecorded' /\ active \subseteq active'
    BY <2>1, RecordedStep DEF StaleInv
  <2>5. staleWrites' = staleWrites \/ (StaleSave /\ staleWrites' = staleWrites + 1)
    BY <2>1 DEF Recording, history
  <2>6. staleWrites' \in Nat /\ Counted'
    BY <2>1, <2>2, <2>4, <2>5, CountedStep
  <2> QED BY <2>2, <2>3, <2>4, <2>6 DEF StaleInv
<1>3. Inv => StaleWritesBounded
  <2> SUFFICES ASSUME Inv PROVE StaleWritesBounded
    OBVIOUS
  <2>1. /\ Cardinality(StaleLoops) \in Nat /\ Cardinality(active) \in Nat
        /\ Cardinality(Takeovers) \in Nat
    BY FinitelyMany DEF EventInv, ElectionInv, StaleInv, LoopsRecorded
  <2>2. /\ staleWrites \in Nat
        /\ staleWrites + Cardinality(StaleLoops) <= Cardinality(active) * Cardinality(Takeovers)
    BY DEF StaleInv, Counted
  <2>3. Cardinality(active) * Cardinality(Takeovers) \in Nat
    BY ONLY <2>1
  <2> QED BY ONLY <2>1, <2>2, <2>3 DEF StaleWritesBounded
<1> QED BY <1>1, <1>2, <1>3, PTL DEF StaleSpec
=============================================================================
