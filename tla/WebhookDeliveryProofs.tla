------------------------- MODULE WebhookDeliveryProofs -------------------------
(***************************************************************************)
(* The worker pool leaks no slot, a dead letter marked retried was taken   *)
(* by the endpoint, and only deliveries that nobody took are stored as     *)
(* dead letters, for any number of callers, workers, attempts, rejected    *)
(* statements and crashes.  The last part bounds the requeues of a letter. *)
(*                                                                         *)
(* The end of a call hands its slot to the head of the queue.  So the      *)
(* other parts need the one on the queues: their members are those that    *)
(* wait, each once, and a call that is over is never started again.        *)
(***************************************************************************)
EXTENDS WebhookDeliveryProps, SequenceTheorems, FiniteSetTheorems, TLAPS

At(step) == {c \in Caller : pc[c] = step}

QueuesSound ==
    /\ IsInjective(queue) /\ Range(queue) = At("queued")
    /\ IsInjective(waiters) /\ Range(waiters) = At("waiting")

InFlight == {d \in Delivery : pc[d] \in Flight}

PoolSound ==
    /\ running = Cardinality(InFlight)
    /\ queue # <<>> => running = Concurrency

LettersSound ==
    /\ \A c \in Caller : entry[c] # NoEntry =>
          /\ pc[c] \in {"done", "resolve"} /\ entry[entry[c].origin] # NoEntry
    /\ \A r \in Request : pc[r] # "new" => entry[target[r]] # NoEntry
    /\ \A r \in Request : success[r] =>
          pc[r] # "new" /\ entry[target[r]].origin \in acked
    /\ \A r \in Request :
          pc[r] = "resolve" /\ kind[r] \notin {"discard", "skip"} => success[r]
    /\ \A d \in Delivery : d \in acked /\ entry[d] = NoEntry => success[d]
    /\ \A c \in Caller : pc[c] = "store" => ~success[c] /\ attempt[c] = MaxAttempts

(* The verdict on a delivery, written by the step that ends it.           *)
EndSound(d) ==
    /\ success[d] => d \in acked
    /\ pc[d] = "done" <=> result[d] # "none"
    /\ result[d] = "refused" => errors >= FailureThreshold
    /\ result[d] \in {"unlogged", "unstored"} => errors > 0
    /\ result[d] = "stored" => entry[d] # NoEntry
    /\ result[d] = "logged" /\ d \notin acked => attempt[d] < MaxAttempts

LossSound ==
    /\ breaker.failures <= errors
    /\ breaker.state # "closed" => errors >= FailureThreshold
    /\ \A d \in Delivery : EndSound(d)

DeliveryInv ==
    /\ WebhookTypeOK /\ QueuesSound /\ PoolSound
    /\ LettersSound /\ RetriedWasTaken /\ LossSound

-----------------------------------------------------------------------------
(* Sequences without equals.                                               *)

LEMMA AppendKeepsInjective ==
    ASSUME NEW S, NEW q \in Seq(S), NEW x \in S, IsInjective(q), x \notin Range(q)
    PROVE  /\ Append(q, x) \in Seq(S) /\ Append(q, x) # <<>>
           /\ IsInjective(Append(q, x)) /\ Range(Append(q, x)) = Range(q) \cup {x}
<1> DEFINE L == Len(q)
           p == Append(q, x)
<1>1. L \in Nat /\ DOMAIN q = 1..L BY LenProperties
<1>2. /\ p \in Seq(S) /\ p # <<>> /\ Len(p) = L + 1 /\ p[L + 1] = x
      /\ \A i \in 1..L : p[i] = q[i]
  BY AppendProperties
<1>3. DOMAIN p = 1..(L + 1) BY <1>2, LenProperties
<1> HIDE DEF p
<1>4. IsInjective(p)
  <2> SUFFICES ASSUME NEW i \in 1..(L + 1), NEW j \in 1..(L + 1), p[i] = p[j] PROVE i = j
    BY <1>3 DEF IsInjective
  <2>1. CASE i \in 1..L /\ j \in 1..L
    BY <1>1, <1>2, <2>1 DEF IsInjective
  <2>2. CASE i = L + 1 /\ j \in 1..L
    BY <1>1, <1>2, <2>2 DEF Range
  <2>3. CASE j = L + 1 /\ i \in 1..L
    BY <1>1, <1>2, <2>3 DEF Range
  <2> QED BY <1>1, <2>1, <2>2, <2>3
<1>5. Range(p) = Range(q) \cup {x}
  <2>1. \A i \in 1..(L + 1) : p[i] \in Range(q) \cup {x}
    BY <1>1, <1>2 DEF Range
  <2>2. \A y \in Range(q) : \E i \in 1..(L + 1) : p[i] = y
    BY <1>1, <1>2 DEF Range
  <2>3. L + 1 \in 1..(L + 1) BY <1>1
  <2> QED BY <1>2, <1>3, <2>1, <2>2, <2>3 DEF Range
<1> QED BY <1>2, <1>4, <1>5 DEF p

LEMMA SuffixIsSequence ==
    ASSUME NEW S, NEW q \in Seq(S), NEW n \in 0..Len(q)
    PROVE  /\ SubSeq(q, n + 1, Len(q)) \in Seq(S)
           /\ Len(SubSeq(q, n + 1, Len(q))) = Len(q) - n
           /\ \A i \in 1..Len(SubSeq(q, n + 1, Len(q))) :
                 SubSeq(q, n + 1, Len(q))[i] = q[i + n]
<1> DEFINE p == SubSeq(q, n + 1, Len(q))
<1>1. Len(q) \in Nat /\ n \in Nat /\ n <= Len(q) /\ n + 1 \in Int /\ Len(q) \in Int
  BY LenProperties
<1>2. \A i \in (n + 1)..Len(q) : q[i] \in S
  BY <1>1, ElementOfSeq
<1>3. /\ p \in Seq(S)
      /\ Len(p) = IF n + 1 <= Len(q) THEN Len(q) - (n + 1) + 1 ELSE 0
      /\ \A i \in 1..(Len(q) - (n + 1) + 1) : p[i] = q[(n + 1) + i - 1]
  BY <1>1, <1>2, SubSeqProperties
<1> HIDE DEF p
<1>4. Len(p) = Len(q) - n BY <1>1, <1>3
<1>5. ASSUME NEW i \in 1..Len(p) PROVE p[i] = q[i + n]
  <2>1. i \in 1..(Len(q) - (n + 1) + 1) /\ (n + 1) + i - 1 = i + n
    BY <1>1, <1>4
  <2>2. p[i] = q[(n + 1) + i - 1] BY <1>3, <2>1
  <2> QED BY <2>1, <2>2
<1>6. /\ p \in Seq(S) /\ Len(p) = Len(q) - n /\ \A i \in 1..Len(p) : p[i] = q[i + n]
  BY <1>3, <1>4, <1>5
<1> QED BY <1>6 DEF p

LEMMA SuffixKeepsInjective ==
    ASSUME NEW S, NEW q \in Seq(S), IsInjective(q), NEW n \in 0..Len(q),
           NEW p \in Seq(S), Len(p) = Len(q) - n,
           \A i \in 1..Len(p) : p[i] = q[i + n]
    PROVE  IsInjective(p) /\ Range(p) = Range(q) \ {q[k] : k \in 1..n}
<1> DEFINE L == Len(q)
<1>1. /\ L \in Nat /\ n \in Nat /\ n <= L /\ DOMAIN q = 1..L
      /\ L - n \in Nat /\ Len(p) = L - n /\ DOMAIN p = 1..(L - n)
  BY LenProperties
<1>2. \A i \in 1..(L - n) : i + n \in 1..L /\ p[i] = q[i + n]
  BY <1>1
<1>3. IsInjective(p)
  <2> SUFFICES ASSUME NEW i \in 1..(L - n), NEW j \in 1..(L - n), p[i] = p[j] PROVE i = j
    BY <1>1 DEF IsInjective
  <2>1. i + n = j + n BY <1>1, <1>2 DEF IsInjective
  <2> QED BY <1>1, <2>1
<1>4. ASSUME NEW i \in 1..(L - n)
      PROVE  p[i] \in Range(q) \ {q[k] : k \in 1..n}
  <2>1. p[i] \in Range(q) BY <1>1, <1>2 DEF Range
  <2>2. ASSUME NEW k \in 1..n PROVE q[k] # p[i]
    <3>1. k \in 1..L /\ i + n \in 1..L /\ k # i + n BY <1>1, <1>2
    <3> QED BY <1>1, <1>2, <3>1 DEF IsInjective
  <2> QED BY <2>1, <2>2
<1>5. ASSUME NEW y \in Range(q) \ {q[k] : k \in 1..n}
      PROVE  \E i \in 1..(L - n) : p[i] = y
  <2>1. PICK k \in 1..L : q[k] = y BY <1>1 DEF Range
  <2>2. k \notin 1..n BY <2>1
  <2>3. k - n \in 1..(L - n) /\ (k - n) + n = k BY <1>1, <2>1, <2>2
  <2> QED BY <1>2, <2>1, <2>3
<1> QED BY <1>1, <1>3, <1>4, <1>5 DEF Range

LEMMA TailKeepsInjective ==
    ASSUME NEW S, NEW q \in Seq(S), IsInjective(q), q # <<>>
    PROVE  /\ Head(q) \in Range(q) /\ Tail(q) \in Seq(S) /\ IsInjective(Tail(q))
           /\ Range(Tail(q)) = Range(q) \ {Head(q)}
<1> DEFINE p == Tail(q)
<1>1. /\ Len(q) \in Nat /\ Len(q) # 0 /\ DOMAIN q = 1..Len(q)
  BY LenProperties, EmptySeq
<1>2. /\ p \in Seq(S) /\ Len(p) = Len(q) - 1
      /\ \A i \in 1..Len(p) : p[i] = q[i + 1]
  BY HeadTailProperties
<1>3. Head(q) = q[1] OBVIOUS
<1> HIDE DEF p
<1>4. IsInjective(p) /\ Range(p) = Range(q) \ {q[k] : k \in 1..1}
  <2>1. PICK n \in 0..Len(q) : n = 1 BY <1>1
  <2>2. Len(p) = Len(q) - n /\ \A i \in 1..Len(p) : p[i] = q[i + n]
    BY <1>2, <2>1
  <2>3. IsInjective(p) /\ Range(p) = Range(q) \ {q[k] : k \in 1..n}
    BY <1>2, <2>2, SuffixKeepsInjective
  <2> QED BY <2>1, <2>3
<1>5. {q[k] : k \in 1..1} = {q[1]} OBVIOUS
<1>6. Head(q) \in Range(q) BY <1>1, <1>3 DEF Range
<1>7. /\ Head(q) \in Range(q) /\ p \in Seq(S) /\ IsInjective(p)
      /\ Range(p) = Range(q) \ {Head(q)}
  BY <1>2, <1>3, <1>4, <1>5, <1>6
<1> QED BY <1>7 DEF p

-----------------------------------------------------------------------------
(* The queues and the slots.                                               *)

Idling == {"new", "queued", "count", "bump", "resolve", "done"}

LEMMA Steps ==
    /\ "queued" \notin Flight /\ "new" \notin Flight /\ "done" \notin Flight
    /\ "resolve" \notin Flight /\ "start" \in Flight /\ "check" \in Flight
    /\ "waiting" \in Flight
BY DEF Flight

LEMMA FlightIsFinite == IsFiniteSet(InFlight) /\ Cardinality(InFlight) \in Nat
<1>1. InFlight \subseteq Caller BY DEF InFlight, Caller
<1>2. IsFiniteSet(InFlight) BY <1>1, FS_Subset, DeliveryAssumption
<1> QED BY <1>2, FS_CardinalityType

(* A call moves on, and neither waits nor takes or gives back a slot.      *)
LEMMA MoveKeepsQueues ==
    ASSUME WebhookTypeOK, QueuesSound, PoolSound, NEW c \in Caller, NEW s,
           pc[c] \notin {"queued", "waiting"}, s \notin {"queued", "waiting"},
           c \in Delivery => (pc[c] \in Flight <=> s \in Flight),
           pc' = [pc EXCEPT ![c] = s], UNCHANGED <<queue, waiters, running>>
    PROVE  QueuesSound' /\ PoolSound'
<1>1. \A x \in Caller : pc'[x] = IF x = c THEN s ELSE pc[x]
  BY DEF WebhookTypeOK
<1>2. At("queued")' = At("queued") /\ At("waiting")' = At("waiting")
  BY <1>1 DEF At
<1>3. InFlight' = InFlight BY <1>1 DEF InFlight, Caller
<1> QED BY <1>2, <1>3 DEF QueuesSound, PoolSound

(* A worker's task is over: its slot goes to the head of the queue.        *)
LEMMA ReleaseKeepsQueues ==
    ASSUME WebhookTypeOK, QueuesSound, PoolSound, NEW c \in Delivery, pc[c] \in Flight,
           pc[c] # "waiting", Release(c), UNCHANGED waiters
    PROVE  /\ QueuesSound' /\ PoolSound' /\ running' \in 0..Concurrency
           /\ queue' \in Seq(Delivery) /\ pc' \in [Caller -> Flight \cup Idling]
           /\ pc'[c] = "done"
           /\ \A x \in Caller \ {c} :
                 pc'[x] = pc[x] \/ (pc[x] = "queued" /\ pc'[x] = "start")
<1>0. /\ c \in Caller /\ c \in InFlight /\ pc[c] # "queued"
      /\ pc \in [Caller -> Flight \cup Idling]
      /\ queue \in Seq(Delivery) /\ running \in 0..Concurrency /\ Concurrency \in Nat
  BY Steps, DeliveryAssumption DEF Caller, InFlight, WebhookTypeOK, Idling
<1>1. CASE queue = <<>>
  <2>1. pc' = [pc EXCEPT ![c] = "done"] /\ running' = running - 1 /\ queue' = queue
    BY <1>1 DEF Release, Goto
  <2>2. /\ \A x \in Caller : pc'[x] = IF x = c THEN "done" ELSE pc[x]
        /\ pc' \in [Caller -> Flight \cup Idling]
    BY <1>0, <2>1 DEF Idling
  <2>3. At("queued")' = At("queued") /\ At("waiting")' = At("waiting")
    BY <1>0, <2>2 DEF At
  <2>4. InFlight' = InFlight \ {c}
    BY <1>0, <2>2, Steps DEF InFlight, Caller
  <2>5. Cardinality(InFlight') = Cardinality(InFlight) - 1
    BY <1>0, <2>4, FlightIsFinite, FS_RemoveElement
  <2>6. Cardinality(InFlight) # 0
    BY <1>0, FlightIsFinite, FS_EmptySet
  <2>7. running' = Cardinality(InFlight') /\ running' \in 0..Concurrency
    BY <1>0, <2>1, <2>5, <2>6 DEF PoolSound
  <2> QED BY <1>0, <1>1, <2>1, <2>2, <2>3, <2>7 DEF QueuesSound, PoolSound
<1>2. CASE queue # <<>>
  <2>1. /\ pc' = [pc EXCEPT ![c] = "done", ![Head(queue)] = "start"]
        /\ queue' = Tail(queue) /\ running' = running
    BY <1>2 DEF Release
  <2>2. /\ Head(queue) \in Range(queue) /\ queue' \in Seq(Delivery) /\ IsInjective(queue')
        /\ Range(queue') = Range(queue) \ {Head(queue)}
    BY <1>0, <1>2, <2>1, TailKeepsInjective DEF QueuesSound
  <2>3. Head(queue) \in Delivery /\ pc[Head(queue)] = "queued" /\ Head(queue) # c
    BY <1>0, <1>2, <2>2, HeadTailProperties DEF QueuesSound, At
  <2>4. /\ \A x \in Caller : pc'[x] = IF x = Head(queue) THEN "start"
                                      ELSE IF x = c THEN "done" ELSE pc[x]
        /\ pc' \in [Caller -> Flight \cup Idling]
    BY <1>0, <2>1, <2>3, Steps DEF Idling
  <2>5. At("queued")' = At("queued") \ {Head(queue)} /\ At("waiting")' = At("waiting")
    BY <1>0, <2>3, <2>4 DEF At, Caller
  <2>6. InFlight' = (InFlight \ {c}) \cup {Head(queue)}
    BY <1>0, <2>3, <2>4, Steps DEF InFlight, Caller
  <2>7. IsFiniteSet(InFlight \ {c}) /\ Cardinality(InFlight \ {c}) = Cardinality(InFlight) - 1
    BY <1>0, FlightIsFinite, FS_RemoveElement
  <2>8. Head(queue) \notin InFlight \ {c} BY <2>3, Steps DEF InFlight
  <2>9. Cardinality(InFlight') = Cardinality(InFlight)
    <3> DEFINE T == InFlight \ {c}
    <3>1. IsFiniteSet(T) /\ Cardinality(T) = Cardinality(InFlight) - 1 /\ Head(queue) \notin T
      BY <2>7, <2>8
    <3> HIDE DEF T
    <3>2. Cardinality(T \cup {Head(queue)}) = Cardinality(T) + 1
      BY <3>1, FS_AddElement
    <3>3. InFlight' = T \cup {Head(queue)} BY <2>6 DEF T
    <3> QED BY <3>1, <3>2, <3>3, FlightIsFinite
  <2>10. QueuesSound' BY <2>2, <2>5 DEF QueuesSound
  <2>11. PoolSound' BY <1>2, <2>1, <2>9 DEF PoolSound
  <2> QED BY <1>0, <2>1, <2>2, <2>3, <2>4, <2>10, <2>11
<1> QED BY <1>1, <1>2

LEMMA EndKeepsQueues ==
    ASSUME WebhookTypeOK, QueuesSound, PoolSound, NEW c \in Caller, pc[c] \in Flight,
           pc[c] # "waiting", NEW how, End(c, how), UNCHANGED waiters
    PROVE  /\ QueuesSound' /\ PoolSound' /\ running' \in 0..Concurrency
           /\ queue' \in Seq(Delivery) /\ pc' \in [Caller -> Flight \cup Idling]
           /\ pc'[c] = "done" \/ (c \in Request /\ pc'[c] = "resolve" /\ success[c])
           /\ \A x \in Caller \ {c} :
                 pc'[x] = pc[x] \/ (pc[x] = "queued" /\ pc'[x] = "start")
<1>1. CASE c \in Delivery
  <2>1. Release(c) BY <1>1 DEF End
  <2> QED BY <1>1, <2>1, ReleaseKeepsQueues
<1>2. CASE c \notin Delivery
  <2>1. PICK s \in {"done", "resolve"} :
          /\ pc' = [pc EXCEPT ![c] = s] /\ (s = "resolve" => success[c])
          /\ UNCHANGED <<queue, running>>
    BY <1>2 DEF End, Goto, ResolvesAfter, poolVars
  <2>2. QueuesSound' /\ PoolSound'
    BY <1>2, <2>1, Steps, MoveKeepsQueues
  <2>3. pc' \in [Caller -> Flight \cup Idling]
    BY <2>1 DEF WebhookTypeOK, Idling
  <2>4. running' \in 0..Concurrency /\ queue' \in Seq(Delivery)
    BY <2>1 DEF WebhookTypeOK
  <2> QED BY <1>2, <2>1, <2>2, <2>3, <2>4 DEF WebhookTypeOK, Caller
<1> QED BY <1>1, <1>2

LEMMA CallsKeepQueues ==
    ASSUME WebhookTypeOK, QueuesSound, PoolSound, NEW c \in Caller, CallStep(c)
    PROVE  QueuesSound' /\ PoolSound'
<1>1. CASE \E s \in Flight \ {"waiting"} :
              /\ pc' = [pc EXCEPT ![c] = s] /\ pc[c] \in Flight \ {"waiting"}
              /\ UNCHANGED <<queue, waiters, running>>
  BY <1>1, Steps, MoveKeepsQueues
<1>2. CASE \E how : End(c, how) /\ pc[c] \in Flight \ {"waiting"} /\ UNCHANGED waiters
  BY <1>2, EndKeepsQueues
<1>3. CASE Limit(c)
  BY <1>1, <1>2, <1>3 DEF Limit, Goto, Flight, poolVars, bucketVars
<1>4. CASE Acquire(c)
  <2>1. CASE pc' = [pc EXCEPT ![c] = "check"] /\ UNCHANGED waiters
    BY <1>1, <1>4, <2>1 DEF Acquire, Flight, poolVars
  <2>2. CASE pc' = [pc EXCEPT ![c] = "waiting"] /\ waiters' = Append(waiters, c)
    <3>1. /\ pc[c] = "acquire" /\ UNCHANGED <<queue, running>>
          /\ \A x \in Caller : pc'[x] = IF x = c THEN "waiting" ELSE pc[x]
      BY <1>4, <2>2 DEF Acquire, poolVars, WebhookTypeOK
    <3>2. c \notin Range(waiters) BY <3>1 DEF QueuesSound, At
    <3>3. IsInjective(waiters') /\ Range(waiters') = Range(waiters) \cup {c}
      BY <2>2, <3>2, AppendKeepsInjective DEF WebhookTypeOK, QueuesSound
    <3>4. At("waiting")' = At("waiting") \cup {c} /\ At("queued")' = At("queued")
      BY <3>1 DEF At
    <3>5. InFlight' = InFlight BY <3>1 DEF InFlight, Flight, Caller
    <3> QED BY <3>1, <3>3, <3>4, <3>5 DEF QueuesSound, PoolSound
  <2> QED BY <1>4, <2>1, <2>2 DEF Acquire, Goto
<1>5. CASE Check(c)
  BY <1>1, <1>2, <1>5 DEF Check, Goto, Flight, poolVars, bucketVars
<1>6. CASE Post(c)
  BY <1>1, <1>6 DEF Post, Again, Goto, Flight, poolVars, bucketVars
<1>7. CASE Note(c)
  BY <1>1, <1>7 DEF Note, Again, Goto, Flight, poolVars, bucketVars
<1>8. CASE Log(c)
  BY <1>1, <1>2, <1>8 DEF Log, Goto, Flight, poolVars, bucketVars
<1>9. CASE Store(c)
  BY <1>1, <1>2, <1>9 DEF Store, Flight, poolVars, bucketVars
<1> QED BY <1>3, <1>4, <1>5, <1>6, <1>7, <1>8, <1>9 DEF CallStep

LEMMA QueuesKept ==
    ASSUME WebhookTypeOK, QueuesSound, PoolSound, WebhookNext
    PROVE  QueuesSound' /\ PoolSound'
<1>1. ASSUME NEW d \in Delivery, Trigger(d)
      PROVE  QueuesSound' /\ PoolSound'
  <2>0. /\ d \in Caller /\ pc[d] = "new" /\ UNCHANGED waiters
        /\ queue \in Seq(Delivery) /\ running \in 0..Concurrency /\ Concurrency \in Nat
        /\ pc \in [Caller -> Flight \cup Idling]
    BY <1>1, DeliveryAssumption DEF Trigger, bucketVars, Caller, WebhookTypeOK, Idling
  <2>1. CASE running < Concurrency
    <3>1. pc' = [pc EXCEPT ![d] = "start"] /\ running' = running + 1 /\ queue' = queue
      BY <1>1, <2>1 DEF Trigger, Goto
    <3>2. \A x \in Caller : pc'[x] = IF x = d THEN "start" ELSE pc[x]
      BY <2>0, <3>1
    <3>3. At("queued")' = At("queued") /\ At("waiting")' = At("waiting")
      BY <2>0, <3>2 DEF At
    <3>4. InFlight' = InFlight \cup {d} /\ d \notin InFlight
      BY <2>0, <3>2, Steps DEF InFlight, Caller
    <3>5. Cardinality(InFlight') = Cardinality(InFlight) + 1
      BY <3>4, FlightIsFinite, FS_AddElement
    <3>6. queue = <<>> BY <2>0, <2>1 DEF PoolSound
    <3> QED BY <2>0, <3>1, <3>3, <3>5, <3>6 DEF QueuesSound, PoolSound
  <2>2. CASE ~(running < Concurrency)
    <3>1. pc' = [pc EXCEPT ![d] = "queued"] /\ running' = running /\ queue' = Append(queue, d)
      BY <1>1, <2>2 DEF Trigger, Goto
    <3>2. \A x \in Caller : pc'[x] = IF x = d THEN "queued" ELSE pc[x]
      BY <2>0, <3>1
    <3>3. At("queued")' = At("queued") \cup {d} /\ At("waiting")' = At("waiting")
      BY <2>0, <3>2 DEF At
    <3>4. d \notin Range(queue) BY <2>0 DEF QueuesSound, At
    <3>5. IsInjective(queue') /\ Range(queue') = Range(queue) \cup {d}
      BY <2>0, <3>1, <3>4, AppendKeepsInjective DEF QueuesSound
    <3>6. InFlight' = InFlight
      BY <2>0, <3>2, Steps DEF InFlight, Caller
    <3>7. running = Concurrency BY <2>0, <2>2
    <3> QED BY <2>0, <3>1, <3>3, <3>5, <3>6, <3>7 DEF QueuesSound, PoolSound
  <2> QED BY <2>1, <2>2
<1>2. ASSUME NEW c \in Caller, CallStep(c)
      PROVE  QueuesSound' /\ PoolSound'
  BY <1>2, CallsKeepQueues
<1>3. ASSUME NEW r \in Request, \/ RequestStep(r)
                               \/ \E k \in Kind, e \in Caller : Ask(r, k, e)
      PROVE  QueuesSound' /\ PoolSound'
  <2>1. r \in Caller /\ r \notin Delivery BY DeliveryAssumption DEF Caller
  <2>2. PICK s \in {"start", "count", "resolve", "bump", "done"} :
          /\ pc' = [pc EXCEPT ![r] = s] /\ pc[r] \in {"new", "count", "bump", "resolve"}
          /\ UNCHANGED <<queue, waiters, running>>
    BY <1>3 DEF RequestStep, Ask, Count, Bump, Resolve, Goto, FirstStep, Kind,
                poolVars, bucketVars
  <2> QED BY <2>1, <2>2, MoveKeepsQueues
<1>4. CASE DrainInterval
  <2> DEFINE n == IF tokens < Len(waiters) THEN tokens ELSE Len(waiters)
             served == {waiters[k] : k \in 1..n}
  <2>1. /\ waiters' = SubSeq(waiters, n + 1, Len(waiters))
        /\ pc' = [c \in Caller |-> IF c \in served THEN "check" ELSE pc[c]]
        /\ UNCHANGED <<queue, running>>
    BY <1>4 DEF DrainInterval, poolVars
  <2>2. /\ waiters \in Seq(Caller) /\ Len(waiters) \in Nat /\ n \in 0..Len(waiters)
        /\ DOMAIN waiters = 1..Len(waiters)
    BY LenProperties, DeliveryAssumption DEF WebhookTypeOK
  <2> HIDE DEF n
  <2>3. /\ waiters' \in Seq(Caller) /\ Len(waiters') = Len(waiters) - n
        /\ \A i \in 1..Len(waiters') : waiters'[i] = waiters[i + n]
    <3> QED BY <2>1, <2>2, SuffixIsSequence
  <2>4. IsInjective(waiters') /\ Range(waiters') = Range(waiters) \ served
    BY <2>2, <2>3, SuffixKeepsInjective DEF QueuesSound
  <2>5. served \subseteq At("waiting") BY <2>2 DEF QueuesSound, Range
  <2>6. At("waiting")' = At("waiting") \ served /\ At("queued")' = At("queued")
    BY <2>1, <2>5 DEF At
  <2>7. InFlight' = InFlight
    BY <2>1, <2>5, Steps DEF InFlight, At, Caller
  <2> QED BY <2>1, <2>4, <2>6, <2>7 DEF QueuesSound, PoolSound
<1>5. CASE Refill \/ CoolDown
  BY <1>5 DEF Refill, CoolDown, callVars, poolVars, bucketVars, QueuesSound, PoolSound,
              At, InFlight
<1>6. CASE Crash
  <2>1. /\ queue' = <<>> /\ running' = 0 /\ waiters' = <<>>
        /\ \A c \in Caller : pc'[c] \in {"new", "done"}
    BY <1>6 DEF Crash
  <2>2. IsInjective(<<>>) /\ Range(<<>>) = {}
    BY DEF IsInjective, Range
  <2>3. At("waiting")' = {} /\ At("queued")' = {} BY <2>1 DEF At
  <2>4. InFlight' = {} BY <2>1, Steps DEF InFlight, Caller
  <2> QED BY <2>1, <2>2, <2>3, <2>4, FS_EmptySet DEF QueuesSound, PoolSound
<1> QED BY <1>1, <1>2, <1>3, <1>4, <1>5, <1>6 DEF WebhookNext

-----------------------------------------------------------------------------
(* The dead letters.                                                       *)

LEMMA LettersDiffer ==
    /\ NoEntry \notin Entry
    /\ \A e \in Entry : e.origin \in Delivery /\ e.origin \in Caller /\ e.count \in Nat
BY DEF NoEntry, Entry, Caller

LEMMA OriginIsDelivery ==
    ASSUME WebhookTypeOK, LettersSound, NEW c \in Caller, pc[c] # "new"
    PROVE  /\ Origin(c) \in Delivery
           /\ c \notin Delivery => entry[target[c]] \in Entry /\ entry[Origin(c)] # NoEntry
<1>1. CASE c \in Delivery BY <1>1 DEF Origin
<1>2. CASE c \notin Delivery
  <2>1. c \in Request /\ target[c] \in Caller /\ entry[target[c]] \in Entry
    BY <1>2 DEF Caller, LettersSound, WebhookTypeOK
  <2> QED BY <1>2, <2>1, LettersDiffer DEF Origin, LettersSound
<1> QED BY <1>1, <1>2

(* A call goes on, or ends, and writes nothing but attempts.               *)
Quiet(c) ==
    /\ pc[c] \in Flight /\ UNCHANGED <<entry, success, acked, target, kind>>
    /\ \/ pc'[c] \in (Flight \ {"store"}) \cup {"done"}
       \/ pc'[c] = "resolve" /\ (c \in Request => success[c])
    /\ \A x \in Caller \ {c} :
          /\ attempt'[x] = attempt[x]
          /\ pc'[x] = pc[x] \/ (pc[x] = "queued" /\ pc'[x] = "start")

LEMMA QuietKeepsLetters ==
    ASSUME WebhookTypeOK, LettersSound, RetriedWasTaken, NEW c \in Caller, Quiet(c)
    PROVE  LettersSound' /\ RetriedWasTaken'
<1>1. RetriedWasTaken' BY DEF Quiet, RetriedWasTaken
<1>2. pc[c] \notin {"new", "done", "resolve", "queued"} /\ Delivery \subseteq Caller /\ Request \subseteq Caller
  BY Steps DEF Quiet, Caller, Flight
<1>3. \A x \in Caller : pc'[x] = "new" <=> pc[x] = "new"
  BY <1>2, Steps DEF Quiet
<1>4. \A x \in Caller : pc[x] \in {"done", "resolve"} => pc'[x] = pc[x]
  BY <1>2 DEF Quiet
<1>5. \A x \in Caller : entry'[x] # NoEntry =>
         pc'[x] \in {"done", "resolve"} /\ entry'[entry'[x].origin] # NoEntry
  BY <1>4 DEF Quiet, LettersSound
<1>6. /\ \A r \in Request : pc'[r] # "new" => entry'[target'[r]] # NoEntry
      /\ \A r \in Request : success'[r] =>
            pc'[r] # "new" /\ entry'[target'[r]].origin \in acked'
      /\ \A d \in Delivery : d \in acked' /\ entry'[d] = NoEntry => success'[d]
  BY <1>2, <1>3 DEF Quiet, LettersSound
<1>7. \A r \in Request :
        pc'[r] = "resolve" /\ kind'[r] \notin {"discard", "skip"} => success'[r]
  BY <1>2, Steps DEF Quiet, LettersSound, Flight
<1>8. \A x \in Caller : pc'[x] = "store" => ~success'[x] /\ attempt'[x] = MaxAttempts
  BY <1>2 DEF Quiet, LettersSound
<1> QED BY <1>1, <1>5, <1>6, <1>7, <1>8 DEF LettersSound

LEMMA CallsKeepLetters ==
    ASSUME WebhookTypeOK, QueuesSound, PoolSound, LettersSound, RetriedWasTaken,
           NEW c \in Caller, CallStep(c)
    PROVE  LettersSound' /\ RetriedWasTaken'
<1> DEFINE Goes(S) == /\ \E s \in S : pc' = [pc EXCEPT ![c] = s]
                      /\ \A x \in Caller \ {c} : attempt'[x] = attempt[x]
                      /\ UNCHANGED <<entry, success, acked, target, kind>>
<1>0. pc \in [Caller -> Flight \cup Idling] /\ attempt \in [Caller -> 0..MaxAttempts]
      /\ MaxAttempts \in Nat
  BY DeliveryAssumption DEF WebhookTypeOK, Idling
<1>1. CASE pc[c] \in Flight /\ Goes(Flight \ {"store"})
  <2>1. PICK s \in Flight \ {"store"} : pc' = [pc EXCEPT ![c] = s] BY <1>1
  <2>2. pc'[c] = s /\ \A x \in Caller \ {c} : pc'[x] = pc[x] BY <1>0, <2>1
  <2>3. Quiet(c) BY <1>1, <2>2 DEF Quiet
  <2> QED BY <2>3, QuietKeepsLetters
<1>2. CASE /\ \E how : End(c, how) /\ pc[c] \in Flight \ {"waiting"}
           /\ UNCHANGED <<attempt, entry, success, acked, target, kind, waiters>>
  <2>1. PICK how : End(c, how) BY <1>2
  <2>2. /\ pc'[c] = "done" \/ (c \in Request /\ pc'[c] = "resolve" /\ success[c])
        /\ \A x \in Caller \ {c} :
              pc'[x] = pc[x] \/ (pc[x] = "queued" /\ pc'[x] = "start")
    BY <1>2, <2>1, EndKeepsQueues
  <2>3. /\ pc[c] \in Flight /\ UNCHANGED <<entry, success, acked, target, kind>>
        /\ \A x \in Caller \ {c} : attempt'[x] = attempt[x]
    BY <1>2
  <2>4. Quiet(c) BY <2>2, <2>3 DEF Quiet
  <2> QED BY <2>4, QuietKeepsLetters
<1>3. CASE Limit(c)
  BY <1>1, <1>2, <1>3 DEF Limit, Goto, Flight, poolVars, bucketVars, askVars
<1>4. CASE Acquire(c)
  BY <1>1, <1>4 DEF Acquire, Goto, Flight, poolVars, askVars
<1>5. CASE Check(c)
  <2>1. CASE Goto(c, "post") /\ attempt' = [attempt EXCEPT ![c] = 1]
    BY <1>0, <1>1, <1>5, <2>1 DEF Check, Goto, Flight, askVars
  <2>2. CASE End(c, "refused") /\ UNCHANGED attempt
    BY <1>2, <1>5, <2>2 DEF Check, Flight, bucketVars, askVars
  <2> QED BY <1>5, <2>1, <2>2 DEF Check
<1>6. ASSUME Again(c) PROVE /\ \E s \in {"post", "log"} : pc' = [pc EXCEPT ![c] = s]
                            /\ \A x \in Caller \ {c} : attempt'[x] = attempt[x]
  BY <1>0, <1>6 DEF Again, Goto
<1>7. CASE Note(c)
  <2>1. /\ pc[c] = "note" /\ \E s \in {"post", "log"} : pc' = [pc EXCEPT ![c] = s]
        /\ \A x \in Caller \ {c} : attempt'[x] = attempt[x]
        /\ UNCHANGED <<entry, success, acked, target, kind>>
    BY <1>6, <1>7 DEF Note, Goto, askVars
  <2> QED BY <1>1, <2>1 DEF Flight
<1>8. CASE Post(c)
  <2>1. /\ pc[c] = "post" /\ \E s \in {"note", "post", "log"} : pc' = [pc EXCEPT ![c] = s]
        /\ \A x \in Caller \ {c} : attempt'[x] = attempt[x]
        /\ UNCHANGED <<entry, target, kind>>
    BY <1>6, <1>8 DEF Post, Goto, askVars
  <2>2. CASE UNCHANGED <<success, acked>>
    BY <1>1, <2>1, <2>2 DEF Flight
  <2>3. CASE success' = [success EXCEPT ![c] = TRUE] /\ acked' = acked \cup {Origin(c)}
    <3>1. /\ \A x \in Caller : success'[x] = IF x = c THEN TRUE ELSE success[x]
          /\ \A x \in Caller \ {c} : pc'[x] = pc[x]
          /\ pc[c] = "post" /\ pc'[c] \in {"note", "post", "log"}
      BY <1>0, <2>1, <2>3 DEF WebhookTypeOK
    <3>2. /\ Origin(c) \in Delivery
          /\ c \notin Delivery => entry[Origin(c)] # NoEntry
          /\ c \in Delivery => Origin(c) = c
          /\ c \in Request => Origin(c) = entry[target[c]].origin
      BY <3>1, OriginIsDelivery, DeliveryAssumption DEF Origin
    <3>3. RetriedWasTaken' BY <2>1, <2>3 DEF RetriedWasTaken
    <3>4. \A x \in Caller : entry'[x] # NoEntry =>
             pc'[x] \in {"done", "resolve"} /\ entry'[entry'[x].origin] # NoEntry
      BY <2>1, <3>1 DEF LettersSound
    <3>5. \A r \in Request : pc'[r] # "new" => entry'[target'[r]] # NoEntry
      BY <2>1, <3>1 DEF LettersSound, Caller
    <3>6. \A r \in Request : success'[r] =>
             pc'[r] # "new" /\ entry'[target'[r]].origin \in acked'
      BY <2>1, <2>3, <3>1, <3>2 DEF LettersSound, Caller
    <3>7. \A r \in Request :
             pc'[r] = "resolve" /\ kind'[r] \notin {"discard", "skip"} => success'[r]
      BY <2>1, <3>1 DEF LettersSound, Caller
    <3>8. \A d \in Delivery : d \in acked' /\ entry'[d] = NoEntry => success'[d]
      <4> SUFFICES ASSUME NEW d \in Delivery, d \in acked', entry[d] = NoEntry, d # c
                   PROVE  success[d]
        BY <2>1, <3>1 DEF Caller
      <4>1. d # Origin(c) BY <3>2
      <4> QED BY <2>3, <4>1 DEF LettersSound
    <3>9. \A x \in Caller : pc'[x] = "store" => ~success'[x] /\ attempt'[x] = MaxAttempts
      BY <2>1, <3>1 DEF LettersSound
    <3> QED BY <3>3, <3>4, <3>5, <3>6, <3>7, <3>8, <3>9 DEF LettersSound
  <2> QED BY <1>8, <2>2, <2>3 DEF Post, FailureKeeps
<1>9. CASE Log(c)
  <2>1. /\ pc[c] = "log"
        /\ UNCHANGED <<attempt, success, entry, acked, target, kind, waiters>>
    BY <1>9 DEF Log, askVars, bucketVars
  <2>2. CASE Goto(c, "store") /\ ~success[c] /\ Exhausted(c)
    <3>1. pc' = [pc EXCEPT ![c] = "store"] /\ attempt[c] = MaxAttempts
      BY <1>0, <2>2 DEF Goto, Exhausted
    <3>2. \A x \in Caller : pc'[x] = IF x = c THEN "store" ELSE pc[x]
      BY <1>0, <3>1
    <3> QED BY <2>1, <2>2, <3>1, <3>2 DEF LettersSound, RetriedWasTaken, Caller
  <2>3. CASE \E how : End(c, how)
    BY <1>2, <2>1, <2>3 DEF Flight
  <2> QED BY <1>9, <2>2, <2>3 DEF Log
<1>10. CASE Store(c)
  <2>1. /\ pc[c] = "store" /\ \E how : End(c, how)
        /\ UNCHANGED <<attempt, success, acked, target, kind, waiters>>
    BY <1>10 DEF Store, askVars, bucketVars
  <2>2. CASE UNCHANGED entry
    BY <1>2, <2>1, <2>2 DEF Flight
  <2>3. CASE entry' = [entry EXCEPT ![c] =
                [resolution |-> "none", count |-> 0, origin |-> Origin(c)]]
    <3>1. /\ pc'[c] = "done" \/ (c \in Request /\ pc'[c] = "resolve" /\ success[c])
          /\ \A x \in Caller \ {c} :
                pc'[x] = pc[x] \/ (pc[x] = "queued" /\ pc'[x] = "start")
      BY <2>1, EndKeepsQueues DEF Flight
    <3>2. /\ entry[c] = NoEntry /\ entry'[c] # NoEntry
          /\ entry'[c].origin = Origin(c) /\ entry'[c].resolution = "none"
          /\ \A x \in Caller \ {c} : entry'[x] = entry[x]
      BY <2>1, <2>3 DEF LettersSound, WebhookTypeOK, NoEntry
    <3>3. entry'[Origin(c)] # NoEntry /\ Origin(c) \in Delivery
      BY <2>1, <3>2, OriginIsDelivery DEF Origin, Caller
    <3>4. \A x \in Caller : entry'[x] # NoEntry => pc'[x] \in {"done", "resolve"}
      BY <3>1, <3>2 DEF LettersSound
    <3>5. \A x \in Caller : entry'[x] # NoEntry => entry'[entry'[x].origin] # NoEntry
      <4> SUFFICES ASSUME NEW x \in Caller, x # c, entry[x] # NoEntry
                   PROVE  entry'[entry[x].origin] # NoEntry
        BY <3>2, <3>3
      <4>1. entry[entry[x].origin] # NoEntry /\ entry[x].origin \in Caller
        BY LettersDiffer DEF LettersSound, WebhookTypeOK
      <4> QED BY <3>2, <4>1
    <3>6. \A r \in Request : pc'[r] # "new" => pc[r] # "new"
      BY <2>1, <3>1 DEF Caller
    <3>7. \A r \in Request : pc[r] # "new" => target[r] \in Caller /\ target[r] # c
      BY <3>2 DEF LettersSound, WebhookTypeOK
    <3>8. /\ \A r \in Request : pc'[r] # "new" => entry'[target'[r]] # NoEntry
          /\ \A r \in Request : success'[r] =>
                pc'[r] # "new" /\ entry'[target'[r]].origin \in acked'
      BY <2>1, <3>1, <3>2, <3>6, <3>7 DEF LettersSound, Caller
    <3>9. \A r \in Request :
             pc'[r] = "resolve" /\ kind'[r] \notin {"discard", "skip"} => success'[r]
      BY <2>1, <3>1 DEF LettersSound, Caller
    <3>10. /\ \A d \in Delivery : d \in acked' /\ entry'[d] = NoEntry => success'[d]
           /\ \A x \in Caller : pc'[x] = "store" => ~success'[x] /\ attempt'[x] = MaxAttempts
      BY <2>1, <3>1, <3>2 DEF LettersSound, Caller
    <3>11. RetriedWasTaken' BY <2>1, <3>2 DEF RetriedWasTaken
    <3> QED BY <3>4, <3>5, <3>8, <3>9, <3>10, <3>11 DEF LettersSound
  <2> QED BY <1>10, <2>2, <2>3 DEF Store
<1> QED BY <1>3, <1>4, <1>5, <1>7, <1>8, <1>9, <1>10 DEF CallStep

LEMMA LettersKept ==
    ASSUME WebhookTypeOK, QueuesSound, PoolSound, LettersSound, RetriedWasTaken,
           WebhookNext
    PROVE  LettersSound' /\ RetriedWasTaken'
<1>0. /\ Delivery \subseteq Caller /\ Request \subseteq Caller /\ Delivery \cap Request = {}
      /\ pc \in [Caller -> Flight \cup Idling]
      /\ success \in [Caller -> BOOLEAN]
      /\ target \in [Request -> Caller] /\ entry \in [Caller -> Entry \cup {NoEntry}]
      /\ kind \in [Request -> Kind \cup {"none"}]
  BY DeliveryAssumption DEF Caller, WebhookTypeOK, Idling
<1>1. ASSUME NEW c \in Caller, CallStep(c)
      PROVE  LettersSound' /\ RetriedWasTaken'
  BY <1>1, CallsKeepLetters
(* Only the places of calls change, and none comes to an end.              *)
<1>2. ASSUME UNCHANGED <<entry, success, acked, attempt, target, kind>>,
             \A r \in Request : pc'[r] = "new" <=> pc[r] = "new",
             \A x \in Caller :
                /\ pc[x] \in {"done", "resolve"} => pc'[x] \in {pc[x], "done"}
                /\ pc'[x] \in {"store", "resolve"} => pc'[x] = pc[x]
      PROVE  LettersSound' /\ RetriedWasTaken'
  BY <1>0, <1>2 DEF LettersSound, RetriedWasTaken
<1>3. ASSUME NEW d \in Delivery, Trigger(d)
      PROVE  LettersSound' /\ RetriedWasTaken'
  <2>1. PICK s \in {"start", "queued"} : pc' = [pc EXCEPT ![d] = s]
    BY <1>3 DEF Trigger, Goto
  <2>2. \A x \in Caller : pc'[x] = IF x = d THEN s ELSE pc[x]
    BY <1>0, <2>1
  <2> QED BY <1>0, <1>2, <1>3, <2>2 DEF Trigger, askVars
<1>4. CASE Refill \/ CoolDown
  BY <1>2, <1>4 DEF Refill, CoolDown, callVars, askVars
<1>5. CASE DrainInterval
  <2> DEFINE n == IF tokens < Len(waiters) THEN tokens ELSE Len(waiters)
             served == {waiters[k] : k \in 1..n}
  <2>1. pc' = [c \in Caller |-> IF c \in served THEN "check" ELSE pc[c]]
    BY <1>5 DEF DrainInterval
  <2>2. n \in 0..Len(waiters) /\ DOMAIN waiters = 1..Len(waiters) /\ Len(waiters) \in Nat
    BY LenProperties, DeliveryAssumption DEF WebhookTypeOK
  <2>3. served \subseteq At("waiting")
    BY <2>2 DEF QueuesSound, Range
  <2> HIDE DEF served, n
  <2>4. \A x \in Caller : pc'[x] = pc[x] \/ (pc[x] = "waiting" /\ pc'[x] = "check")
    BY <2>1, <2>3 DEF At
  <2> QED BY <1>0, <1>2, <1>5, <2>4 DEF DrainInterval, askVars
<1>6. CASE Crash
  <2>1. \A x \in Caller : pc'[x] = IF pc[x] = "new" THEN "new" ELSE "done"
    BY <1>6 DEF Crash
  <2> QED BY <1>0, <1>2, <1>6, <2>1 DEF Crash, askVars
<1>7. ASSUME NEW r \in Request, NEW k \in Kind, NEW e \in Caller, Ask(r, k, e)
      PROVE  LettersSound' /\ RetriedWasTaken'
  <2>1. /\ pc[r] = "new" /\ entry[e] # NoEntry
        /\ \A x \in Caller : pc'[x] = IF x = r THEN FirstStep(k) ELSE pc[x]
        /\ \A q \in Request : target'[q] = IF q = r THEN e ELSE target[q]
        /\ \A q \in Request : kind'[q] = IF q = r THEN k ELSE kind[q]
        /\ UNCHANGED <<entry, success, acked, attempt>>
    BY <1>0, <1>7 DEF Ask, Goto
  <2>2. /\ FirstStep(k) \in {"start", "count", "resolve"}
        /\ FirstStep(k) = "resolve" => k \in {"discard", "skip"}
    BY DEF FirstStep, Kind
  <2>3. entry[r] = NoEntry /\ ~success[r]
    BY <1>0, <2>1 DEF LettersSound
  <2>4. \A q \in Request : success[q] => q # r BY <2>3
  <2> QED BY <1>0, <2>1, <2>2, <2>3, <2>4 DEF LettersSound, RetriedWasTaken
<1>8. ASSUME NEW r \in Request, Count(r)
      PROVE  LettersSound' /\ RetriedWasTaken'
  <2>1. PICK s \in {"bump", "done"} : pc' = [pc EXCEPT ![r] = s]
    BY <1>8 DEF Count, Goto
  <2>2. pc[r] = "count" /\ \A x \in Caller : pc'[x] = IF x = r THEN s ELSE pc[x]
    BY <1>0, <1>8, <2>1 DEF Count
  <2> QED BY <1>0, <1>2, <1>8, <2>2 DEF Count, askVars
(* The mark or the counter of a dead letter changes, and nothing else of   *)
(* it.                                                                     *)
<1>9. ASSUME NEW r \in Request, NEW s \in {"start", "done"},
             pc[r] = "bump" \/ (pc[r] = "resolve" /\ s = "done"), pc' = [pc EXCEPT ![r] = s],
             UNCHANGED <<success, acked, attempt, target, kind>>,
             \A x \in Caller \ {target[r]} : entry'[x] = entry[x],
             entry'[target[r]] # NoEntry,
             entry'[target[r]].origin = entry[target[r]].origin,
             entry'[target[r]].resolution = "retried" =>
                entry[target[r]].origin \in acked
      PROVE  LettersSound' /\ RetriedWasTaken'
  <2>1. \A x \in Caller : pc'[x] = IF x = r THEN s ELSE pc[x]
    BY <1>0, <1>9
  <2>2. target[r] \in Caller /\ entry[target[r]] # NoEntry
    BY <1>0, <1>9 DEF LettersSound
  <2>3. /\ \A x \in Caller : entry'[x] # NoEntry <=> entry[x] # NoEntry
        /\ \A x \in Caller : entry'[x].origin = entry[x].origin
    BY <1>9, <2>2
  <2>4. \A x \in Caller : entry[x] # NoEntry => pc'[x] \in {"done", "resolve"}
    BY <1>9, <2>1 DEF LettersSound
  <2>5. \A x \in Caller : entry[x] # NoEntry => entry'[entry'[x].origin] # NoEntry
    BY <1>0, <2>3, LettersDiffer DEF LettersSound
  <2>6. \A q \in Request : pc'[q] # "new" =>
          pc[q] # "new" /\ target[q] \in Caller /\ entry'[target[q]] # NoEntry
    BY <1>0, <1>9, <2>1, <2>3 DEF LettersSound
  <2>7. \A q \in Request : success[q] =>
          pc'[q] # "new" /\ entry'[target[q]].origin \in acked
    BY <1>0, <1>9, <2>1, <2>3 DEF LettersSound
  <2>8. \A x \in Caller : pc'[x] \in {"store", "resolve"} => pc'[x] = pc[x]
    BY <1>9, <2>1
  <2>9. LettersSound'
    BY <1>0, <1>9, <2>3, <2>4, <2>5, <2>6, <2>7, <2>8 DEF LettersSound
  <2>10. RetriedWasTaken' BY <1>9, <2>2, <2>3 DEF RetriedWasTaken
  <2> QED BY <2>9, <2>10
<1>10. ASSUME NEW r \in Request, Bump(r)
       PROVE  LettersSound' /\ RetriedWasTaken'
  <2>1. target[r] \in Caller /\ entry[target[r]] \in Entry
    BY <1>0, <1>10 DEF Bump, LettersSound
  <2>2. /\ \A x \in Caller \ {target[r]} : entry'[x] = entry[x]
        /\ entry'[target[r]].origin = entry[target[r]].origin
        /\ entry'[target[r]].resolution = "none"
    BY <1>0, <1>10, <2>1 DEF Bump, Entry
  <2>3. entry'[target[r]] # NoEntry BY <2>2 DEF NoEntry
  <2>4. pc[r] = "bump" /\ \E s \in {"start", "done"} : pc' = [pc EXCEPT ![r] = s]
    BY <1>10 DEF Bump, Goto
  <2>5. UNCHANGED <<success, acked, attempt, target, kind>>
    BY <1>10 DEF Bump, askVars
  <2> QED BY <1>9, <2>2, <2>3, <2>4, <2>5
<1>11. ASSUME NEW r \in Request, Resolve(r)
       PROVE  LettersSound' /\ RetriedWasTaken'
  <2>1. target[r] \in Caller /\ entry[target[r]] \in Entry
    BY <1>0, <1>11 DEF Resolve, LettersSound
  <2>2. /\ pc[r] = "resolve" /\ pc' = [pc EXCEPT ![r] = "done"]
        /\ UNCHANGED <<success, acked, attempt, target, kind>>
    BY <1>11 DEF Resolve, Goto, askVars
  <2>3. CASE UNCHANGED entry
    <3>1. \A x \in Caller : pc'[x] = IF x = r THEN "done" ELSE pc[x]
      BY <1>0, <2>2
    <3> QED BY <1>0, <1>2, <2>2, <2>3, <3>1
  <2>4. CASE entry' = [entry EXCEPT ![target[r]].resolution =
                CASE kind[r] = "discard" -> "archived" [] kind[r] = "skip" -> "skipped"
                  [] OTHER -> "retried"]
    <3>1. PICK how \in {"archived", "skipped", "retried"} :
            /\ entry' = [entry EXCEPT ![target[r]].resolution = how]
            /\ how = "retried" => kind[r] \notin {"discard", "skip"}
      BY <2>4
    <3>2. /\ \A x \in Caller \ {target[r]} : entry'[x] = entry[x]
          /\ entry'[target[r]].origin = entry[target[r]].origin
          /\ entry'[target[r]].resolution = how
      BY <1>0, <2>1, <3>1 DEF Entry
    <3>3. entry'[target[r]] # NoEntry BY <3>2 DEF NoEntry
    <3>4. how = "retried" => entry[target[r]].origin \in acked
      BY <2>2, <3>1 DEF LettersSound
    <3> QED BY <1>9, <2>2, <3>2, <3>3, <3>4
  <2> QED BY <1>11, <2>3, <2>4 DEF Resolve
<1> QED BY <1>1, <1>3, <1>4, <1>5, <1>6, <1>7, <1>8, <1>10, <1>11 DEF WebhookNext, RequestStep

-----------------------------------------------------------------------------
(* The types.                                                              *)

LEMMA BreakersStay ==
    ASSUME NEW b \in Breaker
    PROVE  /\ AfterCheck(b) \in Breaker /\ OnSuccess(b) \in Breaker
           /\ OnFailure(b) \in Breaker /\ Cooled(b) \in Breaker
<1>0. /\ b.state \in {"closed", "open", "half-open"} /\ b.failures \in Nat
      /\ b.successes \in Nat /\ b.cooled \in BOOLEAN
      /\ b.failures + 1 \in Nat /\ b.successes + 1 \in Nat
  BY DEF Breaker
<1>1. AfterCheck(b) \in Breaker BY <1>0 DEF Breaker, AfterCheck
<1>2. OnSuccess(b) \in Breaker
  <2>1. [b EXCEPT !.failures = 0] \in Breaker BY <1>0 DEF Breaker
  <2>2. [b EXCEPT !.failures = 0, !.successes = 0, !.state = "closed"] \in Breaker
    BY <1>0 DEF Breaker
  <2>3. [b EXCEPT !.failures = 0, !.successes = @ + 1] \in Breaker BY <1>0 DEF Breaker
  <2> QED BY <2>1, <2>2, <2>3 DEF OnSuccess
<1>3. OnFailure(b) \in Breaker
  <2>1. PICK s \in {"closed", "open", "half-open"} :
          OnFailure(b) = [b EXCEPT !.failures = @ + 1, !.cooled = FALSE, !.state = s]
    BY <1>0 DEF OnFailure
  <2> QED BY <1>0, <2>1 DEF Breaker
<1>4. Cooled(b) \in Breaker BY <1>0 DEF Breaker, Cooled
<1> QED BY <1>1, <1>2, <1>3, <1>4

LEMMA ClosedIsBreaker == Closed \in Breaker
BY DEF Closed, Breaker

Results == {"none", "limited", "refused", "logged", "unlogged", "stored", "unstored", "crashed"}

LEMMA CallsKeepTypes ==
    ASSUME WebhookTypeOK, QueuesSound, PoolSound, LettersSound,
           NEW c \in Caller, CallStep(c)
    PROVE  WebhookTypeOK'
<1>0. /\ pc \in [Caller -> Flight \cup Idling] /\ attempt \in [Caller -> 0..MaxAttempts]
      /\ success \in [Caller -> BOOLEAN] /\ result \in [Caller -> Results]
      /\ entry \in [Caller -> Entry \cup {NoEntry}]
      /\ queue \in Seq(Delivery) /\ running \in 0..Concurrency
      /\ tokens \in 0..Burst /\ waiters \in Seq(Caller)
      /\ breaker \in Breaker /\ acked \subseteq Delivery
      /\ errors \in 0..MaxErrors
      /\ MaxAttempts \in Nat \ {0} /\ Burst \in Nat /\ MaxErrors \in Nat
  BY DeliveryAssumption DEF WebhookTypeOK, Idling, Results
<1>1. ASSUME NEW s \in Flight, pc' = [pc EXCEPT ![c] = s], UNCHANGED <<queue, running>>
      PROVE  /\ pc' \in [Caller -> Flight \cup Idling]
             /\ queue' \in Seq(Delivery) /\ running' \in 0..Concurrency
  BY <1>0, <1>1
<1>2. ASSUME NEW how \in Results, End(c, how), pc[c] \in Flight \ {"waiting"},
             UNCHANGED waiters
      PROVE  /\ pc' \in [Caller -> Flight \cup Idling] /\ result' \in [Caller -> Results]
             /\ queue' \in Seq(Delivery) /\ running' \in 0..Concurrency
  <2>1. result' \in [Caller -> Results] BY <1>0, <1>2 DEF End
  <2> QED BY <1>2, <2>1, EndKeepsQueues
<1>3. /\ UNCHANGED <<target, kind, crashes>>
      /\ breaker' \in Breaker /\ errors' \in 0..MaxErrors
  <2>1. UNCHANGED <<target, kind, crashes>>
    BY DEF CallStep, Limit, Acquire, Check, Post, Note, Log, Store, askVars
  <2>2. breaker' \in {breaker, AfterCheck(breaker), OnSuccess(breaker), OnFailure(breaker)}
    BY DEF CallStep, Limit, Acquire, Check, Post, Note, Log, Store
  <2>3. errors' = errors \/ (errors < MaxErrors /\ errors' = errors + 1)
    BY DEF CallStep, Limit, Acquire, Check, Post, Note, Log, Store, Accepted, Rejected
  <2> QED BY <1>0, <2>1, <2>2, <2>3, BreakersStay
<1>4. ASSUME /\ pc' \in [Caller -> Flight \cup Idling] /\ attempt' \in [Caller -> 0..MaxAttempts]
             /\ success' \in [Caller -> BOOLEAN] /\ result' \in [Caller -> Results]
             /\ entry' \in [Caller -> Entry \cup {NoEntry}]
             /\ queue' \in Seq(Delivery) /\ running' \in 0..Concurrency
             /\ tokens' \in 0..Burst /\ waiters' \in Seq(Caller)
             /\ acked' \subseteq Delivery
      PROVE  WebhookTypeOK'
  BY <1>3, <1>4 DEF WebhookTypeOK, Idling, Results
<1>5. Again(c) => /\ \E s \in Flight : pc' = [pc EXCEPT ![c] = s]
                  /\ attempt' \in [Caller -> 0..MaxAttempts]
  <2>1. CASE AttemptsLeft(c)
    <3>1. attempt[c] + 1 \in 0..MaxAttempts BY <1>0, <2>1 DEF AttemptsLeft
    <3>2. [attempt EXCEPT ![c] = @ + 1] \in [Caller -> 0..MaxAttempts] BY <1>0, <3>1
    <3> QED BY <2>1, <3>2 DEF Again, Goto, Flight
  <2>2. CASE ~AttemptsLeft(c)
    BY <1>0, <2>2 DEF Again, Goto, Flight
  <2> QED BY <2>1, <2>2
<1>6. CASE Limit(c)
  <2>1. /\ pc[c] = "start"
        /\ UNCHANGED <<attempt, success, entry, tokens, waiters, acked>>
    BY <1>6 DEF Limit, bucketVars
  <2>2. CASE Goto(c, "acquire") /\ UNCHANGED <<result, poolVars>>
    BY <1>0, <1>1, <1>4, <2>1, <2>2 DEF Goto, poolVars, Flight
  <2>3. CASE End(c, "limited")
    BY <1>0, <1>2, <1>4, <2>1, <2>3 DEF Flight, Results
  <2> QED BY <1>6, <2>2, <2>3 DEF Limit
<1>7. CASE Acquire(c)
  <2>1. /\ UNCHANGED <<attempt, success, result, entry, queue, running, acked>>
        /\ \E s \in Flight : pc' = [pc EXCEPT ![c] = s]
    BY <1>7 DEF Acquire, Goto, poolVars, Flight
  <2>2. tokens' \in 0..Burst BY <1>0, <1>7 DEF Acquire
  <2>3. waiters' \in Seq(Caller)
    <3>1. Append(waiters, c) \in Seq(Caller) BY <1>0, AppendProperties
    <3> QED BY <1>0, <1>7, <3>1 DEF Acquire
  <2> QED BY <1>0, <1>1, <1>4, <2>1, <2>2, <2>3
<1>8. CASE Check(c)
  <2>1. /\ pc[c] = "check" /\ UNCHANGED <<success, entry, tokens, waiters, acked>>
    BY <1>8 DEF Check, bucketVars
  <2>2. CASE Goto(c, "post") /\ attempt' = [attempt EXCEPT ![c] = 1] /\ UNCHANGED <<result, poolVars>>
    <3>1. attempt' \in [Caller -> 0..MaxAttempts] BY <1>0, <2>2
    <3> QED BY <1>0, <1>1, <1>4, <2>1, <2>2, <3>1 DEF Goto, poolVars, Flight
  <2>3. CASE End(c, "refused") /\ UNCHANGED attempt
    BY <1>0, <1>2, <1>4, <2>1, <2>3 DEF Flight, Results
  <2> QED BY <1>8, <2>2, <2>3 DEF Check
<1>9. CASE Post(c)
  <2>1. /\ pc[c] = "post" /\ UNCHANGED <<result, entry, queue, running, tokens, waiters>>
        /\ \E s \in Flight : pc' = [pc EXCEPT ![c] = s]
        /\ attempt' \in [Caller -> 0..MaxAttempts]
    BY <1>0, <1>5, <1>9 DEF Post, Goto, poolVars, bucketVars, Flight
  <2>2. Origin(c) \in Delivery BY <2>1, OriginIsDelivery
  <2>3. success' \in [Caller -> BOOLEAN] /\ acked' \subseteq Delivery
    BY <1>0, <1>9, <2>2 DEF Post, FailureKeeps
  <2> QED BY <1>0, <1>1, <1>4, <2>1, <2>3
<1>10. CASE Note(c)
  <2>1. /\ UNCHANGED <<success, result, entry, queue, running, tokens, waiters, acked>>
        /\ \E s \in Flight : pc' = [pc EXCEPT ![c] = s]
        /\ attempt' \in [Caller -> 0..MaxAttempts]
    BY <1>0, <1>5, <1>10 DEF Note, Goto, poolVars, bucketVars, Flight
  <2> QED BY <1>0, <1>1, <1>4, <2>1
<1>11. CASE Log(c)
  <2>1. /\ pc[c] = "log"
        /\ UNCHANGED <<attempt, success, entry, tokens, waiters, acked>>
    BY <1>11 DEF Log, bucketVars
  <2>2. CASE Goto(c, "store") /\ UNCHANGED <<result, poolVars>>
    BY <1>0, <1>1, <1>4, <2>1, <2>2 DEF Goto, poolVars, Flight
  <2>3. CASE End(c, "logged") \/ End(c, "unlogged")
    BY <1>0, <1>2, <1>4, <2>1, <2>3 DEF Flight, Results
  <2> QED BY <1>11, <2>2, <2>3 DEF Log
<1>12. CASE Store(c)
  <2>1. /\ pc[c] = "store" /\ UNCHANGED <<attempt, success, tokens, waiters, acked>>
        /\ End(c, "stored") \/ End(c, "unstored")
    BY <1>12 DEF Store, bucketVars
  <2>2. Origin(c) \in Delivery BY <2>1, OriginIsDelivery
  <2>3. entry' \in [Caller -> Entry \cup {NoEntry}]
    <3>1. [resolution |-> "none", count |-> 0, origin |-> Origin(c)] \in Entry
      BY <2>2 DEF Entry
    <3> QED BY <1>0, <1>12, <3>1 DEF Store
  <2> QED BY <1>0, <1>2, <1>4, <2>1, <2>3 DEF Flight, Results
<1> QED BY <1>6, <1>7, <1>8, <1>9, <1>10, <1>11, <1>12 DEF CallStep

LEMMA TypesKept ==
    ASSUME WebhookTypeOK, QueuesSound, PoolSound, LettersSound, WebhookNext
    PROVE  WebhookTypeOK'
<1>0. /\ pc \in [Caller -> Flight \cup Idling] /\ result \in [Caller -> Results]
      /\ entry \in [Caller -> Entry \cup {NoEntry}]
      /\ queue \in Seq(Delivery) /\ running \in 0..Concurrency
      /\ tokens \in 0..Burst /\ waiters \in Seq(Caller)
      /\ Concurrency \in Nat /\ Burst \in Nat /\ MaxCrashes \in Nat
      /\ Delivery \subseteq Caller /\ Request \subseteq Caller
  BY DeliveryAssumption DEF WebhookTypeOK, Idling, Results, Caller
<1>1. ASSUME NEW d \in Delivery, Trigger(d) PROVE WebhookTypeOK'
  <2>1. /\ pc' \in [Caller -> Flight \cup Idling] /\ queue' \in Seq(Delivery)
        /\ running' \in 0..Concurrency
    <3>1. Append(queue, d) \in Seq(Delivery) BY <1>0, AppendProperties
    <3>2. running < Concurrency => running + 1 \in 0..Concurrency BY <1>0
    <3>3. \A s \in {"start", "queued"} : [pc EXCEPT ![d] = s] \in [Caller -> Flight \cup Idling]
      BY <1>0, Steps DEF Idling
    <3> QED BY <1>0, <1>1, <3>1, <3>2, <3>3 DEF Trigger, Goto
  <2> QED BY <1>1, <2>1 DEF Trigger, askVars, bucketVars, WebhookTypeOK, Idling
<1>2. ASSUME NEW c \in Caller, CallStep(c) PROVE WebhookTypeOK'
  BY <1>2, CallsKeepTypes
<1>3. ASSUME NEW r \in Request, NEW k \in Kind, NEW e \in Caller, Ask(r, k, e)
      PROVE  WebhookTypeOK'
  <2>1. /\ pc' \in [Caller -> Flight \cup Idling] /\ target' \in [Request -> Caller]
        /\ kind' \in [Request -> Kind \cup {"none"}]
    BY <1>0, <1>3, Steps DEF Ask, Goto, FirstStep, Kind, Idling, WebhookTypeOK
  <2> QED BY <1>3, <2>1 DEF Ask, poolVars, bucketVars, WebhookTypeOK, Idling
<1>4. ASSUME NEW r \in Request, Count(r) PROVE WebhookTypeOK'
  <2>1. pc' \in [Caller -> Flight \cup Idling]
    BY <1>0, <1>4 DEF Count, Goto, Idling
  <2> QED BY <1>4, <2>1 DEF Count, askVars, poolVars, bucketVars, WebhookTypeOK, Idling
<1>5. ASSUME NEW r \in Request, Bump(r) \/ Resolve(r) PROVE WebhookTypeOK'
  <2>1. target[r] \in Caller /\ entry[target[r]] \in Entry
    BY <1>0, <1>5 DEF Bump, Resolve, LettersSound, WebhookTypeOK
  <2>2. pc' \in [Caller -> Flight \cup Idling] /\ errors' \in 0..MaxErrors
    <3>1. \A s \in {"start", "done"} : [pc EXCEPT ![r] = s] \in [Caller -> Flight \cup Idling]
      BY <1>0, Steps DEF Idling
    <3>2. pc' \in [Caller -> Flight \cup Idling]
      BY <1>5, <3>1 DEF Bump, Resolve, Goto
    <3>3. errors' = errors \/ (errors < MaxErrors /\ errors' = errors + 1)
      BY <1>5 DEF Bump, Resolve, Accepted, Rejected
    <3> QED BY <3>2, <3>3, DeliveryAssumption DEF WebhookTypeOK
  <2>3. entry' \in [Caller -> Entry \cup {NoEntry}]
    <3>1. CASE Bump(r) BY <1>0, <2>1, <3>1 DEF Bump, Entry
    <3>2. CASE Resolve(r)
      <4>1. UNCHANGED entry \/ \E how \in {"archived", "skipped", "retried"} :
              entry' = [entry EXCEPT ![target[r]].resolution = how]
        BY <3>2 DEF Resolve
      <4>2. \A how \in {"archived", "skipped", "retried"} :
              [entry[target[r]] EXCEPT !.resolution = how] \in Entry
        BY <2>1 DEF Entry
      <4> QED BY <1>0, <2>1, <4>1, <4>2
    <3> QED BY <1>5, <3>1, <3>2
  <2> QED BY <1>5, <2>2, <2>3
       DEF Bump, Resolve, askVars, poolVars, bucketVars, WebhookTypeOK, Idling
<1>6. CASE Refill
  BY <1>0, <1>6 DEF Refill, callVars, askVars, poolVars, WebhookTypeOK
<1>7. CASE CoolDown
  BY <1>7, BreakersStay DEF CoolDown, callVars, askVars, poolVars, bucketVars, WebhookTypeOK
<1>8. CASE DrainInterval
  <2> DEFINE n == IF tokens < Len(waiters) THEN tokens ELSE Len(waiters)
  <2>1. /\ waiters' = SubSeq(waiters, n + 1, Len(waiters)) /\ tokens' = tokens - n
        /\ \E served : pc' = [c \in Caller |-> IF c \in served THEN "check" ELSE pc[c]]
        /\ UNCHANGED <<attempt, success, result, target, kind, entry, queue, running,
                       breaker, acked, errors, crashes>>
    BY <1>8 DEF DrainInterval, poolVars, askVars
  <2>2. n \in 0..Len(waiters) /\ tokens - n \in 0..Burst
    BY <1>0, LenProperties
  <2> HIDE DEF n
  <2>3. waiters' \in Seq(Caller) BY <1>0, <2>1, <2>2, SuffixIsSequence
  <2>4. pc' \in [Caller -> Flight \cup Idling] BY <1>0, <2>1, Steps
  <2> QED BY <2>1, <2>2, <2>3, <2>4 DEF WebhookTypeOK, Idling
<1>9. CASE Crash
  <2>1. /\ pc' \in [Caller -> Flight \cup Idling] /\ result' \in [Caller -> Results]
        /\ crashes' \in 0..MaxCrashes
    BY <1>0, <1>9 DEF Crash, Idling, Results, WebhookTypeOK
  <2>2. /\ queue' \in Seq(Delivery) /\ waiters' \in Seq(Caller)
        /\ running' \in 0..Concurrency /\ tokens' \in 0..Burst /\ breaker' \in Breaker
    BY <1>0, <1>9, EmptySeq, ClosedIsBreaker DEF Crash
  <2> QED BY <1>9, <2>1, <2>2 DEF Crash, askVars, WebhookTypeOK, Idling, Results
<1> QED BY <1>1, <1>2, <1>3, <1>4, <1>5, <1>6, <1>7, <1>8, <1>9 DEF WebhookNext, RequestStep

-----------------------------------------------------------------------------
(* What becomes of a delivery.                                             *)

LEMMA LossIsReported ==
    ASSUME WebhookTypeOK, LossSound
    PROVE  NoSilentLoss
<1>1. ASSUME NEW d \in Delivery, pc[d] = "done", d \notin acked
      PROVE  CASE result[d] = "refused" -> errors >= FailureThreshold
               [] result[d] \in {"unlogged", "unstored"} -> errors > 0
               [] result[d] = "stored" -> entry[d] # NoEntry
               [] result[d] = "logged" -> attempt[d] < MaxAttempts
               [] OTHER -> result[d] \in {"limited", "crashed"}
  <2>1. EndSound(d) BY DEF LossSound
  <2>2. result[d] \in Results \ {"none"}
    BY <1>1, <2>1 DEF EndSound, WebhookTypeOK, Results, Caller
  <2>3. CASE result[d] = "refused" BY <2>1, <2>3 DEF EndSound
  <2>4. CASE result[d] \in {"unlogged", "unstored"} BY <2>1, <2>4 DEF EndSound
  <2>5. CASE result[d] = "stored" BY <2>1, <2>5 DEF EndSound
  <2>6. CASE result[d] = "logged" BY <1>1, <2>1, <2>6 DEF EndSound
  <2>7. CASE result[d] \in {"limited", "crashed"} BY <2>7
  <2> QED BY <2>2, <2>3, <2>4, <2>5, <2>6, <2>7 DEF Results
<1> QED BY <1>1 DEF NoSilentLoss, LossSound

(* The counters of the circuit breaker.                                    *)
LEMMA BreakerCountsErrors ==
    ASSUME WebhookTypeOK, LossSound, WebhookNext
    PROVE  /\ breaker'.failures <= errors' /\ errors' \in Nat /\ errors <= errors'
           /\ breaker'.state # "closed" => errors' >= FailureThreshold
<1>0. /\ errors \in Nat /\ breaker \in Breaker /\ FailureThreshold \in Nat \ {0}
      /\ breaker.failures \in Nat
  BY BreakerAssumption, DeliveryAssumption DEF WebhookTypeOK, Breaker
<1>1. errors' = errors \/ errors' = errors + 1
  BY DEF WebhookNext, Trigger, CallStep, Limit, Acquire, Check, Post, Note, Log, Store,
         RequestStep, Ask, Count, Bump, Resolve, Refill, DrainInterval, CoolDown, Crash,
         Accepted, Rejected
<1>2. \/ breaker' \in {breaker, AfterCheck(breaker), OnSuccess(breaker), Cooled(breaker), Closed}
      \/ breaker' = OnFailure(breaker) /\ errors' = errors + 1
  BY DEF WebhookNext, Trigger, CallStep, Limit, Acquire, Check, Post, Note, Log, Store,
         RequestStep, Ask, Count, Bump, Resolve, Refill, DrainInterval, CoolDown, Crash,
         Accepted, Rejected
<1>3. CASE breaker' = breaker
  BY <1>0, <1>1, <1>3 DEF LossSound
<1>4. CASE breaker' = AfterCheck(breaker)
  <2>1. breaker'.failures = breaker.failures /\ (breaker'.state # "closed" => breaker.state # "closed")
    BY <1>0, <1>4 DEF AfterCheck, Breaker
  <2> QED BY <1>0, <1>1, <2>1 DEF LossSound
<1>5. CASE breaker' = OnSuccess(breaker)
  <2>1. breaker'.failures = 0 /\ (breaker'.state # "closed" => breaker.state # "closed")
    BY <1>0, <1>5 DEF OnSuccess, Breaker
  <2> QED BY <1>0, <1>1, <2>1 DEF LossSound
<1>6. CASE breaker' = Cooled(breaker)
  <2>1. breaker'.failures = breaker.failures /\ breaker'.state = breaker.state
    BY <1>0, <1>6 DEF Cooled, Breaker
  <2> QED BY <1>0, <1>1, <2>1 DEF LossSound
<1>7. CASE breaker' = Closed
  BY <1>0, <1>1, <1>7 DEF Closed
<1>8. CASE breaker' = OnFailure(breaker) /\ errors' = errors + 1
  <2>1. /\ breaker'.failures = breaker.failures + 1
        /\ breaker'.state = IF breaker.failures + 1 >= FailureThreshold THEN "open"
                            ELSE breaker.state
    BY <1>0, <1>8 DEF OnFailure, Breaker
  <2> QED BY <1>0, <1>8, <2>1 DEF LossSound
<1> QED BY <1>2, <1>3, <1>4, <1>5, <1>6, <1>7, <1>8

(* A delivery that neither ends nor was over, and one that stays over.     *)
LEMMA UntouchedStays ==
    ASSUME NEW d \in Delivery, EndSound(d), errors \in Nat, errors' \in Nat,
           errors <= errors', FailureThreshold \in Nat, acked \subseteq acked',
           result'[d] = result[d], success'[d] = success[d], attempt'[d] = attempt[d],
           pc'[d] = "done" <=> pc[d] = "done",
           entry[d] # NoEntry => entry'[d] # NoEntry
    PROVE  EndSound(d)'
BY DEF EndSound

LEMMA EndsAreSound ==
    ASSUME WebhookTypeOK, QueuesSound, PoolSound, LettersSound, LossSound,
           NEW c \in Caller, CallStep(c), NEW d \in Delivery
    PROVE  EndSound(d)'
<1>0. /\ EndSound(d) /\ errors \in Nat /\ errors' \in Nat /\ errors <= errors'
      /\ FailureThreshold \in Nat /\ MaxAttempts \in Nat /\ d \in Caller
      /\ pc \in [Caller -> Flight \cup Idling] /\ attempt \in [Caller -> 0..MaxAttempts]
      /\ success \in [Caller -> BOOLEAN] /\ result \in [Caller -> Results]
      /\ entry \in [Caller -> Entry \cup {NoEntry}] /\ breaker \in Breaker
  <2>1. WebhookNext BY DEF WebhookNext
  <2>2. errors' \in Nat /\ errors <= errors' BY <2>1, BreakerCountsErrors
  <2> QED BY <2>2, BreakerAssumption, DeliveryAssumption
       DEF LossSound, WebhookTypeOK, Caller, Idling, Results
<1>1. /\ attempt' = attempt \/ \E n : attempt' = [attempt EXCEPT ![c] = n]
      /\ success' = success \/ success' = [success EXCEPT ![c] = TRUE]
      /\ entry' = entry \/ \E e : e # NoEntry /\ entry' = [entry EXCEPT ![c] = e]
      /\ result' = result \/ \E how : result' = [result EXCEPT ![c] = how]
      /\ acked' = acked \/ acked' = acked \cup {Origin(c)}
  <2>1. attempt' = attempt \/ \E n : attempt' = [attempt EXCEPT ![c] = n]
    BY DEF CallStep, Limit, Acquire, Check, Post, Note, Log, Store, Again
  <2>2. success' = success \/ success' = [success EXCEPT ![c] = TRUE]
    BY DEF CallStep, Limit, Acquire, Check, Post, Note, Log, Store, FailureKeeps
  <2>3. entry' = entry \/ \E e : e # NoEntry /\ entry' = [entry EXCEPT ![c] = e]
    <3>1. [resolution |-> "none", count |-> 0, origin |-> Origin(c)] # NoEntry
      BY DEF NoEntry
    <3> QED BY <3>1 DEF CallStep, Limit, Acquire, Check, Post, Note, Log, Store
  <2>4. result' = result \/ \E how : result' = [result EXCEPT ![c] = how]
    BY DEF CallStep, Limit, Acquire, Check, Post, Note, Log, Store, End
  <2>5. acked' = acked \/ acked' = acked \cup {Origin(c)}
    BY DEF CallStep, Limit, Acquire, Check, Post, Note, Log, Store
  <2> QED BY <2>1, <2>2, <2>3, <2>4, <2>5
<1>2. /\ \/ \E s \in Flight : pc' = [pc EXCEPT ![c] = s] /\ UNCHANGED result
         \/ /\ UNCHANGED <<waiters, success, acked>>
            /\ Limit(c) \/ Check(c) \/ Log(c) \/ Store(c)
            /\ \E how \in Results : End(c, how)
      /\ pc[c] \in Flight \ {"waiting"}
  <2>1. CASE Limit(c) \/ Check(c) \/ Log(c) \/ Store(c)
    BY <2>1 DEF Limit, Check, Log, Store, Goto, Flight, Results, bucketVars
  <2>2. CASE Acquire(c) BY <2>2 DEF Acquire, Goto, Flight
  <2>3. CASE Post(c) BY <2>3 DEF Post, Again, Goto, Flight
  <2>4. CASE Note(c) BY <2>4 DEF Note, Again, Goto, Flight
  <2> QED BY <2>1, <2>2, <2>3, <2>4 DEF CallStep
<1>3. CASE d # c
  <2>1. pc'[d] = pc[d] \/ (pc[d] = "queued" /\ pc'[d] = "start")
    <3>1. CASE \E s \in Flight : pc' = [pc EXCEPT ![c] = s]
      BY <1>0, <1>3, <3>1
    <3>2. CASE UNCHANGED waiters /\ \E how \in Results : End(c, how)
      BY <1>0, <1>2, <1>3, <3>2, EndKeepsQueues
    <3> QED BY <1>2, <3>1, <3>2
  <2>2. /\ result'[d] = result[d] /\ attempt'[d] = attempt[d]
        /\ success'[d] = success[d] /\ entry'[d] = entry[d] /\ acked \subseteq acked'
    BY <1>0, <1>1, <1>3
  <2> QED BY <1>0, <2>1, <2>2, UntouchedStays
<1>4. CASE d = c /\ \E s \in Flight : pc' = [pc EXCEPT ![c] = s] /\ UNCHANGED result
  <2>1. pc'[d] # "done" /\ pc[d] # "done" /\ result'[d] = "none"
    BY <1>0, <1>2, <1>4, Steps DEF EndSound
  <2>2. success'[d] => d \in acked'
    <3>1. CASE Post(c)
      <4>1. Origin(c) = d BY <1>4 DEF Origin
      <4>2. CASE success' = [success EXCEPT ![c] = TRUE] /\ acked' = acked \cup {Origin(c)}
        BY <4>1, <4>2
      <4>3. CASE UNCHANGED <<success, acked>>
        BY <1>0, <4>3 DEF EndSound
      <4> QED BY <3>1, <4>2, <4>3 DEF Post, FailureKeeps
    <3>2. CASE UNCHANGED <<success, acked>>
      BY <1>0, <3>2 DEF EndSound
    <3>3. Post(c) \/ UNCHANGED <<success, acked>>
      BY DEF CallStep, Limit, Acquire, Check, Note, Log, Store
    <3> QED BY <3>1, <3>2, <3>3
  <2> QED BY <2>1, <2>2 DEF EndSound
<1>5. CASE /\ d = c /\ UNCHANGED <<waiters, success, acked>>
           /\ Limit(c) \/ Check(c) \/ Log(c) \/ Store(c)
           /\ \E how \in Results : End(c, how)
  <2>1. \A how : End(c, how) => pc'[d] = "done" /\ result'[d] = how
    BY <1>0, <1>2, <1>5, EndKeepsQueues, DeliveryAssumption DEF End
  <2>2. pc'[d] = "done" BY <1>5, <2>1
  <2>3. success'[d] => d \in acked'
    BY <1>0, <1>5 DEF EndSound
  <2>4. \A s \in Flight : ~Goto(c, s)
    BY <1>0, <1>5, <2>2, Steps DEF Goto
  <2>5. CASE Limit(c)
    <3>1. result'[d] = "limited" BY <2>1, <2>4, <2>5 DEF Limit, Flight
    <3> QED BY <2>2, <2>3, <3>1 DEF EndSound
  <2>6. CASE Check(c)
    <3>1. result'[d] = "refused" /\ ~Admits(breaker)
      BY <2>1, <2>4, <2>6 DEF Check, Flight
    <3>2. errors' >= FailureThreshold
      BY <1>0, <3>1 DEF Admits, LossSound
    <3> QED BY <2>2, <2>3, <3>1, <3>2 DEF EndSound
  <2>7. CASE Log(c)
    <3>1. \/ result'[d] = "logged" /\ (success[d] \/ ~Exhausted(d))
          \/ result'[d] = "unlogged" /\ errors' = errors + 1
      BY <1>5, <2>1, <2>4, <2>7 DEF Log, Flight, Rejected
    <3>2. attempt'[d] = attempt[d] /\ (~Exhausted(d) => attempt[d] < MaxAttempts)
      BY <1>0, <2>7 DEF Log, Exhausted
    <3>3. result'[d] = "logged" /\ d \notin acked' => attempt'[d] < MaxAttempts
      BY <1>0, <1>5, <3>1, <3>2 DEF EndSound
    <3>4. result'[d] = "unlogged" => errors' > 0
      BY <1>0, <3>1
    <3> QED BY <2>2, <2>3, <3>1, <3>3, <3>4 DEF EndSound
  <2>8. CASE Store(c)
    <3>1. [resolution |-> "none", count |-> 0, origin |-> Origin(c)] # NoEntry
      BY DEF NoEntry
    <3>2. \/ result'[d] = "stored" /\ entry'[d] # NoEntry
          \/ result'[d] = "unstored" /\ errors' = errors + 1
      BY <1>0, <1>5, <2>1, <2>8, <3>1 DEF Store, Rejected
    <3>3. result'[d] = "unstored" => errors' > 0
      BY <1>0, <3>2
    <3> QED BY <2>2, <2>3, <3>2, <3>3 DEF EndSound
  <2> QED BY <1>5, <2>5, <2>6, <2>7, <2>8
<1> QED BY <1>2, <1>3, <1>4, <1>5

LEMMA LossKept ==
    ASSUME WebhookTypeOK, QueuesSound, PoolSound, LettersSound, LossSound, WebhookNext
    PROVE  LossSound'
<1>0. /\ errors \in Nat /\ errors' \in Nat /\ errors <= errors' /\ FailureThreshold \in Nat
      /\ breaker'.failures <= errors'
      /\ breaker'.state # "closed" => errors' >= FailureThreshold
      /\ Delivery \subseteq Caller /\ Request \subseteq Caller
      /\ Delivery \cap Request = {} /\ pc \in [Caller -> Flight \cup Idling]
      /\ result \in [Caller -> Results] /\ entry \in [Caller -> Entry \cup {NoEntry}]
  BY BreakerCountsErrors, BreakerAssumption, DeliveryAssumption
     DEF WebhookTypeOK, Caller, Idling, Results
<1> SUFFICES ASSUME NEW d \in Delivery PROVE EndSound(d)'
  BY <1>0 DEF LossSound
<1>1. EndSound(d) /\ d \in Caller BY <1>0 DEF LossSound
<1>2. ASSUME UNCHANGED <<result, success, attempt, acked>>,
             pc'[d] = "done" <=> pc[d] = "done",
             entry[d] # NoEntry => entry'[d] # NoEntry
      PROVE  EndSound(d)'
  BY <1>0, <1>1, <1>2, UntouchedStays
<1>3. ASSUME NEW c \in Caller, CallStep(c) PROVE EndSound(d)'
  BY <1>3, EndsAreSound
<1>4. ASSUME NEW e \in Delivery, Trigger(e) PROVE EndSound(d)'
  <2>1. /\ pc'[d] = "done" <=> pc[d] = "done"
        /\ UNCHANGED <<result, success, attempt, acked, entry>>
    BY <1>0, <1>1, <1>4 DEF Trigger, Goto
  <2> QED BY <1>2, <2>1
<1>5. ASSUME NEW r \in Request, \/ RequestStep(r)
                               \/ \E k \in Kind, e \in Caller : Ask(r, k, e)
      PROVE  EndSound(d)'
  <2>1. /\ \E s : pc' = [pc EXCEPT ![r] = s]
        /\ UNCHANGED <<result, success, attempt, acked>>
    BY <1>5 DEF RequestStep, Ask, Count, Bump, Resolve, Goto
  <2>2. entry' = entry \/ (pc[r] # "new" /\ (Bump(r) \/ Resolve(r)))
    BY <1>5 DEF RequestStep, Ask, Count, Bump, Resolve
  <2>3. entry[d] # NoEntry => entry'[d] # NoEntry
    <3>1. CASE pc[r] # "new" /\ (Bump(r) \/ Resolve(r))
      <4>1. target[r] \in Caller /\ entry[target[r]] \in Entry
        BY <1>0, <3>1 DEF LettersSound, WebhookTypeOK
      <4>2. CASE target[r] # d
        BY <1>0, <1>1, <3>1, <4>2 DEF Bump, Resolve
      <4>3. CASE target[r] = d /\ Bump(r)
        <5>1. entry'[d].resolution = "none"
          BY <1>0, <4>1, <4>3 DEF Bump, Entry
        <5> QED BY <5>1 DEF NoEntry
      <4>4. CASE target[r] = d /\ Resolve(r)
        <5>1. entry' = entry \/ \E how \in {"archived", "skipped", "retried"} :
                entry' = [entry EXCEPT ![d].resolution = how]
          BY <4>4 DEF Resolve
        <5>2. entry' = entry \/ entry'[d].resolution \in {"archived", "skipped", "retried"}
          BY <1>0, <4>1, <4>4, <5>1 DEF Entry
        <5> QED BY <5>2 DEF NoEntry
      <4> QED BY <3>1, <4>2, <4>3, <4>4
    <3> QED BY <2>2, <3>1
  <2>4. pc'[d] = pc[d] BY <1>0, <1>1, <2>1
  <2> QED BY <1>2, <2>1, <2>3, <2>4
<1>6. CASE Refill \/ CoolDown
  BY <1>2, <1>6 DEF Refill, CoolDown, callVars
<1>7. CASE DrainInterval
  <2> DEFINE n == IF tokens < Len(waiters) THEN tokens ELSE Len(waiters)
             served == {waiters[k] : k \in 1..n}
  <2>1. pc' = [c \in Caller |-> IF c \in served THEN "check" ELSE pc[c]]
    BY <1>7 DEF DrainInterval
  <2>2. n \in 0..Len(waiters) /\ DOMAIN waiters = 1..Len(waiters) /\ Len(waiters) \in Nat
    BY LenProperties, DeliveryAssumption DEF WebhookTypeOK
  <2>3. served \subseteq At("waiting")
    BY <2>2 DEF QueuesSound, Range
  <2> HIDE DEF served, n
  <2>4. pc'[d] = "done" <=> pc[d] = "done" BY <1>1, <2>1, <2>3 DEF At
  <2> QED BY <1>2, <1>7, <2>4 DEF DrainInterval
<1>8. CASE Crash
  <2>1. /\ pc'[d] = IF pc[d] = "new" THEN "new" ELSE "done"
        /\ result'[d] = IF pc[d] \in {"new", "done"} THEN result[d] ELSE "crashed"
        /\ UNCHANGED <<attempt, success, entry, acked, errors>>
    BY <1>1, <1>8 DEF Crash
  <2> QED BY <1>1, <2>1 DEF EndSound
<1> QED BY <1>3, <1>4, <1>5, <1>6, <1>7, <1>8 DEF WebhookNext

-----------------------------------------------------------------------------
(* The invariant and what follows.                                         *)

LEMMA DeliveryInvInit == WebhookInit => DeliveryInv
<1> SUFFICES ASSUME WebhookInit PROVE DeliveryInv OBVIOUS
<1> USE DeliveryAssumption, BreakerAssumption DEF WebhookInit
<1>1. WebhookTypeOK
  BY EmptySeq, ClosedIsBreaker DEF WebhookTypeOK, Caller
<1>2. IsInjective(<<>>) /\ Range(<<>>) = {} BY DEF IsInjective, Range
<1>3. QueuesSound BY <1>2 DEF QueuesSound, At
<1>4. InFlight = {} BY Steps DEF InFlight, Caller
<1>5. PoolSound BY <1>4, FS_EmptySet DEF PoolSound
<1>6. LettersSound BY DEF LettersSound, Caller
<1>7. RetriedWasTaken BY DEF RetriedWasTaken, NoEntry
<1>8. LossSound BY DEF LossSound, EndSound, Caller, Closed
<1> QED BY <1>1, <1>3, <1>5, <1>6, <1>7, <1>8 DEF DeliveryInv

LEMMA DeliveryInvStutters ==
    ASSUME DeliveryInv, UNCHANGED webhookVars
    PROVE  DeliveryInv'
<1> USE DEF webhookVars, callVars, askVars, poolVars, bucketVars, DeliveryInv
<1>1. WebhookTypeOK' BY DEF WebhookTypeOK
<1>2. QueuesSound' /\ PoolSound' BY DEF QueuesSound, PoolSound, At, InFlight
<1>3. LettersSound' /\ RetriedWasTaken' BY DEF LettersSound, RetriedWasTaken
<1>4. LossSound' BY DEF LossSound, EndSound
<1> QED BY <1>1, <1>2, <1>3, <1>4

(* The invariant of webhook delivery, for every value of the constants.    *)
THEOREM DeliveryInvariant == WebhookSpec => []DeliveryInv
<1>1. DeliveryInv /\ [WebhookNext]_webhookVars => DeliveryInv'
  BY QueuesKept, LettersKept, TypesKept, LossKept, DeliveryInvStutters DEF DeliveryInv
<1> QED BY <1>1, DeliveryInvInit, PTL DEF WebhookSpec

(* The worker pool loses no slot, also when its tasks throw, and leaves    *)
(* none idle while deliveries wait (WorkerPool.ts:72-87).                  *)
THEOREM PoolLosesNoSlot == WebhookSpec => []PoolWorks
<1>1. DeliveryInv => PoolWorks
  BY DEF DeliveryInv, QueuesSound, PoolSound, PoolWorks, At, InFlight, Range, Caller
<1> QED BY <1>1, DeliveryInvariant, PTL

(* A dead letter marked retried was taken by the endpoint                  *)
(* (webhooks-deadletter.ts:141-166, 209-232).                              *)
THEOREM RetriedLettersWereTaken == WebhookSpec => []RetriedWasTaken
<1>1. DeliveryInv => RetriedWasTaken BY DEF DeliveryInv
<1> QED BY <1>1, DeliveryInvariant, PTL

(* A delivery that nobody took is on record, or was dropped by the shared  *)
(* limiter, a crash or a failing database                                  *)
(* (webhookDeliveryService.ts:342-465).                                    *)
THEOREM NothingIsLostSilently == WebhookSpec => []NoSilentLoss
<1>1. DeliveryInv => NoSilentLoss BY LossIsReported DEF DeliveryInv
<1> QED BY <1>1, DeliveryInvariant, PTL

LEMMA StoredWereNotTaken ==
    ASSUME DeliveryInv, WebhookNext, NEW d \in Delivery, entry[d] = NoEntry,
           entry'[d] # NoEntry
    PROVE  d \notin acked /\ attempt[d] = MaxAttempts
<1>0. /\ d \in Caller /\ entry \in [Caller -> Entry \cup {NoEntry}]
      /\ target \in [Request -> Caller]
  BY DEF DeliveryInv, WebhookTypeOK, Caller
<1>1. PICK c \in Caller : Store(c) /\ entry' = [entry EXCEPT ![c] =
                [resolution |-> "none", count |-> 0, origin |-> Origin(c)]]
  <2>1. ASSUME NEW r \in Request, Bump(r) \/ Resolve(r) PROVE entry'[d] = entry[d]
    <3>1. target[r] # d
      BY <2>1 DEF Bump, Resolve, DeliveryInv, LettersSound
    <3> QED BY <1>0, <2>1, <3>1 DEF Bump, Resolve
  <2>2. \/ entry' = entry
        \/ \E r \in Request : Bump(r) \/ Resolve(r)
        \/ \E c \in Caller : Store(c) /\ entry' = [entry EXCEPT ![c] =
                [resolution |-> "none", count |-> 0, origin |-> Origin(c)]]
    BY DEF WebhookNext, Trigger, CallStep, Limit, Acquire, Check, Post, Note, Log, Store,
           RequestStep, Ask, Count, Refill, DrainInterval, CoolDown, Crash
  <2> QED BY <2>1, <2>2
<1>2. c = d BY <1>0, <1>1
<1> QED BY <1>1, <1>2 DEF Store, DeliveryInv, LettersSound, Caller

(* Only deliveries that nobody took, and whose attempts are used up, are   *)
(* stored as dead letters (webhookDeliveryService.ts:383-419, 450).        *)
THEOREM OnlyUntakenAreStored == WebhookSpec => DeadLettersWereNotTaken
<1> DEFINE Kept == \A d \in Delivery : entry[d] = NoEntry /\ entry'[d] # NoEntry =>
                      d \notin acked /\ attempt[d] = MaxAttempts
<1>1. DeliveryInv /\ [WebhookNext]_webhookVars => [Kept]_webhookVars
  BY StoredWereNotTaken
<1> QED BY <1>1, DeliveryInvariant, PTL DEF WebhookSpec, DeadLettersWereNotTaken

-----------------------------------------------------------------------------
(* Requeues.                                                               *)
LEMMA TwoAreMore ==
    ASSUME NEW S, IsFiniteSet(S), NEW x \in S, NEW y \in S, x # y
    PROVE  Cardinality(S) > 1
<1>1. {x} \in SUBSET S /\ IsFiniteSet({x}) /\ Cardinality({x}) = 1 /\ {x} # S
  BY FS_Singleton
<1>2. Cardinality(S) \in Nat /\ Cardinality({x}) <= Cardinality(S) BY <1>1, FS_Subset, FS_CardinalityType
<1>3. Cardinality(S) # 1
  <2> SUFFICES ASSUME Cardinality(S) = 1 PROVE FALSE
    OBVIOUS
  <2>1. PICK z : S = {z} BY FS_Singleton
  <2> QED BY <2>1
<1> QED BY <1>1, <1>2, <1>3

(* Between its guard and its update a requeue that is alone has not seen   *)
(* the last cycle used up.                                                 *)
RequeueInv ==
    /\ DeliveryInv /\ overlapped \in BOOLEAN
    /\ ~overlapped =>
          /\ \A r, x \in Request :
                pc[r] = "bump" /\ pc[x] = "bump" /\ target[r] = target[x] => r = x
          /\ \A r \in Request : pc[r] = "bump" => entry[target[r]].count < MaxCycles
          /\ \A e \in Caller : entry[e] # NoEntry => entry[e].count <= MaxCycles

LEMMA OnlyCountsReachBump ==
    ASSUME DeliveryInv, WebhookNext, NEW r \in Request, pc'[r] = "bump"
    PROVE  /\ target'[r] = target[r]
           /\ pc[r] = "bump" \/ (MayRequeue(target[r]) /\ pc[r] = "count" /\ entry' = entry)
           /\ ~Bump(r)
<1>0. pc \in [Caller -> Flight \cup Idling] /\ r \in Caller /\ target \in [Request -> Caller]
  BY DEF DeliveryInv, WebhookTypeOK, Idling, Caller
<1>1. ASSUME NEW c \in Caller, NEW step, step # "bump", Goto(c, step) PROVE pc[r] = "bump" /\ r # c
  BY <1>0, <1>1 DEF Goto
<1>2. ASSUME NEW c \in Caller, NEW how, End(c, how) PROVE pc[r] = "bump" /\ r # c
  <2>1. CASE Release(c)
    <3>1. CASE queue = <<>> BY <1>1, <2>1, <3>1 DEF Release
    <3>2. CASE queue # <<>>
      <4>1. pc' = [pc EXCEPT ![c] = "done", ![Head(queue)] = "start"] BY <2>1, <3>2 DEF Release
      <4> QED BY <1>0, <4>1
    <3> QED BY <3>1, <3>2
  <2>2. CASE \E step \in {"resolve", "done"} : Goto(c, step) BY <1>1, <2>2
  <2> QED BY <1>2, <2>1, <2>2 DEF End
<1>3. ASSUME NEW c \in Caller, CallStep(c) PROVE pc[r] = "bump" /\ UNCHANGED target
  BY <1>1, <1>2, <1>3 DEF CallStep, Limit, Acquire, Check, Post, Note, Log, Store, Again, askVars
<1>4. ASSUME NEW x \in Request, Bump(x) \/ Resolve(x) \/ Count(x)
      PROVE  /\ UNCHANGED target /\ ~Bump(r)
             /\ pc[r] = "bump" \/ (MayRequeue(target[r]) /\ pc[r] = "count" /\ entry' = entry)
  <2>1. CASE Bump(x) BY <1>1, <2>1 DEF Bump, askVars, Caller
  <2>2. CASE Resolve(x) BY <1>1, <2>2 DEF Resolve, Bump, askVars, Caller
  <2>3. CASE Count(x) BY <1>0, <2>3 DEF Count, Bump, Goto, askVars, Caller
  <2> QED BY <1>4, <2>1, <2>2, <2>3
<1>5. ASSUME NEW x \in Request, NEW k \in Kind, NEW e \in Caller, Ask(x, k, e)
      PROVE  pc[r] = "bump" /\ target'[r] = target[r] /\ ~Bump(r)
  BY <1>0, <1>5 DEF Ask, Goto, FirstStep, Kind, Bump, Caller
<1>6. CASE \/ \E d \in Delivery : Trigger(d)
           \/ Refill \/ DrainInterval \/ CoolDown \/ Crash
  BY <1>0, <1>6 DEF Trigger, Goto, Refill, DrainInterval, CoolDown, Crash, Bump, askVars, callVars, Caller
<1> QED BY <1>3, <1>4, <1>5, <1>6 DEF WebhookNext, RequestStep

LEMMA RequeueStep == RequeueInv /\ [WebhookNext /\ Overlaps]_<<webhookVars, overlapped>> => RequeueInv'
<1> SUFFICES ASSUME RequeueInv, [WebhookNext /\ Overlaps]_<<webhookVars, overlapped>> PROVE RequeueInv'
  OBVIOUS
<1>1. DeliveryInv' /\ overlapped' \in BOOLEAN
  BY QueuesKept, LettersKept, TypesKept, LossKept, DeliveryInvStutters DEF RequeueInv, DeliveryInv, Overlaps
<1>2. CASE UNCHANGED <<webhookVars, overlapped>>
  BY <1>1, <1>2 DEF RequeueInv, webhookVars, callVars, askVars
<1>3. ASSUME WebhookNext, Overlaps, ~overlapped' PROVE
          /\ \A r, x \in Request :
                pc'[r] = "bump" /\ pc'[x] = "bump" /\ target'[r] = target'[x] => r = x
          /\ \A r \in Request : pc'[r] = "bump" => entry'[target'[r]].count < MaxCycles
          /\ \A e \in Caller : entry'[e] # NoEntry => entry'[e].count <= MaxCycles
  <2>1. ~overlapped /\ \A e \in Caller : ~(Cardinality(Counting(e)') > 1)
    BY <1>3 DEF Overlaps
  <2>2. /\ entry \in [Caller -> Entry \cup {NoEntry}] /\ target \in [Request -> Caller]
        /\ target' \in [Request -> Caller] /\ MaxCycles \in Nat
        /\ \A e \in Caller : entry[e] # NoEntry => entry[e].count \in Nat
        /\ \A r \in Request : pc[r] # "new" => entry[target[r]] # NoEntry
        /\ \A c \in Caller : entry[c] # NoEntry => pc[c] \in {"done", "resolve"}
    BY <1>1, DeliveryAssumption DEF RequeueInv, DeliveryInv, WebhookTypeOK, Entry, NoEntry, LettersSound
  <2>3. ASSUME NEW r \in Request, NEW x \in Request, pc'[r] = "bump", pc'[x] = "bump",
               target'[r] = target'[x]
        PROVE  r = x
    <3> DEFINE S == Counting(target[r])'
    <3>1. S \in SUBSET Request /\ target'[r] = target[r] /\ target[r] \in Caller
      BY <1>3, <2>2, <2>3, OnlyCountsReachBump DEF Counting, RequeueInv
    <3>2. r \in {z \in Request : pc'[z] = "bump" /\ target'[z] = target'[r]}
          /\ x \in {z \in Request : pc'[z] = "bump" /\ target'[z] = target'[r]}
      BY <2>3
    <3>3. IsFiniteSet(Request) BY DeliveryAssumption, FS_Subset DEF Caller
    <3>4. ~(Cardinality({z \in Request : pc'[z] = "bump" /\ target'[z] = target'[r]}) > 1)
      BY <2>1, <2>2 DEF Counting
    <3>5. IsFiniteSet({z \in Request : pc'[z] = "bump" /\ target'[z] = target'[r]})
      BY <3>3, FS_Subset
    <3> QED BY <3>2, <3>4, <3>5, TwoAreMore
  <2>4. CASE entry' = entry
    BY <1>3, <2>1, <2>2, <2>3, <2>4, OnlyCountsReachBump DEF RequeueInv, MayRequeue
  <2>5. ASSUME NEW c \in Caller, pc[c] = "store",
               entry' = [entry EXCEPT ![c] = [resolution |-> "none", count |-> 0, origin |-> Origin(c)]]
        PROVE  /\ \A r \in Request : pc'[r] = "bump" => entry'[target'[r]].count < MaxCycles
               /\ \A e \in Caller : entry'[e] # NoEntry => entry'[e].count <= MaxCycles
    <3>1. entry[c] = NoEntry BY <2>2, <2>5
    <3>2. ASSUME NEW r \in Request, pc'[r] = "bump" PROVE target'[r] # c /\ pc[r] # "new" /\ target'[r] = target[r]
      BY <1>3, <2>2, <3>1, <3>2, OnlyCountsReachBump DEF RequeueInv
    <3>3. ASSUME NEW r \in Request, pc'[r] = "bump" PROVE entry'[target'[r]].count < MaxCycles
      BY <1>3, <2>1, <2>2, <2>5, <3>2, <3>3, OnlyCountsReachBump DEF RequeueInv, MayRequeue
    <3>4. ASSUME NEW e \in Caller, entry'[e] # NoEntry PROVE entry'[e].count <= MaxCycles
      BY <2>1, <2>2, <2>5, <3>4 DEF RequeueInv
    <3> QED BY <3>3, <3>4
  <2>6. ASSUME NEW x \in Request, Bump(x)
        PROVE  /\ \A r \in Request : pc'[r] = "bump" => entry'[target'[r]].count < MaxCycles
               /\ \A e \in Caller : entry'[e] # NoEntry => entry'[e].count <= MaxCycles
    <3> DEFINE t == target[x]
    <3>1. t \in Caller /\ entry[t] \in Entry /\ entry[t].count < MaxCycles /\ pc[x] = "bump"
      BY <2>1, <2>2, <2>6 DEF RequeueInv, Bump
    <3>2. entry' = [entry EXCEPT ![t].count = @ + 1, ![t].resolution = "none"] BY <2>6 DEF Bump
    <3>3. /\ entry'[t].count = entry[t].count + 1
          /\ \A e \in Caller : e # t => entry'[e] = entry[e]
      BY <2>2, <3>1, <3>2 DEF Entry
    <3>4. ASSUME NEW r \in Request, pc'[r] = "bump" PROVE entry'[target'[r]].count < MaxCycles
      <4>1. target'[r] = target[r] /\ ~Bump(r) /\ r # x
        BY <1>3, <2>6, <3>4, OnlyCountsReachBump DEF RequeueInv
      <4>2. pc[r] = "bump"
        <5>1. entry[t].count \in Nat /\ entry' # entry BY <3>1, <3>3 DEF Entry
        <5> QED BY <1>3, <3>4, <5>1, OnlyCountsReachBump DEF RequeueInv
      <4>3. target[r] # t BY <2>1, <2>6, <4>1, <4>2 DEF RequeueInv, Bump
      <4> QED BY <2>1, <2>2, <3>3, <4>1, <4>2, <4>3 DEF RequeueInv
    <3>5. ASSUME NEW e \in Caller, entry'[e] # NoEntry PROVE entry'[e].count <= MaxCycles
      <4>1. entry[t].count \in Nat BY <3>1 DEF Entry
      <4> QED BY <2>1, <2>2, <3>1, <3>3, <3>5, <4>1 DEF RequeueInv
    <3> QED BY <3>4, <3>5
  <2>7. ASSUME NEW x \in Request, Resolve(x)
        PROVE  /\ \A r \in Request : pc'[r] = "bump" => entry'[target'[r]].count < MaxCycles
               /\ \A e \in Caller : entry'[e] # NoEntry => entry'[e].count <= MaxCycles
    <3> DEFINE t == target[x]
    <3>1. t \in Caller /\ entry[t] \in Entry /\ entry[t] # NoEntry BY <2>2, <2>7 DEF Resolve
    <3>2. \E res : entry' = entry \/ entry' = [entry EXCEPT ![t].resolution = res]
      BY <2>7 DEF Resolve
    <3>3. \A e \in Caller : (entry'[e] # NoEntry => entry[e] # NoEntry) /\ entry'[e].count = entry[e].count
      <4>1. entry'[t].count = entry[t].count /\ \A e \in Caller : e # t => entry'[e] = entry[e]
        BY <2>2, <3>1, <3>2 DEF Entry
      <4> QED BY <3>1, <4>1
    <3>4. ASSUME NEW r \in Request, pc'[r] = "bump" PROVE entry'[target'[r]].count < MaxCycles
      <4>1. target'[r] = target[r] /\ target[r] \in Caller /\ entry[target[r]].count < MaxCycles
        BY <1>3, <2>1, <2>2, <3>4, OnlyCountsReachBump DEF RequeueInv, MayRequeue
      <4> QED BY <3>3, <4>1
    <3> QED BY <2>1, <2>2, <3>3, <3>4 DEF RequeueInv
  <2>8. \/ entry' = entry
        \/ \E x \in Request : Bump(x) \/ Resolve(x)
        \/ \E c \in Caller : pc[c] = "store" /\ entry' = [entry EXCEPT ![c] =
                [resolution |-> "none", count |-> 0, origin |-> Origin(c)]]
    BY <1>3 DEF WebhookNext, Trigger, CallStep, Limit, Acquire, Check, Post, Note, Log, Store,
           RequestStep, Ask, Count, Refill, DrainInterval, CoolDown, Crash
  <2> QED BY <2>3, <2>4, <2>5, <2>6, <2>7, <2>8
<1> QED BY <1>1, <1>2, <1>3 DEF RequeueInv

(* No dead letter is requeued more often than MAX_REQUEUE_CYCLES, whatever *)
(* retries, discards and crashes come between, unless two requeues of it   *)
(* overlap (webhookDeadLetterService.ts:208-240).                          *)
THEOREM RequeuesStayBounded == RequeueSpec => []RequeuesBounded
<1>1. WebhookInit /\ overlapped = FALSE => RequeueInv
  <2> SUFFICES ASSUME WebhookInit, overlapped = FALSE PROVE RequeueInv
    OBVIOUS
  <2>1. \A r \in Request : pc[r] # "bump" BY DEF WebhookInit, Caller
  <2>2. \A e \in Caller : entry[e] = NoEntry BY DEF WebhookInit
  <2> QED BY <2>1, <2>2, DeliveryInvInit DEF RequeueInv
<1>2. RequeueInv => RequeuesBounded BY DEF RequeueInv, RequeuesBounded
<1> QED BY <1>1, <1>2, RequeueStep, PTL DEF RequeueSpec
=============================================================================
