---------------------------- MODULE IoSinkProofs ----------------------------
(***************************************************************************)
(* Theorems about IoSink, for every number of callers and requests, every  *)
(* drain limit, and whatever the worker does to the counter while it is    *)
(* not in the wait set.  IoUringProofs uses SinkInductive for the same     *)
(* worker with its ring.                                                   *)
(***************************************************************************)
EXTENDS IoSink, TLAPS

\* The worker's place in Drain agrees with the mutex, the wait set, the request in
\* hand and the number of requests drained.
SinkControlInv ==
  /\ mutex = Worker <=> drainer \in {"check", "block", "loop", "consume"}
  /\ hand # None <=> drainer = "consume"
  /\ waiting => drainer = "asleep"
  /\ drainer \in {"check", "block", "asleep"} => drained = 0
  /\ drainer \in {"loop", "consume"} => drained \in 0 .. (MaxDrain - 1)
  /\ drainer # "outside" => drained # Closed

\* What the worker saw when it decided to sleep still holds as long as it holds the
\* mutex; once it is in the wait set the counter cannot have moved.
SinkSleepInv ==
  /\ drainer = "block" => pending_io = <<>> /\ pending_sqe <= 0
  /\ waiting => pending_sqe <= 0
  /\ NoLostWakeup

SinkInv == SinkTypeOK /\ SinkControlInv /\ SinkSleepInv

\* What a step of the worker outside Drain, or inside consume, may do to the sink.
CounterMoves ==
  /\ drainer \in {"outside", "consume"}
  /\ pending_sqe' \in Int
  /\ UNCHANGED sinkVars

\* The worker is one of those who may hold the mutex.
LEMMA WorkerIsSome == Worker # None /\ Worker \in Callers
  BY SinkAssumption DEF Callers

\* The invariant of the sink holds after the constructor.
LEMMA SinkInitially == SinkInit => SinkInv
<1> SUFFICES ASSUME SinkInit PROVE SinkInv
  OBVIOUS
<1> USE SinkAssumption, WorkerIsSome DEF SinkInit
<1>1. pending_io \in Seq(Requests) /\ accepted \in Seq(Requests)
  OBVIOUS
<1>2. drained \in {Closed} \cup 0 .. MaxDrain
  BY DEF Closed
<1>3. caller \in [Callers -> {"idle", "notify"}]
  OBVIOUS
<1>4. SinkTypeOK
  <2>1. waiting \in BOOLEAN /\ stop \in BOOLEAN
    OBVIOUS
  <2>2. mutex \in {None, Worker} /\ hand \in Requests \cup {None} /\ pending_sqe \in Int
    OBVIOUS
  <2>3. /\ drainer \in {"outside", "check", "block", "asleep", "loop", "consume", "unlocked"}
        /\ closer \in {"open", "stopping", "stopped"}
    OBVIOUS
  <2> HIDE DEF SinkInit
  <2>4. QED
    BY <1>1, <1>2, <1>3, <2>1, <2>2, <2>3 DEF SinkTypeOK
<1>5. SinkControlInv
  BY DEF SinkControlInv, Closed
<1>6. SinkSleepInv
  BY DEF SinkSleepInv, NoLostWakeup
<1>7. QED
  BY <1>4, <1>5, <1>6 DEF SinkInv

-----------------------------------------------------------------------------
\* The locked part of EnqueueIoRequest keeps the invariant.
LEMMA EnqueueInv ==
  ASSUME SinkInv, NEW c \in Callers, NEW r \in Requests,
         EnqueueIoRequest(c, r), UNCHANGED pending_sqe
  PROVE  SinkInv'
<1> USE SinkAssumption, WorkerIsSome DEF SinkInv, EnqueueIoRequest
<1>1. SinkTypeOK'
  BY DEF SinkTypeOK
<1>2. SinkControlInv'
  BY DEF SinkControlInv
<1>3. caller'[c] = "notify"
  BY DEF SinkTypeOK
<1>4. drainer # "block"
  BY DEF SinkControlInv
<1>5. SinkSleepInv'
  BY <1>3, <1>4 DEF SinkSleepInv, NoLostWakeup
<1>6. QED
  BY <1>1, <1>2, <1>5

\* The notify_one of EnqueueIoRequest keeps the invariant.
LEMMA NotifyInv ==
  ASSUME SinkInv, NEW c \in Callers, NotifyOne(c), UNCHANGED pending_sqe
  PROVE  SinkInv'
<1> USE SinkAssumption, WorkerIsSome DEF SinkInv, NotifyOne
<1>1. SinkTypeOK'
  BY DEF SinkTypeOK
<1>2. SinkControlInv'
  BY DEF SinkControlInv
<1>3. SinkSleepInv'
  BY DEF SinkSleepInv, NoLostWakeup
<1>4. QED
  BY <1>1, <1>2, <1>3

\* The steps of Drain.
LEMMA DrainInv ==
  ASSUME SinkInv, DrainStep, UNCHANGED pending_sqe
  PROVE  SinkInv'
<1> USE SinkAssumption, WorkerIsSome DEF SinkInv
<1>1. CASE DrainEnter
  <2> USE <1>1 DEF DrainEnter
  <2>1. SinkTypeOK'
    BY DEF SinkTypeOK
  <2>2. SinkControlInv'
    BY DEF SinkControlInv, Closed
  <2>3. SinkSleepInv'
    BY DEF SinkSleepInv, NoLostWakeup, SinkControlInv
  <2>4. QED
    BY <2>1, <2>2, <2>3
<1>2. CASE DrainCheck
  <2> USE <1>2 DEF DrainCheck
  <2>1. SinkTypeOK'
    BY DEF SinkTypeOK
  <2>2. SinkControlInv'
    BY DEF SinkControlInv, Closed
  <2>3. SinkSleepInv'
    BY DEF SinkSleepInv, NoLostWakeup, SinkControlInv, WaitIsOver, SinkTypeOK
  <2>4. QED
    BY <2>1, <2>2, <2>3
<1>3. CASE DrainBlock
  <2> USE <1>3 DEF DrainBlock
  <2>1. SinkTypeOK'
    BY DEF SinkTypeOK
  <2>2. SinkControlInv'
    BY DEF SinkControlInv, Closed
  <2>3. SinkSleepInv'
    BY DEF SinkSleepInv, NoLostWakeup
  <2>4. QED
    BY <2>1, <2>2, <2>3
<1>4. CASE DrainWake
  <2> USE <1>4 DEF DrainWake
  <2>1. SinkTypeOK'
    BY DEF SinkTypeOK
  <2>2. SinkControlInv'
    BY DEF SinkControlInv, Closed
  <2>3. SinkSleepInv'
    BY DEF SinkSleepInv, NoLostWakeup
  <2>4. QED
    BY <2>1, <2>2, <2>3
<1>5. CASE DrainPop
  <2> USE <1>5 DEF DrainPop
  <2>1. SinkTypeOK'
    BY DEF SinkTypeOK
  <2>2. SinkControlInv'
    BY DEF SinkControlInv, Closed, SinkTypeOK
  <2>3. SinkSleepInv'
    BY DEF SinkSleepInv, NoLostWakeup, SinkControlInv
  <2>4. QED
    BY <2>1, <2>2, <2>3
<1>6. CASE DrainLeave
  <2> USE <1>6 DEF DrainLeave
  <2>1. SinkTypeOK'
    BY DEF SinkTypeOK
  <2>2. SinkControlInv'
    BY DEF SinkControlInv, Closed
  <2>3. SinkSleepInv'
    BY DEF SinkSleepInv, NoLostWakeup
  <2>4. QED
    BY <2>1, <2>2, <2>3
<1>7. ASSUME NEW ok \in BOOLEAN, DrainConsumed(ok) PROVE SinkInv'
  <2> USE <1>7 DEF DrainConsumed
  <2>1. SinkTypeOK'
    BY DEF SinkTypeOK, SinkControlInv
  <2>2. SinkControlInv'
    BY DEF SinkControlInv, Closed, SinkTypeOK
  <2>3. SinkSleepInv'
    BY DEF SinkSleepInv, NoLostWakeup, SinkControlInv
  <2>4. QED
    BY <2>1, <2>2, <2>3
<1>8. CASE DrainReturn
  <2> USE <1>8 DEF DrainReturn
  <2>1. SinkTypeOK'
    BY DEF SinkTypeOK
  <2>2. SinkControlInv'
    BY DEF SinkControlInv, Closed
  <2>3. SinkSleepInv'
    BY DEF SinkSleepInv, NoLostWakeup
  <2>4. QED
    BY <2>1, <2>2, <2>3
<1>9. QED
  BY <1>1, <1>2, <1>3, <1>4, <1>5, <1>6, <1>7, <1>8 DEF DrainStep

\* A spurious wake-up and the two steps of the destructor.
LEMMA WakeInv ==
  ASSUME SinkInv, SpuriousWake \/ Stop \/ NotifyAll, UNCHANGED pending_sqe
  PROVE  SinkInv'
<1> USE SinkAssumption, WorkerIsSome DEF SinkInv, SpuriousWake, Stop, NotifyAll
<1>1. SinkTypeOK'
  BY DEF SinkTypeOK
<1>2. SinkControlInv'
  BY DEF SinkControlInv
<1>3. SinkSleepInv'
  BY DEF SinkSleepInv, NoLostWakeup
<1>4. QED
  BY <1>1, <1>2, <1>3

\* The worker away from Drain, or inside consume.
LEMMA CounterInv ==
  ASSUME SinkInv, CounterMoves
  PROVE  SinkInv'
<1> USE SinkAssumption, WorkerIsSome DEF SinkInv, CounterMoves, sinkVars
<1>1. SinkTypeOK'
  BY DEF SinkTypeOK
<1>2. SinkControlInv'
  BY DEF SinkControlInv
<1>3. SinkSleepInv'
  BY DEF SinkSleepInv, NoLostWakeup, SinkControlInv
<1>4. QED
  BY <1>1, <1>2, <1>3

\* The invariant is inductive, for IoSink and for a worker with a ring.
LEMMA SinkInductive ==
  ASSUME SinkInv,
         (SinkMove /\ UNCHANGED pending_sqe) \/ CounterMoves \/ UNCHANGED sinkAllVars
  PROVE  SinkInv'
<1>1. CASE SinkMove /\ UNCHANGED pending_sqe
  BY <1>1, EnqueueInv, NotifyInv, DrainInv, WakeInv DEF SinkMove
<1>2. CASE CounterMoves
  BY <1>2, CounterInv
<1>3. CASE UNCHANGED sinkAllVars
  BY <1>3 DEF sinkAllVars, sinkVars, SinkInv, SinkTypeOK, SinkControlInv, SinkSleepInv,
              NoLostWakeup
<1>4. QED
  BY <1>1, <1>2, <1>3

\* In every behaviour of IoSink the invariant holds.
THEOREM SinkInvariant == SinkSafety => []SinkInv
<1>1. SinkInit => SinkInv
  BY SinkInitially
<1>2. SinkInv /\ [SinkNext]_sinkAllVars => SinkInv'
  <2> SUFFICES ASSUME SinkInv, [SinkNext]_sinkAllVars PROVE SinkInv'
    OBVIOUS
  <2>1. Elsewhere => CounterMoves
    BY SinkAssumption DEF Elsewhere, CounterMoves
  <2>2. QED
    BY <2>1, SinkInductive DEF SinkNext
<1>3. QED
  BY <1>1, <1>2, PTL DEF SinkSafety

\* Whatever its worker does between two drains, a request in the queue of a sink whose worker
\* is in the wait set has a notify_one on its way.
THEOREM NoWakeupIsLost == SinkSafety => []NoLostWakeup
<1>1. SinkInv => NoLostWakeup
  BY DEF SinkInv, SinkSleepInv
<1>2. QED
  BY <1>1, SinkInvariant, PTL

-----------------------------------------------------------------------------
(* The order of the requests.                                               *)

\* The queue is the end of what was enqueued, each request once, and the request in
\* hand is the one before it.
OrderInv ==
  /\ Len(pending_io) <= Len(accepted)
  /\ \A i, j \in 1 .. Len(accepted) : accepted[i] = accepted[j] => i = j
  /\ \A k \in 1 .. Len(pending_io) : pending_io[k] = accepted[TakenCount + k]
  /\ hand # None => TakenCount > 0 /\ accepted[TakenCount] = hand

\* The requests that consume has returned from, whatever it made of them.
ServedCount == IF hand = None THEN TakenCount ELSE TakenCount - 1

Served(r) == \E k \in 1 .. ServedCount : accepted[k] = r

\* The three ways in which the queue and the hand move.
Pushes(r) ==
  /\ r \notin Accepted
  /\ pending_io' = Append(pending_io, r)
  /\ accepted' = Append(accepted, r)
  /\ hand' = hand

Pops ==
  /\ hand = None
  /\ pending_io # <<>>
  /\ hand' = Head(pending_io)
  /\ pending_io' = Tail(pending_io)
  /\ accepted' = accepted

LetsGo == hand' = None /\ UNCHANGED <<pending_io, accepted>>

\* What was enqueued stays, and what was served.
Grows ==
  /\ ServedCount <= ServedCount'
  /\ ServedCount' \in Nat
  /\ Len(accepted) <= Len(accepted')
  /\ \A k \in 1 .. Len(accepted) : accepted'[k] = accepted[k]

\* A step of the sink is one of these for the queue, or leaves it alone.
LEMMA QueueMoves ==
  ASSUME SinkInv, SinkMove
  PROVE  \/ \E r \in Requests : Pushes(r)
         \/ Pops
         \/ LetsGo
         \/ UNCHANGED <<pending_io, accepted, hand>>
<1>1. ASSUME NEW c \in Callers, NEW r \in Requests, EnqueueIoRequest(c, r) PROVE Pushes(r)
  BY <1>1 DEF EnqueueIoRequest, Pushes
<1>2. CASE DrainPop
  BY <1>2 DEF DrainPop, Pops, SinkInv, SinkControlInv
<1>3. ASSUME NEW ok \in BOOLEAN, DrainConsumed(ok) PROVE LetsGo
  BY <1>3 DEF DrainConsumed, LetsGo
<1>4. QED
  BY <1>1, <1>2, <1>3
  DEF SinkMove, DrainStep, DrainEnter, DrainCheck, DrainBlock, DrainWake, DrainLeave,
      DrainReturn, SpuriousWake, NotifyOne, Stop, NotifyAll

\* A pushed request is behind all others.
LEMMA PushOrder ==
  ASSUME SinkTypeOK, OrderInv, NEW r \in Requests, Pushes(r)
  PROVE  /\ OrderInv'
         /\ TakenCount' = TakenCount
         /\ ServedCount' = ServedCount
         /\ Len(accepted') = Len(accepted) + 1
         /\ \A k \in 1 .. Len(accepted) : accepted'[k] = accepted[k]
<1>1. /\ Len(accepted) \in Nat /\ Len(pending_io) \in Nat
      /\ Len(accepted') = Len(accepted) + 1
      /\ Len(pending_io') = Len(pending_io) + 1
      /\ \A k \in 1 .. Len(accepted) : accepted'[k] = accepted[k]
      /\ \A k \in 1 .. Len(pending_io) : pending_io'[k] = pending_io[k]
      /\ accepted'[Len(accepted) + 1] = r
      /\ pending_io'[Len(pending_io) + 1] = r
      /\ hand' = hand
  BY DEF SinkTypeOK, Pushes
<1>2. \A k \in 1 .. Len(accepted) : accepted[k] # r
  BY DEF Pushes, Accepted
<1> HIDE DEF Pushes
<1>3. TakenCount' = TakenCount /\ ServedCount' = ServedCount
  BY <1>1 DEF TakenCount, ServedCount
<1>4. TakenCount \in 0 .. Len(accepted)
  BY <1>1 DEF TakenCount, OrderInv
<1>5. \A i, j \in 1 .. Len(accepted') : accepted'[i] = accepted'[j] => i = j
  BY <1>1, <1>2 DEF OrderInv
<1>6. ASSUME NEW k \in 1 .. Len(pending_io')
      PROVE  pending_io'[k] = accepted'[TakenCount' + k]
  <2>1. CASE k = Len(pending_io) + 1
    <3>1. TakenCount' + k = Len(accepted) + 1
      BY <1>1, <1>3, <2>1 DEF TakenCount
    <3>2. QED
      BY <1>1, <2>1, <3>1
  <2>2. CASE k # Len(pending_io) + 1
    <3>1. k \in 1 .. Len(pending_io)
      BY <1>1, <2>2
    <3>2. TakenCount + k \in 1 .. Len(accepted)
      BY <1>1, <1>4, <3>1 DEF TakenCount
    <3>3. QED
      BY <1>1, <1>3, <3>1, <3>2 DEF OrderInv
  <2>3. QED
    BY <2>1, <2>2
<1>7. hand' # None => TakenCount' > 0 /\ accepted'[TakenCount'] = hand'
  <2>1. SUFFICES ASSUME hand # None PROVE TakenCount > 0 /\ accepted'[TakenCount] = hand
    BY <1>1, <1>3
  <2>2. TakenCount \in 1 .. Len(accepted) /\ accepted[TakenCount] = hand
    BY <1>4, <2>1 DEF OrderInv
  <2>3. QED
    BY <1>1, <2>2
<1>8. Len(pending_io') <= Len(accepted')
  BY <1>1 DEF OrderInv
<1>9. QED
  BY <1>1, <1>3, <1>5, <1>6, <1>7, <1>8 DEF OrderInv

\* The request popped is the oldest that nobody has taken yet.
LEMMA PopOrder ==
  ASSUME SinkTypeOK, OrderInv, Pops
  PROVE  /\ OrderInv'
         /\ TakenCount' = TakenCount + 1
         /\ TakenCount < Len(accepted)
         /\ hand' # None => ServedCount' = ServedCount
<1>1. /\ Len(accepted) \in Nat /\ Len(pending_io) \in Nat \ {0}
      /\ Len(pending_io') = Len(pending_io) - 1
      /\ \A k \in 1 .. Len(pending_io') : pending_io'[k] = pending_io[k + 1]
      /\ hand' = pending_io[1] /\ hand = None /\ accepted' = accepted
  BY DEF SinkTypeOK, Pops
<1>2. TakenCount' = TakenCount + 1 /\ TakenCount \in Nat /\ TakenCount < Len(accepted)
  BY <1>1 DEF TakenCount, OrderInv
<1>3. hand' # None => ServedCount' = ServedCount
  BY <1>1, <1>2 DEF ServedCount
<1>4. ASSUME NEW k \in 1 .. Len(pending_io')
      PROVE  pending_io'[k] = accepted'[TakenCount' + k]
  <2>1. k + 1 \in 1 .. Len(pending_io) /\ TakenCount' + k = TakenCount + (k + 1)
    BY <1>1, <1>2
  <2>2. pending_io[k + 1] = accepted[TakenCount + (k + 1)]
    BY <2>1 DEF OrderInv
  <2>3. QED
    BY <1>1, <2>1, <2>2
<1>5. TakenCount' > 0 /\ accepted'[TakenCount'] = hand'
  BY <1>1, <1>2 DEF OrderInv
<1>6. Len(pending_io') <= Len(accepted')
  BY <1>1 DEF OrderInv
<1>7. QED
  BY <1>1, <1>2, <1>3, <1>4, <1>5, <1>6 DEF OrderInv

\* Every step of the sink keeps the order.
LEMMA OrderKept ==
  ASSUME SinkInv, OrderInv, SinkMove \/ UNCHANGED sinkVars
  PROVE  OrderInv'
<1>1. SinkTypeOK
  BY DEF SinkInv
<1>2. CASE LetsGo \/ UNCHANGED <<pending_io, accepted, hand>>
  BY <1>2 DEF LetsGo, OrderInv, TakenCount
<1>3. QED
  BY <1>1, <1>2, QueueMoves, PushOrder, PopOrder DEF sinkVars

\* A step of the sink takes nothing back.
LEMMA ServedGrows ==
  ASSUME SinkInv, OrderInv, SinkMove \/ UNCHANGED sinkVars
  PROVE  /\ ServedCount \in 0 .. Len(accepted) /\ TakenCount \in 0 .. Len(accepted)
         /\ Grows
         /\ \A r : Served(r) => Served(r)'
<1>1. SinkTypeOK /\ Len(accepted) \in Nat /\ Len(pending_io) \in Nat
  BY DEF SinkInv, SinkTypeOK
<1>2. TakenCount \in 0 .. Len(accepted) /\ ServedCount \in 0 .. Len(accepted)
  BY <1>1 DEF TakenCount, ServedCount, OrderInv
<1>3. Grows
  <2>1. ASSUME NEW r \in Requests, Pushes(r) PROVE Grows
    BY <1>1, <1>2, <2>1, PushOrder DEF Grows
  <2>2. CASE Pops
    <3>1. TakenCount' = TakenCount + 1 /\ accepted' = accepted /\ hand = None
      BY <1>1, <2>2, PopOrder DEF Pops
    <3>2. ServedCount = TakenCount /\ ServedCount' \in {TakenCount + 1, TakenCount}
      BY <1>2, <3>1 DEF ServedCount
    <3>3. QED
      BY <1>1, <1>2, <3>1, <3>2 DEF Grows
  <2>3. CASE LetsGo \/ UNCHANGED <<pending_io, accepted, hand>>
    <3>1. TakenCount' = TakenCount /\ accepted' = accepted /\ hand' \in {hand, None}
      BY <2>3 DEF LetsGo, TakenCount
    <3>2. ServedCount' \in {ServedCount, TakenCount} /\ ServedCount <= TakenCount
      BY <1>2, <3>1 DEF ServedCount
    <3>3. QED
      BY <1>1, <1>2, <3>1, <3>2 DEF Grows
  <2>4. QED
    BY <2>1, <2>2, <2>3, QueueMoves DEF sinkVars
<1>4. ASSUME NEW r, Served(r) PROVE Served(r)'
  <2>1. PICK k \in 1 .. ServedCount : accepted[k] = r
    BY <1>4 DEF Served
  <2>2. k \in 1 .. ServedCount' /\ accepted'[k] = r
    BY <1>2, <1>3, <2>1 DEF Grows
  <2>3. QED
    BY <2>2 DEF Served
<1>5. QED
  BY <1>2, <1>3, <1>4

\* The request in hand is not served yet; it is when consume returns.
LEMMA HandIsNext ==
  ASSUME SinkTypeOK, OrderInv, hand # None
  PROVE  /\ ~ Served(hand)
         /\ LetsGo => \A r : r = hand => Served(r)'
<1>1. /\ Len(accepted) \in Nat /\ Len(pending_io) \in Nat
      /\ TakenCount \in 1 .. Len(accepted) /\ accepted[TakenCount] = hand
      /\ ServedCount = TakenCount - 1
  BY DEF SinkTypeOK, OrderInv, TakenCount, ServedCount
<1>2. ~ Served(hand)
  BY <1>1 DEF Served, OrderInv
<1>3. ASSUME LetsGo, NEW r, r = hand PROVE Served(r)'
  <2>1. accepted' = accepted /\ ServedCount' = TakenCount
    BY <1>3 DEF LetsGo, ServedCount, TakenCount
  <2>2. TakenCount \in 1 .. ServedCount' /\ accepted'[TakenCount] = hand
    BY <1>1, <2>1
  <2>3. QED
    BY <1>3, <2>2 DEF Served
<1>4. QED
  BY <1>2, <1>3

\* Drain hands the requests to consume in the order in which EnqueueIoRequest got the lock,
\* none twice and none passed over, whatever its worker does in between.
THEOREM DrainIsInOrder == SinkSafety => []OrderInv
<1>1. SinkInit => OrderInv
  BY DEF SinkInit, OrderInv, TakenCount
<1>2. SinkInv /\ OrderInv /\ [SinkNext]_sinkAllVars => OrderInv'
  BY OrderKept DEF SinkNext, Elsewhere, sinkAllVars
<1>3. QED
  BY <1>1, <1>2, SinkInvariant, PTL DEF SinkSafety
=============================================================================
