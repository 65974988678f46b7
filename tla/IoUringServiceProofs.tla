------------------------ MODULE IoUringServiceProofs ------------------------
(***************************************************************************)
(* What IoUring does to the requests, proved for every number of threads   *)
(* and requests, every ring size and drain limit, every kind of kernel and *)
(* every choice of the attributes of the requests, unless an assumption is *)
(* named: the service of RequestService, the order of the SQEs, and what   *)
(* may be lost.                                                            *)
(*                                                                         *)
(* The queue of the sink is the end of what was accepted (OrderInv); what  *)
(* is before it was served, but for the request in hand.  All that the     *)
(* ring ever holds was served.                                             *)
(***************************************************************************)
EXTENDS IoUringProofs

\* The ring holds requests that consume has had, resolved requests are of these, and the
\* one being completed is too, or is in hand (an opcode without a case).
PreparedInv == \A i \in 1 .. Len(prepared) : prepared[i] # None => Served(prepared[i])

ResolvedInv ==
  /\ \A r \in resolved : Served(r)
  /\ completing # None =>
       /\ completing \notin resolved
       /\ IF batch = 0 THEN completing = hand ELSE Served(completing)

ServiceInv == OrderInv /\ PreparedInv /\ ResolvedInv

-----------------------------------------------------------------------------
(* What the steps may change.                                               *)

\* What the sink sees.
LEMMA SinkSide ==
  ASSUME IInv, [Next]_vars
  PROVE  SinkMove \/ UNCHANGED sinkVars
BY SinkView DEF IInv, CounterMoves, sinkAllVars

\* Which actions write the SQEs.
LEMMA SqeFrame ==
  ASSUME [Next]_vars
  PROVE  /\ PrepareSqe \/ PrepareUnimplemented \/ UNCHANGED prepared
         /\ PrepareSqe \/ UNCHANGED linked_sqe
         /\ UNCHANGED kernel
<1> USE DEF sqVars, ownerVars, lifeVars, ringVars
<1>1. CASE WorkerStep
  BY <1>1 DEF WorkerStep, Draining, PopRequest, AfterDrain, GetSqeFull, PrepareSqe,
     PrepareUnimplemented, SubmitToKernel, SubmitBusy, SubmitToPoller, NothingToProcess,
     FetchBatch, HandleCqe, AdvanceCq, BackToLoop, GetSqeRetry, GetSqeGivesUp, CallbackSubmits,
     CallbackNotifies, CallbackReturns, Resolve
<1>2. CASE KernelStep
  BY <1>2 DEF KernelStep, KernelPolls, KernelCompletes
<1>3. CASE WakesForNothing \/ (\E t \in Threads : Submits(t)) \/ DestructorStep \/ Ended
           \/ UNCHANGED vars
  BY <1>3 DEF WakesForNothing, Submits, DestructorStep, StopSink, StopConsumption, JoinAndExit,
              Ended, vars
<1>4. QED
  BY <1>1, <1>2, <1>3 DEF Next

\* Which actions write the completions, and which move the batch.
LEMMA CompletionFrame ==
  ASSUME [Next]_vars
  PROVE  /\ Resolve \/ UNCHANGED resolved
         /\ bare \subseteq bare'
         /\ PrepareUnimplemented \/ HandleCqe \/ Resolve \/ UNCHANGED completing
         /\ FetchBatch \/ AdvanceCq \/ UNCHANGED batch
<1> USE DEF cqVars, ownerVars, lifeVars, ringVars
<1>1. CASE WorkerStep
  BY <1>1 DEF WorkerStep, Draining, PopRequest, AfterDrain, GetSqeFull, PrepareSqe,
     PrepareUnimplemented, SubmitToKernel, SubmitBusy, SubmitToPoller, NothingToProcess,
     FetchBatch, HandleCqe, AdvanceCq, BackToLoop, GetSqeRetry, GetSqeGivesUp, CallbackSubmits,
     CallbackNotifies, CallbackReturns, Resolve
<1>2. CASE KernelStep
  BY <1>2 DEF KernelStep, KernelPolls, KernelCompletes
<1>3. CASE WakesForNothing \/ (\E t \in Threads : Submits(t)) \/ DestructorStep \/ Ended
           \/ UNCHANGED vars
  BY <1>3 DEF WakesForNothing, Submits, DestructorStep, StopSink, StopConsumption, JoinAndExit,
              Ended, vars
<1>4. QED
  BY <1>1, <1>2, <1>3 DEF Next

\* Which actions change the request in hand, and how the worker gets to consume.
LEMMA HandFrame ==
  ASSUME [Next]_vars
  PROVE  PopRequest \/ PrepareSqe \/ GetSqeGivesUp \/ Resolve \/ UNCHANGED hand
<1> USE DEF sinkVars, sinkAllVars
<1>1. CASE WorkerStep
  BY <1>1 DEF WorkerStep, Draining, DrainEnter, DrainCheck, DrainBlock, DrainWake, DrainLeave,
     AfterDrain, DrainReturn, GetSqeFull, PrepareUnimplemented, SubmitToKernel, SubmitBusy,
     SubmitToPoller, NothingToProcess, FetchBatch, HandleCqe, AdvanceCq, BackToLoop, GetSqeRetry,
     CallbackSubmits, CallbackNotifies, CallbackReturns, EnqueueIoRequest, NotifyOne
<1>2. CASE KernelStep
  BY <1>2 DEF KernelStep, KernelPolls, KernelCompletes
<1>3. CASE WakesForNothing \/ (\E t \in Threads : Submits(t)) \/ DestructorStep \/ Ended
           \/ UNCHANGED vars
  BY <1>3 DEF WakesForNothing, SpuriousWake, Submits, EnqueueIoRequest, NotifyOne, DestructorStep,
              StopSink, Stop, NotifyAll, StopConsumption, JoinAndExit, Ended, vars
<1>4. QED
  BY <1>1, <1>2, <1>3 DEF Next

-----------------------------------------------------------------------------
(* Requests in the ring were served.                                        *)

\* An SQE without a request of its own holds an older one, or none.
LEMMA StaleIsOlder ==
  ASSUME RingTypeOK
  PROVE  StaleUserData = None \/ \E i \in 1 .. Len(prepared) : StaleUserData = prepared[i]
<1>1. Len(prepared) \in Nat
  BY DEF RingTypeOK
<1>2. CASE Len(prepared) < SqSize
  BY <1>2 DEF StaleUserData
<1>3. CASE ~ (Len(prepared) < SqSize)
  <2>1. Len(prepared) + 1 - SqSize \in 1 .. Len(prepared)
    BY <1>1, <1>3, RingAssumption
  <2>2. QED
    BY <1>3, <2>1 DEF StaleUserData
<1>4. QED
  BY <1>2, <1>3

\* The SQEs behind an append.
LEMMA PreparedGrows ==
  ASSUME RingTypeOK, NEW e \in Requests \cup {None}, prepared' = Append(prepared, e)
  PROVE  /\ Len(prepared') = Len(prepared) + 1
         /\ \A i \in 1 .. Len(prepared) : prepared'[i] = prepared[i]
         /\ prepared'[Len(prepared) + 1] = e
BY DEF RingTypeOK

\* What PrepareSqe and PrepareUnimplemented append.
LEMMA NewSqe ==
  ASSUME IInv, OrderInv
  PROVE  /\ PrepareSqe =>
              /\ hand \in Requests /\ ~ Served(hand) /\ LetsGo
              /\ prepared' = Append(prepared, hand)
         /\ PrepareUnimplemented =>
              /\ hand \in Requests /\ ~ Served(hand) /\ batch = 0
              /\ StaleUserData \in Requests \cup {None}
              /\ prepared' = Append(prepared, StaleUserData)
<1>1. /\ SinkTypeOK /\ RingTypeOK
      /\ step = "get_sqe" => hand \in Requests \ {None} /\ batch = 0
  BY SinkAssumption DEF IInv, SinkInv, SinkTypeOK, SinkControlInv, RingInv, ControlInv, IndexInv
<1>2. step = "get_sqe" => ~ Served(hand)
  BY <1>1, HandIsNext
<1>3. StaleUserData \in Requests \cup {None}
  BY <1>1, StaleIsOlder DEF RingTypeOK
<1>4. PrepareSqe => LetsGo
  BY DEF PrepareSqe, DrainConsumed, LetsGo
<1>5. QED
  BY <1>1, <1>2, <1>3, <1>4 DEF PrepareSqe, PrepareUnimplemented

\* Every step keeps PreparedInv.
LEMMA PreparedStep ==
  ASSUME IInv, OrderInv, PreparedInv, [Next]_vars
  PROVE  PreparedInv'
<1>1. \A r : Served(r) => Served(r)'
  BY SinkSide, ServedGrows DEF IInv
<1>2. RingTypeOK /\ SinkTypeOK /\ Len(prepared) \in Nat
  BY DEF IInv, RingInv, RingTypeOK, SinkInv
<1>3. CASE PrepareSqe
  <2>1. hand \in Requests /\ LetsGo /\ prepared' = Append(prepared, hand)
    BY <1>3, NewSqe
  <2>2. PICK r \in Requests : r = hand
    BY <2>1
  <2>3. /\ Len(prepared') = Len(prepared) + 1
        /\ \A i \in 1 .. Len(prepared) : prepared'[i] = prepared[i]
        /\ prepared'[Len(prepared) + 1] = r
    BY <1>2, <2>1, <2>2, PreparedGrows
  <2>4. Served(r)'
    BY <1>2, <2>1, <2>2, HandIsNext, SinkAssumption
  <2>5. QED
    BY <1>1, <1>2, <2>3, <2>4 DEF PreparedInv
<1>4. CASE PrepareUnimplemented
  <2>1. PICK e \in Requests \cup {None} : e = StaleUserData /\ prepared' = Append(prepared, e)
    BY <1>4, NewSqe
  <2>2. e # None => Served(e)
    BY <1>2, <2>1, StaleIsOlder DEF PreparedInv
  <2>3. /\ Len(prepared') = Len(prepared) + 1
        /\ \A i \in 1 .. Len(prepared) : prepared'[i] = prepared[i]
        /\ prepared'[Len(prepared) + 1] = e
    BY <1>2, <2>1, PreparedGrows
  <2>4. QED
    BY <1>1, <1>2, <2>2, <2>3 DEF PreparedInv
<1>5. CASE UNCHANGED prepared
  BY <1>1, <1>5 DEF PreparedInv
<1>6. QED
  BY <1>3, <1>4, <1>5, SqeFrame

\* An element of a sequence.
LEMMA ElementTyped ==
  ASSUME NEW S, NEW s \in Seq(S), NEW k \in 1 .. Len(s)
  PROVE  s[k] \in S
OBVIOUS

\* The CQE that HandleCqe looks at belongs to an SQE that was prepared.
LEMMA HandlerIsPrepared ==
  ASSUME IInv, step = "handle", seen < batch
  PROVE  /\ seen + 1 \in 1 .. Len(cq)
         /\ cq[seen + 1].sqe \in 1 .. sq_head
         /\ cq[seen + 1].sqe \in 1 .. Len(prepared)
         /\ Handler \in Requests \cup {None}
<1>1. /\ cq \in Seq([sqe : 1 .. sq_head, buffer : BOOLEAN])
      /\ batch \in 0 .. Len(cq) /\ seen \in 0 .. batch /\ Len(cq) \in Nat
      /\ prepared \in Seq(Requests \cup {None}) /\ Len(prepared) \in Nat
      /\ sq_head \in Nat /\ sq_head <= published /\ published <= Len(prepared)
      /\ published \in Nat
  BY DEF IInv, RingInv, RingTypeOK, IndexInv
<1>2. seen + 1 \in 1 .. Len(cq)
  BY <1>1
<1>3. cq[seen + 1] \in [sqe : 1 .. sq_head, buffer : BOOLEAN]
  BY <1>1, <1>2, ElementTyped
<1>4. cq[seen + 1].sqe \in 1 .. sq_head
  BY <1>3
<1>5. cq[seen + 1].sqe \in 1 .. Len(prepared)
  BY <1>1, <1>4
<1>6. QED
  BY <1>1, <1>2, <1>4, <1>5 DEF Handler

\* Every step keeps ResolvedInv.
LEMMA ResolvedStep ==
  ASSUME IInv, ServiceInv, [Next]_vars
  PROVE  ResolvedInv'
<1>0. OrderInv /\ PreparedInv /\ ResolvedInv
  BY DEF ServiceInv
<1>1. \A r : Served(r) => Served(r)'
  BY <1>0, SinkSide, ServedGrows DEF IInv
<1>2. /\ SinkTypeOK /\ batch \in Nat
      /\ completing # None => step \in {"callback", "notify", "resolve"}
      /\ completing \in Requests \cup {None}
      /\ step \in {"callback", "notify", "resolve"} => completing # None
  BY DEF IInv, SinkInv, RingInv, RingTypeOK, ControlInv
<1>3. CASE Resolve
  <2>1. PICK r \in Requests : r = completing
    BY <1>2, <1>3 DEF Resolve
  <2>2. resolved' = resolved \cup {r} /\ completing' = None
    BY <1>3, <2>1 DEF Resolve
  <2>3. Served(r)'
    <3>1. CASE batch # 0
      BY <1>0, <1>1, <1>2, <2>1, <3>1, SinkAssumption DEF ResolvedInv
    <3>2. CASE batch = 0
      <4>1. r = hand /\ hand # None
        BY <1>0, <2>1, <3>2, SinkAssumption DEF ResolvedInv
      <4>2. LetsGo
        BY <1>3, <3>2 DEF Resolve, DrainConsumed, LetsGo
      <4>3. QED
        BY <1>0, <1>2, <4>1, <4>2, HandIsNext
    <3>3. QED
      BY <3>1, <3>2
  <2>4. QED
    BY <1>0, <1>1, <2>2, <2>3 DEF ResolvedInv
<1>4. ASSUME UNCHANGED resolved PROVE \A r \in resolved' : Served(r)'
  BY <1>0, <1>1, <1>4 DEF ResolvedInv
<1>5. CASE PrepareUnimplemented
  <2>1. /\ completing' = hand /\ hand' = hand /\ batch' = 0 /\ UNCHANGED resolved
        /\ ~ Served(hand)
    BY <1>0, <1>5, NewSqe DEF PrepareUnimplemented, cqVars, sinkAllVars, sinkVars
  <2>2. hand \notin resolved
    BY <1>0, <2>1 DEF ResolvedInv
  <2>3. QED
    BY <1>4, <2>1, <2>2 DEF ResolvedInv
<1>6. CASE HandleCqe
  <2>1. /\ completing = None /\ batch' = batch /\ batch # 0 /\ UNCHANGED resolved
        /\ seen < batch /\ step = "handle"
    BY <1>2, <1>6 DEF HandleCqe, IInv, RingInv, RingTypeOK
  <2>2. completing' = None \/ (completing' = Handler /\ Handler \in Requests \ resolved)
    BY <1>6, <2>1 DEF HandleCqe
  <2>3. CASE completing' = None
    BY <1>4, <2>1, <2>3 DEF ResolvedInv
  <2>4. CASE completing' = Handler /\ Handler \in Requests \ resolved
    <3>1. PICK r \in Requests \ resolved : r = Handler
      BY <2>4
    <3>2. Served(r)
      BY <1>0, <2>1, <3>1, HandlerIsPrepared, SinkAssumption DEF PreparedInv, Handler
    <3>3. QED
      BY <1>1, <1>4, <2>1, <2>4, <3>1, <3>2 DEF ResolvedInv
  <2>5. QED
    BY <2>2, <2>3, <2>4
<1>7. CASE UNCHANGED <<resolved, completing>> /\ completing # None
  <2>1. step \in {"callback", "notify", "resolve"}
    BY <1>2, <1>7
  <2>2. UNCHANGED batch
    BY <2>1, CompletionFrame DEF FetchBatch, AdvanceCq
  <2>3. UNCHANGED hand \/ Resolve
    BY <2>1, HandFrame DEF PopRequest, DrainPop, PrepareSqe, GetSqeGivesUp, IInv, RingInv,
                           ControlInv
  <2>4. CASE UNCHANGED hand
    BY <1>0, <1>1, <1>4, <1>7, <2>2, <2>4 DEF ResolvedInv
  <2>5. QED
    BY <1>3, <2>3, <2>4
<1>8. CASE UNCHANGED <<resolved, completing>> /\ completing = None
  BY <1>4, <1>8 DEF ResolvedInv
<1>9. QED
  BY <1>3, <1>5, <1>6, <1>7, <1>8, CompletionFrame
  DEF PrepareUnimplemented, HandleCqe

\* ServiceInv is an invariant of IoUring, whatever its parameters.
THEOREM ServiceInvariant == Safety => []ServiceInv
<1>1. Init => ServiceInv
  BY DEF Init, SinkInit, ServiceInv, OrderInv, PreparedInv, ResolvedInv, TakenCount
<1>2. IInv /\ ServiceInv /\ [Next]_vars => ServiceInv'
  <2>1. SUFFICES ASSUME IInv, ServiceInv, [Next]_vars PROVE ServiceInv'
    OBVIOUS
  <2>2. OrderInv'
    BY <2>1, SinkSide, OrderKept DEF IInv, ServiceInv
  <2>3. QED
    BY <2>1, <2>2, PreparedStep, ResolvedStep DEF ServiceInv
<1>3. QED
  BY <1>1, <1>2, RingInvariant, PTL DEF Safety

-----------------------------------------------------------------------------
(* The service.                                                             *)

\* Which actions move the queue, the futures and stop_: each is a step of the service.
LEMMA RingServes ==
  ASSUME IInv, ServiceInv, [Next]_vars
  PROVE  [Service!ServiceNext]_(Service!serviceVars)
<1> USE DEF Service!ServiceNext, Service!serviceVars
<1>1. SinkInv /\ SinkTypeOK /\ OrderInv /\ ResolvedInv
  BY DEF IInv, SinkInv, ServiceInv
<1>2. ASSUME NEW c \in Callers, NEW r \in Requests, EnqueueIoRequest(c, r), UNCHANGED resolved
      PROVE  Service!Accept(r)
  <2>1. Pushes(r) /\ UNCHANGED stop
    BY <1>2 DEF EnqueueIoRequest, Pushes
  <2>2. TakenCount' = TakenCount
    BY <1>1, <2>1, PushOrder
  <2>3. QED
    BY <1>2, <2>1, <2>2 DEF Service!Accept, Service!AcceptedSet, Pushes, Accepted
<1>3. CASE PopRequest
  <2>1. Pops /\ UNCHANGED <<accepted, stop, resolved>> /\ ~ stop
    BY <1>1, <1>3 DEF PopRequest, DrainPop, Pops, SinkInv, SinkControlInv
  <2>2. TakenCount' = TakenCount + 1 /\ TakenCount < Len(accepted)
    BY <1>1, <2>1, PopOrder
  <2>3. Service!Take
    BY <2>1, <2>2 DEF Service!Take
  <2>4. QED
    BY <2>3
<1>4. CASE Resolve
  <2>1. PICK r \in Requests : r = completing
    BY <1>4 DEF Resolve, IInv, RingInv, RingTypeOK, ControlInv
  <2>2. resolved' = resolved \cup {r} /\ r \notin resolved /\ r # None
    BY <1>1, <1>4, <2>1, SinkAssumption DEF Resolve, ResolvedInv
  <2>3. UNCHANGED <<pending_io, accepted, stop>>
    BY <1>4 DEF Resolve, DrainConsumed, sinkVars
  <2>4. \E k \in 1 .. TakenCount : accepted[k] = r
    <3>1. TakenCount \in 0 .. Len(accepted) /\ ServedCount \in {TakenCount, TakenCount - 1}
      BY <1>1, SinkSide, ServedGrows DEF ServedCount
    <3>2. CASE Served(r)
      BY <3>1, <3>2 DEF Served
    <3>3. CASE ~ Served(r)
      <4>1. r = hand
        BY <1>1, <2>1, <2>2, <3>3 DEF ResolvedInv
      <4>2. TakenCount > 0 /\ accepted[TakenCount] = r
        BY <1>1, <2>2, <4>1 DEF OrderInv
      <4>3. QED
        BY <3>1, <4>2
    <3>4. QED
      BY <3>2, <3>3
  <2>5. r \in Service!TakenSet \ resolved
    BY <2>2, <2>4 DEF Service!TakenSet
  <2>6. Service!Resolve(r)
    BY <2>2, <2>3, <2>5 DEF Service!Resolve, TakenCount
  <2>7. QED
    BY <2>6
<1>5. CASE StopSink
  <2>1. CASE Stop
    <3>1. UNCHANGED <<pending_io, accepted, resolved>> /\ stop' = TRUE
      BY <1>5, <2>1 DEF StopSink, Stop, ringVars
    <3>2. CASE ~ stop
      BY <3>1, <3>2 DEF Service!Close, TakenCount
    <3>3. CASE stop
      BY <1>1, <3>1, <3>3 DEF TakenCount, SinkTypeOK
    <3>4. QED
      BY <3>2, <3>3
  <2>2. CASE NotifyAll
    BY <1>5, <2>2 DEF StopSink, NotifyAll, ringVars, TakenCount
  <2>3. QED
    BY <1>5, <2>1, <2>2 DEF StopSink
<1>6. ASSUME UNCHANGED <<pending_io, accepted, stop, resolved>>
      PROVE  UNCHANGED Service!serviceVars
  BY <1>6 DEF TakenCount
<1>7. CASE CallbackSubmits
  <2>1. PICK r \in Requests : EnqueueIoRequest(Worker, r)
    BY <1>7 DEF CallbackSubmits
  <2>2. Service!Accept(r)
    BY <1>2, <1>7, <2>1, WorkerIsSome DEF CallbackSubmits
  <2>3. QED
    BY <2>2
<1>8. ASSUME NEW t \in Threads, Submits(t) PROVE [Service!ServiceNext]_(Service!serviceVars)
  <2>1. CASE NotifyOne(t)
    BY <1>6, <1>8, <2>1 DEF Submits, NotifyOne, ringVars
  <2>2. ASSUME NEW r \in Requests, EnqueueIoRequest(t, r) PROVE Service!Accept(r)
    BY <1>2, <1>8, <2>2 DEF Submits, ringVars, Callers
  <2>3. QED
    BY <1>8, <2>1, <2>2 DEF Submits
<1>9. CASE WorkerStep
  <2>1. \/ PopRequest \/ Resolve \/ CallbackSubmits
        \/ UNCHANGED <<pending_io, accepted, stop, resolved>>
    BY <1>9 DEF WorkerStep, Draining, DrainEnter, DrainCheck, DrainBlock, DrainWake, DrainLeave,
       AfterDrain, DrainReturn, GetSqeFull, PrepareSqe, DrainConsumed, PrepareUnimplemented,
       SubmitToKernel, SubmitBusy, SubmitToPoller, NothingToProcess, FetchBatch, HandleCqe,
       AdvanceCq, BackToLoop, GetSqeRetry, GetSqeGivesUp, CallbackNotifies, NotifyOne,
       CallbackReturns, sinkVars, sinkAllVars, ringVars
  <2>2. QED
    BY <1>3, <1>4, <1>6, <1>7, <2>1
<1>10. CASE KernelStep \/ WakesForNothing \/ StopConsumption \/ JoinAndExit \/ Ended
            \/ UNCHANGED vars
  BY <1>6, <1>10 DEF KernelStep, KernelPolls, KernelCompletes, WakesForNothing, SpuriousWake,
     StopConsumption, JoinAndExit, Ended, vars, sinkVars, sinkAllVars, ringVars
<1>11. QED
  BY <1>5, <1>8, <1>9, <1>10 DEF Next, DestructorStep

\* IoUring implements the service, its safety, whatever the ring size, the kernel and the
\* requests: requests are taken up in the order in which they were accepted, until ~IoUring
\* closes the sink; the future of a request gets its value once, and not before the request
\* was taken up.
THEOREM RingImplementsService == Safety => Service!ServiceSafety
<1>1. Init => Service!ServiceInit
  BY DEF Init, SinkInit, Service!ServiceInit, TakenCount
<1>2. IInv /\ ServiceInv /\ [Next]_vars => [Service!ServiceNext]_(Service!serviceVars)
  BY RingServes
<1>3. QED
  BY <1>1, <1>2, RingInvariant, ServiceInvariant, PTL DEF Safety, Service!ServiceSafety

-----------------------------------------------------------------------------
(* The order of the SQEs.                                                   *)

\* One request was accepted before another.
Before(q, r) ==
  \E k, l \in 1 .. Len(accepted) : k < l /\ accepted[k] = q /\ accepted[l] = r

SqesInOrder ==
  \A i, j \in 1 .. Len(prepared) :
    i < j /\ OwnSqe(i) /\ OwnSqe(j) => Before(prepared[i], prepared[j])

\* What was served was accepted before the request in hand.
LEMMA ServedBeforeHand ==
  ASSUME SinkTypeOK, OrderInv, hand # None, NEW q, Served(q)
  PROVE  Before(q, hand)
<1>1. /\ Len(accepted) \in Nat
      /\ TakenCount \in 1 .. Len(accepted) /\ accepted[TakenCount] = hand
      /\ ServedCount = TakenCount - 1
  BY DEF SinkTypeOK, OrderInv, TakenCount, ServedCount
<1>2. PICK k \in 1 .. ServedCount : accepted[k] = q
  BY DEF Served
<1>3. k \in 1 .. Len(accepted) /\ k < TakenCount
  BY <1>1, <1>2
<1>4. QED
  BY <1>1, <1>2, <1>3 DEF Before

\* Every step keeps the order of the SQEs.
LEMMA SqesInOrderKept ==
  ASSUME IInv, ServiceInv, SqesInOrder, [Next]_vars
  PROVE  SqesInOrder'
<1>0. OrderInv /\ PreparedInv /\ SinkTypeOK /\ RingTypeOK /\ Len(prepared) \in Nat
  BY DEF ServiceInv, IInv, SinkInv, RingInv, RingTypeOK
<1>1. ASSUME NEW q, NEW r, Before(q, r) PROVE Before(q, r)'
  <2>1. /\ Len(accepted) <= Len(accepted') /\ Len(accepted) \in Nat
        /\ Len(accepted') \in Nat
        /\ \A k \in 1 .. Len(accepted) : accepted'[k] = accepted[k]
    <3>1. Len(accepted') \in Nat
      BY RingTypeStep, SinkStep DEF IInv, SinkInv, SinkTypeOK
    <3>2. QED
      BY <1>0, <3>1, SinkSide, ServedGrows DEF IInv, Grows, SinkTypeOK
  <2>2. PICK k, l \in 1 .. Len(accepted) : k < l /\ accepted[k] = q /\ accepted[l] = r
    BY <1>1 DEF Before
  <2>3. k \in 1 .. Len(accepted') /\ l \in 1 .. Len(accepted')
    BY <2>1, <2>2
  <2>4. QED
    BY <2>1, <2>2, <2>3 DEF Before
<1>2. ASSUME NEW e, Len(prepared') = Len(prepared) + 1,
             \A i \in 1 .. Len(prepared) : prepared'[i] = prepared[i],
             prepared'[Len(prepared) + 1] = e,
             \/ e = None \/ \E i \in 1 .. Len(prepared) : e = prepared[i]
             \/ e = hand /\ hand # None
      PROVE  SqesInOrder'
  <2>1. \A i \in 1 .. Len(prepared) : OwnSqe(i)' => OwnSqe(i)
    BY <1>0, <1>2 DEF OwnSqe
  <2>2. ASSUME NEW i \in 1 .. Len(prepared'), NEW j \in 1 .. Len(prepared'), i < j,
               OwnSqe(i)', OwnSqe(j)'
        PROVE  Before(prepared[i], prepared[j])'
    <3>1. i \in 1 .. Len(prepared) /\ prepared'[i] = prepared[i] /\ OwnSqe(i)
      BY <1>0, <1>2, <2>1, <2>2
    <3>2. CASE j \in 1 .. Len(prepared)
      <4>1. OwnSqe(j) /\ prepared'[j] = prepared[j]
        BY <1>2, <2>1, <2>2, <3>2
      <4>2. \A q, r : q = prepared[i] /\ r = prepared[j] => Before(q, r)'
        BY <1>1, <2>2, <3>1, <3>2, <4>1 DEF SqesInOrder
      <4>3. QED
        BY <3>1, <4>1, <4>2 DEF Before
    <3>3. CASE j = Len(prepared) + 1
      <4>1. prepared'[j] = hand /\ hand # None
        BY <1>0, <1>2, <2>2, <3>3 DEF OwnSqe
      <4>2. Served(prepared[i])
        BY <1>0, <3>1 DEF PreparedInv, OwnSqe
      <4>3. \A q, r : q = prepared[i] /\ r = hand => Before(q, r)'
        BY <1>0, <1>1, <4>1, <4>2, ServedBeforeHand
      <4>4. QED
        BY <3>1, <4>1, <4>3 DEF Before
    <3>4. QED
      BY <1>0, <1>2, <3>2, <3>3
  <2>3. QED
    BY <2>2 DEF SqesInOrder
<1>3. CASE PrepareSqe
  <2>1. hand \in Requests /\ prepared' = Append(prepared, hand)
    BY <1>0, <1>3, NewSqe
  <2>2. QED
    BY <1>0, <1>2, <2>1, PreparedGrows, SinkAssumption
<1>4. CASE PrepareUnimplemented
  <2>1. PICK e \in Requests \cup {None} : e = StaleUserData /\ prepared' = Append(prepared, e)
    BY <1>0, <1>4, NewSqe
  <2>2. QED
    BY <1>0, <1>2, <2>1, PreparedGrows, StaleIsOlder
<1>5. CASE UNCHANGED prepared
  <2>1. ASSUME NEW i \in 1 .. Len(prepared), NEW j \in 1 .. Len(prepared), i < j,
               OwnSqe(i), OwnSqe(j)
        PROVE  Before(prepared[i], prepared[j])'
    <3>1. \A q, r : q = prepared[i] /\ r = prepared[j] => Before(q, r)'
      BY <1>1, <2>1 DEF SqesInOrder
    <3>2. QED
      BY <1>5, <3>1 DEF Before
  <2>2. QED
    BY <1>5, <2>1 DEF SqesInOrder, OwnSqe
<1>6. QED
  BY <1>3, <1>4, <1>5, SqeFrame

\* The SQEs of the requests are in the order in which the requests were accepted, for every
\* kernel and however often GetSqe gives up.
THEOREM SqesAreInOrder == Safety => []SubmissionInOrder
<1>1. Init => SqesInOrder
  BY DEF Init, SqesInOrder
<1>2. IInv /\ ServiceInv /\ SqesInOrder /\ [Next]_vars => SqesInOrder'
  BY SqesInOrderKept
<1>3. ServiceInv /\ SqesInOrder => SubmissionInOrder
  <2>1. SUFFICES ASSUME OrderInv, SqesInOrder, NEW i \in 1 .. Len(prepared),
                        NEW j \in 1 .. Len(prepared), i < j, OwnSqe(i), OwnSqe(j)
                 PROVE  Position(prepared[i]) < Position(prepared[j])
    BY DEF ServiceInv, SubmissionInOrder
  <2>2. PICK k, l \in 1 .. Len(accepted) :
          k < l /\ accepted[k] = prepared[i] /\ accepted[l] = prepared[j]
    BY <2>1 DEF SqesInOrder, Before
  <2>3. \A m \in 1 .. Len(accepted) : Position(accepted[m]) = m
    BY <2>1 DEF OrderInv, Position
  <2>4. QED
    BY <2>2, <2>3
<1>4. QED
  BY <1>1, <1>2, <1>3, RingInvariant, ServiceInvariant, PTL DEF Safety

-----------------------------------------------------------------------------
(* Chains of linked requests, and SQEs that nobody submits.                 *)

\* linked_sqe_ belongs to the last SQE; the loop submits only when it is not set.
LastIsLinked ==
  prepared # <<>> /\ OwnSqe(Len(prepared)) =>
    (linked_sqe <=> prepared[Len(prepared)] \in Linked)

LinkInv ==
  /\ LastIsLinked
  /\ step = "submit" /\ drainer # "consume" => ~ linked_sqe

\* Who submits what was prepared and not yet published.
StrandInv ==
  \/ published = Len(prepared)
  \/ linked_sqe
  \/ step \in {"submit", "exit"}
  \/ drainer \in {"loop", "consume", "unlocked"} /\ drained > 0
  \/ drainer = "consume" /\ completing # None /\ batch = 0

\* Which actions publish SQEs, get to the step that does, or leave it.
LEMMA SubmitFrame ==
  ASSUME [Next]_vars
  PROVE  /\ step = "submit" \/ UNCHANGED published
         /\ AfterDrain \/ GetSqeFull \/ step' # "submit" \/ UNCHANGED <<step, drainer>>
<1> USE DEF sqVars, sinkAllVars, sinkVars, ringVars, Goto
<1>1. CASE WorkerStep
  BY <1>1 DEF WorkerStep, Draining, DrainEnter, DrainCheck, DrainBlock, DrainWake, DrainLeave,
     PopRequest, AfterDrain, GetSqeFull, PrepareSqe, PrepareUnimplemented, SubmitToKernel,
     SubmitBusy, SubmitToPoller, NothingToProcess, FetchBatch, HandleCqe, AdvanceCq, BackToLoop,
     GetSqeRetry, GetSqeGivesUp, CallbackSubmits, CallbackNotifies, CallbackReturns, Resolve
<1>2. CASE KernelStep
  BY <1>2 DEF KernelStep, KernelPolls, KernelCompletes
<1>3. CASE WakesForNothing \/ (\E t \in Threads : Submits(t)) \/ DestructorStep \/ Ended
           \/ UNCHANGED vars
  BY <1>3 DEF WakesForNothing, SpuriousWake, Submits, EnqueueIoRequest, NotifyOne, DestructorStep,
              StopSink, Stop, NotifyAll, StopConsumption, JoinAndExit, Ended, vars
<1>4. QED
  BY <1>1, <1>2, <1>3 DEF Next

\* Every step keeps LinkInv.
LEMMA LinkStep ==
  ASSUME IInv, ServiceInv, LinkInv, [Next]_vars
  PROVE  LinkInv'
<1>1. /\ OrderInv /\ SinkTypeOK /\ RingTypeOK /\ Len(prepared) \in Nat /\ ControlInv
      /\ SinkControlInv
  BY DEF ServiceInv, IInv, SinkInv, RingInv, RingTypeOK
<1>2. LastIsLinked'
  <2>1. CASE PrepareSqe
    <3>1. hand \in Requests /\ prepared' = Append(prepared, hand)
      BY <1>1, <2>1, NewSqe
    <3>2. prepared'[Len(prepared')] = hand
      BY <1>1, <3>1, PreparedGrows
    <3>3. linked_sqe' = (hand \in Linked)
      BY <2>1 DEF PrepareSqe
    <3>4. QED
      BY <3>2, <3>3 DEF LastIsLinked
  <2>2. CASE PrepareUnimplemented
    <3>1. PICK e \in Requests \cup {None} : e = StaleUserData /\ prepared' = Append(prepared, e)
      BY <1>1, <2>2, NewSqe
    <3>2. /\ Len(prepared') = Len(prepared) + 1
          /\ \A i \in 1 .. Len(prepared) : prepared'[i] = prepared[i]
          /\ prepared'[Len(prepared) + 1] = e
          /\ e = None \/ \E i \in 1 .. Len(prepared) : e = prepared[i]
      BY <1>1, <3>1, PreparedGrows, StaleIsOlder
    <3>3. ~ OwnSqe(Len(prepared))'
      BY <1>1, <3>2 DEF OwnSqe
    <3>4. QED
      BY <3>3 DEF LastIsLinked
  <2>3. CASE UNCHANGED <<prepared, linked_sqe>>
    BY <2>3 DEF LinkInv, LastIsLinked, OwnSqe
  <2>4. QED
    BY <2>1, <2>2, <2>3, SqeFrame
<1>3. step' = "submit" /\ drainer' # "consume" => ~ linked_sqe'
  <2>1. CASE AfterDrain
    BY <2>1 DEF AfterDrain, Goto
  <2>2. CASE GetSqeFull
    BY <1>1, <2>2 DEF GetSqeFull, sinkAllVars, sinkVars, ControlInv
  <2>3. CASE UNCHANGED <<step, drainer>> /\ step' = "submit"
    BY <2>3, SqeFrame DEF PrepareSqe, LinkInv
  <2>4. QED
    BY <2>1, <2>2, <2>3, SubmitFrame
<1>4. QED
  BY <1>2, <1>3 DEF LinkInv

\* LinkInv is an invariant.
LEMMA LinkInvariant == Safety => []LinkInv
<1>1. Init => LinkInv
  BY DEF Init, LinkInv, LastIsLinked
<1>2. IInv /\ ServiceInv /\ LinkInv /\ [Next]_vars => LinkInv'
  BY LinkStep
<1>3. QED
  BY <1>1, <1>2, RingInvariant, ServiceInvariant, PTL DEF Safety

\* A chain of linked requests goes to the kernel in one io_uring_submit, unless GetSqe has to
\* make room inside Drain, whatever the requests and the ring.
THEOREM ChainsStayWhole == Safety => ChainCutOnlyWhenFull
<1>1. IInv /\ LinkInv /\ [Next]_vars
        => [published' # published /\ ChainOpen => drainer = "consume"]_vars
  BY SubmitFrame DEF LinkInv, LastIsLinked, ChainOpen
<1>2. QED
  BY <1>1, RingInvariant, LinkInvariant, PTL DEF Safety, ChainCutOnlyWhenFull

\* Every step keeps StrandInv.
LEMMA StrandStep ==
  ASSUME IInv, StrandInv, [Next]_vars
  PROVE  StrandInv'
<1> USE DEF StrandInv, Goto
<1>1. /\ ControlInv /\ SinkControlInv /\ IndexInv
      /\ drained \in {Closed} \cup Nat /\ batch \in Nat
      /\ Closed < 0
      /\ step = "resolve" => completing # None
  BY DEF IInv, SinkInv, RingInv, RingTypeOK, SinkTypeOK, ControlInv, Closed
<1>2. ASSUME UNCHANGED <<published, prepared, linked_sqe, step, drainer, drained, completing,
                         batch>>
      PROVE  StrandInv'
  BY <1>2
<1>3. CASE Draining
  <2>1. step = "drain" /\ drainer # "consume" /\ UNCHANGED ringVars
    BY <1>1, <1>3 DEF Draining, ControlInv
  <2>2. published = Len(prepared) \/ linked_sqe \/ (drainer \in {"loop", "unlocked"} /\ drained > 0)
    BY <2>1
  <2>3. CASE published = Len(prepared) \/ linked_sqe
    BY <2>1, <2>3 DEF ringVars
  <2>4. CASE drainer \in {"loop", "unlocked"} /\ drained > 0
    <3>1. drainer' = "unlocked" /\ drained' = drained
      BY <1>3, <2>4 DEF Draining, DrainEnter, DrainCheck, DrainBlock, DrainWake, DrainLeave
    <3>2. QED
      BY <2>4, <3>1
  <2>5. QED
    BY <2>2, <2>3, <2>4
<1>4. CASE PopRequest
  BY <1>1, <1>4 DEF PopRequest, DrainPop, sqVars, SinkControlInv, ControlInv
<1>5. CASE AfterDrain
  <2>1. /\ drainer = "unlocked" /\ step = "drain" /\ UNCHANGED <<published, prepared, linked_sqe>>
        /\ drained' \in {Closed, drained}
    BY <1>1, <1>5 DEF AfterDrain, DrainReturn, sqVars, ControlInv
  <2>2. published = Len(prepared) \/ linked_sqe \/ drained > 0
    BY <2>1
  <2>3. CASE drained > 0 /\ ~ linked_sqe
    <3>1. step' \in {"submit", "exit"}
      BY <1>5, <2>1, <2>3 DEF AfterDrain
    <3>2. QED
      BY <3>1
  <2>4. QED
    BY <2>1, <2>2, <2>3
<1>6. CASE PrepareSqe
  <2>1. drained \in Nat /\ drained' = drained + 1 /\ drainer' \in {"loop", "unlocked"}
    BY <1>1, <1>6 DEF PrepareSqe, DrainConsumed, SinkControlInv, ControlInv
  <2>2. QED
    BY <2>1
<1>7. CASE PrepareUnimplemented
  <2>1. /\ drainer' = "consume" /\ completing' = hand /\ hand # None /\ batch' = 0
    BY <1>1, <1>7 DEF PrepareUnimplemented, ControlInv, SinkControlInv, IndexInv, sinkAllVars,
                      sinkVars, cqVars
  <2>2. QED
    BY <2>1
<1>8. CASE GetSqeFull
  BY <1>8 DEF GetSqeFull
<1>9. CASE (\E n \in 0 .. Unconsumed : SubmitToKernel(n)) \/ SubmitBusy \/ SubmitToPoller
  BY <1>9 DEF SubmitToKernel, SubmitBusy, SubmitToPoller
<1>10. CASE NothingToProcess \/ FetchBatch \/ AdvanceCq \/ BackToLoop \/ GetSqeRetry
  <2>1. step \notin {"submit", "exit"} /\ completing = None
    BY <1>1, <1>10 DEF NothingToProcess, FetchBatch, AdvanceCq, BackToLoop, GetSqeRetry, ControlInv
  <2>2. UNCHANGED <<published, prepared, linked_sqe, drainer, drained>>
    BY <1>10 DEF NothingToProcess, FetchBatch, AdvanceCq, BackToLoop, GetSqeRetry, sinkAllVars,
                 sinkVars, sqVars
  <2>3. QED
    BY <2>1, <2>2
<1>11. CASE HandleCqe
  <2>1. step = "handle" /\ completing = None
    BY <1>1, <1>11 DEF HandleCqe, ControlInv
  <2>2. UNCHANGED <<published, prepared, linked_sqe, drainer, drained>>
    BY <1>11 DEF HandleCqe, sinkVars, sqVars
  <2>3. QED
    BY <2>1, <2>2
<1>12. CASE GetSqeGivesUp
  <2>1. /\ step = "processed" /\ completing = None /\ drained' = drained
        /\ drainer' = "unlocked" /\ UNCHANGED <<published, prepared, linked_sqe>>
    <3>1. drained \in Nat
      BY <1>1, <1>12 DEF GetSqeGivesUp, SinkControlInv
    <3>2. QED
      BY <1>1, <1>12, <3>1 DEF GetSqeGivesUp, DrainConsumed, ControlInv, sqVars
  <2>2. QED
    BY <2>1
<1>13. CASE CallbackSubmits \/ CallbackNotifies \/ CallbackReturns
  <2>1. /\ step \in {"callback", "notify"}
        /\ UNCHANGED <<published, prepared, linked_sqe, drainer, drained, completing, batch>>
    BY <1>13 DEF CallbackSubmits, CallbackNotifies, CallbackReturns, EnqueueIoRequest, NotifyOne,
                 sinkAllVars, sinkVars, sqVars, cqVars
  <2>2. QED
    BY <2>1
<1>14. CASE Resolve
  <2>1. step = "resolve" /\ UNCHANGED <<published, prepared, linked_sqe>>
    BY <1>14 DEF Resolve, sqVars
  <2>2. CASE batch > 0 /\ UNCHANGED sinkVars
    BY <2>1, <2>2 DEF sinkVars
  <2>3. CASE batch = 0 /\ DrainConsumed(TRUE)
    <3>1. drained \in Nat /\ drained' = drained + 1 /\ drainer' \in {"loop", "unlocked"}
      BY <1>1, <2>3 DEF DrainConsumed, SinkControlInv
    <3>2. QED
      BY <3>1
  <2>4. QED
    BY <1>14, <2>2, <2>3 DEF Resolve
<1>15. CASE KernelStep \/ StopConsumption \/ JoinAndExit
  BY <1>2, <1>15 DEF KernelStep, KernelPolls, KernelCompletes, StopConsumption, JoinAndExit,
                     sinkAllVars, sinkVars, sqVars, cqVars
<1>16. CASE WakesForNothing \/ (\E t \in Threads : Submits(t)) \/ StopSink
  BY <1>2, <1>16 DEF WakesForNothing, SpuriousWake, Submits, EnqueueIoRequest, NotifyOne, StopSink,
                     Stop, NotifyAll, ringVars
<1>17. CASE Ended \/ UNCHANGED vars
  BY <1>2, <1>17 DEF Ended, vars, sinkAllVars, sinkVars, ringVars
<1>18. QED
  BY <1>3, <1>4, <1>5, <1>6, <1>7, <1>8, <1>9, <1>10, <1>11, <1>12, <1>13, <1>14, <1>15, <1>16,
     <1>17 DEF Next, WorkerStep, DestructorStep

\* A worker in the wait set has published every SQE it prepared, unless the last one is linked
\* to a request that has not come.  (It is so for every kernel; one that does not take all it
\* is given may still have SQEs to consume.)
THEOREM NothingIsStranded == Safety => []NothingStranded
<1>1. Init => StrandInv
  BY DEF Init, StrandInv
<1>2. IInv /\ StrandInv /\ [Next]_vars => StrandInv'
  BY StrandStep
<1>3. IInv /\ StrandInv => NothingStranded
  BY DEF IInv, SinkInv, SinkControlInv, RingInv, ControlInv, StrandInv, NothingStranded
<1>4. QED
  BY <1>1, <1>2, <1>3, RingInvariant, PTL DEF Safety

-----------------------------------------------------------------------------
(* The default configuration.                                               *)

\* The ring holds what one Drain prepares, no links, opcodes with a case, and a kernel that
\* takes all it is given.
DefaultConfiguration ==
  /\ MaxDrain <= SqSize
  /\ Linked = {}
  /\ Unimplemented = {}
  /\ Kernels = {"all"}

\* The SQEs that wait are those of this Drain.
UnlockedInv ==
  /\ kernel = "all" /\ ~ linked_sqe
  /\ drainer \in {"check", "block", "asleep"} => Unconsumed = 0
  /\ drainer \in {"loop", "consume", "unlocked"} => Unconsumed = drained
  /\ drainer = "consume" => step = "get_sqe"
  /\ drainer = "outside" /\ step \notin {"submit", "exit"} => Unconsumed = 0

\* Every step keeps UnlockedInv, in the default configuration.
LEMMA UnlockedStep ==
  ASSUME DefaultConfiguration, IInv, UnlockedInv, [Next]_vars
  PROVE  UnlockedInv'
<1> USE DEF UnlockedInv, Goto
<1>0. kernel' = "all" /\ ~ linked_sqe'
  <2>1. PrepareSqe => ~ linked_sqe'
    BY DEF PrepareSqe, DefaultConfiguration
  <2>2. UNCHANGED linked_sqe => ~ linked_sqe'
    OBVIOUS
  <2>3. QED
    BY <2>1, <2>2, SqeFrame
<1>1. /\ ControlInv /\ SinkControlInv
      /\ Len(prepared) \in Nat /\ sq_head \in Nat /\ MaxDrain \in Nat /\ SqSize \in Nat
      /\ MaxDrain <= SqSize /\ hand \notin Unimplemented
      /\ drained \in {Closed} \cup Nat /\ Closed < 0
  BY SinkAssumption, RingAssumption
  DEF IInv, SinkInv, RingInv, RingTypeOK, SinkTypeOK, DefaultConfiguration, Closed
<1>2. Unconsumed \in Int
  BY <1>1 DEF Unconsumed
<1>3. ASSUME UNCHANGED <<prepared, sq_head, step, drainer, drained>> PROVE UnlockedInv'
  BY <1>0, <1>3 DEF Unconsumed
<1>4. CASE Draining
  <2>1. Unconsumed' = Unconsumed /\ step' = "drain" /\ step = "drain"
    BY <1>4 DEF Draining, Unconsumed, ringVars
  <2>2. QED
    BY <1>0, <1>1, <1>4, <2>1 DEF Draining, DrainEnter, DrainCheck, DrainBlock, DrainWake,
                                  DrainLeave, SinkControlInv
<1>5. CASE PopRequest
  <2>1. Unconsumed' = Unconsumed
    BY <1>5 DEF PopRequest, Unconsumed, sqVars
  <2>2. QED
    BY <1>0, <1>5, <2>1 DEF PopRequest, DrainPop
<1>6. CASE AfterDrain
  <2>1. /\ Unconsumed' = Unconsumed /\ Unconsumed = drained /\ drainer' = "outside"
        /\ drained \in Nat /\ drained' \in {Closed, drained}
    BY <1>1, <1>6 DEF AfterDrain, DrainReturn, Unconsumed, sqVars, SinkControlInv
  <2>2. drained' = drained /\ drained > 0 => step' = "submit"
    BY <1>6 DEF AfterDrain
  <2>3. drained' = Closed => step' = "exit"
    BY <1>1, <1>6 DEF AfterDrain, Closed
  <2>4. Unconsumed' = 0 \/ step' \in {"submit", "exit"}
    BY <2>1, <2>2, <2>3
  <2>5. QED
    BY <1>0, <2>1, <2>4
<1>7. CASE PrepareSqe
  <2>1. drained \in Nat /\ drained' = drained + 1 /\ drainer' \in {"loop", "unlocked"}
    BY <1>1, <1>7 DEF PrepareSqe, DrainConsumed, SinkControlInv, ControlInv
  <2>2. Unconsumed = drained
    BY <1>1, <1>7 DEF PrepareSqe, ControlInv
  <2>3. Len(prepared') = Len(prepared) + 1 /\ sq_head' = sq_head
    BY <1>1, <1>7 DEF PrepareSqe, IInv, RingInv, RingTypeOK
  <2>4. Unconsumed' = Unconsumed + 1
    BY <1>1, <2>3 DEF Unconsumed
  <2>5. QED
    BY <1>0, <2>1, <2>2, <2>4
<1>8. ~ PrepareUnimplemented /\ ~ GetSqeFull
  <2>1. step = "get_sqe" => Unconsumed < SqSize
    BY <1>1, <1>2 DEF ControlInv, SinkControlInv
  <2>2. QED
    BY <1>1, <1>2, <2>1 DEF PrepareUnimplemented, GetSqeFull, RingFull
<1>9. ASSUME NEW n \in 0 .. Unconsumed, SubmitToKernel(n) PROVE UnlockedInv'
  <2>1. /\ n = Unconsumed /\ sq_head' = sq_head + n /\ UNCHANGED <<prepared, drainer, drained>>
        /\ step = "submit" /\ step' = "process"
    BY <1>9 DEF SubmitToKernel, ConsumedBy, sinkVars
  <2>2. Unconsumed' = 0
    BY <1>1, <2>1 DEF Unconsumed
  <2>3. drainer' = "outside"
    BY <1>1, <2>1 DEF ControlInv
  <2>4. QED
    BY <1>0, <2>2, <2>3
<1>10. ~ SubmitBusy /\ ~ SubmitToPoller /\ ~ KernelPolls
  BY DEF SubmitBusy, SubmitToPoller, KernelPolls
<1>11. CASE NothingToProcess \/ FetchBatch \/ AdvanceCq \/ BackToLoop \/ HandleCqe
  <2>1. /\ UNCHANGED <<prepared, sq_head, drainer, drained>>
        /\ step \in {"process", "handle", "processed"}
    BY <1>11 DEF NothingToProcess, FetchBatch, AdvanceCq, BackToLoop, HandleCqe, sinkAllVars,
                 sinkVars, sqVars
  <2>2. drainer = "outside"
    BY <1>1, <2>1 DEF ControlInv
  <2>3. QED
    BY <1>0, <2>1, <2>2 DEF Unconsumed
<1>12. ~ GetSqeRetry /\ ~ GetSqeGivesUp
  BY DEF GetSqeRetry, GetSqeGivesUp
<1>13. CASE CallbackSubmits \/ CallbackNotifies \/ CallbackReturns
  <2>1. /\ UNCHANGED <<prepared, sq_head, drainer, drained>>
        /\ step \in {"callback", "notify"}
    BY <1>13 DEF CallbackSubmits, CallbackNotifies, CallbackReturns, EnqueueIoRequest, NotifyOne,
                 sinkAllVars, sinkVars, sqVars
  <2>2. drainer = "outside"
    BY <1>1, <2>1 DEF ControlInv
  <2>3. QED
    BY <1>0, <2>1, <2>2 DEF Unconsumed
<1>14. CASE Resolve
  <2>1. step = "resolve" /\ UNCHANGED <<prepared, sq_head>>
    BY <1>14 DEF Resolve, sqVars
  <2>2. drainer = "outside"
    BY <1>1, <2>1 DEF ControlInv
  <2>3. UNCHANGED drainer
    BY <1>14, <2>2 DEF Resolve, DrainConsumed, sinkVars
  <2>4. QED
    BY <1>0, <2>1, <2>2, <2>3 DEF Unconsumed
<1>15. CASE StopConsumption \/ JoinAndExit \/ (\E i \in in_kernel : KernelCompletes(i))
  BY <1>3, <1>15 DEF KernelCompletes, StopConsumption, JoinAndExit, sinkAllVars, sinkVars, sqVars
<1>16. CASE WakesForNothing \/ (\E t \in Threads : Submits(t)) \/ StopSink
  BY <1>3, <1>16 DEF WakesForNothing, SpuriousWake, Submits, EnqueueIoRequest, NotifyOne, StopSink,
                     Stop, NotifyAll, ringVars
<1>17. CASE Ended \/ UNCHANGED vars
  BY <1>3, <1>17 DEF Ended, vars, sinkAllVars, sinkVars, ringVars
<1>18. QED
  BY <1>4, <1>5, <1>6, <1>7, <1>8, <1>9, <1>10, <1>11, <1>12, <1>13, <1>14, <1>15, <1>16, <1>17
     DEF Next, WorkerStep, KernelStep, DestructorStep

\* In the default configuration no callback runs with the mutex of the sink held, so that a
\* callback may make a request: GetSqe never finds the ring full.
THEOREM CallbacksAreUnlocked == DefaultConfiguration /\ Safety => []CallbacksRunUnlocked
<1>1. DefaultConfiguration /\ Init => UnlockedInv
  BY DEF DefaultConfiguration, Init, SinkInit, UnlockedInv, Unconsumed
<1>2. DefaultConfiguration /\ IInv /\ UnlockedInv /\ [Next]_vars => UnlockedInv'
  BY UnlockedStep
<1>3. IInv /\ UnlockedInv => CallbacksRunUnlocked
  BY DEF IInv, SinkInv, SinkControlInv, RingInv, ControlInv, UnlockedInv, CallbacksRunUnlocked
<1>4. SUFFICES ASSUME DefaultConfiguration PROVE Safety => []CallbacksRunUnlocked
  OBVIOUS
<1>5. QED
  BY <1>1, <1>2, <1>3, <1>4, RingInvariant, PTL DEF Safety

-----------------------------------------------------------------------------
(* From an SQE to its CQE.                                                  *)

\* SQE i has a CQE that HandleCqe has not seen; the kernel and HandleCqe are done with i.
Due(i) == \E k \in (seen + 1) .. Len(cq) : cq[k].sqe = i

Gone(i) == i \in 1 .. sq_head /\ i \notin in_kernel /\ ~ Due(i)

\* An SQE has one CQE, and only when the kernel is done with it.
CqesOnce ==
  /\ \A k, l \in 1 .. Len(cq) : cq[k].sqe = cq[l].sqe => k = l
  /\ \A k \in 1 .. Len(cq) : cq[k].sqe \notin in_kernel

\* Which actions move the completion ring, and which give SQEs to the kernel.
LEMMA CqFrame ==
  ASSUME [Next]_vars
  PROVE  \/ \E i \in in_kernel : KernelCompletes(i)
         \/ UNCHANGED <<sq_head, in_kernel>> /\ (HandleCqe \/ AdvanceCq)
         \/ UNCHANGED <<cq, seen, sq_head, in_kernel>>
         \/ /\ UNCHANGED <<cq, seen>>
            /\ (\E n \in 0 .. Unconsumed : SubmitToKernel(n)) \/ KernelPolls
<1> USE DEF sqVars, cqVars, ringVars
<1>1. CASE WorkerStep
  BY <1>1 DEF WorkerStep, Draining, PopRequest, AfterDrain, GetSqeFull, PrepareSqe,
     PrepareUnimplemented, SubmitToKernel, SubmitBusy, SubmitToPoller, NothingToProcess,
     FetchBatch, HandleCqe, AdvanceCq, BackToLoop, GetSqeRetry, GetSqeGivesUp, CallbackSubmits,
     CallbackNotifies, CallbackReturns, Resolve
<1>2. CASE KernelStep
  BY <1>2 DEF KernelStep, KernelPolls
<1>3. CASE WakesForNothing \/ (\E t \in Threads : Submits(t)) \/ DestructorStep \/ Ended
           \/ UNCHANGED vars
  BY <1>3 DEF WakesForNothing, Submits, DestructorStep, StopSink, StopConsumption, JoinAndExit,
              Ended, vars
<1>4. QED
  BY <1>1, <1>2, <1>3 DEF Next

\* The completion ring as numbers of SQEs.
LEMMA CqTypes ==
  ASSUME IInv
  PROVE  /\ cq \in Seq([sqe : 1 .. sq_head, buffer : BOOLEAN]) /\ Len(cq) \in Nat
         /\ batch \in 0 .. Len(cq) /\ seen \in 0 .. batch
         /\ sq_head \in Nat /\ in_kernel \subseteq 1 .. sq_head
         /\ \A k \in 1 .. Len(cq) : cq[k].sqe \in 1 .. sq_head
<1>1. /\ cq \in Seq([sqe : 1 .. sq_head, buffer : BOOLEAN]) /\ Len(cq) \in Nat
      /\ batch \in 0 .. Len(cq) /\ seen \in 0 .. batch
      /\ sq_head \in Nat /\ in_kernel \subseteq 1 .. sq_head
  BY DEF IInv, RingInv, RingTypeOK
<1>2. ASSUME NEW k \in 1 .. Len(cq) PROVE cq[k].sqe \in 1 .. sq_head
  <2>1. cq[k] \in [sqe : 1 .. sq_head, buffer : BOOLEAN]
    BY <1>1, ElementTyped
  <2>2. QED
    BY <2>1
<1>3. QED
  BY <1>1, <1>2

\* The new CQE is the last.
LEMMA CqGrows ==
  ASSUME IInv, NEW j \in in_kernel, KernelCompletes(j)
  PROVE  /\ Len(cq') = Len(cq) + 1
         /\ \A k \in 1 .. Len(cq) : cq'[k] = cq[k]
         /\ cq'[Len(cq) + 1].sqe = j
         /\ in_kernel' = in_kernel \ {j}
         /\ UNCHANGED <<seen, sq_head>>
<1>1. PICK b \in BOOLEAN : cq' = Append(cq, [sqe |-> j, buffer |-> b])
  BY DEF KernelCompletes
<1>2. cq \in Seq([sqe : 1 .. sq_head, buffer : BOOLEAN]) /\ j \in 1 .. sq_head
  BY CqTypes
<1>3. PICK e \in [sqe : 1 .. sq_head, buffer : BOOLEAN] : e = [sqe |-> j, buffer |-> b]
  BY <1>2
<1>4. Len(cq') = Len(cq) + 1 /\ (\A k \in 1 .. Len(cq) : cq'[k] = cq[k])
      /\ cq'[Len(cq) + 1] = e
  BY <1>1, <1>2, <1>3
<1>5. QED
  BY <1>3, <1>4 DEF KernelCompletes, sqVars

\* What is left of the ring behind the batch.
LEMMA CqShrinks ==
  ASSUME IInv, AdvanceCq
  PROVE  /\ seen = batch /\ seen' = 0
         /\ Len(cq') = Len(cq) - seen
         /\ \A k \in 1 .. Len(cq') : cq'[k] = cq[seen + k]
<1>1. /\ cq \in Seq([sqe : 1 .. sq_head, buffer : BOOLEAN]) /\ seen \in 0 .. Len(cq)
      /\ cq' = SubSeq(cq, seen + 1, Len(cq)) /\ seen = batch /\ seen' = 0
  BY CqTypes DEF AdvanceCq
<1>2. QED
  BY <1>1

\* Every step keeps CqesOnce.
LEMMA CqesOnceStep ==
  ASSUME IInv, CqesOnce, [Next]_vars
  PROVE  CqesOnce'
<1>0. /\ Len(cq) \in Nat /\ batch \in 0 .. Len(cq) /\ seen \in 0 .. batch /\ sq_head \in Nat
      /\ \A k \in 1 .. Len(cq) : cq[k].sqe \in 1 .. sq_head
  BY CqTypes
<1>1. ASSUME NEW j \in in_kernel, KernelCompletes(j) PROVE CqesOnce'
  <2>0. /\ Len(cq') = Len(cq) + 1
        /\ \A k \in 1 .. Len(cq) : cq'[k] = cq[k]
        /\ cq'[Len(cq) + 1].sqe = j
        /\ in_kernel' = in_kernel \ {j}
        /\ UNCHANGED <<seen, sq_head>>
    BY <1>1, CqGrows
  <2>1. \A k \in 1 .. Len(cq) : cq[k].sqe # j
    BY DEF CqesOnce
  <2>2. \A k \in 1 .. Len(cq') : k \in 1 .. Len(cq) \/ k = Len(cq) + 1
    BY <1>0, <2>0
  <2>3. \A k \in 1 .. Len(cq') : cq'[k].sqe \notin in_kernel'
    BY <2>0, <2>2 DEF CqesOnce
  <2>4. ASSUME NEW k \in 1 .. Len(cq'), NEW l \in 1 .. Len(cq'), cq'[k].sqe = cq'[l].sqe
        PROVE  k = l
    BY <2>0, <2>1, <2>2, <2>4 DEF CqesOnce
  <2>5. QED
    BY <2>3, <2>4 DEF CqesOnce
<1>2. CASE AdvanceCq /\ UNCHANGED in_kernel
  <2>1. /\ Len(cq') = Len(cq) - seen
        /\ \A k \in 1 .. Len(cq') : cq'[k] = cq[seen + k] /\ seen + k \in 1 .. Len(cq)
    BY <1>0, <1>2, CqShrinks
  <2>2. ASSUME NEW k \in 1 .. Len(cq'), NEW l \in 1 .. Len(cq'), cq'[k].sqe = cq'[l].sqe
        PROVE  k = l
    <3>1. seen + k = seen + l
      BY <2>1, <2>2 DEF CqesOnce
    <3>2. QED
      BY <1>0, <3>1
  <2>3. QED
    BY <1>2, <2>1, <2>2 DEF CqesOnce
<1>3. CASE UNCHANGED <<cq, in_kernel>>
  BY <1>3 DEF CqesOnce
<1>4. ASSUME NEW n \in 0 .. Unconsumed, SubmitToKernel(n), UNCHANGED cq PROVE CqesOnce'
  <2>1. in_kernel' = in_kernel \cup (sq_head + 1) .. (sq_head + n)
    BY <1>4 DEF SubmitToKernel
  <2>2. QED
    BY <1>0, <1>4, <2>1 DEF CqesOnce
<1>5. CASE KernelPolls /\ UNCHANGED cq
  BY <1>0, <1>5 DEF KernelPolls, CqesOnce
<1>6. QED
  BY <1>1, <1>2, <1>3, <1>4, <1>5, CqFrame DEF HandleCqe

\* An SQE that is gone stays gone, and goes only in HandleCqe, by its one CQE.
LEMMA GoneMoves ==
  ASSUME IInv, CqesOnce, [Next]_vars, NEW i
  PROVE  /\ Gone(i) => Gone(i)'
         /\ Gone(i)' => Gone(i) \/ (HandleCqe /\ i = cq[seen + 1].sqe)
<1>0. /\ Len(cq) \in Nat /\ batch \in 0 .. Len(cq) /\ seen \in 0 .. batch /\ sq_head \in Nat
      /\ \A k \in 1 .. Len(cq) : cq[k].sqe \in 1 .. sq_head
      /\ in_kernel \subseteq 1 .. sq_head
  BY CqTypes
<1>1. ASSUME NEW j \in in_kernel, KernelCompletes(j) PROVE Gone(i)' <=> Gone(i)
  <2>0. /\ Len(cq') = Len(cq) + 1
        /\ \A k \in 1 .. Len(cq) : cq'[k] = cq[k]
        /\ cq'[Len(cq) + 1].sqe = j
        /\ in_kernel' = in_kernel \ {j}
        /\ UNCHANGED <<seen, sq_head>>
    BY <1>1, CqGrows
  <2>1. Due(i)' => Due(i) \/ i = j
    <3>1. ASSUME NEW k \in (seen + 1) .. (Len(cq) + 1), cq'[k].sqe = i PROVE Due(i) \/ i = j
      <4>1. k = Len(cq) + 1 \/ (k \in (seen + 1) .. Len(cq) /\ k \in 1 .. Len(cq))
        BY <1>0
      <4>2. QED
        BY <2>0, <3>1, <4>1 DEF Due
    <3>2. QED
      BY <2>0, <3>1 DEF Due
  <2>2. Due(i) => Due(i)'
    <3>1. ASSUME NEW k \in (seen + 1) .. Len(cq), cq[k].sqe = i PROVE Due(i)'
      <4>1. k \in (seen' + 1) .. Len(cq') /\ k \in 1 .. Len(cq)
        BY <1>0, <2>0
      <4>2. cq'[k].sqe = i
        BY <2>0, <3>1, <4>1
      <4>3. QED
        BY <4>1, <4>2 DEF Due
    <3>2. QED
      BY <3>1 DEF Due
  <2>3. i = j => Due(i)'
    <3>1. Len(cq) + 1 \in (seen' + 1) .. Len(cq')
      BY <1>0, <2>0
    <3>2. QED
      BY <2>0, <3>1 DEF Due
  <2>4. QED
    BY <2>0, <2>1, <2>2, <2>3 DEF Gone
<1>2. CASE HandleCqe /\ UNCHANGED <<sq_head, in_kernel>>
  <2>1. seen' = seen + 1 /\ cq' = cq /\ seen + 1 \in 1 .. Len(cq)
    BY <1>0, <1>2 DEF HandleCqe
  <2>2. Due(i) <=> Due(i)' \/ i = cq[seen + 1].sqe
    BY <1>0, <2>1 DEF Due
  <2>3. QED
    BY <1>2, <2>2 DEF Gone
<1>3. CASE AdvanceCq /\ UNCHANGED <<sq_head, in_kernel>>
  <2>1. /\ seen' = 0 /\ Len(cq') = Len(cq) - seen
        /\ \A k \in 1 .. Len(cq') : cq'[k] = cq[seen + k]
    BY <1>3, CqShrinks
  <2>2. ASSUME Due(i) PROVE Due(i)'
    <3>1. PICK k \in (seen + 1) .. Len(cq) : cq[k].sqe = i
      BY <2>2 DEF Due
    <3>2. k - seen \in 1 .. Len(cq') /\ seen + (k - seen) = k
      BY <1>0, <2>1, <3>1
    <3>3. cq'[k - seen].sqe = i
      BY <2>1, <3>1, <3>2
    <3>4. QED
      BY <2>1, <3>2, <3>3 DEF Due
  <2>3. ASSUME Due(i)' PROVE Due(i)
    <3>1. PICK k \in 1 .. Len(cq') : cq'[k].sqe = i
      BY <2>1, <2>3 DEF Due
    <3>2. seen + k \in (seen + 1) .. Len(cq) /\ cq[seen + k].sqe = i
      BY <1>0, <2>1, <3>1
    <3>3. QED
      BY <3>2 DEF Due
  <2>4. QED
    BY <1>3, <2>2, <2>3 DEF Gone
<1>4. CASE UNCHANGED <<cq, seen, sq_head, in_kernel>>
  BY <1>4 DEF Gone, Due
<1>5. ASSUME NEW n \in 0 .. Unconsumed, SubmitToKernel(n), UNCHANGED <<cq, seen>>
      PROVE  Gone(i)' <=> Gone(i)
  <2>1. /\ in_kernel' = in_kernel \cup (sq_head + 1) .. (sq_head + n)
        /\ sq_head' = sq_head + n /\ n \in Nat
        /\ Due(i)' <=> Due(i)
    BY <1>5 DEF SubmitToKernel, Due, Unconsumed, IInv, RingInv, RingTypeOK
  <2>2. QED
    BY <1>0, <2>1 DEF Gone
<1>6. CASE KernelPolls /\ UNCHANGED <<cq, seen>>
  <2>1. Due(i)' <=> Due(i)
    BY <1>6 DEF Due
  <2>2. QED
    BY <1>0, <1>6, <2>1 DEF Gone, KernelPolls
<1>7. QED
  BY <1>1, <1>2, <1>3, <1>4, <1>5, <1>6, CqFrame

\* HandleCqe makes its SQE gone, which it was not before.
LEMMA HandledGoes ==
  ASSUME IInv, CqesOnce, HandleCqe, NEW i, i = cq[seen + 1].sqe
  PROVE  /\ ~ Gone(i)
         /\ Gone(i)'
<1>0. /\ Len(cq) \in Nat /\ seen + 1 \in 1 .. Len(cq) /\ seen \in Nat
      /\ i \in 1 .. sq_head
      /\ seen' = seen + 1 /\ UNCHANGED <<cq, in_kernel, sq_head>>
  BY CqTypes DEF HandleCqe, sqVars
<1>1. Due(i)
  BY <1>0 DEF Due
<1>2. i \notin in_kernel
  BY <1>0 DEF CqesOnce
<1>3. ~ Due(i)'
  BY <1>0 DEF Due, CqesOnce
<1>4. QED
  BY <1>0, <1>1, <1>2, <1>3 DEF Gone

\* SQEs are written once.
LEMMA PreparedStays ==
  ASSUME IInv, OrderInv, [Next]_vars
  PROVE  /\ Len(prepared) <= Len(prepared') /\ Len(prepared) \in Nat /\ sq_head <= Len(prepared)
         /\ \A i \in 1 .. Len(prepared) : prepared'[i] = prepared[i]
         /\ \A i : Gone(i) => i \in 1 .. Len(prepared)
<1>1. /\ RingTypeOK /\ Len(prepared) \in Nat /\ sq_head \in Nat /\ published \in Nat
      /\ sq_head <= published /\ published <= Len(prepared)
  BY DEF IInv, RingInv, RingTypeOK, IndexInv
<1>2. \A i : Gone(i) => i \in 1 .. Len(prepared)
  BY <1>1 DEF Gone
<1>3. CASE PrepareSqe
  <2>1. hand \in Requests /\ prepared' = Append(prepared, hand)
    BY <1>3, NewSqe
  <2>2. QED
    BY <1>1, <1>2, <2>1, PreparedGrows
<1>4. CASE PrepareUnimplemented
  <2>1. StaleUserData \in Requests \cup {None} /\ prepared' = Append(prepared, StaleUserData)
    BY <1>4, NewSqe
  <2>2. QED
    BY <1>1, <1>2, <2>1, PreparedGrows
<1>5. CASE UNCHANGED prepared
  BY <1>1, <1>2, <1>5
<1>6. QED
  BY <1>3, <1>4, <1>5, SqeFrame

\* CqesOnce is an invariant.
LEMMA CqesInvariant == Safety => []CqesOnce
<1>1. Init => CqesOnce
  BY DEF Init, CqesOnce
<1>2. IInv /\ CqesOnce /\ [Next]_vars => CqesOnce'
  BY CqesOnceStep
<1>3. QED
  BY <1>1, <1>2, RingInvariant, PTL DEF Safety

-----------------------------------------------------------------------------
(* Completions are deleted once.                                            *)

EveryOpcodeHasACase == Unimplemented = {}

\* Every SQE has a request of its own.
PreparedOnce ==
  /\ \A i \in 1 .. Len(prepared) : prepared[i] # None
  /\ \A i, j \in 1 .. Len(prepared) : prepared[i] = prepared[j] => i = j

\* Requests that are completed, or are being completed, have an SQE that nobody will look at
\* again.
CompletedInv ==
  \A r \in Requests : r \in resolved \/ r = completing => \E i : Gone(i) /\ prepared[i] = r

FreedInv == PreparedOnce /\ CompletedInv /\ NoFreedCompletion

\* Every step keeps PreparedOnce.
LEMMA PreparedOnceStep ==
  ASSUME EveryOpcodeHasACase, IInv, ServiceInv, PreparedOnce, [Next]_vars
  PROVE  PreparedOnce'
<1>1. OrderInv /\ PreparedInv /\ RingTypeOK /\ Len(prepared) \in Nat
  BY DEF ServiceInv, IInv, RingInv, RingTypeOK
<1>2. CASE PrepareSqe
  <2>1. PICK r \in Requests : r = hand /\ ~ Served(r) /\ prepared' = Append(prepared, r)
    BY <1>1, <1>2, NewSqe
  <2>2. \A i \in 1 .. Len(prepared) : prepared[i] # r
    BY <1>1, <2>1 DEF PreparedInv, PreparedOnce
  <2>3. /\ Len(prepared') = Len(prepared) + 1
        /\ \A i \in 1 .. Len(prepared) : prepared'[i] = prepared[i]
        /\ prepared'[Len(prepared) + 1] = r
    BY <1>1, <2>1, PreparedGrows
  <2>4. QED
    BY <1>1, <2>2, <2>3, SinkAssumption DEF PreparedOnce
<1>3. ~ PrepareUnimplemented
  BY DEF PrepareUnimplemented, EveryOpcodeHasACase
<1>4. CASE UNCHANGED prepared
  BY <1>4 DEF PreparedOnce
<1>5. QED
  BY <1>2, <1>3, <1>4, SqeFrame

\* Only HandleCqe comes upon a deleted completion, and with PreparedOnce it does not.
LEMMA FreedStep ==
  ASSUME EveryOpcodeHasACase, IInv, ServiceInv, CqesOnce, FreedInv, [Next]_vars
  PROVE  FreedInv'
<1>1. OrderInv /\ PreparedOnce /\ CompletedInv /\ NoFreedCompletion
  BY DEF ServiceInv, FreedInv
<1>2. PreparedOnce'
  BY <1>1, PreparedOnceStep
<1>3. /\ \A i : Gone(i) => Gone(i)'
      /\ \A i : Gone(i) => i \in 1 .. Len(prepared) /\ prepared'[i] = prepared[i]
  BY <1>1, GoneMoves, PreparedStays
<1>4. ASSUME NEW r \in Requests, \E i : Gone(i) /\ prepared[i] = r
      PROVE  \E i : Gone(i)' /\ prepared'[i] = r
  BY <1>3, <1>4
<1>5. HandleCqe => Handler \notin resolved
  <2>1. SUFFICES ASSUME HandleCqe, Handler \in resolved PROVE FALSE
    OBVIOUS
  <2>2. PICK r \in Requests : r = Handler
    BY <2>1 DEF IInv, RingInv, RingTypeOK
  <2>3. PICK i : Gone(i) /\ prepared[i] = r
    BY <1>1, <2>1, <2>2 DEF CompletedInv
  <2>4. cq[seen + 1].sqe \in 1 .. Len(prepared) /\ prepared[cq[seen + 1].sqe] = r
    BY <2>1, <2>2, HandlerIsPrepared DEF HandleCqe, Handler
  <2>5. i = cq[seen + 1].sqe
    BY <1>1, <1>3, <2>3, <2>4 DEF PreparedOnce
  <2>6. QED
    BY <2>1, <2>3, <2>5, HandledGoes
<1>6. CompletedInv'
  <2>1. ASSUME NEW r \in Requests, r \in resolved' \/ r = completing'
        PROVE  \E i : Gone(i)' /\ prepared'[i] = r
    <3>1. CASE r \in resolved \/ r = completing
      BY <1>1, <1>4, <3>1 DEF CompletedInv
    <3>2. CASE ~ (r \in resolved \/ r = completing)
      <4>1. HandleCqe /\ r = Handler
        <5>1. Resolve => r \in resolved \/ r = completing
          BY <2>1, SinkAssumption DEF Resolve
        <5>2. ~ PrepareUnimplemented
          BY DEF PrepareUnimplemented, EveryOpcodeHasACase
        <5>3. HandleCqe => completing' \in {completing, Handler} /\ resolved' = resolved
          BY DEF HandleCqe
        <5>4. QED
          BY <2>1, <3>2, <5>1, <5>2, <5>3, CompletionFrame
      <4>2. PICK i : i = cq[seen + 1].sqe
        OBVIOUS
      <4>3. Gone(i)'
        BY <4>1, <4>2, HandledGoes
      <4>4. i \in 1 .. Len(prepared) /\ prepared[i] = r
        BY <4>1, <4>2, HandlerIsPrepared DEF HandleCqe, Handler
      <4>5. prepared'[i] = r
        BY <1>1, <4>4, PreparedStays
      <4>6. QED
        BY <4>3, <4>5
    <3>3. QED
      BY <3>1, <3>2
  <2>2. QED
    BY <2>1 DEF CompletedInv
<1>7. NoFreedCompletion'
  <2>1. step' = "undefined" => step = "undefined" \/ (HandleCqe /\ Handler \in resolved)
    <3> USE DEF sinkAllVars, ringVars, Goto
    <3>1. CASE WorkerStep
      BY <3>1 DEF WorkerStep, Draining, PopRequest, AfterDrain, GetSqeFull, PrepareSqe,
         PrepareUnimplemented, SubmitToKernel, SubmitBusy, SubmitToPoller, NothingToProcess,
         FetchBatch, HandleCqe, AdvanceCq, BackToLoop, GetSqeRetry, GetSqeGivesUp,
         CallbackSubmits, CallbackNotifies, CallbackReturns, Resolve
    <3>2. CASE KernelStep
      BY <3>2 DEF KernelStep, KernelPolls, KernelCompletes
    <3>3. CASE WakesForNothing \/ (\E t \in Threads : Submits(t)) \/ DestructorStep \/ Ended
               \/ UNCHANGED vars
      BY <3>3 DEF WakesForNothing, Submits, DestructorStep, StopSink, StopConsumption,
                  JoinAndExit, Ended, vars
    <3>4. QED
      BY <3>1, <3>2, <3>3 DEF Next
  <2>2. QED
    BY <1>1, <1>5, <2>1 DEF NoFreedCompletion
<1>8. QED
  BY <1>2, <1>6, <1>7 DEF FreedInv

\* When every request has an opcode with a case in PrepareSqe, no CQE leads HandleCqe to a
\* completion that has had its value and was deleted, for every ring size and kernel and
\* however often the slots of the ring are used again.
THEOREM NoCompletionIsUsedAfterItsValue ==
  EveryOpcodeHasACase /\ Safety => []NoFreedCompletion
<1>1. Init => FreedInv
  BY SinkAssumption DEF Init, FreedInv, PreparedOnce, CompletedInv, NoFreedCompletion
<1>2. EveryOpcodeHasACase /\ IInv /\ ServiceInv /\ CqesOnce /\ FreedInv /\ [Next]_vars
        => FreedInv'
  BY FreedStep
<1>3. FreedInv => NoFreedCompletion
  BY DEF FreedInv
<1>4. SUFFICES ASSUME EveryOpcodeHasACase PROVE Safety => []NoFreedCompletion
  OBVIOUS
<1>5. QED
  BY <1>1, <1>2, <1>3, <1>4, RingInvariant, ServiceInvariant, CqesInvariant, PTL DEF Safety

-----------------------------------------------------------------------------
(* What may be lost.                                                        *)

\* GetSqe looks again after it has made room; the code never asks for less.
GetSqeLooksAgain == MaxTry >= 2

\* A kernel that takes something whenever it is given something leaves room in the ring.
RoomInv ==
  /\ Unconsumed <= SqSize
  /\ kernel \in {"all", "short"} =>
       /\ tries = 0 \/ (tries = 1 /\ step = "get_sqe" /\ Unconsumed < SqSize)
       /\ drainer = "consume" /\ step \notin {"get_sqe", "submit"}
            /\ (completing = None \/ batch > 0) => Unconsumed < SqSize

\* Every step keeps RoomInv.
LEMMA RoomStep ==
  ASSUME IInv, RoomInv, [Next]_vars
  PROVE  RoomInv'
<1> USE DEF RoomInv, Goto
<1>0. kernel' = kernel
  BY SqeFrame
<1>1. /\ ControlInv /\ SinkControlInv /\ IndexInv
      /\ Len(prepared) \in Nat /\ sq_head \in Nat /\ SqSize \in Nat \ {0} /\ batch \in Nat
      /\ step = "get_sqe" => hand # None
      /\ tries \in Nat /\ Unconsumed \in Nat
  BY RingAssumption
  DEF IInv, SinkInv, RingInv, RingTypeOK, ControlInv, SinkControlInv, IndexInv, Unconsumed
<1>2. ASSUME UNCHANGED <<prepared, sq_head, tries, step, drainer, completing, batch>>
      PROVE  RoomInv'
  BY <1>0, <1>2 DEF Unconsumed
<1>3. CASE Draining \/ PopRequest \/ AfterDrain
  <2>1. /\ UNCHANGED <<prepared, sq_head, tries>> /\ step = "drain"
        /\ drainer' # "consume" \/ step' = "get_sqe"
    BY <1>1, <1>3 DEF Draining, DrainEnter, DrainCheck, DrainBlock, DrainWake, DrainLeave,
       PopRequest, DrainPop, AfterDrain, DrainReturn, ControlInv, SinkControlInv, ringVars, sqVars
  <2>2. QED
    BY <1>0, <2>1 DEF Unconsumed
<1>4. CASE PrepareSqe \/ PrepareUnimplemented
  <2>1. PICK e \in Requests \cup {None} : prepared' = Append(prepared, e)
    <3>1. hand \in Requests \cup {None} /\ RingTypeOK
      BY DEF IInv, SinkInv, SinkTypeOK, RingInv
    <3>2. StaleUserData \in Requests \cup {None}
      BY <3>1, StaleIsOlder DEF RingTypeOK
    <3>3. QED
      BY <1>4, <3>1, <3>2 DEF PrepareSqe, PrepareUnimplemented
  <2>2. Len(prepared') = Len(prepared) + 1
    BY <2>1, PreparedGrows DEF IInv, RingInv
  <2>3. sq_head' = sq_head /\ tries' = 0 /\ ~ RingFull
    BY <1>4 DEF PrepareSqe, PrepareUnimplemented
  <2>3a. Unconsumed < SqSize
    BY <1>1, <2>3 DEF RingFull
  <2>4. Unconsumed' <= SqSize
    BY <1>1, <2>2, <2>3, <2>3a DEF Unconsumed
  <2>5. drainer' # "consume" \/ (completing' # None /\ batch' = 0)
    BY <1>1, <1>4 DEF PrepareSqe, DrainConsumed, PrepareUnimplemented, IndexInv, cqVars
  <2>6. QED
    BY <2>3, <2>4, <2>5
<1>5. CASE GetSqeFull
  <2>1. UNCHANGED <<prepared, sq_head, tries>> /\ step' = "submit" /\ Unconsumed >= SqSize
    BY <1>5 DEF GetSqeFull, sqVars, RingFull
  <2>2. Unconsumed' = Unconsumed
    BY <2>1 DEF Unconsumed
  <2>3. QED
    BY <1>0, <1>1, <2>1, <2>2
<1>6. ASSUME NEW n \in 0 .. Unconsumed, SubmitToKernel(n) PROVE RoomInv'
  <2>1. /\ sq_head' = sq_head + n /\ UNCHANGED <<prepared, tries>>
        /\ step = "submit" /\ step' = "process"
        /\ n = Unconsumed \/ n > 0
    BY <1>6 DEF SubmitToKernel, ConsumedBy
  <2>2. Unconsumed' = Unconsumed - n /\ n \in Nat
    BY <1>1, <2>1 DEF Unconsumed
  <2>3. Unconsumed' < SqSize
    BY <1>1, <2>1, <2>2
  <2>4. QED
    BY <1>0, <1>1, <2>1, <2>2, <2>3
<1>7. CASE SubmitBusy \/ SubmitToPoller
  BY <1>0, <1>7 DEF SubmitBusy, SubmitToPoller, Unconsumed
<1>8. CASE KernelPolls
  BY <1>0, <1>1, <1>8 DEF KernelPolls, Unconsumed
<1>9. CASE NothingToProcess \/ FetchBatch \/ AdvanceCq \/ BackToLoop
  <2>1. /\ UNCHANGED <<prepared, sq_head, tries, completing>>
        /\ step \in {"process", "handle", "processed"}
        /\ step' \notin {"get_sqe", "submit"} /\ completing = None /\ drainer' = drainer
    BY <1>1, <1>9 DEF NothingToProcess, FetchBatch, AdvanceCq, BackToLoop, sinkAllVars, sinkVars,
                      sqVars, ControlInv
  <2>2. QED
    BY <1>0, <2>1 DEF Unconsumed
<1>10. CASE HandleCqe
  <2>1. /\ UNCHANGED <<prepared, sq_head, tries>> /\ step = "handle" /\ completing = None
        /\ drainer' = drainer
    BY <1>1, <1>10 DEF HandleCqe, sinkVars, sqVars, ControlInv
  <2>2. QED
    BY <1>0, <2>1 DEF Unconsumed
<1>11. CASE GetSqeRetry
  <2>1. /\ UNCHANGED <<prepared, sq_head>> /\ step = "processed" /\ completing = None
        /\ drainer = "consume" /\ step' = "get_sqe" /\ tries' = tries + 1
    BY <1>1, <1>11 DEF GetSqeRetry, sqVars, ControlInv
  <2>2. QED
    BY <1>0, <1>1, <2>1 DEF Unconsumed
<1>12. CASE GetSqeGivesUp
  <2>1. UNCHANGED <<prepared, sq_head>> /\ tries' = 0 /\ drainer' # "consume"
    BY <1>12 DEF GetSqeGivesUp, DrainConsumed, sqVars
  <2>2. QED
    BY <1>0, <2>1 DEF Unconsumed
<1>13. CASE CallbackSubmits \/ CallbackNotifies \/ CallbackReturns
  <2>1. /\ UNCHANGED <<prepared, sq_head, tries, drainer, completing, batch>>
        /\ step \in {"callback", "notify"} /\ step' \in {"notify", "resolve"}
    BY <1>13 DEF CallbackSubmits, CallbackNotifies, CallbackReturns, EnqueueIoRequest, NotifyOne,
                 sinkAllVars, sinkVars, sqVars, cqVars
  <2>2. QED
    BY <1>0, <2>1 DEF Unconsumed
<1>14. CASE Resolve
  <2>1. /\ UNCHANGED <<prepared, sq_head, tries>> /\ step = "resolve"
        /\ step' \notin {"get_sqe", "submit"}
        /\ (batch > 0 /\ UNCHANGED <<batch, drainer>>) \/ drainer' # "consume"
    BY <1>14, SinkAssumption DEF Resolve, DrainConsumed, sinkVars, sqVars, cqVars
  <2>2. QED
    BY <1>0, <2>1 DEF Unconsumed
<1>15. CASE StopConsumption \/ JoinAndExit \/ (\E i \in in_kernel : KernelCompletes(i))
  BY <1>2, <1>15 DEF KernelCompletes, StopConsumption, JoinAndExit, sinkAllVars, sinkVars, sqVars,
                     cqVars
<1>16. CASE WakesForNothing \/ (\E t \in Threads : Submits(t)) \/ StopSink
  BY <1>2, <1>16 DEF WakesForNothing, SpuriousWake, Submits, EnqueueIoRequest, NotifyOne, StopSink,
                     Stop, NotifyAll, ringVars
<1>17. CASE Ended \/ UNCHANGED vars
  BY <1>2, <1>17 DEF Ended, vars, sinkAllVars, sinkVars, ringVars
<1>18. QED
  BY <1>3, <1>4, <1>5, <1>6, <1>7, <1>8, <1>9, <1>10, <1>11, <1>12, <1>13, <1>14, <1>15, <1>16,
     <1>17 DEF Next, WorkerStep, KernelStep, DestructorStep

\* A kernel that takes all it is given leaves nothing published in the ring.
TakenInv == kernel = "all" => published = sq_head

\* Which actions publish SQEs, and which consume them.
LEMMA TakenFrame ==
  ASSUME [Next]_vars
  PROVE  \/ \E n \in 0 .. Unconsumed : SubmitToKernel(n)
         \/ SubmitBusy
         \/ SubmitToPoller
         \/ KernelPolls
         \/ UNCHANGED <<published, sq_head>>
<1> USE DEF sqVars, ringVars
<1>1. CASE WorkerStep
  BY <1>1 DEF WorkerStep, Draining, PopRequest, AfterDrain, GetSqeFull, PrepareSqe,
     PrepareUnimplemented, NothingToProcess, FetchBatch, HandleCqe, AdvanceCq, BackToLoop,
     GetSqeRetry, GetSqeGivesUp, CallbackSubmits, CallbackNotifies, CallbackReturns, Resolve
<1>2. CASE KernelStep
  BY <1>2 DEF KernelStep, KernelCompletes
<1>3. CASE WakesForNothing \/ (\E t \in Threads : Submits(t)) \/ DestructorStep \/ Ended
           \/ UNCHANGED vars
  BY <1>3 DEF WakesForNothing, Submits, DestructorStep, StopSink, StopConsumption, JoinAndExit,
              Ended, vars
<1>4. QED
  BY <1>1, <1>2, <1>3 DEF Next

\* Every step keeps TakenInv.
LEMMA TakenStep ==
  ASSUME RingTypeOK, TakenInv, [Next]_vars
  PROVE  TakenInv'
<1>1. kernel' = kernel /\ Len(prepared) \in Nat /\ sq_head \in Nat
  BY SqeFrame DEF RingTypeOK
<1>2. ASSUME NEW n \in 0 .. Unconsumed, SubmitToKernel(n), kernel = "all" PROVE TakenInv'
  BY <1>1, <1>2 DEF SubmitToKernel, ConsumedBy, Unconsumed, TakenInv
<1>3. CASE SubmitBusy \/ SubmitToPoller \/ KernelPolls
  BY <1>1, <1>3 DEF SubmitBusy, SubmitToPoller, KernelPolls, TakenInv
<1>4. CASE UNCHANGED <<published, sq_head>>
  BY <1>1, <1>4 DEF TakenInv
<1>5. QED
  BY <1>1, <1>2, <1>3, <1>4, TakenFrame DEF TakenInv

\* A served request has its value, or is about to get it, or its SQE is not done with, or
\* it may be lost.
Kept(r) ==
  \/ r \in resolved
  \/ r = completing
  \/ \E i \in 1 .. Len(prepared) : prepared[i] = r /\ ~ Gone(i)
  \/ r \in bare
  \/ kernel \in {"busy", "sqpoll"} /\ ~ WasPrepared(r)

KeptInv == \A r \in Requests : Served(r) => Kept(r)

\* A request gets an SQE before it is served, or with it, or never.
LEMMA WasPreparedStays ==
  ASSUME IInv, ServiceInv, [Next]_vars, NEW r \in Requests, Served(r)
  PROVE  WasPrepared(r)' <=> WasPrepared(r)
<1>0. OrderInv /\ PreparedInv /\ RingTypeOK /\ Len(prepared) \in Nat
  BY DEF ServiceInv, IInv, RingInv, RingTypeOK
<1>1. ASSUME NEW e \in Requests \cup {None}, prepared' = Append(prepared, e),
             e = r => WasPrepared(r)
      PROVE  WasPrepared(r)' <=> WasPrepared(r)
  <2>1. /\ Len(prepared') = Len(prepared) + 1
        /\ \A i \in 1 .. Len(prepared) : prepared'[i] = prepared[i]
        /\ prepared'[Len(prepared) + 1] = e
    BY <1>0, <1>1, PreparedGrows
  <2>2. \A i \in 1 .. Len(prepared') : i \in 1 .. Len(prepared) \/ i = Len(prepared) + 1
    BY <1>0, <2>1
  <2>3. \A i \in 1 .. Len(prepared) : i \in 1 .. Len(prepared')
    BY <1>0, <2>1
  <2>4. QED
    BY <1>1, <2>1, <2>2, <2>3 DEF WasPrepared, Holds
<1>2. CASE PrepareSqe
  <2>1. PICK e \in Requests \cup {None} : prepared' = Append(prepared, e) /\ e # r
    BY <1>0, <1>2, NewSqe
  <2>2. QED
    BY <1>1, <2>1
<1>3. CASE PrepareUnimplemented
  <2>1. PICK e \in Requests \cup {None} : prepared' = Append(prepared, e) /\ e = StaleUserData
    BY <1>0, <1>3, NewSqe
  <2>2. e = r => WasPrepared(r)
    BY <1>0, <2>1, StaleIsOlder, SinkAssumption DEF WasPrepared, Holds
  <2>3. QED
    BY <1>1, <2>1, <2>2
<1>4. CASE UNCHANGED prepared
  BY <1>4 DEF WasPrepared, Holds
<1>5. QED
  BY <1>2, <1>3, <1>4, SqeFrame

\* A served request is kept by every step.
LEMMA KeptStays ==
  ASSUME IInv, ServiceInv, CqesOnce, [Next]_vars, NEW r \in Requests, Served(r), Kept(r)
  PROVE  Kept(r)'
<1>0. /\ OrderInv /\ RingTypeOK /\ r # None /\ kernel' = kernel
      /\ completing # None => step \in {"callback", "notify", "resolve"}
  BY SqeFrame, SinkAssumption DEF ServiceInv, IInv, RingInv, ControlInv
<1>1. WasPrepared(r)' <=> WasPrepared(r)
  BY WasPreparedStays
<1>2. CASE r \in resolved
  BY <1>2, CompletionFrame DEF Resolve, Kept
<1>3. CASE r = completing
  BY <1>0, <1>3, CompletionFrame DEF PrepareUnimplemented, HandleCqe, Resolve, Kept
<1>4. CASE \E i \in 1 .. Len(prepared) : prepared[i] = r /\ ~ Gone(i)
  <2>1. PICK i \in 1 .. Len(prepared) : prepared[i] = r /\ ~ Gone(i)
    BY <1>4
  <2>2. i \in 1 .. Len(prepared') /\ prepared'[i] = r
    <3>1. /\ Len(prepared) <= Len(prepared') /\ Len(prepared) \in Nat
          /\ prepared'[i] = prepared[i]
      BY <1>0, PreparedStays
    <3>2. i \in 1 .. Len(prepared')
      <4>1. CASE prepared' = prepared
        BY <4>1
      <4>2. CASE PrepareSqe \/ PrepareUnimplemented
        <5>1. PICK e \in Requests \cup {None} : prepared' = Append(prepared, e)
          BY <1>0, <4>2, NewSqe
        <5>2. Len(prepared') = Len(prepared) + 1
          BY <1>0, <5>1, PreparedGrows
        <5>3. QED
          BY <3>1, <5>2
      <4>3. QED
        BY <4>1, <4>2, SqeFrame
    <3>3. QED
      BY <2>1, <3>1, <3>2
  <2>3. CASE ~ Gone(i)'
    BY <2>2, <2>3 DEF Kept
  <2>4. CASE Gone(i)'
    <3>1. HandleCqe /\ i = cq[seen + 1].sqe
      BY <2>1, <2>4, GoneMoves
    <3>2. Handler = r /\ WasPrepared(r)
      BY <2>1, <3>1 DEF Handler, WasPrepared, Holds
    <3>3. \/ r \in resolved
          \/ r \in bare'
          \/ completing' = r
      BY <1>0, <3>1, <3>2 DEF HandleCqe
    <3>4. QED
      BY <1>2, <3>3 DEF Kept
  <2>5. QED
    BY <2>3, <2>4
<1>5. CASE r \in bare
  BY <1>5, CompletionFrame DEF Kept
<1>6. CASE kernel \in {"busy", "sqpoll"} /\ ~ WasPrepared(r)
  BY <1>0, <1>1, <1>6 DEF Kept
<1>7. QED
  BY <1>2, <1>3, <1>4, <1>5, <1>6 DEF Kept

\* The request that consume returns from is kept: it has its SQE, or it has its value, or
\* GetSqe gave up on a kernel that took nothing, or not at once.
LEMMA HandIsKept ==
  ASSUME GetSqeLooksAgain, IInv, ServiceInv, CqesOnce, RoomInv, [Next]_vars,
         LetsGo, NEW r \in Requests, r = hand
  PROVE  Kept(r)'
<1>0. /\ OrderInv /\ PreparedInv /\ ResolvedInv /\ SinkTypeOK /\ RingTypeOK
      /\ r # None /\ kernel' = kernel /\ Len(prepared) \in Nat
      /\ kernel \in {"all", "short", "busy", "sqpoll"} /\ tries \in Nat
  BY SqeFrame, SinkAssumption, RingAssumption
  DEF ServiceInv, IInv, SinkInv, RingInv, RingTypeOK
<1>1. ~ Served(r)
  BY <1>0, HandIsNext
<1>2. ~ PopRequest /\ hand' # hand
  BY <1>0 DEF PopRequest, DrainPop, LetsGo, IInv, SinkInv, SinkControlInv
<1>3. CASE PrepareSqe
  <2>1. prepared' = Append(prepared, r)
    BY <1>3 DEF PrepareSqe
  <2>2. Len(prepared') = Len(prepared) + 1 /\ prepared'[Len(prepared) + 1] = r
    BY <1>0, <2>1, PreparedGrows
  <2>3. ~ Gone(Len(prepared) + 1)
    BY <1>0 DEF Gone, IInv, RingInv, RingTypeOK, IndexInv
  <2>4. step = "get_sqe"
    BY <1>3 DEF PrepareSqe
  <2>5. PICK i : i = Len(prepared) + 1
    OBVIOUS
  <2>6. ~ Gone(i)'
    BY <2>3, <2>4, <2>5, GoneMoves DEF HandleCqe
  <2>7. i \in 1 .. Len(prepared') /\ prepared'[i] = r
    BY <1>0, <2>2, <2>5
  <2>8. QED
    BY <2>6, <2>7 DEF Kept
<1>4. CASE GetSqeGivesUp
  <2>1. UNCHANGED prepared /\ step = "processed" /\ tries + 1 >= MaxTry
    BY <1>4 DEF GetSqeGivesUp, sqVars
  <2>2. kernel \in {"busy", "sqpoll"}
    BY <1>0, <2>1, RingAssumption DEF RoomInv, GetSqeLooksAgain
  <2>3. ~ WasPrepared(r)
    BY <1>0, <1>1 DEF PreparedInv, WasPrepared, Holds
  <2>4. QED
    BY <1>0, <2>1, <2>2, <2>3 DEF Kept, WasPrepared, Holds
<1>5. CASE Resolve
  <2>1. batch = 0 /\ step = "resolve" /\ resolved' = resolved \cup {completing}
    BY <1>2, <1>5 DEF Resolve, sinkVars
  <2>2. completing = r
    BY <1>0, <2>1 DEF ResolvedInv, IInv, RingInv, ControlInv
  <2>3. QED
    BY <2>1, <2>2 DEF Kept
<1>6. QED
  BY <1>2, <1>3, <1>4, <1>5, HandFrame

\* Nothing is served but the request in hand.
LEMMA OnlyHandIsServed ==
  ASSUME SinkInv, OrderInv, SinkMove \/ UNCHANGED sinkVars, NEW r, Served(r)', ~ Served(r)
  PROVE  LetsGo /\ r = hand
<1>0. /\ SinkTypeOK /\ Len(accepted) \in Nat
      /\ ServedCount \in 0 .. Len(accepted) /\ TakenCount \in 0 .. Len(accepted)
  BY ServedGrows DEF SinkInv, SinkTypeOK
<1>1. PICK k \in 1 .. ServedCount' : accepted'[k] = r
  BY DEF Served
<1>2. ASSUME NEW q \in Requests, Pushes(q) PROVE FALSE
  <2>1. k \in 1 .. ServedCount /\ k \in 1 .. Len(accepted)
    BY <1>0, <1>1, <1>2, PushOrder
  <2>2. accepted[k] = r
    BY <1>0, <1>1, <1>2, <2>1, PushOrder
  <2>3. QED
    BY <2>1, <2>2 DEF Served
<1>3. CASE Pops
  <2>1. hand = None /\ accepted' = accepted /\ TakenCount' = TakenCount + 1
    BY <1>0, <1>3, PopOrder DEF Pops
  <2>2. hand' # None
    BY <1>0, <1>3, SinkAssumption DEF Pops, SinkTypeOK
  <2>3. ServedCount' = ServedCount
    BY <1>0, <1>3, <2>2, PopOrder
  <2>4. QED
    BY <1>1, <2>1, <2>3 DEF Served
<1>4. CASE UNCHANGED <<pending_io, accepted, hand>>
  BY <1>4 DEF Served, ServedCount, TakenCount
<1>5. CASE LetsGo
  <2>1. accepted' = accepted /\ ServedCount' = TakenCount
    BY <1>5 DEF LetsGo, ServedCount, TakenCount
  <2>2. k \notin 1 .. ServedCount /\ accepted[k] = r
    BY <1>1, <2>1 DEF Served
  <2>3. hand # None /\ k = TakenCount
    BY <1>0, <1>1, <2>1, <2>2 DEF ServedCount
  <2>4. QED
    BY <1>5, <2>2, <2>3 DEF OrderInv
<1>6. QED
  BY <1>2, <1>3, <1>4, <1>5, QueueMoves DEF sinkVars

\* Every step keeps KeptInv.
LEMMA KeptStep ==
  ASSUME GetSqeLooksAgain, IInv, ServiceInv, CqesOnce, RoomInv, KeptInv, [Next]_vars
  PROVE  KeptInv'
<1>1. SUFFICES ASSUME NEW r \in Requests, Served(r)' PROVE Kept(r)'
  BY DEF KeptInv
<1>2. CASE Served(r)
  BY <1>2, KeptStays DEF KeptInv
<1>3. CASE ~ Served(r)
  <2>1. LetsGo /\ r = hand
    BY <1>1, <1>3, SinkSide, OnlyHandIsServed DEF IInv, ServiceInv
  <2>2. QED
    BY <2>1, HandIsKept
<1>4. QED
  BY <1>2, <1>3

\* What KeptInv says of the requests that were accepted.
LEMMA KeptIsNotLost ==
  ASSUME IInv, ServiceInv, StrandInv, TakenInv, KeptInv
  PROVE  NoSilentLoss
<1>0. /\ OrderInv /\ SinkTypeOK /\ Len(accepted) \in Nat /\ Len(pending_io) \in Nat
      /\ accepted \in Seq(Requests)
  BY DEF ServiceInv, IInv, SinkInv, SinkTypeOK
<1>1. ASSUME NEW r \in Requests, NEW i \in 1 .. Len(prepared), prepared[i] = r, ~ Gone(i),
             ~ stop_consumption, step # "exit"
      PROVE  InFlight(r) \/ Stranded(i)
  <2>1. /\ Len(prepared) \in Nat /\ published \in Nat /\ sq_head \in Nat
        /\ kernel \in {"all", "short", "busy", "sqpoll"}
    BY RingAssumption DEF IInv, RingInv, RingTypeOK
  <2>2. i > sq_head \/ i \in in_kernel \cup Posted
    BY <1>1, <2>1 DEF Gone, Due, Posted
  <2>3. Moving(i) \/ Chained(i) => InFlight(r)
    BY <1>1 DEF InFlight, Holds
  <2>4. i > sq_head /\ i <= published => Stranded(i) \/ kernel = "sqpoll"
    BY <2>1 DEF Stranded, TakenInv
  <2>5. CASE ~ waiting
    <3>1. Awake
      BY <1>1, <2>5 DEF Awake
    <3>2. CASE i > published
      BY <2>3, <3>1, <3>2 DEF Moving
    <3>3. CASE i \in in_kernel \cup Posted
      BY <2>3, <3>1, <3>3 DEF Moving
    <3>4. CASE i > sq_head /\ i <= published
      BY <2>3, <2>4, <3>1, <3>4 DEF Moving
    <3>5. QED
      BY <2>1, <2>2, <3>2, <3>3, <3>4
  <2>6. CASE waiting
    <3>1. in_kernel = {} /\ cq = <<>> /\ (kernel = "sqpoll" => published = sq_head)
      BY <2>6, SleeperIsIdle DEF SleepsOnlyWhenIdle
    <3>2. Posted = {}
      BY <3>1 DEF Posted, IInv, RingInv, RingTypeOK
    <3>3. published = Len(prepared) \/ linked_sqe
      BY <2>6 DEF StrandInv, IInv, SinkInv, SinkControlInv, RingInv, ControlInv
    <3>4. CASE i > published
      BY <2>1, <2>3, <3>3, <3>4 DEF Chained
    <3>5. CASE i <= published
      BY <2>1, <2>2, <2>4, <3>1, <3>2, <3>5
    <3>6. QED
      BY <2>1, <3>4, <3>5
  <2>7. QED
    BY <2>5, <2>6
<1>2. SUFFICES ASSUME NEW r \in Accepted, r \notin resolved, ~ stop_consumption, step # "exit"
               PROVE  \/ InFlight(r)
                      \/ ~ WasPrepared(r) /\ kernel \in {"busy", "sqpoll"}
                      \/ \E i \in 1 .. Len(prepared) : Holds(i, r) /\ Stranded(i)
                      \/ r \in bare
  BY DEF NoSilentLoss
<1>3. PICK k \in 1 .. Len(accepted) : accepted[k] = r
  BY DEF Accepted
<1>4. r \in Requests
  BY <1>0, <1>3, ElementTyped
<1>5. CASE k > TakenCount
  <2>1. k - TakenCount \in 1 .. Len(pending_io)
    BY <1>0, <1>5 DEF TakenCount, OrderInv
  <2>2. pending_io[k - TakenCount] = r
    <3>1. TakenCount + (k - TakenCount) = k
      BY <1>0 DEF TakenCount
    <3>2. QED
      BY <1>0, <1>3, <2>1, <3>1 DEF OrderInv
  <2>3. QED
    BY <2>1, <2>2 DEF InFlight
<1>6. CASE k = TakenCount /\ hand # None
  BY <1>0, <1>3, <1>6 DEF OrderInv, InFlight
<1>7. CASE k <= TakenCount /\ ~ (k = TakenCount /\ hand # None)
  <2>1. k \in 1 .. ServedCount
    BY <1>0, <1>7 DEF ServedCount, TakenCount
  <2>2. Kept(r)
    BY <1>3, <1>4, <2>1 DEF Served, KeptInv
  <2>3. CASE r = completing
    BY <2>3 DEF InFlight
  <2>4. CASE \E i \in 1 .. Len(prepared) : prepared[i] = r /\ ~ Gone(i)
    <3>1. PICK i \in 1 .. Len(prepared) : prepared[i] = r /\ ~ Gone(i)
      BY <2>4
    <3>2. InFlight(r) \/ Stranded(i)
      BY <1>1, <1>2, <1>4, <3>1
    <3>3. QED
      BY <3>1, <3>2 DEF Holds
  <2>5. QED
    BY <1>2, <2>2, <2>3, <2>4 DEF Kept
<1>8. QED
  BY <1>0, <1>5, <1>6, <1>7 DEF TakenCount

\* Until ~IoUring stops the worker, an accepted request without a value is queued, in hand,
\* or has an SQE that an awake worker or a chain still to be closed will see to; or GetSqe
\* gave up on it, a short or busy submit stranded it, or its CQE named no buffer: there is no
\* fourth way to lose one, for every ring size, drain limit and number of callers.
THEOREM NothingIsLostSilently == GetSqeLooksAgain /\ Safety => []NoSilentLoss
<1>1. Init => RoomInv /\ KeptInv /\ StrandInv /\ TakenInv
  BY RingAssumption
  DEF Init, SinkInit, RoomInv, KeptInv, Unconsumed, Served, ServedCount, TakenCount, StrandInv,
      TakenInv
<1>2. IInv /\ RoomInv /\ [Next]_vars => RoomInv'
  BY RoomStep
<1>3. GetSqeLooksAgain /\ IInv /\ ServiceInv /\ CqesOnce /\ RoomInv /\ KeptInv /\ [Next]_vars
        => KeptInv'
  BY KeptStep
<1>4. IInv /\ StrandInv /\ [Next]_vars => StrandInv'
  BY StrandStep
<1>5. IInv /\ TakenInv /\ [Next]_vars => TakenInv'
  BY TakenStep DEF IInv, RingInv
<1>6. IInv /\ ServiceInv /\ StrandInv /\ TakenInv /\ KeptInv => NoSilentLoss
  BY KeptIsNotLost
<1>7. SUFFICES ASSUME GetSqeLooksAgain PROVE Safety => []NoSilentLoss
  OBVIOUS
<1>8. QED
  BY <1>1, <1>2, <1>3, <1>4, <1>5, <1>6, <1>7, RingInvariant, ServiceInvariant, CqesInvariant,
     PTL DEF Safety
=============================================================================
