---------------------------- MODULE IoUringProofs ----------------------------
(***************************************************************************)
(* Theorems about IoUring, for every number of threads and requests, every *)
(* ring size and drain limit, every kind of kernel and every choice of the *)
(* attributes of the requests.                                             *)
(*                                                                         *)
(* To the sink a step of IoUring is a step of its own, or one that only    *)
(* moves the counter while the worker is outside Drain or inside consume;  *)
(* so SinkInductive gives the sink's half of the invariant.                *)
(***************************************************************************)
EXTENDS IoUring, IoSinkProofs, FiniteSetTheorems

\* Where the worker is: its place in Drain agrees with its place in the loop, and
\* with the completion being run.
ControlInv ==
  /\ drainer \notin {"outside", "consume"} => step = "drain"
  /\ step = "drain" => drainer # "consume"
  /\ step = "get_sqe" => drainer = "consume"
  /\ completing # None <=> step \in {"callback", "notify", "resolve"}
  /\ step \in {"callback", "notify", "resolve"} /\ batch = 0 => drainer = "consume"

\* The indices of the rings.
IndexInv ==
  /\ step \notin {"handle", "callback", "notify", "resolve", "undefined"} => batch = 0
  /\ sq_head <= published
  /\ published <= Len(prepared)

RingInv == RingTypeOK /\ ControlInv /\ IndexInv

IInv == SinkInv /\ RingInv /\ PendingCountSound

-----------------------------------------------------------------------------
(* Facts about sequences and intervals.                                     *)

\* A sequence over a set is one over a larger set.
LEMMA SeqGrows ==
  ASSUME NEW S, NEW T, S \subseteq T, NEW s \in Seq(S)
  PROVE  s \in Seq(T)
OBVIOUS

\* CQEs of consumed SQEs stay that when more SQEs are consumed.
LEMMA CqesGrow ==
  ASSUME NEW m \in Nat, NEW n \in Nat, m <= n,
         NEW s \in Seq([sqe : 1 .. m, buffer : BOOLEAN])
  PROVE  s \in Seq([sqe : 1 .. n, buffer : BOOLEAN])
<1>1. [sqe : 1 .. m, buffer : BOOLEAN] \subseteq [sqe : 1 .. n, buffer : BOOLEAN]
  OBVIOUS
<1>2. QED
  BY <1>1, SeqGrows

\* The completion ring stays typed when the kernel consumes k more SQEs.
LEMMA CqTyped ==
  ASSUME RingTypeOK, NEW k \in Nat
  PROVE  cq \in Seq([sqe : 1 .. (sq_head + k), buffer : BOOLEAN])
<1>1. cq \in Seq([sqe : 1 .. sq_head, buffer : BOOLEAN]) /\ sq_head \in Nat
  BY DEF RingTypeOK
<1>2. sq_head + k \in Nat /\ sq_head <= sq_head + k
  BY <1>1
<1>3. QED
  BY <1>1, <1>2, CqesGrow

\* What is left of a sequence behind its first k elements.
LEMMA DropSome ==
  ASSUME NEW S, NEW s \in Seq(S), NEW k \in 0 .. Len(s)
  PROVE  /\ SubSeq(s, k + 1, Len(s)) \in Seq(S)
         /\ Len(SubSeq(s, k + 1, Len(s))) = Len(s) - k
OBVIOUS

-----------------------------------------------------------------------------
(* The sink's half of the invariant.                                        *)

\* Every step of IoUring is one of the sink, or moves only the counter.
LEMMA SinkView ==
  ASSUME SinkInv, RingInv, [Next]_vars
  PROVE  (SinkMove /\ UNCHANGED pending_sqe) \/ CounterMoves \/ UNCHANGED sinkAllVars
<1> USE SinkAssumption, RingAssumption, WorkerIsSome
<1> DEFINE Move == SinkMove /\ UNCHANGED pending_sqe
<1>1. ASSUME NEW t \in Threads, Submits(t) PROVE Move
  BY <1>1 DEF Submits, SinkMove, Callers
<1>2. CASE Draining
  BY <1>2 DEF Draining, SinkMove, DrainStep
<1>3. CASE PopRequest
  BY <1>3 DEF PopRequest, SinkMove, DrainStep
<1>4. CASE AfterDrain
  BY <1>4 DEF AfterDrain, SinkMove, DrainStep
<1>5. CASE PrepareSqe \/ GetSqeGivesUp
  BY <1>5 DEF PrepareSqe, GetSqeGivesUp, SinkMove, DrainStep
<1>6. CASE Resolve
  BY <1>6 DEF Resolve, SinkMove, DrainStep, sinkAllVars
<1>7. CASE CallbackSubmits \/ CallbackNotifies
  BY <1>7 DEF CallbackSubmits, CallbackNotifies, SinkMove
<1>8. CASE WakesForNothing \/ StopSink
  BY <1>8 DEF WakesForNothing, StopSink, SinkMove
<1>9. drainer \notin {"outside", "consume"} => step = "drain"
  BY DEF RingInv, ControlInv
<1>10. ASSUME NEW n \in 0 .. Unconsumed, SubmitToKernel(n) PROVE CounterMoves
  BY <1>9, <1>10 DEF SubmitToKernel, CounterMoves, SinkInv, SinkTypeOK
<1>11. CASE SubmitToPoller
  <2>1. Unconsumed \in Int
    BY DEF Unconsumed, RingInv, RingTypeOK
  <2>2. QED
    BY <1>9, <1>11, <2>1 DEF SubmitToPoller, CounterMoves, SinkInv, SinkTypeOK
<1>12. CASE HandleCqe
  BY <1>9, <1>12 DEF HandleCqe, CounterMoves, SinkInv, SinkTypeOK
<1>13. CASE GetSqeFull \/ PrepareUnimplemented \/ SubmitBusy \/ NothingToProcess
            \/ FetchBatch \/ AdvanceCq \/ BackToLoop \/ GetSqeRetry \/ CallbackReturns
  BY <1>13 DEF GetSqeFull, PrepareUnimplemented, SubmitBusy, NothingToProcess, FetchBatch,
               AdvanceCq, BackToLoop, GetSqeRetry, CallbackReturns, sinkAllVars
<1>14. CASE KernelStep \/ StopConsumption \/ JoinAndExit \/ Ended \/ UNCHANGED vars
  BY <1>14 DEF KernelStep, KernelPolls, KernelCompletes, StopConsumption, JoinAndExit, Ended,
               vars
<1>15. QED
  BY <1>1, <1>2, <1>3, <1>4, <1>5, <1>6, <1>7, <1>8, <1>10, <1>11, <1>12, <1>13, <1>14
     DEF Next, WorkerStep, DestructorStep

\* The invariant of the sink.
LEMMA SinkStep ==
  ASSUME SinkInv, RingInv, [Next]_vars
  PROVE  SinkInv'
BY SinkView, SinkInductive

-----------------------------------------------------------------------------
(* The ring's half: types, program counters, indices.                       *)

\* The steps that leave the ring alone.
LEMMA QuietTypes ==
  ASSUME RingTypeOK, UNCHANGED ringVars
  PROVE  RingTypeOK'
BY DEF RingTypeOK, ringVars, Steps

\* Types: the steps of consume.
LEMMA ConsumeTypes ==
  ASSUME SinkInv, RingInv,
         PopRequest \/ GetSqeFull \/ PrepareSqe \/ PrepareUnimplemented
           \/ GetSqeRetry \/ GetSqeGivesUp
  PROVE  RingTypeOK'
<1> USE RingAssumption DEF RingInv, RingTypeOK, sqVars, cqVars, ownerVars, lifeVars, Goto, Steps
<1>1. CASE PopRequest
  BY <1>1 DEF PopRequest
<1>2. CASE GetSqeFull
  BY <1>2 DEF GetSqeFull
<1>3. step = "get_sqe" => hand \in Requests
  BY DEF SinkInv, SinkTypeOK, SinkControlInv, ControlInv
<1>4. CASE PrepareSqe
  BY <1>3, <1>4 DEF PrepareSqe
<1>5. CASE PrepareUnimplemented
  <2>1. StaleUserData \in Requests \cup {None}
    BY DEF StaleUserData
  <2>2. QED
    BY <1>3, <1>5, <2>1 DEF PrepareUnimplemented
<1>6. CASE GetSqeRetry
  BY <1>6 DEF GetSqeRetry
<1>7. CASE GetSqeGivesUp
  BY <1>7 DEF GetSqeGivesUp
<1>8. QED
  BY <1>1, <1>2, <1>4, <1>5, <1>6, <1>7

\* Types: the steps that consume SQEs.
LEMMA SubmitTypes ==
  ASSUME RingInv,
         (\E n \in 0 .. Unconsumed : SubmitToKernel(n)) \/ SubmitBusy \/ SubmitToPoller
           \/ KernelPolls
  PROVE  RingTypeOK'
<1> USE RingAssumption DEF RingInv, RingTypeOK, sqVars, cqVars, ownerVars, lifeVars, Goto, Steps
<1>1. Len(prepared) \in Nat
  OBVIOUS
<1>2. ASSUME NEW n \in 0 .. Unconsumed, SubmitToKernel(n) PROVE RingTypeOK'
  <2>1. n \in Nat /\ sq_head' = sq_head + n
    BY <1>1, <1>2 DEF Unconsumed, SubmitToKernel
  <2>2. cq \in Seq([sqe : 1 .. (sq_head + n), buffer : BOOLEAN])
    BY <2>1, CqTyped
  <2>3. in_kernel' \subseteq 1 .. (sq_head + n)
    BY <1>2, <2>1 DEF SubmitToKernel
  <2>4. QED
    BY <1>1, <1>2, <2>1, <2>2, <2>3 DEF SubmitToKernel
<1>3. CASE SubmitBusy
  BY <1>1, <1>3 DEF SubmitBusy
<1>4. CASE SubmitToPoller
  BY <1>1, <1>4 DEF SubmitToPoller
<1>5. CASE KernelPolls
  <2>1. cq \in Seq([sqe : 1 .. (sq_head + 1), buffer : BOOLEAN])
    BY CqTyped
  <2>2. in_kernel' \subseteq 1 .. (sq_head + 1)
    BY <1>5 DEF KernelPolls
  <2>3. QED
    BY <1>5, <2>1, <2>2 DEF KernelPolls
<1>6. QED
  BY <1>2, <1>3, <1>4, <1>5

\* Types: the steps that move the completion ring.
LEMMA CompletionTypes ==
  ASSUME RingInv,
         (\E i \in in_kernel : KernelCompletes(i)) \/ NothingToProcess \/ FetchBatch
           \/ HandleCqe \/ AdvanceCq
  PROVE  RingTypeOK'
<1> USE SinkAssumption, RingAssumption
    DEF RingInv, RingTypeOK, sqVars, cqVars, ownerVars, lifeVars, Goto, Steps
<1>1. ASSUME NEW i \in in_kernel, KernelCompletes(i) PROVE RingTypeOK'
  <2>1. i \in 1 .. sq_head
    OBVIOUS
  <2>2. PICK b \in BOOLEAN : cq' = Append(cq, [sqe |-> i, buffer |-> b])
    BY <1>1 DEF KernelCompletes
  <2>3. [sqe |-> i, buffer |-> b] \in [sqe : 1 .. sq_head, buffer : BOOLEAN]
    BY <2>1
  <2>4. cq' \in Seq([sqe : 1 .. sq_head, buffer : BOOLEAN]) /\ Len(cq') = Len(cq) + 1
    BY <2>2, <2>3
  <2>5. in_kernel' \subseteq in_kernel
    BY <1>1 DEF KernelCompletes
  <2>6. /\ batch \in 0 .. Len(cq')
        /\ in_kernel' \subseteq 1 .. sq_head
    BY <2>4, <2>5
  <2>7. UNCHANGED <<kernel, prepared, published, sq_head, batch, seen, linked_sqe, tries, step,
                    completing, resolved, stop_consumption, destructor, bare>>
    BY <1>1 DEF KernelCompletes
  <2>8. QED
    BY <2>4, <2>6, <2>7
<1>2. CASE NothingToProcess
  BY <1>2 DEF NothingToProcess
<1>3. CASE FetchBatch
  BY <1>3 DEF FetchBatch, IndexInv
<1>4. CASE HandleCqe
  <2>1. completing' \in Requests \cup {None} /\ step' \in Steps /\ bare' \subseteq Requests
    BY <1>4 DEF HandleCqe
  <2>2. QED
    BY <1>4, <2>1 DEF HandleCqe
<1>5. CASE AdvanceCq
  <2>1. batch \in 0 .. Len(cq)
    OBVIOUS
  <2>2. cq' \in Seq([sqe : 1 .. sq_head, buffer : BOOLEAN])
    BY <1>5, <2>1, DropSome DEF AdvanceCq
  <2>3. QED
    BY <1>5, <2>2 DEF AdvanceCq
<1>6. QED
  BY <1>1, <1>2, <1>3, <1>4, <1>5

\* Types: callbacks, the loop, the destructor.
LEMMA CallbackTypes ==
  ASSUME RingInv,
         AfterDrain \/ BackToLoop \/ CallbackSubmits \/ CallbackNotifies \/ CallbackReturns
           \/ Resolve \/ StopConsumption \/ JoinAndExit
  PROVE  RingTypeOK'
<1> USE RingAssumption DEF RingInv, RingTypeOK, sqVars, cqVars, ownerVars, lifeVars, Goto, Steps
<1>1. CASE AfterDrain
  BY <1>1 DEF AfterDrain
<1>2. CASE BackToLoop
  BY <1>2 DEF BackToLoop
<1>3. CASE CallbackSubmits
  BY <1>3 DEF CallbackSubmits
<1>4. CASE CallbackNotifies
  BY <1>4 DEF CallbackNotifies
<1>5. CASE CallbackReturns
  BY <1>5 DEF CallbackReturns
<1>6. CASE Resolve
  <2>1. completing \in Requests
    BY <1>6 DEF Resolve, ControlInv
  <2>2. QED
    BY <1>6, <2>1 DEF Resolve
<1>7. CASE StopConsumption
  BY <1>7 DEF StopConsumption, sinkAllVars
<1>8. CASE JoinAndExit
  BY <1>8 DEF JoinAndExit, sinkAllVars
<1>9. QED
  BY <1>1, <1>2, <1>3, <1>4, <1>5, <1>6, <1>7, <1>8

\* Types: every step.
LEMMA RingTypeStep ==
  ASSUME SinkInv, RingInv, [Next]_vars
  PROVE  RingTypeOK'
<1>1. RingTypeOK
  BY DEF RingInv
<1>2. Draining \/ WakesForNothing \/ (\E t \in Threads : Submits(t)) \/ StopSink \/ Ended
        \/ UNCHANGED vars => UNCHANGED ringVars
  BY DEF Draining, WakesForNothing, Submits, StopSink, Ended, vars
<1>3. QED
  BY <1>1, <1>2, QuietTypes, ConsumeTypes, SubmitTypes, CompletionTypes, CallbackTypes
     DEF Next, WorkerStep, KernelStep, DestructorStep

\* Program counters: every step.
LEMMA ControlStep ==
  ASSUME SinkInv, RingInv, [Next]_vars
  PROVE  ControlInv'
<1> USE SinkAssumption, RingAssumption, WorkerIsSome DEF Goto
<1>1. ControlInv /\ RingTypeOK
  BY DEF RingInv
<1> USE DEF ControlInv
<1>2. UNCHANGED <<ringVars, drainer>> => ControlInv'
  BY <1>1 DEF ringVars
<1>3. CASE Draining
  BY <1>1, <1>3 DEF Draining, DrainEnter, DrainCheck, DrainBlock, DrainWake, DrainLeave, ringVars
<1>4. CASE PopRequest
  BY <1>1, <1>4 DEF PopRequest, DrainPop, RingInv, IndexInv, cqVars
<1>5. CASE AfterDrain
  BY <1>1, <1>5 DEF AfterDrain, DrainReturn, cqVars
<1>6. CASE PrepareSqe \/ GetSqeGivesUp
  BY <1>1, <1>6 DEF PrepareSqe, GetSqeGivesUp, DrainConsumed, cqVars
<1>7. step = "get_sqe" => hand \in Requests
  BY <1>1 DEF SinkInv, SinkTypeOK, SinkControlInv
<1>8. CASE PrepareUnimplemented
  BY <1>1, <1>7, <1>8 DEF PrepareUnimplemented, sinkAllVars, sinkVars
<1>9. CASE GetSqeFull \/ NothingToProcess \/ BackToLoop \/ GetSqeRetry \/ CallbackReturns
  BY <1>1, <1>9 DEF GetSqeFull, NothingToProcess, BackToLoop, GetSqeRetry, CallbackReturns,
                    sinkAllVars, sinkVars, cqVars
<1>10. ASSUME NEW n \in 0 .. Unconsumed, SubmitToKernel(n) PROVE ControlInv'
  BY <1>1, <1>10 DEF SubmitToKernel, sinkVars
<1>11. CASE SubmitBusy \/ SubmitToPoller
  BY <1>1, <1>11 DEF SubmitBusy, SubmitToPoller, sinkVars
<1>12. CASE FetchBatch
  BY <1>1, <1>12 DEF FetchBatch, sinkAllVars, sinkVars
<1>13. CASE HandleCqe
  <2>1. batch \in Nat /\ batch' = batch /\ seen \in 0 .. batch /\ seen < batch
    BY <1>1, <1>13 DEF HandleCqe, RingTypeOK
  <2>2. drainer' = drainer /\ batch' # 0
    BY <1>13, <2>1 DEF HandleCqe, sinkVars
  <2>3. QED
    BY <1>1, <1>13, <2>2 DEF HandleCqe
<1>14. CASE AdvanceCq
  BY <1>1, <1>14 DEF AdvanceCq, sinkAllVars, sinkVars
<1>15. CASE CallbackSubmits
  BY <1>1, <1>15 DEF CallbackSubmits, EnqueueIoRequest, cqVars
<1>16. CASE CallbackNotifies
  BY <1>1, <1>16 DEF CallbackNotifies, NotifyOne, cqVars
<1>17. CASE Resolve
  BY <1>1, <1>17 DEF Resolve, DrainConsumed, sinkVars, cqVars
<1>18. ASSUME NEW t \in Threads, Submits(t) PROVE ControlInv'
  BY <1>2, <1>18 DEF Submits, EnqueueIoRequest, NotifyOne
<1>19. CASE WakesForNothing \/ StopSink
  BY <1>2, <1>19 DEF WakesForNothing, StopSink, SpuriousWake, Stop, NotifyAll
<1>20. CASE KernelStep \/ StopConsumption \/ JoinAndExit
  BY <1>1, <1>20 DEF KernelStep, KernelPolls, KernelCompletes, StopConsumption, JoinAndExit,
                     sinkAllVars, sinkVars, cqVars
<1>21. CASE Ended \/ UNCHANGED vars
  BY <1>2, <1>21 DEF Ended, vars, sinkAllVars, sinkVars
<1>22. QED
  BY <1>3, <1>4, <1>5, <1>6, <1>8, <1>9, <1>10, <1>11, <1>12, <1>13, <1>14, <1>15, <1>16, <1>17,
     <1>18, <1>19, <1>20, <1>21 DEF Next, WorkerStep, DestructorStep

\* Indices: every step.
LEMMA IndexStep ==
  ASSUME SinkInv, RingInv, [Next]_vars
  PROVE  IndexInv'
<1> USE DEF Goto
<1>1. IndexInv /\ ControlInv
  BY DEF RingInv
<1>2. Len(prepared) \in Nat /\ published \in Nat /\ sq_head \in Nat /\ batch \in Nat
  BY DEF RingInv, RingTypeOK
<1> USE DEF IndexInv
<1>3. UNCHANGED ringVars => IndexInv'
  BY <1>1 DEF ringVars
<1>4. CASE Draining \/ WakesForNothing \/ (\E t \in Threads : Submits(t)) \/ StopSink \/ Ended
           \/ UNCHANGED vars
  BY <1>3, <1>4 DEF Draining, WakesForNothing, Submits, StopSink, Ended, vars
<1>5. CASE PopRequest \/ AfterDrain
  BY <1>1, <1>5 DEF PopRequest, AfterDrain, DrainReturn, DrainPop, ControlInv, sqVars, cqVars
<1>6. CASE GetSqeFull \/ NothingToProcess \/ BackToLoop \/ GetSqeRetry \/ GetSqeGivesUp
  BY <1>1, <1>6 DEF GetSqeFull, NothingToProcess, BackToLoop, GetSqeRetry, GetSqeGivesUp, sqVars,
                    cqVars
<1>7. CASE PrepareSqe \/ PrepareUnimplemented
  <2>1. prepared \in Seq(Requests \cup {None}) /\ hand \in Requests \cup {None}
    BY DEF SinkInv, SinkTypeOK, RingInv, RingTypeOK
  <2>2. StaleUserData \in Requests \cup {None}
    BY <2>1, RingAssumption DEF StaleUserData
  <2>3. \/ prepared' = Append(prepared, hand)
        \/ prepared' = Append(prepared, StaleUserData)
    BY <1>7 DEF PrepareSqe, PrepareUnimplemented
  <2>4. Len(prepared') = Len(prepared) + 1
    BY <2>1, <2>2, <2>3
  <2>5. batch' = 0 /\ UNCHANGED <<published, sq_head>>
    BY <1>1, <1>7 DEF PrepareSqe, PrepareUnimplemented, cqVars
  <2>6. QED
    BY <1>1, <1>2, <2>4, <2>5
<1>8. ASSUME NEW n \in 0 .. Unconsumed, SubmitToKernel(n) PROVE IndexInv'
  BY <1>1, <1>2, <1>8 DEF SubmitToKernel, Unconsumed, cqVars
<1>9. CASE SubmitBusy \/ SubmitToPoller
  BY <1>1, <1>2, <1>9 DEF SubmitBusy, SubmitToPoller, cqVars
<1>10. CASE FetchBatch \/ HandleCqe \/ AdvanceCq
  BY <1>1, <1>10 DEF FetchBatch, HandleCqe, AdvanceCq, sqVars
<1>11. CASE CallbackSubmits \/ CallbackNotifies \/ CallbackReturns
  BY <1>1, <1>11 DEF CallbackSubmits, CallbackNotifies, CallbackReturns, sqVars, cqVars
<1>12. CASE Resolve
  BY <1>1, <1>12 DEF Resolve, sqVars, cqVars
<1>13. CASE KernelStep
  BY <1>1, <1>2, <1>13 DEF KernelStep, KernelPolls, KernelCompletes, sqVars, cqVars
<1>14. CASE StopConsumption \/ JoinAndExit
  BY <1>1, <1>14 DEF StopConsumption, JoinAndExit, sqVars, cqVars
<1>15. QED
  BY <1>4, <1>5, <1>6, <1>7, <1>8, <1>9, <1>10, <1>11, <1>12, <1>13, <1>14
     DEF Next, WorkerStep, DestructorStep

-----------------------------------------------------------------------------
(* The counter.                                                             *)

\* The SQEs the kernel works on are finitely many.
LEMMA KernelSetFinite ==
  ASSUME RingTypeOK
  PROVE  IsFiniteSet(in_kernel) /\ Cardinality(in_kernel) \in Nat
<1>1. sq_head \in Int /\ in_kernel \in SUBSET (1 .. sq_head)
  BY DEF RingTypeOK
<1>2. IsFiniteSet(1 .. sq_head)
  BY <1>1, FS_Interval
<1>3. QED
  BY <1>1, <1>2, FS_Subset, FS_CardinalityType

\* Consuming n more SQEs adds n to what the kernel works on.
LEMMA KernelSetGrows ==
  ASSUME RingTypeOK, NEW n \in Nat
  PROVE  Cardinality(in_kernel \cup (sq_head + 1) .. (sq_head + n)) = Cardinality(in_kernel) + n
<1> DEFINE New == (sq_head + 1) .. (sq_head + n)
<1>1. IsFiniteSet(in_kernel) /\ Cardinality(in_kernel) \in Nat
  BY KernelSetFinite
<1>2. sq_head \in Nat /\ in_kernel \subseteq 1 .. sq_head
  BY DEF RingTypeOK
<1>3. IsFiniteSet(New) /\ Cardinality(New) = n
  <2>1. sq_head + 1 \in Int /\ sq_head + n \in Int
    BY <1>2
  <2>2. QED
    BY <1>2, <2>1, FS_Interval
<1>4. in_kernel \cap New = {}
  BY <1>2
<1> HIDE DEF New
<1>5. Cardinality(in_kernel \cup New)
        = Cardinality(in_kernel) + Cardinality(New) - Cardinality(in_kernel \cap New)
  BY <1>1, <1>3, FS_Union
<1>6. Cardinality(in_kernel \cap New) = 0
  BY <1>4, FS_EmptySet
<1>7. Cardinality(in_kernel \cup New) = Cardinality(in_kernel) + n
  BY <1>1, <1>3, <1>5, <1>6
<1>8. QED
  BY <1>7 DEF New

\* Every step keeps submission_pending_count_ equal to (or, with a polling kernel thread, not
\* below) the number of CQEs that are due.
LEMMA PendingStep ==
  ASSUME IInv, [Next]_vars
  PROVE  PendingCountSound'
<1> USE DEF Goto
<1>1. RingTypeOK /\ IndexInv /\ PendingCountSound
  BY DEF IInv, RingInv
<1>2. /\ Len(prepared) \in Nat /\ published \in Nat /\ sq_head \in Nat
      /\ Len(cq) \in Nat /\ batch \in 0 .. Len(cq) /\ seen \in 0 .. batch
      /\ pending_sqe \in Int
  BY DEF IInv, RingInv, RingTypeOK, SinkInv, SinkTypeOK
<1>3. IsFiniteSet(in_kernel) /\ Cardinality(in_kernel) \in Nat
  BY <1>1, KernelSetFinite
<1>4. sq_head <= published /\ published <= Len(prepared)
  BY <1>1 DEF IndexInv
<1>5. UNCHANGED <<kernel, in_kernel, cq, seen, pending_sqe, published, sq_head>>
        => PendingCountSound'
  BY <1>1 DEF PendingCountSound, Outstanding
<1>6. CASE \/ Draining \/ PopRequest \/ AfterDrain \/ WakesForNothing \/ StopSink
           \/ \E t \in Threads : Submits(t)
  BY <1>5, <1>6 DEF Draining, PopRequest, AfterDrain, WakesForNothing, StopSink, Submits,
                    ringVars, sqVars, cqVars, ownerVars, lifeVars
<1>7. CASE \/ GetSqeFull \/ NothingToProcess \/ BackToLoop \/ GetSqeRetry \/ GetSqeGivesUp
           \/ FetchBatch
  BY <1>5, <1>7 DEF GetSqeFull, NothingToProcess, BackToLoop, GetSqeRetry, GetSqeGivesUp,
                    FetchBatch, sinkAllVars, sqVars, cqVars, ownerVars, lifeVars
<1>8. CASE PrepareSqe \/ PrepareUnimplemented
  BY <1>5, <1>8 DEF PrepareSqe, PrepareUnimplemented, sinkAllVars, cqVars, ownerVars, lifeVars
<1>9. CASE CallbackSubmits \/ CallbackNotifies \/ CallbackReturns \/ Resolve
  BY <1>5, <1>9 DEF CallbackSubmits, CallbackNotifies, CallbackReturns, Resolve, sinkAllVars,
                    sqVars, cqVars, ownerVars, lifeVars
<1>10. CASE StopConsumption \/ JoinAndExit
  BY <1>5, <1>10 DEF StopConsumption, JoinAndExit, sinkAllVars, sqVars, cqVars
<1>11. CASE Ended \/ UNCHANGED vars
  BY <1>5, <1>11 DEF Ended, vars, sinkAllVars, ringVars
<1>12. ASSUME NEW n \in 0 .. Unconsumed, SubmitToKernel(n) PROVE PendingCountSound'
  <2>1. n \in Nat
    BY <1>2 DEF Unconsumed
  <2>2. Cardinality(in_kernel') = Cardinality(in_kernel) + n
    BY <1>1, <1>12, <2>1, KernelSetGrows DEF SubmitToKernel
  <2>3. kernel # "sqpoll" /\ kernel' = kernel /\ cq' = cq /\ seen' = seen
    BY <1>12 DEF SubmitToKernel, cqVars, ownerVars, lifeVars
  <2>4. pending_sqe' = pending_sqe + n
    BY <1>12 DEF SubmitToKernel
  <2>5. QED
    BY <1>1, <1>2, <1>3, <2>1, <2>2, <2>3, <2>4 DEF PendingCountSound, Outstanding
<1>13. CASE SubmitBusy
  <2>1. kernel = "busy" /\ UNCHANGED <<kernel, in_kernel, cq, seen, pending_sqe>>
    BY <1>13 DEF SubmitBusy, cqVars, ownerVars, lifeVars
  <2>2. QED
    BY <1>1, <2>1 DEF PendingCountSound, Outstanding
<1>14. CASE SubmitToPoller
  <2>1. /\ kernel = "sqpoll" /\ UNCHANGED <<kernel, in_kernel, cq, seen, sq_head>>
        /\ published' = Len(prepared) /\ pending_sqe' = pending_sqe + (Len(prepared) - sq_head)
    BY <1>14 DEF SubmitToPoller, Unconsumed, cqVars, ownerVars, lifeVars
  <2>2. QED
    BY <1>1, <1>2, <1>3, <1>4, <2>1 DEF PendingCountSound, Outstanding
<1>15. CASE KernelPolls
  <2>1. /\ kernel = "sqpoll" /\ UNCHANGED <<kernel, cq, seen, published, pending_sqe>>
        /\ sq_head' = sq_head + 1 /\ in_kernel' = in_kernel \cup {sq_head + 1}
    BY <1>15 DEF KernelPolls, sinkAllVars, cqVars, ownerVars, lifeVars
  <2>2. sq_head + 1 \notin in_kernel
    BY <1>1, <1>2 DEF RingTypeOK
  <2>3. Cardinality(in_kernel') = Cardinality(in_kernel) + 1
    BY <1>3, <2>1, <2>2, FS_AddElement
  <2>4. QED
    BY <1>1, <1>2, <1>3, <2>1, <2>3 DEF PendingCountSound, Outstanding
<1>16. ASSUME NEW i \in in_kernel, KernelCompletes(i) PROVE PendingCountSound'
  <2>1. /\ UNCHANGED <<kernel, seen, published, sq_head, pending_sqe>>
        /\ in_kernel' = in_kernel \ {i}
    BY <1>16 DEF KernelCompletes, sinkAllVars, sqVars, ownerVars, lifeVars
  <2>2. Cardinality(in_kernel') = Cardinality(in_kernel) - 1
    BY <1>3, <2>1, FS_RemoveElement
  <2>3. Len(cq') = Len(cq) + 1
    <3>1. PICK b \in BOOLEAN : cq' = Append(cq, [sqe |-> i, buffer |-> b])
      BY <1>16 DEF KernelCompletes
    <3>2. i \in 1 .. sq_head /\ cq \in Seq([sqe : 1 .. sq_head, buffer : BOOLEAN])
      BY <1>1 DEF RingTypeOK
    <3>3. QED
      BY <3>1, <3>2
  <2>4. QED
    BY <1>1, <1>2, <1>3, <2>1, <2>2, <2>3 DEF PendingCountSound, Outstanding
<1>17. CASE HandleCqe
  <2>1. /\ UNCHANGED <<kernel, in_kernel, cq, published, sq_head>>
        /\ seen' = seen + 1 /\ pending_sqe' = pending_sqe - 1
    BY <1>17 DEF HandleCqe, sqVars, lifeVars
  <2>2. QED
    BY <1>1, <1>2, <1>3, <2>1 DEF PendingCountSound, Outstanding
<1>18. CASE AdvanceCq
  <2>1. /\ UNCHANGED <<kernel, in_kernel, published, sq_head, pending_sqe>>
        /\ seen' = 0 /\ seen = batch /\ cq' = SubSeq(cq, batch + 1, Len(cq))
    BY <1>18 DEF AdvanceCq, sinkAllVars, sqVars, ownerVars, lifeVars
  <2>2. Len(cq') = Len(cq) - batch
    BY <1>1, <1>2, <2>1, DropSome DEF RingTypeOK
  <2>3. QED
    BY <1>1, <1>2, <1>3, <2>1, <2>2 DEF PendingCountSound, Outstanding
<1>19. QED
  BY <1>6, <1>7, <1>8, <1>9, <1>10, <1>11, <1>12, <1>13, <1>14, <1>15, <1>16, <1>17, <1>18
     DEF Next, WorkerStep, KernelStep, DestructorStep

-----------------------------------------------------------------------------
(* The invariant, and what it says.                                         *)

\* The constructor establishes the inductive invariant.
LEMMA RingInitially == Init => IInv
<1> SUFFICES ASSUME Init PROVE IInv
  OBVIOUS
<1> USE RingAssumption DEF Init
<1>1. SinkInv
  BY SinkInitially
<1>2. RingTypeOK
  <2>1. prepared \in Seq(Requests \cup {None})
    OBVIOUS
  <2>2. cq \in Seq([sqe : 1 .. sq_head, buffer : BOOLEAN]) /\ Len(cq) = 0
    OBVIOUS
  <2>3. in_kernel \subseteq 1 .. sq_head /\ resolved \subseteq Requests /\ bare \subseteq Requests
    OBVIOUS
  <2>4. linked_sqe \in BOOLEAN /\ stop_consumption \in BOOLEAN
    OBVIOUS
  <2>5. /\ kernel \in Kernels /\ published \in Nat /\ sq_head \in Nat
        /\ batch \in 0 .. 0 /\ seen \in 0 .. batch /\ tries \in 0 .. MaxTry
        /\ step \in Steps /\ completing \in Requests \cup {None}
        /\ destructor \in {"alive", "joining", "gone"}
    BY DEF Steps
  <2> HIDE DEF Init
  <2>6. QED
    BY <2>1, <2>2, <2>3, <2>4, <2>5 DEF RingTypeOK
<1>3. ControlInv /\ IndexInv
  BY DEF ControlInv, IndexInv, SinkInit
<1>4. PendingCountSound
  BY FS_EmptySet DEF PendingCountSound, Outstanding, SinkInit
<1>5. QED
  BY <1>1, <1>2, <1>3, <1>4 DEF IInv, RingInv

\* The inductive invariant holds in every behaviour.
THEOREM RingInvariant == Safety => []IInv
<1>1. Init => IInv
  BY RingInitially
<1>2. IInv /\ [Next]_vars => IInv'
  BY SinkStep, RingTypeStep, ControlStep, IndexStep, PendingStep DEF IInv, RingInv
<1>3. QED
  BY <1>1, <1>2, PTL DEF Safety

\* Every variable of the sink and of the ring keeps its type.
THEOREM TypeCorrect == Safety => []TypeOK
<1>1. IInv => TypeOK
  BY DEF IInv, SinkInv, RingInv, TypeOK
<1>2. QED
  BY <1>1, RingInvariant, PTL

\* submission_pending_count_ is exactly what its comment says, the number of SQEs consumed by
\* the kernel whose CQE has not been handled; with a polling kernel thread it is not below that.
THEOREM PendingCountIsSound == Safety => []PendingCountSound
<1>1. IInv => PendingCountSound
  BY DEF IInv
<1>2. QED
  BY <1>1, RingInvariant, PTL

\* No request waits in the queue of a sleeping worker without a notify_one to come.
THEOREM RingLosesNoWakeup == Safety => []NoLostWakeup
<1>1. IInv => NoLostWakeup
  BY DEF IInv, SinkInv, SinkSleepInv
<1>2. QED
  BY <1>1, RingInvariant, PTL

\* The inductive invariant lets no worker sleep on work: its count of SQEs is zero then.
LEMMA SleeperIsIdle == IInv => SleepsOnlyWhenIdle
<1> SUFFICES ASSUME IInv, waiting PROVE SleepsOnlyWhenIdle
  BY DEF SleepsOnlyWhenIdle
<1>1. pending_sqe \in Int /\ pending_sqe <= 0
  BY DEF IInv, SinkInv, SinkTypeOK, SinkSleepInv
<1>2. step = "drain"
  BY DEF IInv, SinkInv, SinkControlInv, RingInv, ControlInv
<1>3. /\ RingTypeOK
      /\ batch = 0
      /\ sq_head \in Nat /\ published \in Nat /\ sq_head <= published
  BY <1>2 DEF IInv, RingInv, IndexInv, RingTypeOK
<1>4. seen = 0 /\ cq \in Seq([sqe : 1 .. sq_head, buffer : BOOLEAN]) /\ Len(cq) \in Nat
  BY <1>3 DEF RingTypeOK
<1>5. IsFiniteSet(in_kernel) /\ Cardinality(in_kernel) \in Nat
  BY <1>3, KernelSetFinite
<1>6. /\ Cardinality(in_kernel) = 0 /\ Len(cq) = 0
      /\ kernel = "sqpoll" => published = sq_head
  BY <1>1, <1>3, <1>4, <1>5 DEF IInv, PendingCountSound, Outstanding
<1>7. in_kernel = {}
  BY <1>5, <1>6, FS_EmptySet
<1>8. cq = <<>>
  BY <1>4, <1>6
<1>9. QED
  BY <1>6, <1>7, <1>8 DEF SleepsOnlyWhenIdle

\* A worker in the wait set has no SQE in the kernel and no CQE to process.
THEOREM SleepIsIdle == Safety => []SleepsOnlyWhenIdle
BY SleeperIsIdle, RingInvariant, PTL
=============================================================================
