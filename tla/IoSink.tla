------------------------------- MODULE IoSink -------------------------------
(***************************************************************************)
(* IoSink (src/iouring/io_sink.h): the queue of I/O requests between the   *)
(* threads that call the API and the one worker thread of IoUring.         *)
(*                                                                         *)
(* A std::queue, a mutex, a condition variable and a plain bool stop_.     *)
(* Callers run EnqueueIoRequest; the worker runs Drain, which sleeps on    *)
(* the condition variable and then hands requests, oldest first, to the    *)
(* function `consume` while it holds the mutex; the destructor of IoUring  *)
(* runs Stop.  What the worker does inside `consume` and between two calls *)
(* of Drain belongs to IoUring.tla, which extends this module; seen from   *)
(* here it may change pending_sqe, the counter Drain gets by reference.    *)
(*                                                                         *)
(* Each step below is the code between two points where another thread's   *)
(* step can make a difference.  The condition variable is its wait set:    *)
(* releasing the mutex and entering the set is one step, a notification    *)
(* empties the set, and a thread may also wake for no reason.              *)
(***************************************************************************)
EXTENDS Integers, Sequences, FiniteSets

CONSTANTS
  Threads,     \* application threads that call EnqueueIoRequest
  Worker,      \* the only thread of IoUring's thread_pool_: it calls Drain
  Requests,    \* the requests of a run; each is enqueued at most once
  MaxDrain,    \* Drain's max_drain (params_external_.max_cqe_to_drain_)
  PendingSqe,  \* the values the counter takes while the worker is elsewhere
  None         \* no thread, no request

Callers == Threads \cup {Worker}

ASSUME SinkAssumption ==
  /\ Worker \notin Threads
  /\ None \notin Requests
  /\ None \notin Callers
  /\ MaxDrain \in Nat \ {0}
  /\ PendingSqe \subseteq Int

VARIABLES
  pending_io,   \* pending_io_, oldest first
  accepted,     \* history: every request enqueued so far, in lock order
  mutex,        \* the holder of pending_io_mutex_, or None
  waiting,      \* is the worker in the wait set of condition_?
  stop,         \* stop_
  drainer,      \* where the worker is in Drain
  drained,      \* current_drained, and Drain's result once it has returned
  hand,         \* the request popped and given to consume, or None
  caller,       \* where each caller is in EnqueueIoRequest
  closer,       \* where the destructor's call of Stop is
  pending_sqe   \* the counter passed as pending_sqe

sinkVars ==
  <<pending_io, accepted, mutex, waiting, stop, drainer, drained, hand, caller, closer>>

Closed == -100    \* -(long)StatusCode::kClosed

Accepted == {accepted[i] : i \in 1 .. Len(accepted)}

SinkTypeOK ==
  /\ pending_io \in Seq(Requests)
  /\ accepted \in Seq(Requests)
  /\ mutex \in {None, Worker}
  /\ waiting \in BOOLEAN
  /\ stop \in BOOLEAN
  /\ drainer \in {"outside", "check", "block", "asleep", "loop", "consume", "unlocked"}
  /\ drained \in {Closed} \cup 0 .. MaxDrain
  /\ hand \in Requests \cup {None}
  /\ caller \in [Callers -> {"idle", "notify"}]
  /\ closer \in {"open", "stopping", "stopped"}
  /\ pending_sqe \in Int

SinkInit ==
  /\ pending_io = <<>>
  /\ accepted = <<>>
  /\ mutex = None
  /\ waiting = FALSE
  /\ stop = FALSE
  /\ drainer = "outside"
  /\ drained = 0
  /\ hand = None
  /\ caller = [c \in Callers |-> "idle"]
  /\ closer = "open"
  /\ pending_sqe = 0

-----------------------------------------------------------------------------
(* EnqueueIoRequest, in two steps: the push under the mutex, then           *)
(* notify_one after the mutex is released.  The critical section of a       *)
(* caller does nothing that can block, so it is one step that needs the     *)
(* mutex free and leaves it free.  The assertion !stop_ compiles to nothing *)
(* in a release build.  A thread may call only while the IoUring object is  *)
(* alive; the worker calls from the callback of a completion, whenever that *)
(* runs, and holds the mutex itself when it runs inside consume.            *)

\* Mutant: the push does not take the mutex.
EnqueueUnlocked(c, r) ==
  /\ caller[c] = "idle"
  /\ r \notin Accepted
  /\ c \in Threads => closer = "open"
  /\ c = Worker => drainer \in {"outside", "consume"}
  /\ pending_io' = Append(pending_io, r)
  /\ accepted' = Append(accepted, r)
  /\ caller' = [caller EXCEPT ![c] = "notify"]
  /\ UNCHANGED <<mutex, waiting, stop, drainer, drained, hand, closer>>


EnqueueIoRequest(c, r) ==
  /\ caller[c] = "idle"
  /\ r \notin Accepted
  /\ c \in Threads => closer = "open"
  /\ c = Worker => drainer \in {"outside", "consume"}
  /\ mutex = None
  /\ pending_io' = Append(pending_io, r)
  /\ accepted' = Append(accepted, r)
  /\ caller' = [caller EXCEPT ![c] = "notify"]
  /\ UNCHANGED <<mutex, waiting, stop, drainer, drained, hand, closer>>

\* Mutant: no notification.
NotifyNobody(c) ==
  /\ caller[c] = "notify"
  /\ caller' = [caller EXCEPT ![c] = "idle"]
  /\ UNCHANGED <<pending_io, accepted, mutex, waiting, stop, drainer, drained, hand, closer>>


NotifyOne(c) ==
  /\ caller[c] = "notify"
  /\ waiting' = FALSE
  /\ caller' = [caller EXCEPT ![c] = "idle"]
  /\ UNCHANGED <<pending_io, accepted, mutex, stop, drainer, drained, hand, closer>>

-----------------------------------------------------------------------------
(* Drain.                                                                   *)

DrainEnter ==
  /\ drainer = "outside"
  /\ drained # Closed              \* the worker's loop ends on a negative count
  /\ caller[Worker] = "idle"
  /\ mutex = None
  /\ mutex' = Worker
  /\ drainer' = "check"
  /\ drained' = 0
  /\ UNCHANGED <<pending_io, accepted, waiting, stop, hand, caller, closer>>

\* Mutant: the wait looks at the queue only.
WaitForQueueOnly == stop \/ pending_io # <<>>


WaitIsOver == stop \/ pending_io # <<>> \/ pending_sqe > 0

DrainCheck ==
  /\ drainer = "check"
  /\ drainer' = IF WaitIsOver THEN "loop" ELSE "block"
  /\ UNCHANGED <<pending_io, accepted, mutex, waiting, stop, drained, hand, caller, closer>>

DrainBlock ==
  /\ drainer = "block"
  /\ drainer' = "asleep"
  /\ waiting' = TRUE
  /\ mutex' = None
  /\ UNCHANGED <<pending_io, accepted, stop, drained, hand, caller, closer>>

DrainWake ==
  /\ drainer = "asleep"
  /\ ~ waiting
  /\ mutex = None
  /\ mutex' = Worker
  /\ drainer' = "check"
  /\ UNCHANGED <<pending_io, accepted, waiting, stop, drained, hand, caller, closer>>

SpuriousWake ==
  /\ waiting
  /\ waiting' = FALSE
  /\ UNCHANGED <<pending_io, accepted, mutex, stop, drainer, drained, hand, caller, closer>>

\* Mutant: the newest request first.
DrainPopNewest ==
  /\ drainer = "loop"
  /\ ~ stop
  /\ pending_io # <<>>
  /\ hand' = pending_io[Len(pending_io)]
  /\ pending_io' = SubSeq(pending_io, 1, Len(pending_io) - 1)
  /\ drainer' = "consume"
  /\ UNCHANGED <<accepted, mutex, waiting, stop, drained, caller, closer>>

\* The head of the loop: pop the front, unless stopped or nothing is left.
DrainPop ==
  /\ drainer = "loop"
  /\ ~ stop
  /\ pending_io # <<>>
  /\ hand' = Head(pending_io)
  /\ pending_io' = Tail(pending_io)
  /\ drainer' = "consume"
  /\ UNCHANGED <<accepted, mutex, waiting, stop, drained, caller, closer>>

DrainLeave ==
  /\ drainer = "loop"
  /\ stop \/ pending_io = <<>>
  /\ drainer' = "unlocked"
  /\ mutex' = None
  /\ UNCHANGED <<pending_io, accepted, waiting, stop, drained, hand, caller, closer>>

\* Mutant: no limit on the number of requests drained.
DrainConsumedUnlimited(ok) ==
  /\ drainer = "consume"
  /\ hand' = None
  /\ drained' = drained + (IF ok THEN 1 ELSE 0)
  /\ drainer' = IF ok THEN "loop" ELSE "unlocked"
  /\ mutex' = IF ok THEN Worker ELSE None
  /\ UNCHANGED <<pending_io, accepted, waiting, stop, caller, closer>>

\* consume returned ok.  A request that was not consumed is gone: it was
\* popped before, and nothing puts it back.
DrainConsumed(ok) ==
  LET count == drained + (IF ok THEN 1 ELSE 0)
      again == ok /\ count < MaxDrain
  IN /\ drainer = "consume"
     /\ hand' = None
     /\ drained' = count
     /\ drainer' = IF again THEN "loop" ELSE "unlocked"
     /\ mutex' = IF again THEN Worker ELSE None
     /\ UNCHANGED <<pending_io, accepted, waiting, stop, caller, closer>>

\* stop_ is read again, after the mutex is released.
DrainReturn ==
  /\ drainer = "unlocked"
  /\ drainer' = "outside"
  /\ drained' = IF stop THEN Closed ELSE drained
  /\ UNCHANGED <<pending_io, accepted, mutex, waiting, stop, hand, caller, closer>>

-----------------------------------------------------------------------------
(* Stop, from the destructor: stop_ is written without the mutex.  The      *)
(* application may not destroy the object inside one of its own calls.      *)

Stop ==
  /\ closer = "open"
  /\ \A t \in Threads : caller[t] = "idle"
  /\ stop' = TRUE
  /\ closer' = "stopping"
  /\ UNCHANGED <<pending_io, accepted, mutex, waiting, drainer, drained, hand, caller>>

NotifyAll ==
  /\ closer = "stopping"
  /\ waiting' = FALSE
  /\ closer' = "stopped"
  /\ UNCHANGED <<pending_io, accepted, mutex, stop, drainer, drained, hand, caller>>

-----------------------------------------------------------------------------
\* What the worker does outside Drain, or inside consume, moves the counter.
Elsewhere ==
  /\ drainer \in {"outside", "consume"}
  /\ pending_sqe' \in PendingSqe
  /\ UNCHANGED sinkVars

DrainStep ==
  \/ DrainEnter \/ DrainCheck \/ DrainBlock \/ DrainWake
  \/ DrainPop \/ DrainLeave \/ (\E ok \in BOOLEAN : DrainConsumed(ok)) \/ DrainReturn

SinkMove ==
  \/ DrainStep
  \/ SpuriousWake
  \/ \E c \in Callers : NotifyOne(c) \/ \E r \in Requests : EnqueueIoRequest(c, r)
  \/ Stop
  \/ NotifyAll

SinkNext == (SinkMove /\ UNCHANGED pending_sqe) \/ Elsewhere

sinkAllVars == <<sinkVars, pending_sqe>>

SinkSafety == SinkInit /\ [][SinkNext]_sinkAllVars

\* Scheduling: a thread inside EnqueueIoRequest, Drain or Stop keeps running,
\* consume returns, and the worker's loop calls Drain again.  Nobody has to
\* call the API, destroy the object or wake for no reason.
SinkFairness ==
  /\ WF_sinkAllVars(DrainStep /\ UNCHANGED pending_sqe)
  /\ \A c \in Callers : WF_sinkAllVars(NotifyOne(c) /\ UNCHANGED pending_sqe)
  /\ WF_sinkAllVars(NotifyAll /\ UNCHANGED pending_sqe)

SinkSpec == SinkSafety /\ SinkFairness

-----------------------------------------------------------------------------
(* Properties.                                                              *)

\* No lost wakeup on the enqueue side: while the worker is in the wait set
\* with a request in the queue, the caller that pushed one (or another) has
\* its notify_one still to come.
NoLostWakeup ==
  waiting /\ pending_io # <<>> => \E c \in Callers : caller[c] = "notify"

\* How many requests have been popped.
TakenCount == Len(accepted) - Len(pending_io)

\* "Drain returns count less than 0, if io_sink_ is stopped" (io_uring.cc:1361):
\* once Stop has been called the worker leaves Drain with kClosed.
StopEndsDrain == stop ~> drained = Closed
=============================================================================
