------------------------------- MODULE IoUring -------------------------------
(***************************************************************************)
(* IoUring with its internal submit/consume thread, the default mode       *)
(* (src/iouring/io_uring.cc, io_uring.h, io_completion.h), on top of       *)
(* IoSink.                                                                 *)
(*                                                                         *)
(* The worker runs DoProcessIoRequests: Drain the sink, preparing one SQE  *)
(* per request; submit the SQEs unless the last one is linked to a         *)
(* request still to come; process the completion ring; repeat.  Preparing  *)
(* an SQE may find the submission ring full, and then submits and          *)
(* processes completions right there, inside Drain, with the mutex of the  *)
(* sink held.                                                              *)
(*                                                                         *)
(* SQEs are numbered 1, 2, 3, ... in the order io_uring_get_sqe gives them *)
(* out: number i lives in slot i % SqSize of the ring, prepared[i] is its  *)
(* user_data, and what a slot held before is prepared[i - SqSize].  The    *)
(* kernel takes SQEs in that order, performs them in any order (a link     *)
(* orders fewer runs, so any order covers the linked ones), and posts one  *)
(* CQE for each.  Only requests with one CQE are in this model: multishot  *)
(* operations, zero-copy sends and CQE_SKIP_SUCCESS are not.               *)
(***************************************************************************)
EXTENDS IoSink

CONSTANTS
  SqSize,        \* entries of the submission ring
  MaxTry,        \* max_try of GetSqe
  Kernels,       \* the ways a kernel may answer io_uring_submit, see kernel
  Resubmitters,  \* requests whose callback makes one new request
  Linked,        \* requests with IOSQE_IO_LINK or IOSQE_IO_HARDLINK
  Unimplemented, \* requests whose opcode has no case in PrepareSqe
  Selecting      \* requests that use a provided buffer (a valid Gid)

ASSUME RingAssumption ==
  /\ SqSize \in Nat \ {0}
  /\ MaxTry \in Nat \ {0}
  /\ Kernels \subseteq {"all", "short", "busy", "sqpoll"}
  /\ Resubmitters \subseteq Requests
  /\ Linked \subseteq Requests
  /\ Unimplemented \subseteq Requests
  /\ Selecting \subseteq Requests

VARIABLES
  kernel,      \* how io_uring_submit ends: "all" SQEs consumed; "short", any
               \* non-empty part of them; "busy", as "short" or -EBUSY; "sqpoll",
               \* they are left to a kernel thread that consumes them later
  prepared,    \* prepared[i]: the user_data of SQE i
  published,   \* the last SQE io_uring_submit made visible to the kernel
  sq_head,     \* the last SQE the kernel has consumed
  in_kernel,   \* SQEs the kernel works on
  cq,          \* the completion ring, oldest first: [sqe, buffer (F_BUFFER set?)]
  batch,       \* CQEs fetched by io_uring_peek_batch_cqe and not yet released
  seen,        \* CQEs of the batch given to HandleCqe
  linked_sqe,  \* linked_sqe_
  tries,       \* current_count of GetSqe
  step,        \* where the worker is outside Drain, or inside consume
  completing,  \* the request whose CompleteWith is running, or None
  resolved,    \* requests whose future has a value; their completion is deleted
  stop_consumption, \* stop_consumption_
  destructor,  \* where ~IoUring is after io_sink_.Stop()
  bare         \* history: requests a CQE without F_BUFFER came for, skipped by HandleCqe

ringVars ==
  <<kernel, prepared, published, sq_head, in_kernel, cq, batch, seen, linked_sqe,
    tries, step, completing, resolved, stop_consumption, destructor, bare>>

vars == <<sinkAllVars, ringVars>>

Steps ==
  {"drain", "get_sqe", "submit", "process", "handle", "callback", "notify",
   "resolve", "processed", "exit", "undefined"}

RingTypeOK ==
  /\ kernel \in Kernels
  /\ prepared \in Seq(Requests \cup {None})
  /\ published \in Nat
  /\ sq_head \in Nat
  /\ in_kernel \subseteq 1 .. sq_head
  /\ cq \in Seq([sqe : 1 .. sq_head, buffer : BOOLEAN])
  /\ batch \in 0 .. Len(cq)
  /\ seen \in 0 .. batch
  /\ linked_sqe \in BOOLEAN
  /\ tries \in 0 .. MaxTry
  /\ step \in Steps
  /\ completing \in Requests \cup {None}
  /\ resolved \subseteq Requests
  /\ stop_consumption \in BOOLEAN
  /\ destructor \in {"alive", "joining", "gone"}
  /\ bare \subseteq Requests

TypeOK == SinkTypeOK /\ RingTypeOK

Init ==
  /\ SinkInit
  /\ kernel \in Kernels
  /\ prepared = <<>>
  /\ published = 0
  /\ sq_head = 0
  /\ in_kernel = {}
  /\ cq = <<>>
  /\ batch = 0
  /\ seen = 0
  /\ linked_sqe = FALSE
  /\ tries = 0
  /\ step = "drain"
  /\ completing = None
  /\ resolved = {}
  /\ stop_consumption = FALSE
  /\ destructor = "alive"
  /\ bare = {}

sqVars == <<prepared, published, sq_head>>
cqVars == <<cq, batch, seen>>
lifeVars == <<kernel, stop_consumption, destructor>>
ownerVars == <<lifeVars, bare>>

-----------------------------------------------------------------------------
(* The application's threads, and the sink's own steps of the worker.       *)

Submits(t) ==
  /\ \/ \E r \in Requests : EnqueueIoRequest(t, r)
     \/ NotifyOne(t)
  /\ UNCHANGED <<pending_sqe, ringVars>>

Draining ==
  /\ step = "drain"
  /\ DrainEnter \/ DrainCheck \/ DrainBlock \/ DrainWake \/ DrainLeave
  /\ UNCHANGED <<pending_sqe, ringVars>>

WakesForNothing == SpuriousWake /\ UNCHANGED <<pending_sqe, ringVars>>

Goto(s) == step' = s

PopRequest ==
  /\ DrainPop
  /\ Goto("get_sqe")
  /\ UNCHANGED <<pending_sqe, sqVars, cqVars, in_kernel, linked_sqe, tries, completing,
                 resolved, ownerVars>>

\* Mutants: submit only when more than one SQE was prepared; submit also when the
\* last SQE is linked.
AfterDrainOffByOne ==
  /\ DrainReturn
  /\ Goto(CASE drained' > 1 /\ ~ linked_sqe -> "submit"
            [] drained' = Closed            -> "exit"
            [] OTHER                        -> "process")
  /\ UNCHANGED <<pending_sqe, sqVars, cqVars, in_kernel, linked_sqe, tries, completing,
                 resolved, ownerVars>>

AfterDrainIgnoresLink ==
  /\ DrainReturn
  /\ Goto(CASE drained' > 0      -> "submit"
            [] drained' = Closed -> "exit"
            [] OTHER             -> "process")
  /\ UNCHANGED <<pending_sqe, sqVars, cqVars, in_kernel, linked_sqe, tries, completing,
                 resolved, ownerVars>>

\* The body of DoProcessIoRequests after Drain.
AfterDrain ==
  /\ DrainReturn
  /\ Goto(IF drained' > 0 /\ ~ linked_sqe THEN "submit"
          ELSE IF drained' = Closed THEN "exit" ELSE "process")
  /\ UNCHANGED <<pending_sqe, sqVars, cqVars, in_kernel, linked_sqe, tries, completing,
                 resolved, ownerVars>>

-----------------------------------------------------------------------------
(* SubmitToKernel, from the loop or from GetSqe; ProcessCompletionsRing     *)
(* follows in both.  -EINTR is retried at once and changes nothing.         *)

Unconsumed == Len(prepared) - sq_head

ConsumedBy(n) ==
  \/ n = Unconsumed
  \/ kernel \in {"short", "busy"} /\ n > 0

\* Mutant: counts what was prepared, not what io_uring_submit returned.
SubmitCountsPrepared(n) ==
  /\ step = "submit"
  /\ kernel # "sqpoll"
  /\ ConsumedBy(n)
  /\ published' = Len(prepared)
  /\ sq_head' = sq_head + n
  /\ in_kernel' = in_kernel \cup (sq_head + 1) .. (sq_head + n)
  /\ pending_sqe' = pending_sqe + Unconsumed
  /\ Goto("process")
  /\ UNCHANGED <<sinkVars, prepared, cqVars, linked_sqe, tries, completing, resolved, ownerVars>>


SubmitToKernel(n) ==
  /\ step = "submit"
  /\ kernel # "sqpoll"
  /\ ConsumedBy(n)
  /\ published' = Len(prepared)
  /\ sq_head' = sq_head + n
  /\ in_kernel' = in_kernel \cup (sq_head + 1) .. (sq_head + n)
  /\ pending_sqe' = pending_sqe + n
  /\ Goto("process")
  /\ UNCHANGED <<sinkVars, prepared, cqVars, linked_sqe, tries, completing, resolved, ownerVars>>

\* -EBUSY: the result of SubmitToKernel is ignored by both callers.
SubmitBusy ==
  /\ step = "submit"
  /\ kernel = "busy"
  /\ published' = Len(prepared)
  /\ Goto("process")
  /\ UNCHANGED <<sinkVars, pending_sqe, prepared, sq_head, in_kernel, cqVars, linked_sqe,
                 tries, completing, resolved, ownerVars>>

\* With a polling kernel thread io_uring_submit returns the number of SQEs that
\* are in the ring, also those an earlier call has counted.
SubmitToPoller ==
  /\ step = "submit"
  /\ kernel = "sqpoll"
  /\ published' = Len(prepared)
  /\ pending_sqe' = pending_sqe + Unconsumed
  /\ Goto("process")
  /\ UNCHANGED <<sinkVars, prepared, sq_head, in_kernel, cqVars, linked_sqe, tries,
                 completing, resolved, ownerVars>>

(* The kernel: it takes SQEs by itself when it polls, and posts CQEs.       *)

KernelPolls ==
  /\ kernel = "sqpoll"
  /\ destructor # "gone"
  /\ sq_head < published
  /\ sq_head' = sq_head + 1
  /\ in_kernel' = in_kernel \cup {sq_head + 1}
  /\ UNCHANGED <<sinkAllVars, prepared, published, cqVars, linked_sqe, tries, step,
                 completing, resolved, ownerVars>>

\* A buffer is selected only when the operation got as far as using one: an
\* error, a cancellation or an exhausted group posts a CQE without F_BUFFER.
KernelCompletes(i) ==
  /\ destructor # "gone"
  /\ i \in in_kernel
  /\ in_kernel' = in_kernel \ {i}
  /\ \E b \in BOOLEAN :
       /\ b => prepared[i] \in Selecting
       /\ cq' = Append(cq, [sqe |-> i, buffer |-> b])
  /\ UNCHANGED <<sinkAllVars, sqVars, batch, seen, linked_sqe, tries, step, completing,
                 resolved, ownerVars>>

-----------------------------------------------------------------------------
(* ProcessCompletionsRing and DoProcessComplitionsRing.  The wait for a CQE *)
(* has a timeout of zero, so it only looks; other errors of the wait return *)
(* like its timeout does.                                                   *)

NothingToProcess ==
  /\ step = "process"
  /\ pending_sqe <= 0 \/ stop_consumption \/ cq = <<>>
  /\ Goto("processed")
  /\ UNCHANGED <<sinkAllVars, sqVars, cqVars, in_kernel, linked_sqe, tries, completing,
                 resolved, ownerVars>>

FetchBatch ==
  /\ step = "process"
  /\ pending_sqe > 0
  /\ ~ stop_consumption
  /\ cq # <<>>
  /\ batch' = IF Len(cq) < MaxDrain THEN Len(cq) ELSE MaxDrain
  /\ Goto("handle")
  /\ UNCHANGED <<sinkAllVars, sqVars, cq, seen, in_kernel, linked_sqe, tries, completing,
                 resolved, ownerVars>>

\* The user_data of the CQE that HandleCqe looks at.
Handler == prepared[cq[seen + 1].sqe]

\* HandleCqe: an SQE without a completion is only counted; a completion that
\* has had its value is deleted memory; a completion with a buffer group is
\* skipped when the CQE names no buffer; any other one is completed.
HandleCqe ==
  /\ step = "handle"
  /\ seen < batch
  /\ seen' = seen + 1
  /\ pending_sqe' = pending_sqe - 1
  /\ \/ /\ Handler = None
        /\ UNCHANGED <<step, completing, bare>>
     \/ /\ Handler \in resolved
        /\ Goto("undefined")
        /\ UNCHANGED <<completing, bare>>
     \/ /\ Handler \in Selecting \ resolved
        /\ ~ cq[seen + 1].buffer
        /\ bare' = bare \cup {Handler}
        /\ UNCHANGED <<step, completing>>
     \/ /\ Handler \in Requests \ resolved
        /\ Handler \in Selecting => cq[seen + 1].buffer
        /\ completing' = Handler
        /\ Goto("callback")
        /\ UNCHANGED bare
  /\ UNCHANGED <<sinkVars, sqVars, cq, batch, in_kernel, linked_sqe, tries, resolved, lifeVars>>

\* Mutants: one CQE too few is released; all CQEs are, those not handled included;
\* the index of the batch is not reset.
AdvanceTooFew ==
  /\ step = "handle"
  /\ seen = batch
  /\ cq' = SubSeq(cq, batch, Len(cq))
  /\ batch' = 0
  /\ seen' = 0
  /\ Goto("processed")
  /\ UNCHANGED <<sinkAllVars, sqVars, in_kernel, linked_sqe, tries, completing, resolved,
                 ownerVars>>

AdvanceAll ==
  /\ step = "handle"
  /\ seen = batch
  /\ cq' = <<>>
  /\ batch' = 0
  /\ seen' = 0
  /\ Goto("processed")
  /\ UNCHANGED <<sinkAllVars, sqVars, in_kernel, linked_sqe, tries, completing, resolved,
                 ownerVars>>

AdvanceKeepsIndex ==
  /\ step = "handle"
  /\ seen = batch
  /\ cq' = SubSeq(cq, batch + 1, Len(cq))
  /\ batch' = 0
  /\ Goto("processed")
  /\ UNCHANGED <<sinkAllVars, sqVars, seen, in_kernel, linked_sqe, tries, completing,
                 resolved, ownerVars>>

\* io_uring_cq_advance, once the whole batch has been handled.
AdvanceCq ==
  /\ step = "handle"
  /\ seen = batch
  /\ cq' = SubSeq(cq, batch + 1, Len(cq))
  /\ batch' = 0
  /\ seen' = 0
  /\ Goto("processed")
  /\ UNCHANGED <<sinkAllVars, sqVars, in_kernel, linked_sqe, tries, completing, resolved,
                 ownerVars>>

-----------------------------------------------------------------------------
(* SubmitToKernelRing, PrepareSqe and GetSqe: `consume`, run by Drain with  *)
(* the mutex of the sink held.                                              *)

RingFull == Unconsumed >= SqSize

GetSqeFull ==
  /\ step = "get_sqe"
  /\ RingFull
  /\ Goto("submit")
  /\ UNCHANGED <<sinkAllVars, sqVars, cqVars, in_kernel, linked_sqe, tries, completing,
                 resolved, ownerVars>>

PrepareSqe ==
  /\ step = "get_sqe"
  /\ ~ RingFull
  /\ hand \notin Unimplemented
  /\ prepared' = Append(prepared, hand)
  /\ linked_sqe' = (hand \in Linked)
  /\ tries' = 0
  /\ DrainConsumed(TRUE)
  /\ Goto("drain")
  /\ UNCHANGED <<pending_sqe, published, sq_head, in_kernel, cqVars, completing, resolved,
                 ownerVars>>

\* What the slot of the next SQE still holds; the ring's memory starts as zero.
StaleUserData ==
  IF Len(prepared) < SqSize THEN None ELSE prepared[Len(prepared) + 1 - SqSize]

\* An opcode without a case: the SQE has been taken already and stays in the ring
\* as it is, linked_sqe_ is not set, and the request is completed on the spot.
PrepareUnimplemented ==
  /\ step = "get_sqe"
  /\ ~ RingFull
  /\ hand \in Unimplemented
  /\ prepared' = Append(prepared, StaleUserData)
  /\ tries' = 0
  /\ completing' = hand
  /\ Goto("callback")
  /\ UNCHANGED <<sinkAllVars, published, sq_head, in_kernel, cqVars, linked_sqe, resolved,
                 ownerVars>>

\* The end of ProcessCompletionsRing: back to the loop of the worker, or to the
\* loop of GetSqe for another try, or out of GetSqe with ResourceExhausted.
BackToLoop ==
  /\ step = "processed"
  /\ drainer = "outside"
  /\ Goto("drain")
  /\ UNCHANGED <<sinkAllVars, sqVars, cqVars, in_kernel, linked_sqe, tries, completing,
                 resolved, ownerVars>>

GetSqeRetry ==
  /\ step = "processed"
  /\ drainer = "consume"
  /\ tries + 1 < MaxTry
  /\ tries' = tries + 1
  /\ Goto("get_sqe")
  /\ UNCHANGED <<sinkAllVars, sqVars, cqVars, in_kernel, linked_sqe, completing, resolved,
                 ownerVars>>

GetSqeGivesUp ==
  /\ step = "processed"
  /\ drainer = "consume"
  /\ tries + 1 >= MaxTry
  /\ tries' = 0
  /\ DrainConsumed(FALSE)
  /\ Goto("drain")
  /\ UNCHANGED <<pending_sqe, sqVars, cqVars, in_kernel, linked_sqe, completing, resolved,
                 ownerVars>>

-----------------------------------------------------------------------------
(* CompleteWith: the callback, then the value of the future and the end of  *)
(* the completion object.                                                   *)

CallbackSubmits ==
  /\ step = "callback"
  /\ completing \in Resubmitters
  /\ \E r \in Requests : EnqueueIoRequest(Worker, r)
  /\ Goto("notify")
  /\ UNCHANGED <<pending_sqe, sqVars, cqVars, in_kernel, linked_sqe, tries, completing,
                 resolved, ownerVars>>

CallbackNotifies ==
  /\ step = "notify"
  /\ NotifyOne(Worker)
  /\ Goto("resolve")
  /\ UNCHANGED <<pending_sqe, sqVars, cqVars, in_kernel, linked_sqe, tries, completing,
                 resolved, ownerVars>>

\* A callback that submits nothing (or finds no request of the model left).
CallbackReturns ==
  /\ step = "callback"
  /\ completing \in Resubmitters => Accepted = Requests
  /\ Goto("resolve")
  /\ UNCHANGED <<sinkAllVars, sqVars, cqVars, in_kernel, linked_sqe, tries, completing,
                 resolved, ownerVars>>

Resolve ==
  /\ step = "resolve"
  /\ resolved' = resolved \cup {completing}
  /\ completing' = None
  /\ \/ /\ batch > 0                    \* called by HandleCqe
        /\ Goto("handle")
        /\ UNCHANGED sinkVars
     \/ /\ batch = 0                    \* called for an unimplemented opcode
        /\ DrainConsumed(TRUE)
        /\ Goto("drain")
  /\ UNCHANGED <<pending_sqe, sqVars, cqVars, in_kernel, linked_sqe, tries, ownerVars>>

-----------------------------------------------------------------------------
(* ~IoUring: Stop the sink, set stop_consumption_, join the worker, release *)
(* the ring.                                                                *)

StopSink == (Stop \/ NotifyAll) /\ UNCHANGED <<pending_sqe, ringVars>>

StopConsumption ==
  /\ closer = "stopped"
  /\ destructor = "alive"
  /\ stop_consumption' = TRUE
  /\ destructor' = "joining"
  /\ UNCHANGED <<sinkAllVars, kernel, sqVars, cqVars, in_kernel, linked_sqe, tries, step,
                 completing, resolved, bare>>

JoinAndExit ==
  /\ destructor = "joining"
  /\ step = "exit"
  /\ destructor' = "gone"
  /\ UNCHANGED <<sinkAllVars, kernel, sqVars, cqVars, in_kernel, linked_sqe, tries, step,
                 completing, resolved, stop_consumption, bare>>

\* The object is gone, or the worker has used a deleted completion.
Ended ==
  /\ destructor = "gone" \/ step = "undefined"
  /\ UNCHANGED vars

-----------------------------------------------------------------------------
WorkerStep ==
  \/ Draining \/ PopRequest \/ AfterDrain
  \/ GetSqeFull \/ PrepareSqe \/ PrepareUnimplemented
  \/ (\E n \in 0 .. Unconsumed : SubmitToKernel(n)) \/ SubmitBusy \/ SubmitToPoller
  \/ NothingToProcess \/ FetchBatch \/ HandleCqe \/ AdvanceCq
  \/ BackToLoop \/ GetSqeRetry \/ GetSqeGivesUp
  \/ CallbackSubmits \/ CallbackNotifies \/ CallbackReturns \/ Resolve

KernelStep == KernelPolls \/ \E i \in in_kernel : KernelCompletes(i)

DestructorStep == StopSink \/ StopConsumption \/ JoinAndExit

Next ==
  \/ WorkerStep
  \/ WakesForNothing
  \/ KernelStep
  \/ \E t \in Threads : Submits(t)
  \/ DestructorStep
  \/ Ended

Safety == Init /\ [][Next]_vars

\* Every request prepares one SQE at most.
SqeNumbers == 1 .. Cardinality(Requests)

\* Scheduling: the worker runs, a thread that has pushed a request goes on to
\* notify, the kernel performs what it was given, and a destructor that has
\* started goes on.  Nobody has to call the API or start the destructor, and no
\* thread has to wake for no reason.
Fairness ==
  /\ WF_vars(WorkerStep)
  /\ \A t \in Threads : WF_vars(NotifyOne(t) /\ UNCHANGED <<pending_sqe, ringVars>>)
  /\ WF_vars(KernelPolls)
  /\ \A i \in SqeNumbers : WF_vars(KernelCompletes(i))
  /\ WF_vars(NotifyAll /\ UNCHANGED <<pending_sqe, ringVars>>)
  /\ WF_vars(StopConsumption)
  /\ WF_vars(JoinAndExit)

Spec == Safety /\ Fairness

-----------------------------------------------------------------------------
(* Properties.                                                              *)

\* CQEs that are due: SQEs the kernel works on, and CQEs posted but not yet given
\* to HandleCqe.
Outstanding == Cardinality(in_kernel) + Len(cq) - seen

\* submission_pending_count_ is the number of SQEs "submitted, but corresponding
\* CQE is not processed" (io_uring.cc:1309), in every state, for a kernel that
\* consumes SQEs inside io_uring_submit.  A polling kernel thread lets it run
\* ahead, but never behind what is due and the SQEs the thread has yet to take.
PendingCountSound ==
  IF kernel = "sqpoll" THEN pending_sqe >= Outstanding + (published - sq_head)
                       ELSE pending_sqe = Outstanding

\* The worker never sleeps on work: when it is in the wait set, the kernel has
\* nothing of it and no CQE waits to be processed (Drain's pending_sqe parameter).
SleepsOnlyWhenIdle ==
  waiting => /\ in_kernel = {}
             /\ cq = <<>>
             /\ kernel = "sqpoll" => published = sq_head

\* Nor does it sleep on prepared SQEs, unless the last one waits for the request
\* it is linked to.  (Only for a kernel that takes all it is given.)
NothingStranded ==
  waiting /\ kernel \in {"all", "sqpoll"} => published = Len(prepared) \/ linked_sqe

Holds(i, r) == prepared[i] = r

WasPrepared(r) == \E i \in 1 .. Len(prepared) : Holds(i, r)

Posted == {cq[k].sqe : k \in (seen + 1) .. Len(cq)}

\* The worker is not asleep, and still processes completions.
Awake == ~ waiting /\ step # "exit" /\ ~ stop_consumption

\* The worker is awake to submit SQE i, or to process its CQE.
Moving(i) ==
  Awake /\ \/ i > published
           \/ i > sq_head /\ kernel = "sqpoll"
           \/ i \in in_kernel \cup Posted

\* SQE i is held back for the request that a linked SQE waits for.
Chained(i) == linked_sqe /\ i > published

InFlight(r) ==
  \/ r \in {pending_io[k] : k \in 1 .. Len(pending_io)}
  \/ r \in {hand, completing}
  \/ \E i \in 1 .. Len(prepared) : Holds(i, r) /\ (Moving(i) \/ Chained(i))

\* A submit took a part of the ring, or nothing of it, its result was ignored
\* (io_uring.cc:1358), and SQE i is left: only another request makes the worker
\* submit it again, and the worker may sleep meanwhile.
Stranded(i) == sq_head < i /\ i <= published /\ kernel \in {"short", "busy"}

\* An accepted request without a value is in flight, unless ~IoUring has stopped the
\* worker, or one of three things happened to it: GetSqe gave up and Drain dropped it,
\* which takes a kernel that is busy or polls; a short or busy submit stranded it; or
\* HandleCqe skipped its CQE, which came without the buffer its completion wanted.
NoSilentLoss ==
  \A r \in Accepted \ resolved :
    \/ InFlight(r)
    \/ stop_consumption \/ step = "exit"
    \/ ~ WasPrepared(r) /\ kernel \in {"busy", "sqpoll"}
    \/ \E i \in 1 .. Len(prepared) : Holds(i, r) /\ Stranded(i)
    \/ r \in bare

\* No completion object is used after its value was set and it was deleted.
NoFreedCompletion == step # "undefined"

\* No callback runs while the worker holds the mutex of the sink, where making a
\* request would block it for ever: the ring never fills up inside Drain.  (For
\* MaxDrain <= SqSize, no links, opcodes with a case, and a kernel that takes all
\* it is given: the default configuration.)
CallbacksRunUnlocked == completing # None => mutex # Worker

\* The SQE of a request, as opposed to a slot that still holds an older one.
OwnSqe(i) == prepared[i] # None /\ \A j \in 1 .. (i - 1) : prepared[j] # prepared[i]

Position(r) == CHOOSE k \in 1 .. Len(accepted) : accepted[k] = r

\* "I/O is initiated in the order in which it appears in the submission queue"
\* (io_uring_api.h:60), and it appears there in the order in which the callers
\* enqueued it, whatever was dropped on the way.
SubmissionInOrder ==
  \A i, j \in 1 .. Len(prepared) :
    i < j /\ OwnSqe(i) /\ OwnSqe(j) => Position(prepared[i]) < Position(prepared[j])

\* The last prepared SQE is linked to a request still to come.
ChainOpen == prepared # <<>> /\ prepared[Len(prepared)] \in Linked /\ OwnSqe(Len(prepared))

\* A chain of linked requests is submitted in one io_uring_submit, except when GetSqe finds
\* the ring full inside Drain and has to make room.
ChainCutOnlyWhenFull ==
  [][published' # published /\ ChainOpen => drainer = "consume"]_vars

\* "If vacant SQE is not available after max_try return nullptr"
\* (io_uring.cc:391): GetSqe comes to an end, one way or the other.
GetSqeReturns == (step = "get_sqe") ~> (drainer # "consume")

Service == INSTANCE RequestService WITH taken <- TakenCount, closed <- stop

\* IoUring implements the service of RequestService, its liveness included: requests are
\* taken up in order, resolved once, and resolved some day unless ~IoUring closes the sink.
ServiceSpec == Service!ServiceSpec
=============================================================================
