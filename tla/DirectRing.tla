----------------------------- MODULE DirectRing -----------------------------
(***************************************************************************)
(* IoUring in direct mode, IoUringParams::DisableSubConsumeThread          *)
(* (src/iouring/io_uring.h, io_uring.cc): there is no worker.  The threads *)
(* of the application prepare SQEs in SubmitIoRequest, hand them to the    *)
(* kernel with FlushSubmissionRing, and handle CQEs in                     *)
(* ProcessComplitionsRing when the eventfd says that there are some.       *)
(*                                                                         *)
(* Each of the three holds mutex_ from beginning to end, so one thread at  *)
(* most is inside IoUring, whichever it is, and one variable, step, says   *)
(* where: "outside" means that mutex_ is free, for any of any number of    *)
(* threads.  The kernel does not ask for the mutex.  It publishes a CQE    *)
(* first and signals the eventfd then.                                     *)
(*                                                                         *)
(* Requests have opcodes with a case in PrepareSqe and one CQE each, and   *)
(* no callback makes a request: it would lock mutex_ again.                *)
(***************************************************************************)
EXTENDS Integers, Sequences, FiniteSets

CONSTANTS
  Requests,  \* the requests of a run; each is submitted at most once
  SqSize,    \* entries of the submission ring
  MaxDrain,  \* params_external_.max_cqe_to_drain_
  MaxTry,    \* max_try of GetSqe
  Kernels,   \* the ways a kernel may answer io_uring_submit, see kernel
  Blank,     \* an SQE that nothing has been written to yet
  None       \* no request

ASSUME DirectAssumption ==
  /\ None \notin Requests
  /\ Blank \notin Requests
  /\ SqSize \in Nat \ {0}
  /\ MaxDrain \in Nat \ {0}
  /\ MaxTry \in Nat \ {0}
  /\ Kernels \subseteq {"all", "short", "busy"}

VARIABLES
  kernel,      \* io_uring_submit consumes "all" SQEs; or, "short", any non-empty part
               \* of them; or that or, "busy", none with -EBUSY
  step,        \* where the holder of mutex_ is
  hand,        \* the request SubmitIoRequest was called with
  sq,          \* the SQEs in the submission ring: their user_data
  in_kernel,   \* SQEs the kernel works on
  cq,          \* the completion ring, oldest first
  unsignalled, \* has the kernel published a CQE and not yet signalled?
  event_fd,    \* is the eventfd readable?
  batch,       \* CQEs fetched and not yet released
  seen,        \* CQEs of the batch given to HandleCqe
  tries,       \* current_count of GetSqe
  pending,     \* submission_pending_count_
  accepted,    \* history: the requests submitted, in the order of mutex_
  taken,       \* history: how many of them have an SQE or have been refused one
  resolved     \* requests whose future has a value or an exception

ringVars == <<sq, in_kernel, cq, unsignalled, event_fd>>
cqeVars  == <<batch, seen>>
history  == <<accepted, taken>>

vars == <<kernel, step, hand, ringVars, cqeVars, tries, pending, history, resolved>>

Steps == {"outside", "get_sqe", "prepare", "process", "handle", "processed", "fail"}

Accepted == {accepted[i] : i \in 1 .. Len(accepted)}

TypeOK ==
  /\ kernel \in Kernels
  /\ step \in Steps
  /\ hand \in Requests \cup {None}
  /\ sq \in Seq(Requests \cup {Blank})
  /\ Len(sq) <= SqSize
  /\ in_kernel \subseteq Requests
  /\ cq \in Seq(Requests)
  /\ unsignalled \in BOOLEAN
  /\ event_fd \in BOOLEAN
  /\ batch \in 0 .. Len(cq)
  /\ seen \in 0 .. batch
  /\ tries \in 0 .. MaxTry
  /\ pending \in Int
  /\ accepted \in Seq(Requests)
  /\ taken \in 0 .. Len(accepted)
  /\ resolved \subseteq Requests

Init ==
  /\ kernel \in Kernels
  /\ step = "outside"
  /\ hand = None
  /\ sq = <<>>
  /\ in_kernel = {}
  /\ cq = <<>>
  /\ unsignalled = FALSE
  /\ event_fd = FALSE
  /\ batch = 0
  /\ seen = 0
  /\ tries = 0
  /\ pending = 0
  /\ accepted = <<>>
  /\ taken = 0
  /\ resolved = {}

Goto(s) == step' = s

\* The lock_guard takes mutex_, and releases it at the end of the call.
MutexFree == step = "outside"
Leave == Goto("outside")

-----------------------------------------------------------------------------
(* SubmitToKernel: -EINTR is retried and changes nothing.                   *)

First(n) == {sq[i] : i \in 1 .. n}

ConsumedBy(n) ==
  \/ n = Len(sq)
  \/ kernel \in {"short", "busy"} /\ n \in 1 .. Len(sq)

\* Mutant: counts what is in the ring, not what io_uring_submit returned.
SubmitCountsPrepared(n) ==
  /\ ConsumedBy(n)
  /\ sq' = SubSeq(sq, n + 1, Len(sq))
  /\ in_kernel' = in_kernel \cup First(n)
  /\ pending' = pending + Len(sq)
  /\ UNCHANGED <<cq, unsignalled, event_fd>>

SubmitConsumed(n) ==
  /\ ConsumedBy(n)
  /\ sq' = SubSeq(sq, n + 1, Len(sq))
  /\ in_kernel' = in_kernel \cup First(n)
  /\ pending' = pending + n
  /\ UNCHANGED <<cq, unsignalled, event_fd>>

\* -EBUSY: CQEs do not fit into the completion ring; to the model, which has no limit
\* there, they are still to be published.
SubmitBusy ==
  /\ kernel = "busy"
  /\ in_kernel # {} \/ cq # <<>>
  /\ UNCHANGED <<ringVars, pending>>

SubmitToKernel ==
  \/ \E n \in 0 .. Len(sq) : SubmitConsumed(n)
  \/ SubmitBusy

-----------------------------------------------------------------------------
(* SubmitIoRequest.                                                         *)

SubmitIoRequest(r) ==
  /\ MutexFree
  /\ r \notin Accepted
  /\ hand' = r
  /\ accepted' = Append(accepted, r)
  /\ Goto("get_sqe")
  /\ UNCHANGED <<kernel, ringVars, cqeVars, tries, pending, taken, resolved>>

RingFull == Len(sq) = SqSize

\* io_uring_get_sqe gives out the next entry; the next submit takes it along.
GetSqe ==
  /\ step = "get_sqe"
  /\ ~ RingFull
  /\ sq' = Append(sq, Blank)
  /\ tries' = 0
  /\ Goto("prepare")
  /\ UNCHANGED <<kernel, hand, in_kernel, cq, unsignalled, event_fd, cqeVars, pending,
                 history, resolved>>

\* Mutant: the SQE's user_data is not set.
PrepareForgets ==
  /\ step = "prepare"
  /\ hand' = None
  /\ taken' = taken + 1
  /\ Leave
  /\ UNCHANGED <<kernel, ringVars, cqeVars, tries, pending, accepted, resolved>>

PrepareSqe ==
  /\ step = "prepare"
  /\ sq' = [sq EXCEPT ![Len(sq)] = hand]
  /\ hand' = None
  /\ taken' = taken + 1
  /\ Leave
  /\ UNCHANGED <<kernel, in_kernel, cq, unsignalled, event_fd, cqeVars, tries, pending, accepted,
                 resolved>>

\* With a full ring GetSqe submits, processes completions and looks again.
GetSqeFull ==
  /\ step = "get_sqe"
  /\ RingFull
  /\ SubmitToKernel
  /\ Goto(IF pending' > 0 THEN "process" ELSE "processed")
  /\ UNCHANGED <<kernel, hand, cqeVars, tries, history, resolved>>

GetSqeRetry ==
  /\ step = "processed"
  /\ hand # None
  /\ tries + 1 < MaxTry
  /\ tries' = tries + 1
  /\ Goto("get_sqe")
  /\ UNCHANGED <<kernel, hand, ringVars, cqeVars, pending, history, resolved>>

GetSqeGivesUp ==
  /\ step = "processed"
  /\ hand # None
  /\ tries + 1 >= MaxTry
  /\ tries' = 0
  /\ taken' = taken + 1
  /\ Goto("fail")
  /\ UNCHANGED <<kernel, hand, ringVars, cqeVars, pending, accepted, resolved>>

\* Mutant: the error is not passed on to the future.
SetNoException ==
  /\ step = "fail"
  /\ hand' = None
  /\ Leave
  /\ UNCHANGED <<kernel, ringVars, cqeVars, tries, pending, history, resolved>>

\* The future gets the exception "Failed to submit to ring".
SetException ==
  /\ step = "fail"
  /\ resolved' = resolved \cup {hand}
  /\ hand' = None
  /\ Leave
  /\ UNCHANGED <<kernel, ringVars, cqeVars, tries, pending, history>>

-----------------------------------------------------------------------------
(* FlushSubmissionRing is one step under mutex_.                            *)

\* Mutant: without the mutex.
FlushUnlocked ==
  /\ SubmitToKernel
  /\ UNCHANGED <<kernel, step, hand, cqeVars, tries, history, resolved>>

FlushSubmissionRing ==
  /\ MutexFree
  /\ SubmitToKernel
  /\ UNCHANGED <<kernel, step, hand, cqeVars, tries, history, resolved>>

-----------------------------------------------------------------------------
(* ProcessComplitionsRing.  Without a signal eventfd_read fails, for the    *)
(* eventfd does not block, and nothing is processed.                        *)

ProcessComplitionsRing ==
  /\ MutexFree
  /\ event_fd
  /\ event_fd' = FALSE
  /\ Goto("process")
  /\ UNCHANGED <<kernel, hand, sq, in_kernel, cq, unsignalled, cqeVars, tries, pending, history,
                 resolved>>

\* DoProcessComplitionsRing, called by ProcessComplitionsRing or in GetSqe.  The wait
\* for a CQE has a timeout of zero.
NothingToProcess ==
  /\ step = "process"
  /\ cq = <<>>
  /\ Goto("processed")
  /\ UNCHANGED <<kernel, hand, ringVars, cqeVars, tries, pending, history, resolved>>

FetchBatch ==
  /\ step = "process"
  /\ cq # <<>>
  /\ batch' = IF Len(cq) < MaxDrain THEN Len(cq) ELSE MaxDrain
  /\ Goto("handle")
  /\ UNCHANGED <<kernel, hand, ringVars, seen, tries, pending, history, resolved>>

HandleCqe ==
  /\ step = "handle"
  /\ seen < batch
  /\ seen' = seen + 1
  /\ pending' = pending - 1
  /\ resolved' = resolved \cup {cq[seen + 1]}
  /\ UNCHANGED <<kernel, step, hand, ringVars, batch, tries, history>>

\* Mutants: the eventfd is read, once more, after the batch; the index of the batch is
\* not reset.
AdvanceReadsEventFd ==
  /\ step = "handle"
  /\ seen = batch
  /\ cq' = SubSeq(cq, batch + 1, Len(cq))
  /\ event_fd' = FALSE
  /\ batch' = 0
  /\ seen' = 0
  /\ Goto("processed")
  /\ UNCHANGED <<kernel, hand, sq, in_kernel, unsignalled, tries, pending, history,
                 resolved>>

AdvanceKeepsIndex ==
  /\ step = "handle"
  /\ seen = batch
  /\ cq' = SubSeq(cq, batch + 1, Len(cq))
  /\ batch' = 0
  /\ Goto("processed")
  /\ UNCHANGED <<kernel, hand, sq, in_kernel, unsignalled, event_fd, seen, tries, pending,
                 history, resolved>>

AdvanceCq ==
  /\ step = "handle"
  /\ seen = batch
  /\ cq' = SubSeq(cq, batch + 1, Len(cq))
  /\ batch' = 0
  /\ seen' = 0
  /\ Goto("processed")
  /\ UNCHANGED <<kernel, hand, sq, in_kernel, unsignalled, event_fd, tries, pending,
                 history, resolved>>

ProcessReturns ==
  /\ step = "processed"
  /\ hand = None
  /\ Leave
  /\ UNCHANGED <<kernel, hand, ringVars, cqeVars, tries, pending, history, resolved>>

-----------------------------------------------------------------------------
(* The kernel.                                                              *)

KernelCompletes(r) ==
  /\ r \in in_kernel
  /\ in_kernel' = in_kernel \ {r}
  /\ cq' = Append(cq, r)
  /\ unsignalled' = TRUE
  /\ UNCHANGED <<kernel, step, hand, sq, event_fd, cqeVars, tries, pending, history,
                 resolved>>

KernelSignals ==
  /\ unsignalled
  /\ unsignalled' = FALSE
  /\ event_fd' = TRUE
  /\ UNCHANGED <<kernel, step, hand, sq, in_kernel, cq, cqeVars, tries, pending, history,
                 resolved>>

-----------------------------------------------------------------------------

\* The thread inside goes on.
InsideStep ==
  \/ GetSqe \/ PrepareSqe \/ GetSqeFull \/ GetSqeRetry \/ GetSqeGivesUp \/ SetException
  \/ NothingToProcess \/ FetchBatch \/ HandleCqe \/ AdvanceCq \/ ProcessReturns

Next ==
  \/ \E r \in Requests : SubmitIoRequest(r)
  \/ FlushSubmissionRing
  \/ ProcessComplitionsRing
  \/ InsideStep
  \/ KernelSignals
  \/ \E r \in Requests : KernelCompletes(r)

Safety == Init /\ [][Next]_vars

\* A call that has begun goes on, the kernel performs what it was given and signals,
\* and the application does its part: it flushes what it has prepared, and processes
\* completions when the eventfd is readable.
Fairness ==
  /\ WF_vars(InsideStep)
  /\ WF_vars(KernelSignals)
  /\ \A r \in Requests : WF_vars(KernelCompletes(r))
  /\ WF_vars(FlushSubmissionRing)
  /\ WF_vars(ProcessComplitionsRing)

Spec == Safety /\ Fairness

-----------------------------------------------------------------------------
(* Properties.                                                              *)

\* An SQE is never given to the kernel between io_uring_get_sqe and the end of
\* PrepareSqe ("must be atomical", io_uring.h:670), whichever thread flushes.
NoBlankSqe == Blank \notin in_kernel

Count(b) == IF b THEN 1 ELSE 0

\* In how many places a request is.
Places(r) ==
  Count(r = hand)
  + Cardinality({i \in 1 .. Len(sq) : sq[i] = r})
  + Count(r \in in_kernel)
  + Cardinality({i \in (seen + 1) .. Len(cq) : cq[i] = r})
  + Count(r \in resolved)

\* Every request that was submitted is in exactly one place, its own future at last:
\* GetSqe may give up, but the future gets an exception then.
EveryRequestInOnePlace == \A r \in Accepted : Places(r) = 1

\* submission_pending_count_ is the number of CQEs that are due or not yet handled, so
\* that GetSqe never passes over CQEs that could make room.
PendingCountSound == pending = Cardinality(in_kernel) + Len(cq) - seen

\* When mutex_ is free and CQEs wait, the eventfd is readable or is about to be, because
\* ProcessComplitionsRing reads it before it looks at the ring: nobody has to wait for a
\* CQE that is there already.  (For batches that hold every CQE, MaxDrain the larger.)
NoCqeWithoutSignal == MutexFree /\ cq # <<>> => event_fd \/ unsignalled

\* "This call will process all the completed cqe" (io_uring.h:450): as it returns, no
\* CQE is left but those published after it had read the eventfd.
ProcessesAllCompleted ==
  step = "processed" /\ hand = None /\ cq # <<>> => event_fd \/ unsignalled

Service == INSTANCE RequestService WITH closed <- FALSE

\* An application that flushes and that processes when the eventfd is readable gets the
\* service of RequestService, its liveness included.
ServiceSpec == Service!ServiceSpec
=============================================================================
