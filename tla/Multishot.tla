------------------------------ MODULE Multishot ------------------------------
(***************************************************************************)
(* A request with several answers: PollAdd with IoApiCommonVars::Multishot *)
(* (src/iouring/io_uring_api.h), its DefaultCompletion                     *)
(* (src/iouring/io_completion.h) and the worker's count of what is pending *)
(* (src/iouring/io_uring.cc).  The kernel posts a CQE for each event, with *)
(* IORING_CQE_F_MORE in all but the last.                                  *)
(*                                                                         *)
(* Requests have one answer in IoUring.tla; here the worker is as much of  *)
(* it as the count decides: whether it sleeps, looks at the completion     *)
(* ring or passes by.  The kernel takes all SQEs and neither ring fills.   *)
(***************************************************************************)
EXTENDS Integers, Sequences

CONSTANTS
  Poll,     \* the multishot request
  Others,   \* requests with one answer, Poll not among them
  Events,   \* bound of the model: events of the descriptor that is polled
  MaxDrain  \* params_external_.max_cqe_to_drain_

Requests == {Poll} \cup Others

VARIABLES
  worker,     \* is it in "drain", at "rings" or with a "batch"; or has the process "died"?
  submitted,  \* requests made so far
  pending_io, \* requests in the IoSink
  in_kernel,  \* requests the kernel works on
  cq,         \* the completion ring: [req, more], oldest first
  batch,      \* CQEs fetched and not yet handled
  count,      \* submission_pending_count_
  events,     \* CQEs the kernel has posted for Poll
  notified,   \* calls of the callback of Poll
  satisfied   \* requests whose promise has a value

vars == <<worker, submitted, pending_io, in_kernel, cq, batch, count, events, notified, satisfied>>

Init ==
  /\ worker = "drain"
  /\ submitted = {}
  /\ pending_io = <<>>
  /\ in_kernel = {}
  /\ cq = <<>>
  /\ batch = 0
  /\ count = 0
  /\ events = 0
  /\ notified = 0
  /\ satisfied = {}

Alive == worker # "died"

SubmitIoRequest(r) ==
  /\ Alive
  /\ r \notin submitted
  /\ submitted' = submitted \cup {r}
  /\ pending_io' = Append(pending_io, r)
  /\ UNCHANGED <<worker, in_kernel, cq, batch, count, events, notified, satisfied>>

\* The worker sleeps in here, for as long as it takes.
Drain ==
  /\ worker = "drain"
  /\ pending_io # <<>> \/ count > 0
  /\ LET n == IF Len(pending_io) < MaxDrain THEN Len(pending_io) ELSE MaxDrain IN
       /\ in_kernel' = in_kernel \cup {pending_io[i] : i \in 1 .. n}
       /\ pending_io' = SubSeq(pending_io, n + 1, Len(pending_io))
       /\ count' = count + n
  /\ worker' = "rings"
  /\ UNCHANGED <<submitted, cq, batch, events, notified, satisfied>>

\* ProcessCompletionsRing passes by when nothing is pending; the wait for a CQE has a timeout.
PassBy ==
  /\ worker = "rings"
  /\ count <= 0 \/ cq = <<>>
  /\ worker' = "drain"
  /\ UNCHANGED <<submitted, pending_io, in_kernel, cq, batch, count, events, notified, satisfied>>

FetchCqes ==
  /\ worker = "rings"
  /\ count > 0
  /\ cq # <<>>
  /\ batch' = IF Len(cq) < MaxDrain THEN Len(cq) ELSE MaxDrain
  /\ worker' = "batch"
  /\ UNCHANGED <<submitted, pending_io, in_kernel, cq, count, events, notified, satisfied>>

\* Complete is noexcept: the callback runs, and the second set_value of a promise throws.
Complete(r) ==
  /\ notified' = IF r = Poll THEN notified + 1 ELSE notified
  /\ satisfied' = satisfied \cup {r}
  /\ worker' = IF r \in satisfied THEN "died" ELSE IF batch = 1 THEN "drain" ELSE "batch"

\* One CQE; that io_uring_cq_advance releases the batch as a whole is in IoUring.tla.
HandleCqe ==
  /\ worker = "batch"
  /\ count' = count - 1
  /\ Complete(Head(cq).req)
  /\ cq' = Tail(cq)
  /\ batch' = batch - 1
  /\ UNCHANGED <<submitted, pending_io, in_kernel, events>>

Worker == Drain \/ PassBy \/ FetchCqes \/ HandleCqe

\* The kernel: an event of the polled descriptor, or the end of any other request.
Post(r, more) == cq' = Append(cq, [req |-> r, more |-> more])

Event ==
  /\ Alive
  /\ Poll \in in_kernel
  /\ events < Events
  /\ events' = events + 1
  /\ \E more \in BOOLEAN :
       /\ Post(Poll, more)
       /\ in_kernel' = IF more THEN in_kernel ELSE in_kernel \ {Poll}
  /\ UNCHANGED <<worker, submitted, pending_io, batch, count, notified, satisfied>>

Answer(r) ==
  /\ Alive
  /\ r \in in_kernel \ {Poll}
  /\ Post(r, FALSE)
  /\ in_kernel' = in_kernel \ {r}
  /\ UNCHANGED <<worker, submitted, pending_io, batch, count, events, notified, satisfied>>

Next ==
  \/ \E r \in Requests : SubmitIoRequest(r) \/ Answer(r)
  \/ Worker
  \/ Event

\* The worker is scheduled; nobody has to make a request, nor the kernel to see an event.
Spec == Init /\ [][Next]_vars /\ WF_vars(Worker)

\* Every CQE the kernel posts for the poll reaches the callback, as the documentation of
\* PollAdd has the application expect.
EveryEventNotified == \A n \in 1 .. Events : events >= n ~> notified >= n
=============================================================================
