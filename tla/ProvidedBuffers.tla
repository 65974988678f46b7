--------------------------- MODULE ProvidedBuffers ---------------------------
(***************************************************************************)
(* Receiving into provided buffers with a linked timeout: the loop of      *)
(* ops::Recv and ops::ProvideBuffer (src/examples/netio/socket_ops.cc)     *)
(* over the completions (src/iouring/io_completion.h) and the worker       *)
(* (HandleCqe, Cancel and ProvideBuffer in src/iouring/io_uring.cc).       *)
(*                                                                         *)
(* A receive is two requests, one after the other: Recv with IOSQE_IO_LINK *)
(* and LinkTimeout.  Threads share one IoUring, so a request of another    *)
(* thread can enter the queue between the two, and becomes a part of the   *)
(* chain.  A completion is a heap object; its address is the user_data of  *)
(* the SQE and the token of Cancel, and a deleted completion's address can *)
(* be that of a later one.                                                 *)
(*                                                                         *)
(* The worker is RequestService seen from far: requests reach the kernel   *)
(* in the order of the queue and a chain in one piece.  The build is the   *)
(* release build, where IOURING_ASSERT is nothing.  The kernel is          *)
(* external.  All receives select from one group.                          *)
(***************************************************************************)
EXTENDS Integers, Sequences, FiniteSets

CONSTANTS
  Threads,   \* application threads
  Buffers,   \* buffer ids of the group
  Addresses, \* heap addresses of RwProvidedBufferCompletions, as numbers: a bound of the
             \* model, which submits no receive when there is none left
  None       \* no thread, no buffer, no address, no answer

ASSUME BuffersAssumption ==
  /\ None \notin Threads \cup Buffers \cup Addresses
  /\ Addresses \subseteq Nat

VARIABLES
  pc,        \* where each thread is
  token,     \* CancelToken() of its recv_future
  value,     \* the buffer in the shared state of its recv_future
  answer,    \* the CQE its other future, of the request it waits for, was set from
  buffer,    \* the buffer it uses
  queue,     \* requests the worker has not submitted, as SQEs
  chains,    \* SQEs the kernel works on: each chain from the running one on
  group,     \* buffers the kernel can select
  cq,        \* the completion ring, oldest first
  allocated, \* who allocated the completion at each address
  lost,      \* buffers no one can hand back any more, and who lost them
  bare,      \* history: threads whose present receive was answered without a buffer
  misread,   \* history: threads whose present timeout the kernel read as no time at all
  late,      \* history: threads with a receive answered after its timer had fired
  mixed      \* history: threads with a request in the middle of another thread's
             \* receive and timeout, or the other way round

threadVars == <<pc, token, value, answer, buffer>>
kernelVars == <<chains, group, cq>>
history    == <<bare, misread, late, mixed>>

vars == <<threadVars, queue, kernelVars, allocated, lost, history>>

Ops     == {"recv", "timeout", "cancel", "provide"}
Results == {"ok", "ECANCELED", "ETIME", "other"}
Sqes    == [op : Ops, by : Threads, at : Addresses \cup {None}, bid : Buffers \cup {None}]
Cqes    == [op : Ops, by : Threads, at : Addresses \cup {None}, bid : Buffers \cup {None},
            res : Results]

\* No CQE is taken for no answer.
ASSUME AnswersAssumption == None \notin Cqes

Elements(s) == {s[i] : i \in 1 .. Len(s)}

InChains == UNION {Elements(c) : c \in chains}

\* Types, and the sizes that matter: a completion for each receive.
TypeOK ==
  /\ pc \in [Threads -> {"idle", "link", "timeout", "cancel", "get", "use", "provide"}]
  /\ token \in [Threads -> Addresses \cup {None}]
  /\ value \in [Threads -> Buffers \cup {None}]
  /\ answer \in [Threads -> Cqes \cup {None}]
  /\ buffer \in [Threads -> Buffers \cup {None}]
  /\ queue \in Seq(Sqes)
  /\ chains \subseteq Seq(Sqes) \ {<<>>}
  /\ group \subseteq Buffers
  /\ cq \in Seq(Cqes)
  /\ allocated \in [Addresses -> Threads \cup {None}]
  /\ lost \subseteq [by : Threads, bid : Buffers]
  /\ bare \subseteq Threads
  /\ misread \subseteq Threads
  /\ late \subseteq Threads
  /\ mixed \subseteq Threads

Init ==
  /\ pc = [t \in Threads |-> "idle"]
  /\ token = [t \in Threads |-> None]
  /\ value = [t \in Threads |-> None]
  /\ answer = [t \in Threads |-> None]
  /\ buffer = [t \in Threads |-> None]
  /\ queue = <<>>
  /\ chains = {}
  /\ group = Buffers
  /\ cq = <<>>
  /\ allocated = [a \in Addresses |-> None]
  /\ lost = {}
  /\ bare = {}
  /\ misread = {}
  /\ late = {}
  /\ mixed = {}

-----------------------------------------------------------------------------
(* The application: ops::Recv and ops::ProvideBuffer.                       *)

Goto(t, p) == pc' = [pc EXCEPT ![t] = p]

\* Mutant: Recv forgets IOSQE_IO_LINK.
NothingLinked(s) == FALSE

\* Mutant: ProvideBuffer sets IOSQE_IO_LINK too.
HandBackLinked(s) == s.op \in {"recv", "provide"}

\* Only ops::Recv sets IOSQE_IO_LINK.
Linked(s) == s.op = "recv"

\* The chain at the end of the queue waits for its next request, whoever makes it.
OpenFor(t) == {u \in Threads \ {t} : queue # <<>> /\ Linked(queue[Len(queue)])
                                     /\ queue[Len(queue)].by = u}

Submit(t, op, a, b) ==
  /\ queue' = Append(queue, [op |-> op, by |-> t, at |-> a, bid |-> b])
  /\ mixed' = IF OpenFor(t) = {} THEN mixed ELSE mixed \cup {t} \cup OpenFor(t)

\* Waits for the future of a request other than the receive, and reads it.
Waits(t, p) ==
  /\ pc[t] = p
  /\ answer[t] # None
  /\ answer' = [answer EXCEPT ![t] = None]

Losing(t, b) == IF b = None THEN {} ELSE {[by |-> t, bid |-> b]}

\* recv_future goes out of scope.
DropFuture(t) ==
  /\ token' = [token EXCEPT ![t] = None]
  /\ value' = [value EXCEPT ![t] = None]

\* Where a new completion can be: at an address someone still knows of an earlier one, or
\* at any other.  These are alike, and the least stands for them.
Known == {token[t] : t \in Threads} \cup {s.at : s \in Elements(queue) \cup InChains}
Free  == LET free == {a \in Addresses : allocated[a] = None} IN
         {a \in free : a \in Known \/ \A b \in free \ Known : a <= b}

Recv(t) ==
  /\ pc[t] = "idle"
  /\ \E a \in Free :
       /\ allocated' = [allocated EXCEPT ![a] = t]
       /\ token' = [token EXCEPT ![t] = a]
       /\ Submit(t, "recv", a, None)
  /\ bare' = bare \ {t}
  /\ misread' = misread \ {t}
  /\ Goto(t, "link")
  /\ UNCHANGED <<value, answer, buffer, kernelVars, lost, late>>

LinkTimeout(t) ==
  /\ pc[t] = "link"
  /\ Submit(t, "timeout", None, None)
  /\ Goto(t, "timeout")
  /\ UNCHANGED <<token, value, answer, buffer, kernelVars, allocated, lost, bare, misread, late>>

\* -ETIME: cancels the receive the timeout has cancelled.
TimedOut(t) ==
  /\ Waits(t, "timeout")
  /\ answer[t].res = "ETIME"
  /\ Submit(t, "cancel", token[t], None)
  /\ Goto(t, "cancel")
  /\ UNCHANGED <<token, value, buffer, kernelVars, allocated, lost, bare, misread, late>>

\* The next turn of the loop drops recv_future, and a buffer in it with it.
Retry(t) ==
  /\ DropFuture(t)
  /\ lost' = lost \cup Losing(t, value[t])
  /\ Goto(t, "idle")
  /\ UNCHANGED <<buffer, queue, kernelVars, allocated, history>>

CancelReturns(t) == Waits(t, "cancel") /\ Retry(t)

\* "Unexpected timeout res": nothing in a release build, the loop goes on.
UnexpectedTimeout(t) ==
  /\ Waits(t, "timeout")
  /\ answer[t].res \notin {"ETIME", "ECANCELED"}
  /\ Retry(t)

\* Mutant: takes any answer but -ETIME for that of a receive in time.
GoesOnAfterAnyAnswer(t) ==
  /\ Waits(t, "timeout")
  /\ answer[t].res # "ETIME"
  /\ Goto(t, "get")
  /\ UNCHANGED <<token, value, buffer, queue, kernelVars, allocated, lost, history>>

\* Mutant: takes -ECANCELED for the end of the receive.
RetriesInTime(t) ==
  /\ Waits(t, "timeout")
  /\ answer[t].res = "ECANCELED"
  /\ Retry(t)

InTime(t) ==
  /\ Waits(t, "timeout")
  /\ answer[t].res = "ECANCELED"
  /\ Goto(t, "get")
  /\ UNCHANGED <<token, value, buffer, queue, kernelVars, allocated, lost, history>>

\* Mutant: looks at the future and does not wait.
GetsAtOnce(t) ==
  /\ pc[t] = "get"
  /\ buffer' = [buffer EXCEPT ![t] = value[t]]
  /\ DropFuture(t)
  /\ Goto(t, "use")
  /\ UNCHANGED <<answer, queue, kernelVars, allocated, lost, history>>

\* recv_future.Get() returns.
GetReturns(t) ==
  /\ pc[t] = "get"
  /\ value[t] # None
  /\ buffer' = [buffer EXCEPT ![t] = value[t]]
  /\ DropFuture(t)
  /\ Goto(t, "use")
  /\ UNCHANGED <<answer, queue, kernelVars, allocated, lost, history>>

ProvideBuffer(t) ==
  /\ pc[t] = "use"
  /\ Submit(t, "provide", None, buffer[t])
  /\ buffer' = [buffer EXCEPT ![t] = None]
  /\ Goto(t, "provide")
  /\ UNCHANGED <<token, value, answer, kernelVars, allocated, lost, bare, misread, late>>

\* ret_future.Get(): nobody looks at the result.
ProvideReturns(t) ==
  /\ Waits(t, "provide")
  /\ lost' = lost \cup Losing(t, answer[t].bid)
  /\ Goto(t, "idle")
  /\ UNCHANGED <<token, value, buffer, queue, kernelVars, allocated, history>>

ThreadStep(t) ==
  \/ LinkTimeout(t)
  \/ TimedOut(t)
  \/ CancelReturns(t)
  \/ UnexpectedTimeout(t)
  \/ InTime(t)
  \/ GetReturns(t)
  \/ ProvideReturns(t)

-----------------------------------------------------------------------------
(* The kernel.                                                              *)

Answer(s, r, b) == [op |-> s.op, by |-> s.by, at |-> s.at, bid |-> b, res |-> r]

\* The threads whose present receive is among the SQEs, answered without a buffer.
Bare(sqes) == {s.by : s \in {r \in Elements(sqes) : r.op = "recv" /\ token[r.by] = r.at}}

\* SQEs that will not run.  A hand-back that does not run keeps its buffer.
Cancelled(rest) == [i \in 1 .. Len(rest) |-> Answer(rest[i], "ECANCELED", rest[i].bid)]

\* The CQEs of a receive and of its timeout come in either order.
Post(cqes) ==
  \/ cq' = cq \o cqes
  \/ Len(cqes) = 2 /\ cq' = cq \o <<cqes[2], cqes[1]>>

Replace(c, more) == chains' = (chains \ {c}) \cup more

\* A linked timeout guards the request before it.
Guarded(c) == Len(c) > 1 /\ c[2].op = "timeout"

\* The result of a linked timeout whose request was answered before the timer fired.
\* The comment of LinkTimeout has 0 here (io_uring_api.h:433-435), and -ECANCELED for a
\* timeout that was cancelled; the kernel cancels the timeout for such a request, and
\* Recv takes -ECANCELED, and nothing else, for it.
\* Mutant: the result the comment promises.
DisarmedAsDocumented == "ok"

Disarmed == "ECANCELED"

\* The receive at the head of c is answered with r and buffer b, or None.  The timeout
\* behind it is disarmed, unless it has fired and finds nothing to cancel.  Anything else
\* behind it starts, or is cancelled when the receive failed.
RecvAnswered(c, r, b) ==
  LET first == Answer(c[1], r, b) IN
  /\ c[1].op = "recv"
  /\ bare' = IF r = "ok" THEN bare ELSE bare \cup Bare(c)
  /\ IF Guarded(c)
       THEN \E t \in {Disarmed, "ETIME", "other"} :
              /\ Post(<<first, Answer(c[2], t, None)>>)
              /\ Replace(c, {})
              /\ late' = IF t = Disarmed THEN late ELSE late \cup {c[1].by, c[2].by}
       ELSE /\ late' = late
            /\ IF r = "ok"
                 THEN Post(<<first>>) /\ Replace(c, {Tail(c)} \ {<<>>})
                 ELSE cq' = cq \o <<first>> \o Cancelled(Tail(c)) /\ Replace(c, {})

\* Data, or the end of the stream.
Receives(c) ==
  \E b \in group :
    /\ RecvAnswered(c, "ok", b)
    /\ group' = group \ {b}
    /\ UNCHANGED <<threadVars, queue, allocated, lost, misread, mixed>>

\* An error of the socket, or -ENOBUFS.
RecvFails(c) ==
  /\ RecvAnswered(c, "other", None)
  /\ UNCHANGED <<threadVars, queue, group, allocated, lost, misread, mixed>>

\* The timer of the receive at the head of c fires and cancels it.
Expire(c) ==
  /\ c[1].op = "recv" /\ Guarded(c)
  /\ Post(<<Answer(c[1], "ECANCELED", None), Answer(c[2], "ETIME", None)>>)
  /\ Replace(c, {})
  /\ bare' = bare \cup Bare(c)
  /\ UNCHANGED <<threadVars, queue, group, allocated, lost, misread, late, mixed>>

Provides(c) ==
  /\ c[1].op = "provide"
  /\ group' = group \cup {c[1].bid}
  /\ Post(<<Answer(c[1], "ok", None)>>)
  /\ Replace(c, {})
  /\ UNCHANGED <<threadVars, queue, allocated, lost, history>>

\* Requests that run with this address as their user_data.
Running(a) == {c \in chains : c[1].op = "recv" /\ c[1].at = a}

Cancels(c) ==
  /\ c[1].op = "cancel"
  /\ IF Running(c[1].at) = {}
       THEN /\ Post(<<Answer(c[1], "other", None)>>)
            /\ Replace(c, {})
            /\ UNCHANGED bare
       ELSE \E d \in Running(c[1].at) :
            /\ cq' = cq \o Cancelled(d) \o <<Answer(c[1], "ok", None)>>
            /\ chains' = chains \ {c, d}
            /\ bare' = bare \cup Bare(d)
  /\ UNCHANGED <<threadVars, queue, group, allocated, lost, misread, late, mixed>>

-----------------------------------------------------------------------------
(* The worker.                                                              *)

\* The CQEs of a chain the kernel refuses because of its last SQE.
Refused(c) == [i \in 1 .. Len(c) |->
                 Answer(c[i], IF i = Len(c) THEN "other" ELSE "ECANCELED", c[i].bid)]

\* Everything up to the end of a chain.  A linked timeout with no request before it is
\* refused.  So is one whose time is not valid: LinkTimeout gives the kernel the address of
\* a timespec on the stack of the handler, which has returned by now.
SubmitToKernel ==
  \E n \in 1 .. Len(queue) :
    LET c == SubSeq(queue, 1, n) IN
    /\ ~Linked(queue[n])
    /\ \A i \in 1 .. n - 1 : Linked(queue[i])
    /\ queue' = SubSeq(queue, n + 1, Len(queue))
    /\ \/ /\ n > 1 \/ c[1].op # "timeout"
          /\ chains' = chains \cup {c}
          /\ UNCHANGED <<cq, bare, misread>>
       \/ /\ c[n].op = "timeout"
          /\ cq' = cq \o Refused(c)
          /\ bare' = bare \cup Bare(c)
          /\ misread' = IF n > 1 THEN misread \cup {c[n].by} ELSE misread
          /\ UNCHANGED chains
    /\ UNCHANGED <<threadVars, group, allocated, lost, late, mixed>>

\* The promise of the completion at a: the thread waits for it, or has dropped its future.
Deliver(a, b) ==
  LET t == allocated[a] IN
  IF token[t] = a
    THEN value' = [value EXCEPT ![t] = b] /\ UNCHANGED lost
    ELSE lost' = lost \cup Losing(t, b) /\ UNCHANGED value

Delete(a) == allocated' = [allocated EXCEPT ![a] = None]

\* Mutant: no look at IORING_CQE_F_BUFFER; a CQE without a buffer has 0 in the bits of its id.
TakesBufferZero(c) ==
  /\ Deliver(c.at, IF c.bid # None THEN c.bid ELSE CHOOSE b \in Buffers : TRUE)
  /\ Delete(c.at)

\* Mutant: deletes a completion it does not complete.
DeletesAlways(c) ==
  /\ Delete(c.at)
  /\ IF c.bid # None THEN Deliver(c.at, c.bid) ELSE UNCHANGED <<value, lost>>

\* HandleCqe of a receive: a completion with a group is completed, and deletes itself, only
\* if the CQE has a buffer.
CompleteWith(c) ==
  IF c.bid # None
    THEN Deliver(c.at, c.bid) /\ Delete(c.at)
    ELSE UNCHANGED <<value, lost, allocated>>

HandleCqe ==
  /\ cq # <<>>
  /\ cq' = Tail(cq)
  /\ LET c == Head(cq) IN
     IF c.op = "recv"
       THEN CompleteWith(c) /\ UNCHANGED answer
       ELSE answer' = [answer EXCEPT ![c.by] = c] /\ UNCHANGED <<value, lost, allocated>>
  /\ UNCHANGED <<pc, token, buffer, queue, chains, group, history>>

Worker == SubmitToKernel \/ HandleCqe

Kernel ==
  \E c \in chains : Receives(c) \/ RecvFails(c) \/ Expire(c) \/ Provides(c) \/ Cancels(c)

Next ==
  \/ \E t \in Threads : Recv(t) \/ ThreadStep(t) \/ ProvideBuffer(t)
  \/ Worker
  \/ Kernel

\* The worker never sleeps while there are requests or CQEs (RequestService, IoUring), a
\* timer fires, the kernel runs what does not wait, and a thread goes on with its call.
\* No peer has to send, and the application may keep a buffer for ever.
Fairness ==
  /\ WF_vars(SubmitToKernel)
  /\ WF_vars(HandleCqe)
  /\ \A t \in Threads :
       /\ WF_vars(ThreadStep(t))
       /\ WF_vars(\E c \in chains : c[1].by = t /\ (Expire(c) \/ Provides(c) \/ Cancels(c)))

Spec == Init /\ [][Next]_vars /\ Fairness

-----------------------------------------------------------------------------
(* Properties.                                                              *)

InCq(op)    == {i \in 1 .. Len(cq) : cq[i].op = op}
Received(b) == {i \in InCq("recv") : cq[i].bid = b} \cup {t \in Threads : value[t] = b}
Applied(b)  == {t \in Threads : buffer[t] = b}
Returned(b) == {s \in Elements(queue) \cup InChains : s.bid = b}
                 \cup {i \in InCq("provide") : cq[i].bid = b}
                 \cup {t \in Threads : answer[t] # None /\ answer[t].bid = b}
Lost(b)     == {l \in lost : l.bid = b}

\* A buffer is in exactly one place: the kernel's group, one answer on its way up, the
\* hands of one thread, one request on its way down, or lost once.
OneOwner ==
  \A b \in Buffers :
    Cardinality({b} \cap group) + Cardinality(Received(b)) + Cardinality(Applied(b))
      + Cardinality(Returned(b)) + Cardinality(Lost(b)) = 1

\* The abstract specification of ownership, under this mapping.
Ownership == INSTANCE BufferOwnership WITH
  owner <- [b \in Buffers |->
              IF b \in group THEN "kernel"
              ELSE IF Applied(b) # {} THEN "application"
              ELSE IF Returned(b) # {} THEN "returned"
              ELSE IF Received(b) # {} THEN "received"
              ELSE "lost"]

ImplementsOwnership == Ownership!Spec

\* A buffer is lost only to a thread whose receive was answered after its timer had fired,
\* or whose chain another thread's request got into.
LostOnlyToRaces == \A l \in lost : l.by \in late \cup mixed

\* The timeout's answers are the two that Recv expects, -ETIME and -ECANCELED, but for the
\* same two races and for a time that is gone when the kernel reads it.  Any other answer,
\* 0 included, makes Recv drop the receive, which may have a buffer.
TimeoutAsExpected ==
  \A t \in Threads :
    pc[t] = "timeout" /\ answer[t] # None /\ answer[t].res \notin {"ETIME", "ECANCELED"}
      => t \in late \cup mixed \cup misread

\* An AsyncCancel whose address is that of a live completion means that completion: the
\* thread's own receive; but for the same two races.
CancelsItsOwn ==
  \A s \in Elements(queue) \cup InChains :
    s.op = "cancel" /\ allocated[s.at] # None => allocated[s.at] = s.by \/ s.by \in late \cup mixed

\* Recv returns once the timeout says that the receive was answered in time, unless the
\* answer had no buffer: then it never does.
GetsItsBuffer ==
  \A t \in Threads : pc[t] = "get" ~> pc[t] # "get" \/ t \in bare

\* ops::ProvideBuffer returns, unless the request got into another thread's chain.
HandsBack ==
  \A t \in Threads : pc[t] = "provide" ~> pc[t] # "provide" \/ t \in mixed
=============================================================================
