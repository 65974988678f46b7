# iouring_cc in TLA+

TLA+ models of `iouring_cc`, a C++ library that runs file and network I/O
through Linux `io_uring`, with TLC configurations that check them on small
instances and TLAPS proofs for every instance. All paths below are relative to
`src/`.

## 1. The system

An application builds an `IoUring` object (`iouring/io_uring.h`) and calls one
function per operation (`Read`, `Write`, `Recv`, `OpenAt`, `Timeout`, ...). Each
call makes an `IoRequest` with a heap-allocated completion object, whose address
becomes the `user_data` of an SQE. The kernel posts a CQE with the same
`user_data`; `HandleCqe` finds the completion through it, runs the callback, sets
the value of the future and deletes the completion.

In the default mode one worker thread prepares, submits and completes everything.
With `DisableSubConsumeThread` the calling threads do so themselves ("direct
mode") and an eventfd tells the application that there are completions.

```
application threads --EnqueueIoRequest--> IoSink --Drain--> worker --SQEs--> kernel
        ^                                                     |                |
        +------- callback, future <------- HandleCqe <--------+<---- CQEs -----+
```

### Components

**IoSink** (`iouring/io_sink.h`). State: `pending_io_` (a queue),
`pending_io_mutex_`, a condition variable, the plain bool `stop_`. Operations:
`EnqueueIoRequest` (push under the mutex, notify after it), `Drain` (sleep, then
hand up to `max_drain` requests to `consume` with the mutex held), `Stop` (write
`stop_` without the mutex, notify). Shared by every caller, the worker and the
destructor. Hard: notifications between a test and a sleep; the predicate reads a
counter that is changed outside the lock; a request is popped before it is known
whether it can be consumed. Correct when: no wakeup is lost, order is kept,
`Drain` returns after `Stop`.

**IoUring's worker and rings** (`iouring/io_uring.cc`). State: the two rings,
`submission_pending_count_`, `linked_sqe_`, `stop_consumption_`. Operations:
`DoProcessIoRequests`, `SubmitToKernelRing`, `GetSqe`, `PrepareSqe`,
`SubmitToKernel`, `ProcessCompletionsRing`, `HandleCqe`, `~IoUring`. It calls
IoSink (and is called back by it through `consume`), the kernel, and the
application's callbacks, which may call the API. Hard: a full ring inside `Drain`;
partial and failed submits whose result is ignored; linked chains that must go out
together; the counter that decides whether the worker may sleep. Correct when:
every accepted request is resolved exactly once, in the order of acceptance as far
as submission goes, and the worker never sleeps on work.

**Completions and futures** (`iouring/io_completion.h`). State: callback, promise,
lifetime. Operations: `CompleteWith`, `SetException`. Hard: more than one CQE for
one completion (multishot, `F_MORE`), a CQE after the deletion. Correct when: a
completion is used only while it is alive, and its promise is set once.

**Registered files** (`IoUringFileFdContainer` and `RegisterFile(s)`,
`UnregisterFile(s)` in `iouring/io_uring.cc`). State: `fd_to_index_`, `free_ids_`,
`files_mutex_`, the kernel's table of fixed files. Reads and writes look a
descriptor up without the mutex, when the worker prepares their SQE. Hard:
container and kernel table change one after the other and either may fail; roll
back of a vector; a slot freed and given away while a read that names it is on its
way. Correct when: both tables agree, a read never reaches another file, a failed
`RegisterFiles` leaves nothing behind.

**Direct mode** (`SubmitIoRequest` in `io_uring.h`, `FlushSubmissionRing`,
`ProcessComplitionsRing`). State: the rings under `mutex_`, the eventfd. Hard:
callbacks with `mutex_` held; an eventfd read clears more than one batch handles;
SQEs nobody flushes.

**ThreadPool** (`iouring/threadpool.h`). Queue, mutex, condition, `stop_`; runs the
worker's loop and the tasks of the example servers; the destructor joins it.

**Provided buffers** (`iouring/buffer_pool.h`, `ProvideBuffer`, `RemoveBuffer`,
`EraseBufferFromPool`). Each buffer id is owned by the kernel or by the
application. Operations: selection by a receive, the way up through the CQE,
`RwProvidedBufferCompletion` and the future, `ProvideBuffer`, removal of a group.
Hard: a future dropped before its buffer comes, a CQE without a buffer, a hand-back
that does not run, the removal of a group with receives in flight. Correct when: a
buffer has one owner, and comes back to the kernel.

**Operations** (`io_uring_api.h`, `io_request.h`, the functions `IoUring::Noop` to
`IoUring::Msgring`). A call becomes an SQE in three layers: the API function, a
`make_*` function that fills one member of a union and sets the opcode, and the
handler `PrepareSqe` finds for the opcode. The only state is the SQE, which keeps
what its last user wrote. Hard: some fifty pairs of opcode and union member, chosen
in different places; options (`IoApiCommonVars`) that each layer reads in part; a
handler that writes nothing leaves another request's operation to the kernel.
Correct when: the kernel is asked for the operation that was called, with its
arguments, options and link, whatever the SQE was used for before.

**Linked timeouts and cancellation** (`LinkTimeoutTo`, `LinkTimeout`,
`TimeoutRemove`, `Cancel`, and their user `examples/netio/socket_ops.cc`). Hard:
pairing an operation with its timeout when threads share a ring, late answers,
retries, a cancel token that is the address of a deleted object, a timespec on the
stack that the kernel reads at submission. Correct when: an answer in time is used,
a late one is lost only in ways one can name, and nobody cancels another's receive.

**Buffer** (`iouring/buffer.h`). Size, capacity, ownership. **IoUringParams and
the probe** (`io_uring.h`): values only. **Examples**: `fileio` (owner of one
descriptor), `netio` (an epoll loop with a handler table and deferred removal, a
TCP server, sockets). **Support** (status, logger, defer, assert, utils,
addresses), **tests, build files, timemory interface, tools**: no behaviour of
their own over time.

`PROJECT.json` lists every component with its status, and every hazard at its line.

## 2. Modules

| module | models | state and actions in the code |
|---|---|---|
| `IoSink` | `iouring/io_sink.h` | `pending_io`, `mutex`, `waiting` (the wait set of `condition_`), `stop`; the call in progress of each caller, of `Drain` and of `Stop` |
| `IoUring` (extends `IoSink`) | the worker, the rings, completions with one CQE, the destructor | `prepared`/`published`/`sq_head`: the submission ring; `in_kernel`; `cq`/`batch`/`seen`: the completion ring; `pending_sqe`, `linked_sqe`, `tries`, `step` (where the worker is), `resolved`, `destructor`; `bare`, a history variable: requests whose CQE was skipped |
| `RequestService` | what `SubmitIoRequest` promises, without threads or rings | `accepted`, `taken`, `resolved`, `closed` |
| `FileTable` | registered files and the reads that use them | `fd_to_index`, `free_ids`, `table` (the kernel's); `doing`/`todo`/`done`: a call and its vector; `updating`: the holder of `files_mutex_` between container and kernel; `read` |
| `DirectRing` | the rings without a worker (`DisableSubConsumeThread`) | `step`: where the thread inside `mutex_` is; `hand`: the request it prepares; `sq`, `in_kernel`, `cq`/`batch`/`seen`; `event_fd` and `unsignalled` (a CQE published and not yet signalled); `pending`, `resolved` |
| `IoRequest` | `io_request.h` | the `make_*` functions: a request has an opcode, the union member filled, and SQE flags |
| `SqeHandlers` (extends `IoRequest`) | `PrepareSqe` and the handlers | one action per handler; `request` on its way, `sqe` (the entry of the ring), `linked_sqe`, `error` |
| `IoApi` (extends `SqeHandlers`) | `io_uring_api.h` | one action per API function; `common_vars`; `asked`: what the documentation of the call says it does |
| `ProvidedBuffers` | receives into provided buffers with linked timeouts: `ops::Recv`, `ops::ProvideBuffer` over `RwProvidedBufferCompletion`, `HandleCqe`, `Cancel` | `pc`: where each thread is in the loop; `token`, `value`: its `recv_future`; `answer`: its other future; `buffer`; `queue`, `chains`, `cq`: requests as SQEs on their way down and up; `group`; `allocated`: the heap; `lost` |
| `BufferOwnership` | what provided buffers promise, and what they do not | `owner` of each buffer |
| `Multishot` | one request with many CQEs: a multishot `PollAdd`, `DefaultCompletion` and the pending count | `worker`, `pending_io`, `in_kernel`, `cq`, `batch`, `count`, `events`, `notified`, `satisfied` |
| `MCIoUring`, `MCFileTable`, `MCDirectRing`, `MCIoApi` | | the instances TLC checks (`IoSink`, `ProvidedBuffers` and `Multishot` need none) |
| `IoSinkProofs`, `IoUringProofs`, `IoUringServiceProofs`, `FileTableProofs`, `DirectRingProofs`, `ProvidedBuffersProofs`, `BufferRacesProofs`, `IoApiProofs` | | theorems and proofs |

A step of a model is the code between two points at which the step of another
thread can make a difference. In `IoSink` a caller's critical section is one step,
for nothing in it blocks; `notify_one` comes after the mutex is released and is a
step of its own; the worker's test of the predicate and its entry into the wait
set are two, for `Stop` can fall between them. `IoUring` uses IoSink's actions as
they are: a request handed to `consume` takes the worker from `DrainPop` through
`get_sqe`, perhaps `submit`, `process` and callbacks, to `DrainConsumed`, with
`mutex = Worker` all along. That is what makes a callback inside `GetSqe`
visible as the deadlock it is.

SQEs are numbered in the order `io_uring_get_sqe` gives them out; number `i` is in
slot `i % SqSize`, which is all that the model needs of the ring's indices.
`StaleUserData` is what a slot still holds from its last use: `PrepareSqe`
does not clear it for an opcode without a case.

`DirectRing` has no threads: `SubmitIoRequest`, `FlushSubmissionRing` and
`ProcessComplitionsRing` hold `mutex_` from beginning to end, so at most one thread
is inside and it makes no difference which. `step = "outside"` says that the mutex
is free. The kernel asks for no mutex, and its two steps, publishing a CQE and
signalling the eventfd, fall between any two steps of the thread inside.

`IoApi` follows one request at a time from the call to the SQE, so its ring has one
entry, which every request is given in its turn with what is left in it
(`io_uring_get_sqe` clears nothing). An `io_uring_prep_*` function is modelled by its
name and its arguments (`sqe.does`), and by what it does to the rest of the entry: it
clears flags and buffer group and leaves `user_data`. The documentation of a call is
written down in the same terms (`asked.does`), and `Performed` is the kernel's
reading of the entry: with `IOSQE_FIXED_FILE` a descriptor is a slot of the file
table, with `IOSQE_BUFFER_SELECT` a buffer comes from the group, and a `preadv` is a
`preadv2` without flags. A timespec on the stack of a handler is read when the
handler is gone: it is what was written there, or garbage.

`RequestService` is implemented by `IoUring` (`ServiceSpec`, with `taken` as the
number of requests popped and `closed` as `stop_`), liveness included, in the
default configuration. The conditions under which it is not implemented are
those of `NoSilentLoss`. `DirectRing` implements it too (it is never closed),
given an application that flushes and processes; there a request `GetSqe` gives up
on gets an exception, so nothing is lost even with a full ring and a busy kernel.

In `ProvidedBuffers` the ring is `RequestService` seen from far: a queue, from which
whole chains go to the kernel in order, and a completion ring. What it adds is what
an application with several threads does on it. A receive and its timeout are two
calls, so a request of another thread can come between them and becomes a part of the
chain (`Submit` notes such threads in `mixed`). A completion is a heap object, and its
address is `user_data` of the SQE and the token that `Cancel` takes: `Recv` allocates
at an address that `CompleteWith` has freed, and an old token can then name another
thread's receive. A promise whose future is gone takes the buffer with it (`lost`).
The model is of the release build, where `IOURING_ASSERT` is nothing: the "Unexpected
timeout res" of `socket_ops.cc:180` is the step `UnexpectedTimeout`, and
`TimeoutAsExpected` names the races without which it cannot happen; it takes any answer
but `-ETIME` and `-ECANCELED` for unexpected, as the code does. The variables
`bare`, `misread`, `late` and `mixed` are history; no action of the code reads them.

`ProvidedBuffers` implements `BufferOwnership` (`ImplementsOwnership`): no step moves
a buffer but from an owner to the next, and one that is lost stays so. The abstract
specification says openly that a buffer may be lost on its way; `LostOnlyToRaces`
says to whom.

`Multishot` is a small module of its own and not a case in `IoUring`, for the first
answer already takes the system out of what `IoUring` is about: the count no longer
says what is outstanding, and `PendingCountSound` and all that rests on it is gone.
Its worker is as much of `IoUring`'s as the count decides.

### The kernel, as the models see it

`io_uring_submit` is one of four kinds, fixed at the start: it consumes all SQEs,
or any non-empty part of them, or that or `-EBUSY`, or leaves them to a polling
thread. `-EINTR` is retried by the code and changes nothing. Operations complete
in any order, which covers the fewer orders linked ones have. A full completion
ring is the "busy" kind. The wait for a CQE uses `IORING_ENTER_EXT_ARG` (a kernel
without it would spend an SQE on the timeout). A buffer is selected, or not.

In `ProvidedBuffers` a linked timeout guards the request before it. When the receive
is answered the timer is disarmed (`Disarmed`, which is `ECANCELED`), or has fired and finds nothing
(`ETIME` or another error); when it fires first the receive gets `ECANCELED`. The two
CQEs come in either order. What else follows in a chain starts after a success and is
cancelled after a failure. A timeout without a request before it is refused, and so
is one whose time makes no sense, which happens because the timespec is gone; its
whole chain is cancelled. `Cancel` finds a running receive by its address, or nothing.

### Obligations of the application

`FileTable` writes three of them into its guards, which no document of the
repository states and every caller in it respects: a thread registers and
unregisters only its own descriptors; it unregisters none with a read on its way;
and `UnregisterFiles`, which takes no lock, runs alone. In `IoUring` a request is
submitted once, and the object is not destroyed by its own worker or inside a call
of another thread. In `DirectRing` no callback makes a request (it would lock
`mutex_` again on its own thread), and for the liveness the application flushes what
it has submitted and processes completions when the eventfd is readable.

## 3. Runs

| run | expected | shows |
|---|---|---|
| `service` | pass | the default configuration implements `RequestService`; no callback runs under the sink's mutex, no completion is used after its value, no SQE is stranded |
| `pressure` | pass | on a ring smaller than one drain, with every kind of kernel, a link, a provided buffer and an opcode without a case: the pending count is exact, the worker sleeps only when idle, order is kept, a chain is cut only when the ring is full, and a request is lost or left behind only in the three ways `NoSilentLoss` names, or by `~IoUring` |
| `files` | pass | container and kernel table agree, reads reach their file, a failed `RegisterFiles` is undone |
| `direct` | pass | direct mode implements `RequestService`; no half-prepared SQE reaches the kernel, every request is in one place, the pending count is exact, no CQE waits without a signal |
| `calls` | pass | every API call but those listed in `Unwritten` and `Misdirected` reaches the kernel as documented, whatever the SQE held; all that report no error keep their own completion and link; only the calls in `Unwritten` repeat an earlier request |
| `buffers` | pass | two threads receive, time out, cancel, retry and hand back for ever: `BufferOwnership` is implemented, a buffer is lost, a timeout answered unexpectedly, another's receive cancelled only after the races that are named; a receive answered in time gets its buffer, and a hand-back returns |
| `documented_calls` | violation | some calls ask the kernel for another operation than the documented one |
| `stop_lost_wakeup` | violation | `Stop`'s notification can be lost and the destructor then waits for ever |
| `callback_deadlock` | violation | a callback run by `GetSqe` blocks on the mutex its own thread holds |
| `register_again` | violation | after `UnregisterFiles` no file can be registered |
| `direct_drain` | violation | `ProcessComplitionsRing` leaves completed CQEs behind, with their signal read |
| `multishot` | violation | after the first answer of a multishot poll the worker sleeps on the later ones |

### Bounds

*service*: two threads, three requests, `MaxDrain = SqSize = 2`, so that one
drain can fill the ring and leave a request behind for another, and one of the
three callbacks makes a request. The library's defaults have the same relation
(`max_cqe_to_drain_` 10, 64 entries). *pressure*: `MaxDrain = 3 > SqSize = 2`,
`MaxTry = 2`, so `GetSqe` finds the ring full, tries again and gives up. Two
threads are enough for two notifications to overlap, and the threads are
interchangeable (symmetry is used where no liveness is checked). Three requests
are the fewest with one before and one after a special one. *files*: two
threads with two descriptors each, two slots: the vectors fit, do not fit, repeat
a descriptor, and hold one the kernel refuses, and one thread can take the slot
another has just freed. *direct*: four requests on a ring of two: two fill it, a
third is in hand while `GetSqe` submits, and a fourth may be with a kernel that is
busy; `MaxDrain = 4` holds every CQE, as the default of 10 does for a caller with few
requests, and `direct_drain` takes a smaller one. *calls*: every API function, with each of the 32 settings of
`IoApiCommonVars` (a link or none, multishot, a buffer group, a file index, direct
allocation), after every other. One entry is enough, for a stale entry needs one
reuse only. An argument is its own name, so that one that is lost, exchanged or taken
for another shows; it has a second value where the code tests it (0, -1, null, no
flags, a registered descriptor). *buffers*: two threads, for a race has two sides;
two buffers, so that one can be lost or held while the other is received; two
addresses. `Addresses` is the one bound that is not the code's: the heap. A
completion whose CQE had no buffer is never deleted, as in the code, and when all
addresses are taken nobody starts another receive; the first receive of each thread
has an address, and so does every one after a receive that got its buffer, which
includes the reuse of an address that an old token still names. The threads go round
their loop without any bound. *multishot*: three events, one other request.
Elsewhere requests are finite in number, and so are SQEs.

### Fairness

Weak fairness of the worker's steps, of a caller that still owes its `notify_one`,
of the kernel for every SQE it was given, and of a destructor once it has started.
All are single threads that are ready to run, and the only lock they meet is held
for finitely many of the worker's own steps, so weak fairness is what a scheduler
that starves nobody gives. In `ProvidedBuffers` there is fairness for the worker's two
steps, for a thread in the middle of `ops::Recv` or `ops::ProvideBuffer`, and, for the
requests of each thread, for the kernel's timers, cancels and hand-backs, which wait
for nobody; none for the arrival of data, since no peer has to send. The kernel's fairness says that an operation completes
some day; an operation that never does (a read of a silent socket) leaves its
request in flight for ever, which is no fault of the library. There is no fairness
for callers (but for the application's part in direct mode, stated in
`DirectRing!Fairness`), for the start of a receive or the use of a buffer in
`ProvidedBuffers`, for the start of the destructor, or for spurious wake-ups: no
property may rely on them. That matters for `StopEndsDrain`, whose violation a
fair spurious wake-up would hide.

### Findings

1. `Stop` (`io_sink.h:111-115`) writes `stop_` without the mutex. Between the
   worker's evaluation of the predicate and its entry into the wait set the
   notification reaches nobody; `~IoUring` then waits in `Join` for ever.
2. `GetSqe` (`io_uring.cc:401`) runs completion callbacks within `Drain`. A
   callback that makes a request locks `pending_io_mutex_` again on the same
   thread. It takes a full ring: not with the default numbers, but with a ring
   smaller than `max_cqe_to_drain_`, links, or a kernel that takes part of the SQEs.
3. `UnregisterFiles` destroys the kernel's table, which only the constructor
   creates; `docs/API.md:5` tells the reader to re-register after it.
4. `ProcessComplitionsRing` reads the eventfd, which clears it, and handles at most
   `max_cqe_to_drain_` CQEs. `io_uring.h:450` says that it processes all. An event
   loop that waits for the eventfd does not call it again for the rest.
5. Calls that ask the kernel for something else than their documentation says
   (`documented_calls`): `Socket` and `Getxattr` carry the opcode of `fgetxattr`
   (`io_request.h:1481`, `1461`); `TimeoutRemove` and `TimeoutUpdate` have a handler but
   no case in `PrepareSqe`; `Close` of descriptor 0 prepares nothing (`io_uring.cc:628`);
   `Linkat` with -1 goes on to `linkat` (`751`); `SendZc` and `Openat2` test the file
   index the wrong way round (`573`, `888`); a multishot `Recv` is a single one (`556`).
6. A multishot request is counted once, and every CQE of it is subtracted
   (`io_uring.cc:1187`). After the first event the worker sees nothing pending and
   sleeps on the rest, against `io_uring_api.h:120-123`. If it does handle a second
   CQE, because another request wakes it or two are in one batch,
   `DefaultCompletion::Complete` sets the same promise twice and, being noexcept, ends
   the process.

One disagreement lies between a comment and the kernel, and has no run, for the code
of this repository takes the kernel's side. `io_uring_api.h:433-435` says that
`LinkTimeout` completes with 0 when the linked request completes by itself, and with
`-ECANCELED` when the timeout was cancelled. The kernel cancels the timeout of a request
that completes, so the result is `-ECANCELED` there too, and `ops::Recv` is written for
that: it returns its receive on `-ECANCELED` (`socket_ops.cc:174`) and treats every
other result, 0 included, as unexpected (`socket_ops.cc:180`). `Disarmed` in
`ProvidedBuffers` is this one result, external to the repository; under the documented
one, `DisarmedAsDocumented`, `TimeoutAsExpected` fails with the first receive that is
answered in time: `ops::Recv` would throw away every buffer it gets.

`Misdirected` in `IoApi` names more calls that are not carried out as written, though
as the operation that was meant: a direct `Accept`, `Openat` and `Close` put
`IOSQE_FIXED_FILE` on an SQE whose descriptor is no index, and `Timeout` and
`LinkTimeout` point the kernel to a timespec that is gone. `Unwritten` adds `Cancel` and
`Cancel64` of nothing. The passing run `calls` is the statement that these are all.

Behaviours that no document rules out are named by the passing runs. `pressure` pins
down three of them, the disjuncts of `NoSilentLoss`, each of which is needed:

- a request is dropped, its future never resolved, when `GetSqe` gives up
  (`io_sink.h:79`);
- SQEs that `io_uring_submit` left in the ring, because it took a part of them or
  answered `-EBUSY`, stay there: the result is ignored (`io_uring.cc:1358`), so nothing
  submits them before a later `Drain` has taken another request, and the worker may
  sleep meanwhile, for ever if no request comes (`Stranded`);
- a completion that wants a provided buffer gets no value when its CQE names none
  (`io_uring.cc:1199`; the history variable `bare` holds these requests).

Any other request without a value is *in flight*: queued, in hand, being completed, or
in an SQE that an awake worker is still to submit or has a CQE to come for, or that
waits for the end of its chain. After `~IoUring` has set `stop_consumption_` nobody
handles CQEs, and `NoSilentLoss` says no more.

The `buffers` run shows what follows from the third in the example server: `ops::Recv`
waits for ever after a receive that failed in time (`bare` in `GetsItsBuffer`), and
its completion is leaked. It also shows the window of the retry: data that arrive
when the timer has just fired are in a future that `ops::Recv` throws away, and their
buffer is in nobody's hands any more (`LostOnlyToRaces`).

## 4. Proofs

For all values of the constants, from the named assumptions of each module
(the worker is not an application thread, positive sizes, `None` is no request).
`Safety` is `Init /\ [][Next]_vars` of the module, and the further assumption of a
theorem, where it has one, stands before it:

| theorem | states |
|---|---|
| `NoWakeupIsLost`, `DrainIsInOrder` | `SinkSafety => []NoLostWakeup`, `SinkSafety => []OrderInv`: `Drain` hands out the requests in the order of acceptance, none twice, none passed over |
| `RingInvariant`, `TypeCorrect` | `Safety => []IInv`, `Safety => []TypeOK` |
| `PendingCountIsSound` | `Safety => []PendingCountSound` |
| `SleepIsIdle` | `Safety => []SleepsOnlyWhenIdle` |
| `RingLosesNoWakeup` | `Safety => []NoLostWakeup` |
| `ServiceInvariant` | `Safety => []ServiceInv` |
| `RingImplementsService` | `Safety => Service!ServiceSafety`: the safety half of the refinement, for every kind of kernel, links and rings of any size |
| `SqesAreInOrder`, `ChainsStayWhole` | `Safety => []SubmissionInOrder`, `Safety => ChainCutOnlyWhenFull` |
| `NothingIsStranded` | `Safety => []NothingStranded` (which is about kernels that take all they are given, or poll) |
| `CallbacksAreUnlocked` | `DefaultConfiguration /\ Safety => []CallbacksRunUnlocked` |
| `NoCompletionIsUsedAfterItsValue` | `EveryOpcodeHasACase /\ Safety => []NoFreedCompletion` |
| `NothingIsLostSilently` | `GetSqeLooksAgain /\ Safety => []NoSilentLoss` |
| `FilesInvariant`, `FilesTypeCorrect` | `Spec => []FileInv`, `Spec => []TypeOK` |
| `ContainerIsConsistent`, `KernelFollowsContainer`, `ReadsAreSafe` | `Spec => []SlotsAgree`, `[]KernelAgrees`, `[]ReadsReachTheirFile` |
| `FilesAreAllOrNothing` | `OwnersApart /\ Spec => AllOrNothing` |
| `DirectInvariant`, `DirectTypeCorrect` | `Safety => []DirectInv`, `Safety => []TypeOK` |
| `SqesAreWhole`, `DirectCountIsSound`, `RequestsAreKept` | `Safety => []NoBlankSqe`, `[]PendingCountSound`, `[]EveryRequestInOnePlace` |
| `NoSignalIsLost` | `BatchesHoldAll /\ Safety => []NoCqeWithoutSignal` |
| `DirectImplementsService` | `Safety => Service!ServiceSafety` |
| `BuffersInvariant`, `BuffersTypeCorrect` | `Safety => []BuffersInv`, `Safety => []TypeOK` |
| `BuffersHaveOneOwner`, `BuffersChangeOwner` | `Safety => []OneOwner`, `Safety => ImplementsOwnership` |
| `RacesInvariant` | `Safety => []RacesInv`: what is true of every thread that is in neither race |
| `BuffersLostOnlyToRaces`, `TimeoutsAreExpected`, `CancelNamesItsReceive` | `Safety => []LostOnlyToRaces`, `[]TimeoutAsExpected`, `[]CancelsItsOwn` |
| `AnswersCome` | `Safety => []NobodyWaitsForNothing`: what a thread waits for is in the queue, the kernel or the ring |
| `ApiInvariant`, `ApiTypeCorrect` | `Spec => []ApiInv`, `Spec => []TypeOK` |
| `CallsPerformAsDocumented` | `Spec => []PerformsAsDocumented`: every call but the listed ones reaches the kernel as it is documented |
| `CallsKeepTheirLink`, `OnlyTheUnwrittenRepeat` | `Spec => []LinksAndCompletesItsOwn`, `[]RepeatsNothingElse` |

The assumptions: `DefaultConfiguration`, a ring that holds a whole drain (the library's
numbers are 64 and 10), no links, no opcode without a case, a kernel that takes what it
is given; `EveryOpcodeHasACase`, no opcode that `PrepareSqe` leaves as it
is; `GetSqeLooksAgain`, `MaxTry >= 2` (the code has 10, `io_uring.cc:395`);
`OwnersApart`, no two threads register the same descriptor.

**The sink.** `NoLostWakeup` is not inductive: between the test of the predicate
and the sleep it must be known that what the test saw still holds. `SinkControlInv`
says who holds the mutex in which place of `Drain`; `SinkSleepInv` says that with
`drainer = "block"` the queue is empty and the counter not positive, which callers
cannot change without the mutex. The lemma `SinkInductive` also allows any step
that moves the counter while the worker is outside `Drain` or inside `consume`.

**The rings.** Every step of `IoUring` is, for the sink, one of its own or such a
move of the counter (`SinkStep`), so the sink's half of `IInv` is inherited. The
rest is `RingTypeOK`, `ControlInv` (the worker's place in the loop against its
place in `Drain`), `IndexInv` (order of the ring's indices; a batch is open only
while it is handled), and `PendingCountSound`, whose step is a calculation with the
cardinality of the set of SQEs in the kernel: `SubmitToKernel(n)` adds `n` new
numbers, a completion moves one to the ring, `HandleCqe` counts one off.
`SleepsOnlyWhenIdle` follows: the worker sleeps only on a count that is not
positive, and the count is exactly what is outstanding.

**The service** (`IoUringServiceProofs`). On top of `IInv`, one invariant per question.
`OrderInv`, a fact of the sink alone, says that the queue is the end of what was
accepted and the request in hand stands right before it. `ServiceInv` adds that what
the ring holds, and what is resolved or being completed, has been through `consume`.
With it every step of `IoUring` is one of `RequestService` or leaves its variables
alone, and the SQEs follow the order of acceptance. `LinkInv`: `linked_sqe_` is the
link of the last SQE, and the loop submits only without it. `StrandInv`: where the
worker can be while SQEs are prepared and not published. `UnlockedInv`: in the default
configuration the SQEs that wait are those of the present `Drain`, fewer than the ring
holds, so `consume` never gets further than `get_sqe`. `FreedInv`, with `CqesOnce`: a
request has one SQE, an SQE at most one CQE, and the request being completed or
resolved is that of an SQE nobody will look at again. `RoomInv`: a kernel that takes
something whenever it is given something leaves room, so that the second look of
`GetSqe` succeeds; `KeptInv`: a request that has been through `consume` has its value,
or is about to get it, or has an SQE that is not done with, or was given up on, or is in
`bare`. `NothingIsLostSilently` puts these together: an SQE that is not done with is
moving, chained or stranded, by `StrandInv` and `SleepsOnlyWhenIdle` while the worker
sleeps, and by `TakenInv` (a kernel that takes all it is given leaves nothing published
in the ring) for the kernels that strand nothing.

**The files.** `FileInv` adds to types and `SlotsAgree`: what is known while a
thread is between container and kernel (`HolderInv`), what each slot of the kernel
then holds (`TableInv`), that no read is on its way of a descriptor at risk
(`QuietInv`), and that a slot named by an SQE is still its descriptor's
(`ReadInv`). That `Add` finds a slot whenever the size differs from the capacity is
a pigeonhole argument (`SlotIsFree`), on the bijection that `SlotsAgree` states.
`AllOrNothing` compares the end of a call with its beginning, and so needs
`HistoryInv`, what is true in between: the descriptors mapped when the call began and
those it has added, the refused ones apart, are those mapped now, and no added one was
mapped before or is in the vector twice. Then a roll back takes away what was added and
nothing else, and never finds a descriptor gone.

**Direct mode.** `DirectInv` says where the holder of `mutex_` is, which SQE may be
blank, and (`OnePlace`) that a request submitted is in exactly one of five places and
any other in none. The last makes the SQEs a submit consumes distinct and new to the
kernel, without which the count would not follow. `NoCqeWithoutSignal` needs what is
true while a batch is open (`SignalInv`): CQEs without a signal are all in the batch,
or about to be fetched. It is stated for batches that hold every CQE, for
`direct_drain` shows it false otherwise.

**Provided buffers.** `OneOwner` depends on what travels. A CQE completes the
completion at its address, so if two answers named one address, the second would be
given to whoever allocated it since; and a buffer an answer names twice would be given
twice. `OnceInv` says that an address (with a receive), the turn of a thread (with
any other request) and a buffer, up with a receive or down with a hand-back, is carried
by at most one SQE or CQE of queue, chains and ring together (`One`). `CarrierInv` says
whose it is: the receive's thread is the one that allocated its completion; any other
request is the one its thread waits for, which has no answer yet. That holds although a
chain may be cut from requests of several threads (`ChainShape`: only its last is not a
receive). `ThreadInv` is what is left of a receive in its thread: a future with a value
has no completion any more, even when another is at the same address. `BufferInv` puts
every buffer in one of seven places. The kernel and the worker only move carriers:
the effect lemmas (`ChainEffect`, `HeadEffect`, `TwoEffect`, `SubmitEffect`) say that an
answered chain has what its requests had, in any order of the answers, but for the
buffer it selects or takes in. Every step moves one buffer at most, one of nine ways
(`Travels`), and these ways are the steps of `BufferOwnership` or none of them.

**The races** (`BufferRacesProofs`). Three properties say what the linked timeout of a
receive can do, and each excepts threads that are in a race: `late`, whose receive was
answered after its timer had fired, and `mixed`, whose chain has a request of another
thread in it. A thread in neither is `Clean`, and keeps its receive and its timeout side
by side, in the queue (`QueueInv`, but for the moment between the two calls) and in the
kernel (`ChainInv`), so that the kernel answers them together. The rest of `RacesInv` is
about that thread. `OwnInv`: of its receives, only the one whose future it holds is on
its way. `AimInv`: its `Cancel` names that one. `RingInv`: its answers come to the ring
in an order that fits them, and once the timeout says that it has fired, the receive's
answer has no buffer and its completion is still allocated (`Holds`). So the address
`Cancel` takes is not another thread's by then, and the future that `ops::Recv` throws
away holds nothing. A thread that has become unclean stays so (`late` and `mixed` only
grow), so a step has to be followed only for the threads that are clean after it.

`AnswersCome` is about all threads, in the races or not. A thread that waits for the
answer of a timeout, a cancel or a hand-back has its request in the queue, the kernel or
the ring, and a thread that expects a value has its receive there and its completion
allocated, unless the kernel answered without a buffer, which `HandleCqe` drops
(`BareInv`: such an answer is noted in `bare`). It is the part of `GetsItsBuffer` and
`HandsBack` that does not depend on fairness: nobody waits for an answer that no step
can bring.

**The calls** (`IoApiProofs`). The three layers agree because they mean the same by an
opcode and a member of the union. `Describes` is that meaning, a table with a row for
each opcode: the call that the member stands for. `Conveys` adds the flags, the group and
the link. Every call makes a request that conveys it, and every handler writes an entry in
which the kernel reads back (`Meant`) what `Describes` says, a registered descriptor
through its slot (`OfSlot`), a vector without flags as `preadv2` (`WithoutFlags`). Rows
of opcodes that no call gets through with are empty: a request for one of the calls in
`Unwritten` is `Ignored` by its handler and leaves the entry as it was, and for those in
`Misdirected` nothing is said of the operation, only of link and completion. TLC's run is
exhaustive here, `IoApi` being finite; the proof says which agreement between the layers
the properties rest on, and the handlers' half of it holds for any request.

**Checked only by TLC**: everything about liveness (`ServiceSpec`'s fair half,
`GetsItsBuffer`, `HandsBack`), for fairness and `ENABLED` are out of the prover's
reach. Every invariant and action property of the passing runs is proved. The violation
runs are counterexamples and need no proof.

## 5. What is not modelled

- `Buffer`: a sequential container that nothing else in the library uses.
- `IoUringParams`, the probe, status, logging, addresses, utilities, tests, build
  files, timemory: values, wrappers and text, with no behaviour over time.
- `fileio`: each method is one call and a wait. The servers and the epoll loop of
  `netio`: an example over `epoll(7)`, whose use of the library is `ops::Recv` and
  `ops::ProvideBuffer`. `ops::Connect` is the same loop without a buffer.
- `RemoveBuffer`, `EraseBufferFromPool`, several groups, registered (fixed) buffers.
- `CQE_SKIP_SUCCESS` and zero-copy notifications, whose second CQE is, for the count
  and the completion, what `Multishot` shows for a poll.
- `StatxCompletion`, `SocketCompletion` and the argument copies of
  `RecvSendMsgCompletion`.
- `PollUpdate` and its deletion of the completion it replaces: the template cannot be
  instantiated, so no program contains it.
- In direct mode: the destructor, opcodes without a case, links, and callbacks that
  make requests (each would lock `mutex_` twice on one thread).
- Of the operations: a multishot `RecvMsg` (its assertion asks for flags its own
  comment forbids), the handlers of `SOCKET`, `GETXATTR` and `TIMEOUT_REMOVE`, which
  nothing reaches, and `op_flag` and `ioprio`, which no handler reads.
- `RegisterFilesExternal`: a call straight to the kernel, without state in the
  library. `UnregisterFiles` against concurrent callers is a data race on `std::map`
  and left out. A look-up that races a change of the map is modelled by its outcomes
  on a node-based tree (found or missed), not by a crash.
- The thread pool beyond the one task of the worker.

## 6. What is left

In order of what it would add: the handler table of the epoll loop, with its deferred
removal and the reuse of a descriptor in between; `EraseBufferFromPool` against
receives in flight, in `ProvidedBuffers`; the tasks of `ThreadPool` as the servers use
them; `Buffer`.
