----------------------------- MODULE SqeHandlers -----------------------------
(***************************************************************************)
(* PrepareSqe and the handler of each opcode (src/iouring/io_uring.cc):    *)
(* how a request becomes the SQE the kernel will find.                     *)
(*                                                                         *)
(* The submission ring has one entry here, which every request is given in *)
(* its turn: io_uring_get_sqe hands it out with what its last user wrote   *)
(* there.  An io_uring_prep_* function writes all of it but user_data and  *)
(* clears its flags; does is that function, without its prefix, and its    *)
(* arguments in the order of liburing.                                     *)
(***************************************************************************)
EXTENDS IoRequest, Sequences

VARIABLES
  step,         \* "idle"; "submitted", a request is on its way to PrepareSqe; "prepared",
                \* the SQE is in the ring
  common_vars,  \* the IoApiCommonVars of the next call
  asked,        \* history: what the documentation says of the call
  request,      \* the IoRequest
  error,        \* has PrepareSqe returned an error?
  sqe,          \* the entry: does, flags, group (buf_group), user_data (is it the
                \* completion of the request?) and, as history, written (has the request
                \* called an io_uring_prep_* function?)
  linked_sqe    \* linked_sqe_

vars == <<step, common_vars, asked, request, error, sqe, linked_sqe>>

op == request.of

\* A descriptor registered with RegisterFile is looked up (module FileTable).
LookUp(fd) == IF fd = "registered_fd" THEN "slot" ELSE None

Handles(opcode) == step = "submitted" /\ request.operation = opcode

\* Mutants: op_flag is taken for sqe_flag; the flags are set before io_uring_prep_*
\* clears them.
FillOpFlag(entry, flags) ==
  /\ sqe' = [entry EXCEPT !.flags = {"op_flag"}, !.user_data = TRUE]
  /\ linked_sqe' = ("IO_LINK" \in flags)
  /\ error' = FALSE
  /\ step' = "prepared"
  /\ UNCHANGED <<common_vars, asked, request>>

FillFlagsFirst(entry, flags) ==
  /\ sqe' = [entry EXCEPT !.flags = {}, !.user_data = TRUE]
  /\ linked_sqe' = FALSE
  /\ error' = FALSE
  /\ step' = "prepared"
  /\ UNCHANGED <<common_vars, asked, request>>

\* What the handlers have in common: they write the SQE, then user_data and flags.
Fill(entry, flags) ==
  /\ sqe' = [entry EXCEPT !.flags = flags, !.user_data = TRUE]
  /\ linked_sqe' = ("IO_LINK" \in flags)
  /\ error' = FALSE
  /\ step' = "prepared"
  /\ UNCHANGED <<common_vars, asked, request>>

Entry(does, group) == [sqe EXCEPT !.does = does, !.group = group, !.written = TRUE]

Prep(opcode, does) == Handles(opcode) /\ Fill(Entry(does, None), request.sqe_flag)

-----------------------------------------------------------------------------
(* Reads and writes.                                                        *)

PrepNoop == Prep("NOP", <<"nop">>)

\* A registered descriptor is replaced by its slot.
PrepReadFrom(fd, flags) ==
  Fill(Entry(<<"read", fd, op.addr, op.size, op.offset>>, op.buf_gid), flags)

\* Mutant: the slot is named without IOSQE_FIXED_FILE.
PrepReadSlotAsFd ==
  /\ Handles("READ")
  /\ \/ LookUp(op.fd) = None /\ PrepReadFrom(op.fd, request.sqe_flag)
     \/ LookUp(op.fd) # None /\ PrepReadFrom(LookUp(op.fd), request.sqe_flag)

PrepRead ==
  /\ Handles("READ")
  /\ \/ LookUp(op.fd) = None /\ PrepReadFrom(op.fd, request.sqe_flag)
     \/ LookUp(op.fd) # None /\ PrepReadFrom(LookUp(op.fd), request.sqe_flag \cup {"FIXED_FILE"})

PrepReadFixed == Prep("READ_FIXED", <<"read_fixed", op.fd, op.addr, op.size, op.offset, op.index>>)

PrepReadV ==
  Prep("READV", IF op.rw_flags # "0"
                THEN <<"readv2", op.fd, op.iov, op.offset, op.rw_flags>>
                ELSE <<"readv", op.fd, op.iov, op.offset>>)

PrepWriteTo(fd, flags) ==
  Fill(Entry(<<"write", fd, op.addr, op.size, op.offset>>, None), flags)

PrepWrite ==
  /\ Handles("WRITE")
  /\ \/ LookUp(op.fd) = None /\ PrepWriteTo(op.fd, request.sqe_flag)
     \/ LookUp(op.fd) # None /\ PrepWriteTo(LookUp(op.fd), request.sqe_flag \cup {"FIXED_FILE"})

PrepWriteFixed ==
  Prep("WRITE_FIXED", <<"write_fixed", op.fd, op.addr, op.size, op.offset, op.index>>)

PrepWriteV ==
  Prep("WRITEV", IF op.rw_flags # "0"
                 THEN <<"writev2", op.fd, op.iov, op.offset, op.rw_flags>>
                 ELSE <<"writev", op.fd, op.iov, op.offset>>)

-----------------------------------------------------------------------------
(* Sockets.                                                                 *)

PrepAccept ==
  Prep("ACCEPT",
       CASE ~ op.multishot /\ op.file_index = None ->
              <<"accept", op.fd, op.sockaddr, op.socklen, op.flags>>
         [] op.multishot /\ op.file_index = None ->
              <<"multishot_accept", op.fd, op.sockaddr, op.socklen, op.flags>>
         [] ~ op.multishot /\ op.file_index # None ->
              <<"accept_direct", op.fd, op.sockaddr, op.socklen, op.flags, op.file_index>>
         [] OTHER ->
              <<"multishot_accept_direct", op.fd, op.sockaddr, op.socklen, op.flags>>)

PrepConnect == Prep("CONNECT", <<"connect", op.fd, op.sockaddr, op.socklen>>)

PrepRecv ==
  /\ Handles("RECV")
  /\ Fill(Entry(<<"recv", op.fd, op.addr, op.size, op.flags>>, op.buf_gid), request.sqe_flag)

PrepSend == Prep("SEND", <<"send", op.fd, op.addr, op.size, op.flags>>)

PrepSendZc ==
  Prep("SEND_ZC",
       IF op.file_index # None
       THEN <<"send_zc", op.fd, op.addr, op.size, op.flags, op.zc_flags>>
       ELSE <<"send_zc_fixed", op.fd, op.addr, op.size, op.flags, op.zc_flags, op.file_index>>)

\* The multishot version is compiled out.
PrepRecvMsg == Prep("RECVMSG", <<"recvmsg", op.fd, op.msghdr, op.flags>>)

PrepSendMsg == Prep("SENDMSG", <<"sendmsg", op.fd, op.msghdr, op.flags>>)

PrepSendMsgZc == Prep("SENDMSG_ZC", <<"sendmsg_zc", op.fd, op.msghdr, op.flags>>)

PrepShutdown == Prep("SHUTDOWN", <<"shutdown", op.fd, op.how>>)

PrepMsgring == Prep("MSG_RING", <<"msg_ring", op.fd, op.data_32, op.data_64, op.flags>>)

-----------------------------------------------------------------------------
(* Files.                                                                   *)

PrepFallocate == Prep("FALLOCATE", <<"fallocate", op.fd, op.mode, op.offset, op.len>>)

\* op.fd > 0, of the descriptors of the model.
Positive(fd) == fd \notin {"0", "-1"}

\* Without a descriptor above zero and without an index, no io_uring_prep_* is called.
PrepClose ==
  /\ Handles("CLOSE")
  /\ \/ Positive(op.fd) /\ Fill(Entry(<<"close", op.fd>>, None), request.sqe_flag)
     \/ ~ Positive(op.fd) /\ op.file_index # None
        /\ Fill(Entry(<<"close_direct", op.file_index>>, None), request.sqe_flag)
     \/ ~ Positive(op.fd) /\ op.file_index = None /\ Fill(sqe, request.sqe_flag)

PrepFsync == Prep("FSYNC", <<"fsync", op.fd, op.flags>>)

PrepOpenat ==
  Prep("OPENAT",
       IF op.file_index = None
       THEN <<"openat", op.dirfd, op.path_name, op.flags, op.mode>>
       ELSE <<"openat_direct", op.dirfd, op.path_name, op.flags, op.mode, op.file_index>>)

PrepStatx ==
  Prep("STATX", <<"statx", op.dirfd, op.path_name, op.flags, op.mask, op.statxbuf>>)

PrepSplice ==
  Prep("SPLICE",
       <<"splice", op.in_fd, op.in_offset, op.out_fd, op.out_offset, op.size, op.flags>>)

PrepTee == Prep("TEE", <<"tee", op.in_fd, op.out_fd, op.size, op.flags>>)

PrepFileSyncRange ==
  Prep("SYNC_FILE_RANGE", <<"sync_file_range", op.fd, op.len, op.offset, op.flags>>)

PrepFilesUpdate == Prep("FILES_UPDATE", <<"files_update", op.fds, op.offset>>)

PrepFadvise == Prep("FADVISE", <<"fadvise", op.fd, op.offset, op.len, op.advice>>)

PrepMadvise == Prep("MADVISE", <<"madvise", op.addr, op.len, op.advice>>)

PrepOpenat2 ==
  Prep("OPENAT2",
       IF op.file_index # None
       THEN <<"openat2", op.dirfd, op.path_name, op.how>>
       ELSE <<"openat2_direct", op.dirfd, op.path_name, op.how, op.file_index>>)

-----------------------------------------------------------------------------
(* Paths and attributes; -1 is no directory.                                *)

PrepRenameat ==
  Prep("RENAMEAT",
       IF op.olddirfd = "-1" \/ op.newdirfd = "-1"
       THEN <<"rename", op.oldpath, op.newpath>>
       ELSE <<"renameat", op.olddirfd, op.oldpath, op.newdirfd, op.newpath, op.flags>>)

PrepSymlinkat ==
  Prep("SYMLINKAT", IF op.newdirfd = "-1"
                    THEN <<"symlink", op.target, op.linkpath>>
                    ELSE <<"symlinkat", op.target, op.newdirfd, op.linkpath>>)

\* io_uring_prep_link, without an else, is always written over.
PrepLinkat ==
  Prep("LINKAT",
       <<"linkat", op.olddirfd, op.oldpath, op.newdirfd, op.newpath, op.flags>>)

PrepUnlinkat ==
  Prep("UNLINKAT", IF op.dirfd = "-1"
                   THEN <<"unlink", op.path, op.flags>>
                   ELSE <<"unlinkat", op.dirfd, op.path, op.flags>>)

PrepMakedirat ==
  Prep("MKDIRAT", IF op.dirfd = "-1"
                  THEN <<"mkdir", op.path, op.mode>>
                  ELSE <<"mkdirat", op.dirfd, op.path, op.mode>>)

PrepFsetxattr ==
  Prep("FSETXATTR", <<"fsetxattr", op.fd, op.name, op.value, op.flags, op.len>>)

PrepSetxattr ==
  Prep("SETXATTR", <<"setxattr", op.name, op.value, op.path, op.flags, op.len>>)

PrepFgetxattr ==
  LET x == AsXattr(op) IN Prep("FGETXATTR", <<"fgetxattr", x.fd, x.name, x.value, x.len>>)

-----------------------------------------------------------------------------
(* Polls, timeouts, cancellation.                                           *)

PrepPollAdd ==
  Prep("POLL_ADD",
       <<IF op.multishot THEN "poll_multishot" ELSE "poll_add", op.fd, op.events>>)

PrepPollRemove ==
  Prep("POLL_REMOVE",
       IF op.flags # "0"
       THEN <<"poll_update", op.user_data, op.new_user_data, op.events, op.flags>>
       ELSE <<"poll_remove", op.user_data>>)

\* The timespec is on the handler's stack, and the kernel reads it when it consumes the
\* SQE, after the handler has returned.
AtSubmission(timeout) == {timeout, "garbage"}

\* tv_sec is not set: the time is not right at first either.
PrepTimeout ==
  /\ Handles("TIMEOUT")
  /\ \E ts \in AtSubmission("tv_nsec") : Prep("TIMEOUT", <<"timeout", ts, op.count, op.flags>>)

PrepLinkTimeout ==
  /\ Handles("LINK_TIMEOUT")
  /\ \E ts \in AtSubmission(op.timeout) :
       Prep("LINK_TIMEOUT", <<"link_timeout", ts, op.flags>>)

\* Mutant: a descriptor is not looked at.
PrepCancelNoFd ==
  /\ Handles("ASYNC_CANCEL")
  /\ \/ op.user_data # "null"
        /\ Fill(Entry(<<"cancel", op.user_data, op.flags>>, None), request.sqe_flag)
     \/ op.user_data = "null" /\ op.user_data_64 # "0"
        /\ Fill(Entry(<<"cancel64", op.user_data_64, op.flags>>, None), request.sqe_flag)
     \/ op.user_data = "null" /\ op.user_data_64 = "0" /\ Fill(sqe, request.sqe_flag)

PrepCancel ==
  /\ Handles("ASYNC_CANCEL")
  /\ \/ op.user_data # "null"
        /\ Fill(Entry(<<"cancel", op.user_data, op.flags>>, None), request.sqe_flag)
     \/ op.user_data = "null" /\ op.user_data_64 # "0"
        /\ Fill(Entry(<<"cancel64", op.user_data_64, op.flags>>, None), request.sqe_flag)
     \/ op.user_data = "null" /\ op.user_data_64 = "0" /\ op.fd # "-1"
        /\ Fill(Entry(<<"cancel_fd", op.fd, op.flags>>, None), request.sqe_flag)
     \/ op.user_data = "null" /\ op.user_data_64 = "0" /\ op.fd = "-1"
        /\ Fill(sqe, request.sqe_flag)

PrepEpollCtl == Prep("EPOLL_CTL", <<"epoll_ctl", op.epfd, op.fd, op.op, op.event>>)

-----------------------------------------------------------------------------
(* Provided buffers, of a group that exists.                                *)

PrepProvideBuffer ==
  Prep("PROVIDE_BUFFERS",
       <<"provide_buffers", op.buffer, IF op.len = "0" THEN "pool size" ELSE op.len, op.nbufs,
         op.gid, op.bid>>)

\* The pool stays: nbufs is not zero any more when it is looked at again.
PrepRemoveBuffer ==
  Prep("REMOVE_BUFFERS",
       <<"remove_buffers", IF op.nbufs = "0" THEN "pool count" ELSE op.nbufs, op.gid>>)

-----------------------------------------------------------------------------

\* TIMEOUT_REMOVE has no case in PrepareSqe: its handler is never called, and the entry
\* GetSqe has given out stays in the ring as it is.  (The handlers of SOCKET and GETXATTR
\* are never called either, for want of requests with these opcodes.)
Unimplemented ==
  /\ Handles("TIMEOUT_REMOVE")
  /\ error' = TRUE
  /\ step' = "prepared"
  /\ UNCHANGED <<common_vars, asked, request, sqe, linked_sqe>>

PrepareSqe ==
  \/ PrepNoop \/ PrepRead \/ PrepReadFixed \/ PrepReadV
  \/ PrepWrite \/ PrepWriteFixed \/ PrepWriteV
  \/ PrepAccept \/ PrepConnect \/ PrepRecv \/ PrepSend \/ PrepSendZc
  \/ PrepRecvMsg \/ PrepSendMsg \/ PrepSendMsgZc \/ PrepShutdown \/ PrepMsgring
  \/ PrepFallocate \/ PrepClose \/ PrepFsync \/ PrepOpenat \/ PrepOpenat2 \/ PrepStatx
  \/ PrepSplice \/ PrepTee \/ PrepFileSyncRange \/ PrepFilesUpdate
  \/ PrepFadvise \/ PrepMadvise
  \/ PrepRenameat \/ PrepSymlinkat \/ PrepLinkat \/ PrepUnlinkat \/ PrepMakedirat
  \/ PrepFsetxattr \/ PrepSetxattr \/ PrepFgetxattr
  \/ PrepPollAdd \/ PrepPollRemove \/ PrepTimeout \/ PrepLinkTimeout \/ PrepCancel
  \/ PrepEpollCtl \/ PrepProvideBuffer \/ PrepRemoveBuffer
  \/ Unimplemented
=============================================================================
