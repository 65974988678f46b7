----------------------------- MODULE IoApiProofs -----------------------------
(***************************************************************************)
(* Proofs about IoApi: what a call asks for comes through its make_*       *)
(* function and its handler.                                               *)
(*                                                                         *)
(* A request on its way to PrepareSqe is described by a table: for each    *)
(* opcode, the call that the members of the union were filled for.  The    *)
(* calls fill it that way, and the handlers read it back.                  *)
(***************************************************************************)
EXTENDS IoApi, TLAPS

Flags == {"IO_LINK", "FIXED_FILE", "BUFFER_SELECT"}

\* The entry of the ring is a record of five fields.
IsEntry(e) == DOMAIN e = {"does", "flags", "group", "user_data", "written"}

\* No io_uring_prep_* function is called for the request.
Ignored(req) ==
  \/ req.operation = "TIMEOUT_REMOVE"
  \/ req.operation = "CLOSE" /\ ~ Positive(req.of.fd) /\ req.of.file_index = None
  \/ /\ req.operation = "ASYNC_CANCEL"
     /\ req.of.user_data = "null" /\ req.of.user_data_64 = "0" /\ req.of.fd = "-1"

UnwrittenCalls ==
  {<<"close", "0">>, <<"cancel", "null", "flags">>, <<"cancel64", "0", "flags">>,
   <<"timeout_remove", "user_data", "flags">>,
   <<"timeout_update", "timeout", "user_data", "flags">>}

MisdirectedCalls ==
  {"socket", "getxattr", "openat2", "openat2_direct", "send_zc", "link",
   "accept_direct", "multishot_accept_direct", "openat_direct", "close_direct",
   "timeout", "link_timeout", "recv_multishot"}

\* A call that gets through.
Performable(does) == does \notin UnwrittenCalls /\ does[1] \notin MisdirectedCalls

\* The call that a member r of the union stands for, in a request with this opcode.
Describes(opcode, r, does) ==
  /\ opcode = "NOP" => does = <<"nop">>
  /\ opcode = "READ" => does = <<"read", r.fd, r.addr, r.size, r.offset>>
  /\ opcode = "WRITE" => does = <<"write", r.fd, r.addr, r.size, r.offset>>
  /\ opcode = "READ_FIXED" => does = <<"read_fixed", r.fd, r.addr, r.size, r.offset, r.index>>
  /\ opcode = "WRITE_FIXED" => does = <<"write_fixed", r.fd, r.addr, r.size, r.offset, r.index>>
  /\ opcode = "READV" => does = <<"readv2", r.fd, r.iov, r.offset, r.rw_flags>>
  /\ opcode = "WRITEV" => does = <<"writev2", r.fd, r.iov, r.offset, r.rw_flags>>
  /\ opcode = "ACCEPT" =>
       /\ does = <<IF r.multishot THEN "multishot_accept" ELSE "accept",
                   r.fd, r.sockaddr, r.socklen, r.flags>>
       /\ r.file_index = None
  /\ opcode = "CONNECT" => does = <<"connect", r.fd, r.sockaddr, r.socklen>>
  /\ opcode = "RECV" => does = <<"recv", r.fd, r.addr, r.size, r.flags>>
  /\ opcode = "SEND" => does = <<"send", r.fd, r.addr, r.size, r.flags>>
  /\ opcode = "SEND_ZC" => FALSE
  /\ opcode = "RECVMSG" => does = <<"recvmsg", r.fd, r.msghdr, r.flags>>
  /\ opcode = "SENDMSG" => does = <<"sendmsg", r.fd, r.msghdr, r.flags>>
  /\ opcode = "SENDMSG_ZC" => does = <<"sendmsg_zc", r.fd, r.msghdr, r.flags>>
  /\ opcode = "SHUTDOWN" => does = <<"shutdown", r.fd, r.how>>
  /\ opcode = "MSG_RING" => does = <<"msg_ring", r.fd, r.data_32, r.data_64, r.flags>>
  /\ opcode = "FALLOCATE" => does = <<"fallocate", r.fd, r.mode, r.offset, r.len>>
  /\ opcode = "CLOSE" => does = <<"close", r.fd>> /\ Positive(r.fd)
  /\ opcode = "FSYNC" => does = <<"fsync", r.fd, r.flags>>
  /\ opcode = "OPENAT" =>
       does = <<"openat", r.dirfd, r.path_name, r.flags, r.mode>> /\ r.file_index = None
  /\ opcode = "OPENAT2" => FALSE
  /\ opcode = "STATX" => does = <<"statx", r.dirfd, r.path_name, r.flags, r.mask, r.statxbuf>>
  /\ opcode = "SPLICE" => does = <<"splice", r.in_fd, r.in_offset, r.out_fd, r.out_offset,
                                   r.size, r.flags>>
  /\ opcode = "TEE" => does = <<"tee", r.in_fd, r.out_fd, r.size, r.flags>>
  /\ opcode = "SYNC_FILE_RANGE" => does = <<"sync_file_range", r.fd, r.len, r.offset, r.flags>>
  /\ opcode = "FILES_UPDATE" => does = <<"files_update", r.fds, r.offset>>
  /\ opcode = "FADVISE" => does = <<"fadvise", r.fd, r.offset, r.len, r.advice>>
  /\ opcode = "MADVISE" => does = <<"madvise", r.addr, r.len, r.advice>>
  /\ opcode = "RENAMEAT" =>
       does = IF r.olddirfd = "-1" \/ r.newdirfd = "-1"
              THEN <<"rename", r.oldpath, r.newpath>>
              ELSE <<"renameat", r.olddirfd, r.oldpath, r.newdirfd, r.newpath, r.flags>>
  /\ opcode = "SYMLINKAT" =>
       does = IF r.newdirfd = "-1" THEN <<"symlink", r.target, r.linkpath>>
              ELSE <<"symlinkat", r.target, r.newdirfd, r.linkpath>>
  /\ opcode = "LINKAT" =>
       does = <<"linkat", r.olddirfd, r.oldpath, r.newdirfd, r.newpath, r.flags>>
  /\ opcode = "UNLINKAT" =>
       does = IF r.dirfd = "-1" THEN <<"unlink", r.path, r.flags>>
              ELSE <<"unlinkat", r.dirfd, r.path, r.flags>>
  /\ opcode = "MKDIRAT" =>
       does = IF r.dirfd = "-1" THEN <<"mkdir", r.path, r.mode>>
              ELSE <<"mkdirat", r.dirfd, r.path, r.mode>>
  /\ opcode = "FSETXATTR" => does = <<"fsetxattr", r.fd, r.name, r.value, r.flags, r.len>>
  /\ opcode = "SETXATTR" => does = <<"setxattr", r.name, r.value, r.path, r.flags, r.len>>
  /\ opcode = "FGETXATTR" =>
       does = <<"fgetxattr", r.fd, r.name, r.value, r.len>> /\ AsXattr(r) = r
  /\ opcode = "POLL_ADD" =>
       does = <<IF r.multishot THEN "poll_multishot" ELSE "poll_add", r.fd, r.events>>
  /\ opcode = "POLL_REMOVE" =>
       does = IF r.flags = "0" THEN <<"poll_remove", r.user_data>>
              ELSE <<"poll_update", r.user_data, r.new_user_data, r.events, r.flags>>
  /\ opcode = "TIMEOUT" => FALSE
  /\ opcode = "LINK_TIMEOUT" => FALSE
  /\ opcode = "ASYNC_CANCEL" =>
       does = IF r.user_data # "null" THEN <<"cancel", r.user_data, r.flags>>
              ELSE IF r.user_data_64 # "0" THEN <<"cancel64", r.user_data_64, r.flags>>
              ELSE <<"cancel_fd", r.fd, r.flags>>
  /\ opcode = "EPOLL_CTL" => does = <<"epoll_ctl", r.epfd, r.fd, r.op, r.event>>
  /\ opcode = "PROVIDE_BUFFERS" =>
       does = <<"provide_buffers", r.buffer, IF r.len = "0" THEN "pool size" ELSE r.len,
                r.nbufs, r.gid, r.bid>>
  /\ opcode = "REMOVE_BUFFERS" =>
       does = <<"remove_buffers", IF r.nbufs = "0" THEN "pool count" ELSE r.nbufs, r.gid>>

\* The group that a request selects from.
Group(req) == IF "BUFFER_SELECT" \in req.sqe_flag THEN req.of.buf_gid ELSE None

\* The request stands for the call does, with this group and link: it is ignored if the call is
\* one of those in Unwritten, and describes a call that gets through.
Conveys(req, does, group, link) ==
  /\ req.sqe_flag \subseteq Flags
  /\ "IO_LINK" \in req.sqe_flag <=> link
  /\ "BUFFER_SELECT" \in req.sqe_flag => req.operation \in {"READ", "RECV"}
  /\ req.operation \in {"READ", "RECV"} => req.of.buf_gid \in {None, "gid"}
  /\ Ignored(req) <=> does \in UnwrittenCalls
  /\ Performable(does) => /\ Describes(req.operation, req.of, does)
                          /\ "FIXED_FILE" \notin req.sqe_flag
                          /\ group = Group(req)

ApiInv ==
  /\ TypeOK
  /\ IsEntry(sqe)
  /\ asked.link \in BOOLEAN
  /\ asked = [does |-> asked.does, group |-> asked.group, link |-> asked.link]
  /\ step = "submitted" => Conveys(request, asked.does, asked.group, asked.link)
  /\ step # "prepared" => ~ sqe.written
  /\ step = "prepared" =>
       /\ sqe.written <=> asked.does \notin UnwrittenCalls
       /\ ~ error => sqe.user_data /\ ("IO_LINK" \in sqe.flags <=> asked.link)
                                   /\ linked_sqe = asked.link
       /\ Performable(asked.does) => /\ ~ error
                                     /\ Performed.does = asked.does
                                     /\ Performed.group = asked.group

-----------------------------------------------------------------------------
(* The calls.                                                               *)

\* A call whose request conveys it.
LEMMA CallKeeps ==
  ASSUME ApiInv, NEW does, NEW group, NEW req, CallWith(does, group, req),
         Conveys(req, does, group, Link)
  PROVE  ApiInv'
BY DEF ApiInv, CallWith, TypeOK, Link

\* A request without a buffer of the kernel's or a direct descriptor.
LEMMA Plain ==
  ASSUME TypeOK, NEW operation, NEW of, NEW does,
         operation \notin {"READ", "RECV", "CLOSE", "ASYNC_CANCEL", "TIMEOUT_REMOVE"},
         does[1] \notin {"close", "cancel", "cancel64", "timeout_remove", "timeout_update"},
         does[1] \notin MisdirectedCalls => Describes(operation, of, does)
  PROVE  Conveys(Request(operation, of, common_vars), does, None, Link)
<1>1. common_vars.sqe_flag \subseteq {"IO_LINK"}
  BY DEF TypeOK, IoApiCommonVars
<1>2. does \notin UnwrittenCalls
  BY DEF UnwrittenCalls
<1>3. QED
  BY <1>1, <1>2 DEF Conveys, Request, Link, Flags, Ignored, Performable, Group

\* A call that is carried by a plain request.
LEMMA PlainCalls ==
  ASSUME ApiInv,
         \/ Socket \/ SendZc \/ SendMsgZc \/ Noop \/ ReadVector \/ WriteVector
         \/ Fsync \/ ReadFixed \/ WriteFixed \/ PollAdd \/ PollRemove \/ PollUpdate
         \/ FileSyncRange \/ SendMsg \/ RecvMsg \/ Timeout \/ LinkTimeout \/ Connect
         \/ Fallocate \/ FilesUpdate \/ Statx \/ Write \/ Fadvise \/ Madvise
         \/ Send \/ EpollCtl \/ Splice \/ Tee \/ Shutdown \/ Renameat
         \/ Uninkat \/ Makrdirat \/ Symlinkat \/ Linkat \/ MsgRing \/ Fsetxattr
         \/ Setxattr \/ Fgetxattr \/ Getxattr
  PROVE  ApiInv'
<1>1. CASE Socket
  BY <1>1, CallKeeps, Plain DEF Socket, Call, ApiInv, Describes, MisdirectedCalls, make_socket
<1>2. CASE SendZc
  BY <1>2, CallKeeps, Plain DEF SendZc, Call, ApiInv, Describes, MisdirectedCalls, make_sendzc,
     SendOf
<1>3. CASE SendMsgZc
  BY <1>3, CallKeeps, Plain DEF SendMsgZc, Call, ApiInv, Describes, MisdirectedCalls,
     make_sendmsgzc
<1>4. CASE Noop
  BY <1>4, CallKeeps, Plain DEF Noop, Call, ApiInv, Describes, MisdirectedCalls, make_noop
<1>5. CASE ReadVector
  BY <1>5, CallKeeps, Plain DEF ReadVector, Call, ApiInv, Describes, MisdirectedCalls,
     make_readv, Optional
<1>6. CASE WriteVector
  BY <1>6, CallKeeps, Plain DEF WriteVector, Call, ApiInv, Describes, MisdirectedCalls,
     make_writev, Optional
<1>7. CASE Fsync
  BY <1>7, CallKeeps, Plain DEF Fsync, Call, ApiInv, Describes, MisdirectedCalls, make_fsync
<1>8. CASE ReadFixed
  BY <1>8, CallKeeps, Plain DEF ReadFixed, Call, ApiInv, Describes, MisdirectedCalls,
     make_read_fixed, Fixed
<1>9. CASE WriteFixed
  BY <1>9, CallKeeps, Plain DEF WriteFixed, Call, ApiInv, Describes, MisdirectedCalls,
     make_write_fixed, Fixed
<1>10. CASE PollAdd
  BY <1>10, CallKeeps, Plain DEF PollAdd, Call, ApiInv, Describes, MisdirectedCalls,
     make_poll_add, Multishot
<1>11. CASE PollRemove
  BY <1>11, CallKeeps, Plain DEF PollRemove, Call, ApiInv, Describes, MisdirectedCalls,
     make_poll_remove, make_poll_update
<1>12. CASE PollUpdate
  BY <1>12, CallKeeps, Plain DEF PollUpdate, Call, ApiInv, Describes, MisdirectedCalls,
     make_poll_update, Optional
<1>13. CASE FileSyncRange
  BY <1>13, CallKeeps, Plain DEF FileSyncRange, Call, ApiInv, Describes, MisdirectedCalls,
     make_sync_filerange
<1>14. CASE SendMsg
  BY <1>14, CallKeeps, Plain DEF SendMsg, Call, ApiInv, Describes, MisdirectedCalls,
     make_sendmsg
<1>15. CASE RecvMsg
  BY <1>15, CallKeeps, Plain DEF RecvMsg, Call, ApiInv, Describes, MisdirectedCalls,
     make_recvmsg, Multishot
<1>16. CASE Timeout
  BY <1>16, CallKeeps, Plain DEF Timeout, Call, ApiInv, Describes, MisdirectedCalls,
     make_timeout
<1>17. CASE LinkTimeout
  BY <1>17, CallKeeps, Plain DEF LinkTimeout, Call, ApiInv, Describes, MisdirectedCalls,
     make_link_timeout
<1>18. CASE Connect
  BY <1>18, CallKeeps, Plain DEF Connect, Call, ApiInv, Describes, MisdirectedCalls,
     make_connect
<1>19. CASE Fallocate
  BY <1>19, CallKeeps, Plain DEF Fallocate, Call, ApiInv, Describes, MisdirectedCalls,
     make_fallocate
<1>20. CASE FilesUpdate
  BY <1>20, CallKeeps, Plain DEF FilesUpdate, Call, ApiInv, Describes, MisdirectedCalls,
     make_files_update
<1>21. CASE Statx
  BY <1>21, CallKeeps, Plain DEF Statx, Call, ApiInv, Describes, MisdirectedCalls, make_statx
<1>22. CASE Write
  BY <1>22, CallKeeps, Plain DEF Write, Call, ApiInv, Describes, MisdirectedCalls, make_write
<1>23. CASE Fadvise
  BY <1>23, CallKeeps, Plain DEF Fadvise, Call, ApiInv, Describes, MisdirectedCalls,
     make_fadvise
<1>24. CASE Madvise
  BY <1>24, CallKeeps, Plain DEF Madvise, Call, ApiInv, Describes, MisdirectedCalls,
     make_madvise
<1>25. CASE Send
  BY <1>25, CallKeeps, Plain DEF Send, Call, ApiInv, Describes, MisdirectedCalls, make_send,
     SendOf
<1>26. CASE EpollCtl
  BY <1>26, CallKeeps, Plain DEF EpollCtl, Call, ApiInv, Describes, MisdirectedCalls,
     make_epoll_ctl
<1>27. CASE Splice
  BY <1>27, CallKeeps, Plain DEF Splice, Call, ApiInv, Describes, MisdirectedCalls, make_splice
<1>28. CASE Tee
  BY <1>28, CallKeeps, Plain DEF Tee, Call, ApiInv, Describes, MisdirectedCalls, make_tee
<1>29. CASE Shutdown
  BY <1>29, CallKeeps, Plain DEF Shutdown, Call, ApiInv, Describes, MisdirectedCalls,
     make_shutdown
<1>30. CASE Renameat
  <2>1. PICK olddirfd, newdirfd, does :
          /\ Call(does, make_renameat(olddirfd, "oldpath", newdirfd, "newpath", "flags",
                                      common_vars))
          /\ does = IF olddirfd = "-1" \/ newdirfd = "-1" THEN <<"rename", "oldpath", "newpath">>
                    ELSE <<"renameat", olddirfd, "oldpath", newdirfd, "newpath", "flags">>
    BY <1>30 DEF Renameat
  <2>2. does[1] \in {"rename", "renameat"}
    BY <2>1
  <2>3. QED
    BY <2>1, <2>2, CallKeeps, Plain DEF Call, ApiInv, make_renameat, Describes
<1>31. CASE Uninkat
  BY <1>31, CallKeeps, Plain DEF Uninkat, Call, ApiInv, Describes, MisdirectedCalls,
     make_unlinkat
<1>32. CASE Makrdirat
  BY <1>32, CallKeeps, Plain DEF Makrdirat, Call, ApiInv, Describes, MisdirectedCalls,
     make_makedirat
<1>33. CASE Symlinkat
  BY <1>33, CallKeeps, Plain DEF Symlinkat, Call, ApiInv, Describes, MisdirectedCalls,
     make_symlinkat
<1>34. CASE Linkat
  BY <1>34, CallKeeps, Plain DEF Linkat, Call, ApiInv, Describes, MisdirectedCalls, make_linkat
<1>35. CASE MsgRing
  BY <1>35, CallKeeps, Plain DEF MsgRing, Call, ApiInv, Describes, MisdirectedCalls,
     make_msgring
<1>36. CASE Fsetxattr
  BY <1>36, CallKeeps, Plain DEF Fsetxattr, Call, ApiInv, Describes, MisdirectedCalls,
     make_fsetxattr, Xattr
<1>37. CASE Setxattr
  BY <1>37, CallKeeps, Plain DEF Setxattr, Call, ApiInv, Describes, MisdirectedCalls,
     make_setxattr, Xattr
<1>38. CASE Fgetxattr
  BY <1>38, CallKeeps, Plain DEF Fgetxattr, Call, ApiInv, Describes, MisdirectedCalls,
     make_fgetxattr, Xattr, AsXattr
<1>39. CASE Getxattr
  BY <1>39, CallKeeps, Plain DEF Getxattr, Call, ApiInv, Describes, MisdirectedCalls,
     make_getxattr, Xattr
<1>40. QED
  BY <1>1, <1>2, <1>3, <1>4, <1>5, <1>6, <1>7, <1>8, <1>9, <1>10, <1>11, <1>12, <1>13, <1>14,
     <1>15, <1>16, <1>17, <1>18, <1>19, <1>20, <1>21, <1>22, <1>23, <1>24, <1>25, <1>26, <1>27,
     <1>28, <1>29, <1>30, <1>31, <1>32, <1>33, <1>34, <1>35, <1>36, <1>37, <1>38, <1>39

\* ProvideBuffer and RemoveBuffer.
LEMMA BufferCalls ==
  ASSUME ApiInv, ProvideBuffer \/ RemoveBuffer
  PROVE  ApiInv'
<1>1. CASE ProvideBuffer
  <2>1. PICK len, size :
          /\ size = IF len = "0" THEN "pool size" ELSE len
          /\ Call(<<"provide_buffers", "buffer", size, "nbufs", "gid", "bid">>,
                  make_provide_buffer("buffer", len, "nbufs", "gid", "bid", common_vars))
    BY <1>1 DEF ProvideBuffer
  <2>2. QED
    BY <2>1, CallKeeps, Plain DEF Call, ApiInv, make_provide_buffer, Describes
<1>2. CASE RemoveBuffer
  <2>1. PICK nbufs, count :
          /\ count = IF nbufs = "0" THEN "pool count" ELSE nbufs
          /\ Call(<<"remove_buffers", count, "gid">>, make_remove_buffer(nbufs, "gid", common_vars))
    BY <1>2 DEF RemoveBuffer
  <2>2. QED
    BY <2>1, CallKeeps, Plain DEF Call, ApiInv, make_remove_buffer, Describes
<1>3. QED
  BY <1>1, <1>2

\* A request that may be for a direct descriptor, and does not get through then.
LEMMA Filed ==
  ASSUME TypeOK, NEW operation \in {"ACCEPT", "OPENAT", "OPENAT2"}, NEW of, NEW does,
         does[1] \notin {"close", "cancel", "cancel64", "timeout_remove", "timeout_update"},
         does[1] \notin MisdirectedCalls => Describes(operation, of, does) /\ ~ Direct
  PROVE  Conveys(FixedFile(Request(operation, of, common_vars), common_vars), does, None, Link)
<1>1. common_vars.sqe_flag \subseteq {"IO_LINK"}
  BY DEF TypeOK, IoApiCommonVars
<1>2. does \notin UnwrittenCalls
  BY DEF UnwrittenCalls
<1>3. FixedFile(Request(operation, of, common_vars), common_vars) =
        [operation |-> operation, of |-> of,
         sqe_flag |-> common_vars.sqe_flag \cup {f \in {"FIXED_FILE"} : Direct}]
  BY DEF FixedFile, With, Request, Direct
<1>4. QED
  BY <1>1, <1>2, <1>3 DEF Conveys, Link, Flags, Ignored, Performable, Group

\* A request that may select a buffer has the group of the call.
LEMMA Selecting ==
  ASSUME TypeOK, NEW operation \in {"READ", "RECV"}, NEW of, NEW does, NEW group,
         of.buf_gid = common_vars.buf_gid, does[1] \in {"read", "recv", "recv_multishot"},
         does[1] \notin MisdirectedCalls =>
           Describes(operation, of, does) /\ group = common_vars.buf_gid
  PROVE  Conveys(BufferSelect(Request(operation, of, common_vars), common_vars), does, group, Link)
<1>1. common_vars.sqe_flag \subseteq {"IO_LINK"} /\ common_vars.buf_gid \in {None, "gid"}
  BY DEF TypeOK, IoApiCommonVars
<1>2. does \notin UnwrittenCalls
  BY DEF UnwrittenCalls
<1>3. BufferSelect(Request(operation, of, common_vars), common_vars) =
        [operation |-> operation, of |-> of,
         sqe_flag |-> common_vars.sqe_flag \cup {f \in {"BUFFER_SELECT"} : Selects}]
  BY DEF BufferSelect, With, Request, Selects
<1>4. QED
  BY <1>1, <1>2, <1>3 DEF Conveys, Link, Flags, Ignored, Performable, Group, Selects

\* The calls that make a file a direct descriptor, or select a buffer.
LEMMA FlaggedCalls ==
  ASSUME ApiInv, Accept \/ Openat \/ Openat2 \/ Read \/ Recv
  PROVE  ApiInv'
<1>1. CASE Accept
  <2>1. PICK does :
          /\ Call(does, make_accept("fd", "addr", "len", "flags", common_vars))
          /\ IF Direct THEN does[1] \in {"accept_direct", "multishot_accept_direct"}
             ELSE does = <<IF Multishot THEN "multishot_accept" ELSE "accept",
                           "fd", "addr", "len", "flags">>
    BY <1>1 DEF Accept
  <2>2. QED
    BY <2>1, CallKeeps, Filed
    DEF Call, ApiInv, make_accept, Describes, MisdirectedCalls, Direct, Multishot
<1>2. CASE Openat
  BY <1>2, CallKeeps, Filed
  DEF Openat, Call, ApiInv, make_openat, Describes, MisdirectedCalls, Direct
<1>3. CASE Openat2
  BY <1>3, CallKeeps, Filed
  DEF Openat2, Call, ApiInv, make_openat2, Describes, MisdirectedCalls, Direct
<1>4. CASE Read
  <2>1. PICK fd, buf : CallWith(<<"read", fd, buf, "count", "offset">>, common_vars.buf_gid,
                                make_read(fd, "offset", buf, "count", common_vars))
    BY <1>4 DEF Read
  <2>2. QED
    BY <2>1, CallKeeps, Selecting DEF ApiInv, make_read, Describes
<1>5. CASE Recv
  <2>1. CASE Multishot
    <3>1. PICK buf, len, group : CallWith(<<"recv_multishot", "fd", buf, len, "flags">>, group,
                                          make_recv("fd", buf, len, "flags", common_vars))
      BY <1>5, <2>1 DEF Recv
    <3>2. QED
      BY <3>1, CallKeeps, Selecting DEF ApiInv, make_recv, MisdirectedCalls
  <2>2. CASE ~ Multishot
    <3>1. PICK buf : CallWith(<<"recv", "fd", buf, "len", "flags">>, common_vars.buf_gid,
                              make_recv("fd", buf, "len", "flags", common_vars))
      BY <1>5, <2>2 DEF Recv
    <3>2. QED
      BY <2>2, <3>1, CallKeeps, Selecting DEF ApiInv, make_recv, Describes, Multishot
  <2>3. QED
    BY <2>1, <2>2
<1>6. QED
  BY <1>1, <1>2, <1>3, <1>4, <1>5

\* The calls that may be ignored.
LEMMA IgnoredCalls ==
  ASSUME ApiInv, \/ Close \/ Cancel \/ Cancel64 \/ CancelFd \/ TimeoutRemove \/ TimeoutUpdate
  PROVE  ApiInv'
<1>1. common_vars.sqe_flag \subseteq {"IO_LINK"}
  BY DEF ApiInv, TypeOK, IoApiCommonVars
<1>2. CASE Close
  <2>1. CASE Direct
    BY <1>1, <1>2, <2>1, CallKeeps
    DEF Close, Call, make_close, FixedFile, With, Request, Conveys, Ignored, Positive,
        UnwrittenCalls, Flags, Link, Direct, None, Performable, MisdirectedCalls
  <2>2. CASE ~ Direct
    BY <1>1, <1>2, <2>2, CallKeeps
    DEF Close, Call, make_close, FixedFile, With, Request, Conveys, Ignored, Positive,
        UnwrittenCalls, Flags, Link, Direct, None, Performable, Describes, Group
  <2>3. QED
    BY <2>1, <2>2
<1>3. CASE Cancel
  BY <1>1, <1>3, CallKeeps
  DEF Cancel, Call, make_cancel, Request, Conveys, Ignored, UnwrittenCalls, Flags, Link,
      Performable, Describes, Group
<1>4. CASE Cancel64
  BY <1>1, <1>4, CallKeeps
  DEF Cancel64, Call, make_cancel, Request, Conveys, Ignored, UnwrittenCalls, Flags, Link,
      Performable, Describes, Group
<1>5. CASE CancelFd
  BY <1>1, <1>5, CallKeeps
  DEF CancelFd, Call, make_cancel, Request, Conveys, Ignored, UnwrittenCalls, Flags, Link,
      Performable, Describes, Group
<1>6. CASE TimeoutRemove
  BY <1>1, <1>6, CallKeeps
  DEF TimeoutRemove, Call, make_timeout_remove, make_timeout_update, Request, Conveys, Ignored,
      UnwrittenCalls, Flags, Link, Performable
<1>7. CASE TimeoutUpdate
  BY <1>1, <1>7, CallKeeps
  DEF TimeoutUpdate, Call, make_timeout_update, Request, Conveys, Ignored, UnwrittenCalls,
      Flags, Link, Performable
<1>8. QED
  BY <1>2, <1>3, <1>4, <1>5, <1>6, <1>7

-----------------------------------------------------------------------------
(* What the kernel reads in the entry.                                      *)

\* does, in an entry with these flags.
Meant(does, flags) ==
  Canonical(IF "FIXED_FILE" \in flags /\ Len(does) > 1
            THEN [does EXCEPT ![2] = FileAt(does[2])]
            ELSE does)

\* What is not a readv or writev is what it says.
LEMMA Literally ==
  ASSUME NEW does, does[1] \notin {"readv", "writev"}
  PROVE  Canonical(does) = does
BY Zenon DEF Canonical

\* readv and writev.
LEMMA WithoutFlags ==
  ASSUME NEW fd, NEW iov, NEW offset
  PROVE  /\ Canonical(<<"readv", fd, iov, offset>>) = <<"readv2", fd, iov, offset, "0">>
         /\ Canonical(<<"writev", fd, iov, offset>>) = <<"writev2", fd, iov, offset, "0">>
<1>1. ASSUME NEW s, s[1] = "readv" PROVE Canonical(s) = <<"readv2", s[2], s[3], s[4], "0">>
  BY <1>1, Zenon DEF Canonical
<1>2. ASSUME NEW s, s[1] = "writev" PROVE Canonical(s) = <<"writev2", s[2], s[3], s[4], "0">>
  BY <1>2, Zenon DEF Canonical
<1>3. QED
  BY <1>1, <1>2

\* Reads and writes of a registered file are of its slot.
LEMMA OfSlot ==
  ASSUME NEW name \in {"read", "write"}, NEW addr, NEW size, NEW offset, NEW flags,
         "FIXED_FILE" \in flags
  PROVE  Meant(<<name, "slot", addr, size, offset>>, flags) =
           <<name, "registered_fd", addr, size, offset>>
<1>1. /\ <<name, "slot", addr, size, offset>>[2] = "slot"
      /\ Len(<<name, "slot", addr, size, offset>>) > 1
      /\ <<name, "registered_fd", addr, size, offset>>[1] \notin {"readv", "writev"}
  OBVIOUS
<1>2. [<<name, "slot", addr, size, offset>> EXCEPT ![2] = "registered_fd"] =
        <<name, "registered_fd", addr, size, offset>>
  OBVIOUS
<1>3. QED
  BY <1>1, <1>2, Literally DEF Meant, FileAt

-----------------------------------------------------------------------------
(* The handlers.                                                            *)

\* A handler fills the entry, and has written it unless the call is in Unwritten.
LEMMA FillKeeps ==
  ASSUME ApiInv, step = "submitted", NEW entry, NEW flags, Fill(entry, flags),
         IsEntry(entry), entry.group \in {None, "gid"},
         entry.written \in BOOLEAN, entry.written <=> asked.does \notin UnwrittenCalls,
         flags \subseteq Flags, "IO_LINK" \in flags <=> asked.link,
         Performable(asked.does) =>
           /\ Meant(entry.does, flags) = asked.does
           /\ (IF "BUFFER_SELECT" \in flags THEN entry.group ELSE None) = asked.group
  PROVE  ApiInv'
<1>1. /\ sqe'.flags = flags /\ sqe'.group = entry.group /\ sqe'.user_data = TRUE
      /\ sqe'.written = entry.written /\ sqe'.does = entry.does
  BY DEF Fill, IsEntry
<1>2. IsEntry(sqe)'
  BY DEF Fill, IsEntry
<1>3. TypeOK'
  <2>1. linked_sqe' = ("IO_LINK" \in flags)
    BY DEF Fill
  <2>2. linked_sqe' \in BOOLEAN
    BY <2>1
  <2>3. QED
    BY <1>1, <2>2 DEF ApiInv, Fill, TypeOK, Flags
<1>4. /\ UNCHANGED <<asked, request>> /\ step' = "prepared" /\ linked_sqe' = ("IO_LINK" \in flags)
      /\ error' = FALSE
  BY DEF Fill
<1>5. /\ Performed.does' = Meant(entry.does, flags)
      /\ Performed.group' = IF "BUFFER_SELECT" \in flags THEN entry.group ELSE None
  BY <1>1 DEF Performed, Resolved, Meant
<1>6. QED
  BY <1>1, <1>2, <1>3, <1>4, <1>5 DEF ApiInv

\* A handler that writes the entry whatever the request is.
LEMMA WrittenKeeps ==
  ASSUME ApiInv, step = "submitted", NEW does, NEW group \in {None, "gid"}, NEW flags,
         flags \in {request.sqe_flag, request.sqe_flag \cup {"FIXED_FILE"}},
         Fill(Entry(does, group), flags), ~ Ignored(request),
         Performable(asked.does) => Meant(does, flags) = asked.does,
         request.operation \in {"READ", "RECV"} => group = request.of.buf_gid
  PROVE  ApiInv'
<1> DEFINE entry == Entry(does, group)
<1>1. IsEntry(entry) /\ entry.group = group /\ entry.does = does /\ entry.written = TRUE
  <2>1. DOMAIN sqe = {"does", "flags", "group", "user_data", "written"}
    BY DEF ApiInv, IsEntry
  <2>2. QED
    BY <2>1 DEF Entry, IsEntry
<1>2. Conveys(request, asked.does, asked.group, asked.link)
  BY DEF ApiInv
<1>3. /\ flags \subseteq Flags
      /\ "IO_LINK" \in flags <=> asked.link
      /\ asked.does \notin UnwrittenCalls
      /\ "BUFFER_SELECT" \in flags <=> "BUFFER_SELECT" \in request.sqe_flag
  BY <1>2 DEF Conveys, Flags
<1>4. Performable(asked.does) =>
        (IF "BUFFER_SELECT" \in flags THEN group ELSE None) = asked.group
  BY <1>2, <1>3 DEF Conveys, Group
<1> HIDE DEF entry
<1>5. Fill(entry, flags)
  BY DEF entry
<1>6. QED
  BY <1>1, <1>3, <1>4, <1>5, FillKeeps

\* A request on its way to its handler describes the call.
LEMMA Described ==
  ASSUME ApiInv, step = "submitted", Performable(asked.does)
  PROVE  /\ Describes(request.operation, op, asked.does)
         /\ "FIXED_FILE" \notin request.sqe_flag
BY DEF ApiInv, Conveys, op

\* Prep is such a handler, but for the opcodes of calls in Unwritten.
LEMMA PrepKeeps ==
  ASSUME ApiInv, NEW opcode,
         opcode \notin {"TIMEOUT_REMOVE", "CLOSE", "ASYNC_CANCEL", "READ", "RECV"}, NEW does,
         Prep(opcode, does), Describes(opcode, op, asked.does) => Canonical(does) = asked.does
  PROVE  ApiInv'
<1>1. step = "submitted" /\ ~ Ignored(request) /\ request.operation = opcode
  BY DEF Prep, Handles, Ignored
<1>2. Fill(Entry(does, None), request.sqe_flag)
  BY DEF Prep
<1>3. Performable(asked.does) => Meant(does, request.sqe_flag) = asked.does
  BY <1>1, Described DEF Meant
<1>4. QED
  BY <1>1, <1>2, <1>3, WrittenKeeps

\* Most handlers prepare the very call.
LEMMA PrepLiterally ==
  ASSUME ApiInv, NEW opcode,
         opcode \notin {"TIMEOUT_REMOVE", "CLOSE", "ASYNC_CANCEL", "READ", "RECV"}, NEW does,
         does[1] \notin {"readv", "writev"},
         Prep(opcode, does), Describes(opcode, op, asked.does) => does = asked.does
  PROVE  ApiInv'
BY PrepKeeps, Literally

\* The handlers that only prepare their operation.
LEMMA PlainHandlers ==
  ASSUME ApiInv,
         \/ PrepNoop \/ PrepReadFixed \/ PrepWriteFixed \/ PrepAccept
         \/ PrepConnect \/ PrepSend \/ PrepSendZc \/ PrepRecvMsg
         \/ PrepSendMsg \/ PrepSendMsgZc \/ PrepShutdown \/ PrepMsgring
         \/ PrepFallocate \/ PrepFsync \/ PrepOpenat \/ PrepOpenat2
         \/ PrepStatx \/ PrepSplice \/ PrepTee \/ PrepFileSyncRange
         \/ PrepFilesUpdate \/ PrepFadvise \/ PrepMadvise \/ PrepRenameat
         \/ PrepSymlinkat \/ PrepLinkat \/ PrepUnlinkat \/ PrepMakedirat
         \/ PrepFsetxattr \/ PrepSetxattr \/ PrepFgetxattr \/ PrepPollAdd
         \/ PrepPollRemove \/ PrepEpollCtl \/ PrepProvideBuffer \/ PrepRemoveBuffer
  PROVE  ApiInv'
<1>1. CASE PrepNoop
  BY <1>1, PrepLiterally DEF PrepNoop, Describes
<1>2. CASE PrepReadFixed
  BY <1>2, PrepLiterally DEF PrepReadFixed, Describes
<1>3. CASE PrepWriteFixed
  BY <1>3, PrepLiterally DEF PrepWriteFixed, Describes
<1>4. CASE PrepAccept
  BY <1>4, PrepLiterally DEF PrepAccept, Describes
<1>5. CASE PrepConnect
  BY <1>5, PrepLiterally DEF PrepConnect, Describes
<1>6. CASE PrepSend
  BY <1>6, PrepLiterally DEF PrepSend, Describes
<1>7. CASE PrepSendZc
  BY <1>7, PrepLiterally DEF PrepSendZc, Describes
<1>8. CASE PrepRecvMsg
  BY <1>8, PrepLiterally DEF PrepRecvMsg, Describes
<1>9. CASE PrepSendMsg
  BY <1>9, PrepLiterally DEF PrepSendMsg, Describes
<1>10. CASE PrepSendMsgZc
  BY <1>10, PrepLiterally DEF PrepSendMsgZc, Describes
<1>11. CASE PrepShutdown
  BY <1>11, PrepLiterally DEF PrepShutdown, Describes
<1>12. CASE PrepMsgring
  BY <1>12, PrepLiterally DEF PrepMsgring, Describes
<1>13. CASE PrepFallocate
  BY <1>13, PrepLiterally DEF PrepFallocate, Describes
<1>14. CASE PrepFsync
  BY <1>14, PrepLiterally DEF PrepFsync, Describes
<1>15. CASE PrepOpenat
  BY <1>15, PrepLiterally DEF PrepOpenat, Describes
<1>16. CASE PrepOpenat2
  BY <1>16, PrepLiterally DEF PrepOpenat2, Describes
<1>17. CASE PrepStatx
  BY <1>17, PrepLiterally DEF PrepStatx, Describes
<1>18. CASE PrepSplice
  BY <1>18, PrepLiterally DEF PrepSplice, Describes
<1>19. CASE PrepTee
  BY <1>19, PrepLiterally DEF PrepTee, Describes
<1>20. CASE PrepFileSyncRange
  BY <1>20, PrepLiterally DEF PrepFileSyncRange, Describes
<1>21. CASE PrepFilesUpdate
  BY <1>21, PrepLiterally DEF PrepFilesUpdate, Describes
<1>22. CASE PrepFadvise
  BY <1>22, PrepLiterally DEF PrepFadvise, Describes
<1>23. CASE PrepMadvise
  BY <1>23, PrepLiterally DEF PrepMadvise, Describes
<1>24. CASE PrepRenameat
  BY <1>24, PrepLiterally DEF PrepRenameat, Describes
<1>25. CASE PrepSymlinkat
  BY <1>25, PrepLiterally DEF PrepSymlinkat, Describes
<1>26. CASE PrepLinkat
  BY <1>26, PrepLiterally DEF PrepLinkat, Describes
<1>27. CASE PrepUnlinkat
  BY <1>27, PrepLiterally DEF PrepUnlinkat, Describes
<1>28. CASE PrepMakedirat
  BY <1>28, PrepLiterally DEF PrepMakedirat, Describes
<1>29. CASE PrepFsetxattr
  BY <1>29, PrepLiterally DEF PrepFsetxattr, Describes
<1>30. CASE PrepSetxattr
  BY <1>30, PrepLiterally DEF PrepSetxattr, Describes
<1>31. CASE PrepFgetxattr
  BY <1>31, PrepLiterally DEF PrepFgetxattr, Describes
<1>32. CASE PrepPollAdd
  BY <1>32, PrepLiterally DEF PrepPollAdd, Describes
<1>33. CASE PrepPollRemove
  BY <1>33, PrepLiterally DEF PrepPollRemove, Describes
<1>34. CASE PrepEpollCtl
  BY <1>34, PrepLiterally DEF PrepEpollCtl, Describes
<1>35. CASE PrepProvideBuffer
  BY <1>35, PrepLiterally DEF PrepProvideBuffer, Describes
<1>36. CASE PrepRemoveBuffer
  BY <1>36, PrepLiterally DEF PrepRemoveBuffer, Describes
<1>37. QED
  BY <1>1, <1>2, <1>3, <1>4, <1>5, <1>6, <1>7, <1>8, <1>9, <1>10, <1>11, <1>12, <1>13, <1>14,
     <1>15, <1>16, <1>17, <1>18, <1>19, <1>20, <1>21, <1>22, <1>23, <1>24, <1>25, <1>26, <1>27,
     <1>28, <1>29, <1>30, <1>31, <1>32, <1>33, <1>34, <1>35, <1>36

\* The handlers of vectors: without flags there is no need for preadv2.
LEMMA VectorHandlers ==
  ASSUME ApiInv, PrepReadV \/ PrepWriteV
  PROVE  ApiInv'
<1>1. CASE PrepReadV
  <2>1. CASE op.rw_flags # "0"
    BY <1>1, <2>1, PrepLiterally DEF PrepReadV, Describes
  <2>2. CASE op.rw_flags = "0"
    <3>1. Prep("READV", <<"readv", op.fd, op.iov, op.offset>>)
      BY <1>1, <2>2 DEF PrepReadV
    <3>2. ASSUME Describes("READV", op, asked.does)
          PROVE  Canonical(<<"readv", op.fd, op.iov, op.offset>>) = asked.does
      <4>1. asked.does = <<"readv2", op.fd, op.iov, op.offset, "0">>
        BY <2>2, <3>2 DEF Describes
      <4>2. QED
        BY <4>1, WithoutFlags
    <3>3. QED
      BY <3>1, <3>2, PrepKeeps
  <2>3. QED
    BY <2>1, <2>2
<1>2. CASE PrepWriteV
  <2>1. CASE op.rw_flags # "0"
    BY <1>2, <2>1, PrepLiterally DEF PrepWriteV, Describes
  <2>2. CASE op.rw_flags = "0"
    <3>1. Prep("WRITEV", <<"writev", op.fd, op.iov, op.offset>>)
      BY <1>2, <2>2 DEF PrepWriteV
    <3>2. ASSUME Describes("WRITEV", op, asked.does)
          PROVE  Canonical(<<"writev", op.fd, op.iov, op.offset>>) = asked.does
      <4>1. asked.does = <<"writev2", op.fd, op.iov, op.offset, "0">>
        BY <2>2, <3>2 DEF Describes
      <4>2. QED
        BY <4>1, WithoutFlags
    <3>3. QED
      BY <3>1, <3>2, PrepKeeps
  <2>3. QED
    BY <2>1, <2>2
<1>3. QED
  BY <1>1, <1>2

\* Reads and writes look the descriptor up.
LEMMA LookUpHandlers ==
  ASSUME ApiInv, PrepRead \/ PrepWrite
  PROVE  ApiInv'
<1>1. step = "submitted" /\ ~ Ignored(request)
  BY DEF PrepRead, PrepWrite, Handles, Ignored
<1>2. request.operation \in {"READ", "RECV"} => op.buf_gid \in {None, "gid"}
  BY <1>1 DEF ApiInv, Conveys, op
<1>3. ASSUME NEW name \in {"read", "write"}, LookUp(op.fd) = None,
             Performable(asked.does) =>
               asked.does = <<name, op.fd, op.addr, op.size, op.offset>>
      PROVE  Performable(asked.does) =>
               Meant(<<name, op.fd, op.addr, op.size, op.offset>>, request.sqe_flag) = asked.does
  BY <1>1, <1>3, Described, Literally DEF Meant
<1>4. ASSUME NEW name \in {"read", "write"}, LookUp(op.fd) # None,
             Performable(asked.does) =>
               asked.does = <<name, op.fd, op.addr, op.size, op.offset>>
      PROVE  Performable(asked.does) =>
               Meant(<<name, LookUp(op.fd), op.addr, op.size, op.offset>>,
                     request.sqe_flag \cup {"FIXED_FILE"}) = asked.does
  BY <1>4, OfSlot DEF LookUp
<1>5. CASE PrepRead
  <2>1. Performable(asked.does) => asked.does = <<"read", op.fd, op.addr, op.size, op.offset>>
    BY <1>1, <1>5, Described DEF PrepRead, Handles, Describes
  <2>2. op.buf_gid \in {None, "gid"} /\ op.buf_gid = request.of.buf_gid
    BY <1>2, <1>5 DEF PrepRead, Handles, op
  <2>3. CASE LookUp(op.fd) = None
    BY <1>1, <1>3, <1>5, <2>1, <2>2, <2>3, WrittenKeeps DEF PrepRead, PrepReadFrom
  <2>4. CASE LookUp(op.fd) # None
    BY <1>1, <1>4, <1>5, <2>1, <2>2, <2>4, WrittenKeeps DEF PrepRead, PrepReadFrom
  <2>5. QED
    BY <2>3, <2>4
<1>6. CASE PrepWrite
  <2>1. Performable(asked.does) => asked.does = <<"write", op.fd, op.addr, op.size, op.offset>>
    BY <1>1, <1>6, Described DEF PrepWrite, Handles, Describes
  <2>2. request.operation \notin {"READ", "RECV"}
    BY <1>6 DEF PrepWrite, Handles
  <2>3. CASE LookUp(op.fd) = None
    BY <1>1, <1>3, <1>6, <2>1, <2>2, <2>3, WrittenKeeps DEF PrepWrite, PrepWriteTo
  <2>4. CASE LookUp(op.fd) # None
    BY <1>1, <1>4, <1>6, <2>1, <2>2, <2>4, WrittenKeeps DEF PrepWrite, PrepWriteTo
  <2>5. QED
    BY <2>3, <2>4
<1>7. QED
  BY <1>5, <1>6

\* The handlers that have no io_uring_prep_* function for some requests.
LEMMA IgnoringHandlers ==
  ASSUME ApiInv, PrepClose \/ PrepCancel \/ Unimplemented
  PROVE  ApiInv'
<1>1. step = "submitted" /\ request.operation \in {"CLOSE", "ASYNC_CANCEL", "TIMEOUT_REMOVE"}
  BY DEF PrepClose, PrepCancel, Unimplemented, Handles
<1>2. Conveys(request, asked.does, asked.group, asked.link)
  BY <1>1 DEF ApiInv
<1>3. CASE Ignored(request) /\ (PrepClose \/ PrepCancel)
  <2>1. Fill(sqe, request.sqe_flag)
    BY <1>3 DEF PrepClose, PrepCancel, Handles, Ignored, op
  <2>2. IsEntry(sqe) /\ sqe.group \in {None, "gid"} /\ sqe.written \in BOOLEAN /\ ~ sqe.written
    BY <1>1 DEF ApiInv, TypeOK
  <2>3. asked.does \in UnwrittenCalls /\ ~ Performable(asked.does)
    BY <1>2, <1>3 DEF Conveys, Performable
  <2>4. request.sqe_flag \subseteq Flags /\ ("IO_LINK" \in request.sqe_flag <=> asked.link)
    BY <1>2 DEF Conveys
  <2>5. QED
    BY <1>1, <2>1, <2>2, <2>3, <2>4, FillKeeps
<1>4. CASE ~ Ignored(request) /\ PrepClose
  <2>1. PICK does : /\ Fill(Entry(does, None), request.sqe_flag)
                    /\ does = IF Positive(op.fd) THEN <<"close", op.fd>>
                              ELSE <<"close_direct", op.file_index>>
    BY <1>4 DEF PrepClose, Handles, Ignored, op
  <2>2. does[1] \notin {"readv", "writev"}
    BY <2>1
  <2>3. Performable(asked.does) => Meant(does, request.sqe_flag) = asked.does
    BY <1>1, <1>4, <2>1, <2>2, Described, Literally DEF Meant, PrepClose, Handles, Describes
  <2>4. QED
    BY <1>1, <1>4, <2>1, <2>3, WrittenKeeps
<1>5. CASE ~ Ignored(request) /\ PrepCancel
  <2>1. PICK does : /\ Fill(Entry(does, None), request.sqe_flag)
                    /\ does = IF op.user_data # "null" THEN <<"cancel", op.user_data, op.flags>>
                              ELSE IF op.user_data_64 # "0"
                                   THEN <<"cancel64", op.user_data_64, op.flags>>
                                   ELSE <<"cancel_fd", op.fd, op.flags>>
    BY <1>5 DEF PrepCancel, Handles, Ignored, op
  <2>2. does[1] \notin {"readv", "writev"}
    BY <2>1
  <2>3. Performable(asked.does) => Meant(does, request.sqe_flag) = asked.does
    BY <1>1, <1>5, <2>1, <2>2, Described, Literally DEF Meant, PrepCancel, Handles, Describes
  <2>4. QED
    BY <1>1, <1>5, <2>1, <2>3, WrittenKeeps
<1>6. CASE Unimplemented
  <2>1. asked.does \in UnwrittenCalls /\ ~ Performable(asked.does)
    BY <1>2, <1>6 DEF Unimplemented, Handles, Ignored, Conveys, Performable
  <2>2. UNCHANGED <<common_vars, asked, request, sqe, linked_sqe>>
        /\ error' = TRUE /\ step' = "prepared" /\ ~ sqe.written
    BY <1>1, <1>6 DEF Unimplemented, ApiInv
  <2>3. QED
    BY <2>1, <2>2 DEF ApiInv, TypeOK, IsEntry
<1>7. QED
  BY <1>3, <1>4, <1>5, <1>6 DEF Unimplemented

\* The handlers of the calls that cannot get through, and of RECV.
LEMMA OtherHandlers ==
  ASSUME ApiInv, PrepTimeout \/ PrepLinkTimeout \/ PrepRecv
  PROVE  ApiInv'
<1>1. CASE PrepTimeout
  <2>1. PICK ts : Prep("TIMEOUT", <<"timeout", ts, op.count, op.flags>>)
    BY <1>1 DEF PrepTimeout
  <2>2. QED
    BY <2>1, PrepKeeps DEF Describes
<1>2. CASE PrepLinkTimeout
  <2>1. PICK ts : Prep("LINK_TIMEOUT", <<"link_timeout", ts, op.flags>>)
    BY <1>2 DEF PrepLinkTimeout
  <2>2. QED
    BY <2>1, PrepKeeps DEF Describes
<1>3. CASE PrepRecv
  <2>1. step = "submitted" /\ ~ Ignored(request)
    BY <1>3 DEF PrepRecv, Handles, Ignored
  <2>2. op.buf_gid \in {None, "gid"} /\ op.buf_gid = request.of.buf_gid
    BY <1>3, <2>1 DEF PrepRecv, Handles, ApiInv, Conveys, op
  <2>3. Performable(asked.does) =>
          Meant(<<"recv", op.fd, op.addr, op.size, op.flags>>, request.sqe_flag) = asked.does
    BY <1>3, <2>1, Described, Literally DEF PrepRecv, Handles, Describes, Meant
  <2>4. QED
    BY <1>3, <2>1, <2>2, <2>3, WrittenKeeps DEF PrepRecv
<1>4. QED
  BY <1>1, <1>2, <1>3

-----------------------------------------------------------------------------
(* The theorems.                                                            *)

\* The first entry is zero.
LEMMA ApiStart == Init => ApiInv
<1>1. SUFFICES ASSUME Init PROVE ApiInv
  OBVIOUS
<1>2. TypeOK
  BY <1>1 DEF Init, TypeOK
<1>3. IsEntry(sqe)
  BY <1>1 DEF Init, IsEntry
<1>4. asked.link \in BOOLEAN
      /\ asked = [does |-> asked.does, group |-> asked.group, link |-> asked.link]
  BY <1>1 DEF Init
<1>5. QED
  BY <1>1, <1>2, <1>3, <1>4 DEF Init, ApiInv

\* Every step keeps the invariant.
LEMMA ApiStep == ApiInv /\ [Next]_vars => ApiInv'
<1>1. ASSUME ApiInv, Calls PROVE ApiInv'
  BY <1>1, PlainCalls, BufferCalls, FlaggedCalls, IgnoredCalls DEF Calls
<1>2. ASSUME ApiInv, PrepareSqe PROVE ApiInv'
  BY <1>2, PlainHandlers, VectorHandlers, LookUpHandlers, IgnoringHandlers, OtherHandlers
  DEF PrepareSqe
<1>3. ASSUME ApiInv, SetCommonVars PROVE ApiInv'
  BY <1>3 DEF ApiInv, SetCommonVars, TypeOK
<1>4. ASSUME ApiInv, Submit PROVE ApiInv'
  BY <1>4 DEF ApiInv, Submit, TypeOK, IsEntry
<1>5. ASSUME ApiInv, UNCHANGED vars PROVE ApiInv'
  <2>1. UNCHANGED <<step, common_vars, asked, request, error, sqe, linked_sqe, Performed>>
    BY <1>5 DEF vars, Performed, Resolved
  <2>2. QED
    BY <1>5, <2>1 DEF ApiInv, TypeOK, IsEntry
<1>6. QED
  BY <1>1, <1>2, <1>3, <1>4, <1>5 DEF Next

\* ApiInv is an invariant of the calls: a request on its way to PrepareSqe stands for the call that
\* was made, and the entry its handler has filled performs it if the call is one that gets through.
THEOREM ApiInvariant == Spec => []ApiInv
BY ApiStart, ApiStep, PTL DEF Spec

\* TypeOK is an invariant.
THEOREM ApiTypeCorrect == Spec => []TypeOK
<1>1. ApiInv => TypeOK
  BY DEF ApiInv
<1>2. QED
  BY <1>1, ApiInvariant, PTL

\* Whatever the entry of the ring was used for before, and whatever common_vars say, each call that
\* is in neither list of exceptions reaches the kernel as documented, with all its arguments, the
\* buffer group and the link, and is completed through its own completion.
THEOREM CallsPerformAsDocumented == Spec => []PerformsAsDocumented
<1>1. ASSUME ApiInv, step = "prepared", ~ Unwritten, ~ Misdirected PROVE AsAsked
  <2>1. Performable(asked.does)
    BY <1>1 DEF Unwritten, Misdirected, Performable, UnwrittenCalls, MisdirectedCalls
  <2>2. /\ sqe.user_data /\ ("IO_LINK" \in sqe.flags <=> asked.link)
        /\ Performed.does = asked.does /\ Performed.group = asked.group
    BY <1>1, <2>1 DEF ApiInv
  <2>3. asked.link = ("IO_LINK" \in sqe.flags)
    BY <1>1, <2>2 DEF ApiInv
  <2>4. asked = [does |-> asked.does, group |-> asked.group, link |-> asked.link]
    BY <1>1 DEF ApiInv
  <2>5. Performed = [does |-> Performed.does, group |-> Performed.group,
                     link |-> "IO_LINK" \in sqe.flags]
    BY DEF Performed
  <2>6. QED
    BY <2>2, <2>3, <2>4, <2>5 DEF AsAsked
<1>2. ApiInv => PerformsAsDocumented
  BY <1>1 DEF PerformsAsDocumented
<1>3. QED
  BY <1>2, ApiInvariant, PTL

\* A request for which PrepareSqe reports no error is completed through its own completion,
\* and linked_sqe_ and the SQE agree on the link that was asked for.
THEOREM CallsKeepTheirLink == Spec => []LinksAndCompletesItsOwn
<1>1. ASSUME ApiInv, step = "prepared", ~ error
      PROVE  sqe.user_data /\ Performed.link = asked.link /\ linked_sqe = asked.link
  <2>1. /\ sqe.user_data /\ ("IO_LINK" \in sqe.flags <=> asked.link) /\ linked_sqe = asked.link
        /\ asked.link \in BOOLEAN
    BY <1>1 DEF ApiInv
  <2>2. Performed.link = ("IO_LINK" \in sqe.flags)
    BY DEF Performed
  <2>3. QED
    BY <2>1, <2>2
<1>2. ApiInv => LinksAndCompletesItsOwn
  BY <1>1 DEF LinksAndCompletesItsOwn
<1>3. QED
  BY <1>2, ApiInvariant, PTL

\* The kernel repeats what an earlier request left in the ring only for the calls in Unwritten.
THEOREM OnlyTheUnwrittenRepeat == Spec => []RepeatsNothingElse
<1>1. ApiInv => RepeatsNothingElse
  BY DEF ApiInv, RepeatsNothingElse, Unwritten, UnwrittenCalls
<1>2. QED
  BY <1>1, ApiInvariant, PTL
=============================================================================
