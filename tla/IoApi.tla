-------------------------------- MODULE IoApi --------------------------------
(***************************************************************************)
(* The API functions (src/iouring/io_uring_api.h), on top of the requests  *)
(* and handlers that carry them to the kernel: one request at a time, from *)
(* the call to the SQE.  Callbacks, completions and the ring's other       *)
(* entries are in the modules IoUring and DirectRing.                      *)
(*                                                                         *)
(* Beside the request it makes, a call says what its documentation says it *)
(* does, in the terms of liburing.                                         *)
(***************************************************************************)
EXTENDS SqeHandlers, Integers

TypeOK ==
  /\ step \in {"idle", "submitted", "prepared"}
  /\ common_vars \in IoApiCommonVars
  /\ error \in BOOLEAN
  /\ linked_sqe \in BOOLEAN
  /\ sqe.flags \subseteq {"IO_LINK", "FIXED_FILE", "BUFFER_SELECT"}
  /\ sqe.group \in {None, "gid"}
  /\ sqe.user_data \in BOOLEAN
  /\ sqe.written \in BOOLEAN

NoRequest == [operation |-> None, of |-> <<>>, sqe_flag |-> {}]

\* The memory of the ring is zero, which is a NOP.
Init ==
  /\ step = "idle"
  /\ common_vars \in IoApiCommonVars
  /\ asked = [does |-> <<>>, group |-> None, link |-> FALSE]
  /\ request = NoRequest
  /\ error = FALSE
  /\ sqe = [does |-> <<"nop">>, flags |-> {}, group |-> None, user_data |-> FALSE,
            written |-> FALSE]
  /\ linked_sqe = FALSE

SetCommonVars ==
  /\ step = "idle"
  /\ common_vars' \in IoApiCommonVars
  /\ UNCHANGED <<step, asked, request, error, sqe, linked_sqe>>

Link == "IO_LINK" \in common_vars.sqe_flag
Multishot == common_vars.multishot
Direct == common_vars.file_index # None
Selects == common_vars.buf_gid # None

\* SubmitIoRequest; GetSqe will hand out the entry.
CallWith(does, group, req) ==
  /\ step = "idle"
  /\ asked' = [does |-> does, group |-> group, link |-> Link]
  /\ request' = req
  /\ step' = "submitted"
  /\ UNCHANGED <<common_vars, error, sqe, linked_sqe>>

Call(does, req) == CallWith(does, None, req)

\* The kernel takes the SQE; the entry keeps what it holds.
Submit ==
  /\ step = "prepared"
  /\ sqe' = [sqe EXCEPT !.user_data = FALSE, !.written = FALSE]
  /\ step' = "idle"
  /\ asked' = [does |-> <<>>, group |-> None, link |-> FALSE]
  /\ request' = NoRequest
  /\ error' = FALSE
  /\ UNCHANGED <<common_vars, linked_sqe>>

\* A descriptor of the kernel's, or one that is registered with RegisterFile as well.
Fds == {"fd", "registered_fd"}
Optional(flags) == {"0", flags}

-----------------------------------------------------------------------------

Noop == Call(<<"nop">>, make_noop(common_vars))

ReadVector == \E fd \in Fds, rw_flags \in Optional("rw_flags") :
  Call(<<"readv2", fd, "iovecs", "offset", rw_flags>>,
       make_readv(fd, "offset", "iovecs", rw_flags, common_vars))

WriteVector == \E fd \in Fds, rw_flags \in Optional("rw_flags") :
  Call(<<"writev2", fd, "iovecs", "offset", rw_flags>>,
       make_writev(fd, "offset", "iovecs", rw_flags, common_vars))

Fsync == Call(<<"fsync", "fd", "flags">>, make_fsync("fd", "flags", common_vars))

ReadFixed ==
  Call(<<"read_fixed", "fd", "buf", "count", "offset", "buf_index">>,
       make_read_fixed("fd", "offset", "buf", "count", "buf_index", common_vars))

WriteFixed ==
  Call(<<"write_fixed", "fd", "buf", "count", "offset", "buf_index">>,
       make_write_fixed("fd", "offset", "buf", "count", "buf_index", common_vars))

PollAdd ==
  Call(<<IF Multishot THEN "poll_multishot" ELSE "poll_add", "fd", "events">>,
       make_poll_add("fd", "events", common_vars))

PollRemove ==
  Call(<<"poll_remove", "user_data">>, make_poll_remove("user_data", common_vars))

\* With no flags, an update removes.  What it does to the completion that old_user_data
\* points to is left out.
PollUpdate == \E flags \in Optional("flags") :
  Call(IF flags = "0" THEN <<"poll_remove", "old_user_data">>
       ELSE <<"poll_update", "old_user_data", "comp", "events", flags>>,
       make_poll_update("old_user_data", "comp", "events", flags, common_vars))

FileSyncRange ==
  Call(<<"sync_file_range", "fd", "len", "offset", "flags">>,
       make_sync_filerange("fd", "len", "offset", "flags", common_vars))

\* The message header is in the completion, made from a vector or a msghdr.
SendMsg ==
  Call(<<"sendmsg", "fd", "msghdr", "flags">>,
       make_sendmsg("fd", "msghdr", "flags", common_vars))

\* A multishot RecvMsg asserts flags that its own comment forbids: it is not called.
RecvMsg ==
  /\ ~ Multishot
  /\ Call(<<"recvmsg", "fd", "msghdr", "flags">>,
          make_recvmsg("fd", "msghdr", "flags", common_vars))

Timeout ==
  Call(<<"timeout", "timeout", "count", "flags">>,
       make_timeout("timeout", "count", "flags", common_vars))

TimeoutRemove ==
  Call(<<"timeout_remove", "user_data", "flags">>,
       make_timeout_remove("user_data", "flags", common_vars))

TimeoutUpdate ==
  Call(<<"timeout_update", "timeout", "user_data", "flags">>,
       make_timeout_update("timeout", "user_data", "flags", common_vars))

Accept ==
  Call(CASE Multishot /\ Direct -> <<"multishot_accept_direct", "fd", "addr", "len", "flags">>
         [] Multishot /\ ~ Direct -> <<"multishot_accept", "fd", "addr", "len", "flags">>
         [] ~ Multishot /\ Direct -> <<"accept_direct", "fd", "addr", "len", "flags", "index">>
         [] OTHER -> <<"accept", "fd", "addr", "len", "flags">>,
       make_accept("fd", "addr", "len", "flags", common_vars))

Cancel == \E user_data \in {"user_data", "null"} :
  Call(<<"cancel", user_data, "flags">>,
       make_cancel(user_data, "0", "-1", "flags", common_vars))

Cancel64 == \E user_data \in {"user_data", "0"} :
  Call(<<"cancel64", user_data, "flags">>,
       make_cancel("null", user_data, "-1", "flags", common_vars))

CancelFd ==
  Call(<<"cancel_fd", "fd", "flags">>, make_cancel("null", "0", "fd", "flags", common_vars))

LinkTimeout ==
  Call(<<"link_timeout", "timeout", "flags">>,
       make_link_timeout("timeout", "flags", common_vars))

Connect ==
  Call(<<"connect", "fd", "addr", "len">>, make_connect("fd", "addr", "len", common_vars))

Fallocate ==
  Call(<<"fallocate", "fd", "mode", "offset", "len">>,
       make_fallocate("fd", "mode", "offset", "len", common_vars))

Openat ==
  Call(IF Direct THEN <<"openat_direct", "dirfd", "pathname", "flags", "mode", "index">>
       ELSE <<"openat", "dirfd", "pathname", "flags", "mode">>,
       make_openat("dirfd", "pathname", "flags", "mode", common_vars))

\* By index, or else by descriptor, zero among them.
Close == \E fd \in IF Direct THEN {"-1"} ELSE {"fd", "0"} :
  Call(IF Direct THEN <<"close_direct", "index">> ELSE <<"close", fd>>,
       make_close(fd, common_vars))

FilesUpdate ==
  Call(<<"files_update", "fds", "offset">>, make_files_update("fds", "offset", common_vars))

Statx ==
  Call(<<"statx", "dirfd", "pathname", "flags", "mask", "statxbuf">>,
       make_statx("dirfd", "pathname", "flags", "mask", "statxbuf", common_vars))

Read == \E fd \in Fds : LET buf == IF Selects THEN "null" ELSE "buf" IN
  CallWith(<<"read", fd, buf, "count", "offset">>, common_vars.buf_gid,
           make_read(fd, "offset", buf, "count", common_vars))

Write == \E fd \in Fds :
  Call(<<"write", fd, "buf", "count", "offset">>,
       make_write(fd, "offset", "buf", "count", common_vars))

Fadvise ==
  Call(<<"fadvise", "fd", "offset", "len", "advice">>,
       make_fadvise("fd", "offset", "len", "advice", common_vars))

Madvise ==
  Call(<<"madvise", "addr", "len", "advice">>,
       make_madvise("addr", "len", "advice", common_vars))

Send ==
  Call(<<"send", "fd", "buf", "len", "flags">>,
       make_send("fd", "buf", "len", "flags", common_vars))

\* A multishot Recv asserts a buffer, a group and no length.
Recv ==
  \/ /\ Multishot
     /\ Selects
     /\ CallWith(<<"recv_multishot", "fd", "buf", "0", "flags">>, "gid",
                 make_recv("fd", "buf", "0", "flags", common_vars))
  \/ /\ ~ Multishot
     /\ LET buf == IF Selects THEN "null" ELSE "buf" IN
          CallWith(<<"recv", "fd", buf, "len", "flags">>, common_vars.buf_gid,
                   make_recv("fd", buf, "len", "flags", common_vars))

Openat2 ==
  Call(IF Direct THEN <<"openat2_direct", "dirfd", "pathname", "how", "index">>
       ELSE <<"openat2", "dirfd", "pathname", "how">>,
       make_openat2("dirfd", "pathname", "flags", "how", common_vars))

EpollCtl ==
  Call(<<"epoll_ctl", "epfd", "fd", "op", "event">>,
       make_epoll_ctl("epfd", "fd", "op", "event", common_vars))

Splice ==
  Call(<<"splice", "in_fd", "in_offset", "out_fd", "out_offset", "size", "flags">>,
       make_splice("in_fd", "in_offset", "out_fd", "out_offset", "size", "flags", common_vars))

ProvideBuffer == \E len \in {"len", "0"} :
  Call(<<"provide_buffers", "buffer", IF len = "0" THEN "pool size" ELSE len, "nbufs", "gid",
         "bid">>,
       make_provide_buffer("buffer", len, "nbufs", "gid", "bid", common_vars))

RemoveBuffer == \E nbufs \in {"nbufs", "0"} :
  Call(<<"remove_buffers", IF nbufs = "0" THEN "pool count" ELSE nbufs, "gid">>,
       make_remove_buffer(nbufs, "gid", common_vars))

Tee ==
  Call(<<"tee", "in_fd", "out_fd", "size", "flags">>,
       make_tee("in_fd", "out_fd", "size", "flags", common_vars))

Shutdown == Call(<<"shutdown", "fd", "how">>, make_shutdown("fd", "how", common_vars))

Renameat == \E olddirfd \in {"olddirfd", "-1"}, newdirfd \in {"newdirfd", "-1"} :
  Call(IF "-1" \in {olddirfd, newdirfd} THEN <<"rename", "oldpath", "newpath">>
       ELSE <<"renameat", olddirfd, "oldpath", newdirfd, "newpath", "flags">>,
       make_renameat(olddirfd, "oldpath", newdirfd, "newpath", "flags", common_vars))

Uninkat == \E dirfd \in {"dirfd", "-1"} :
  Call(IF dirfd = "-1" THEN <<"unlink", "path", "flags">>
       ELSE <<"unlinkat", dirfd, "path", "flags">>,
       make_unlinkat(dirfd, "path", "flags", common_vars))

Makrdirat == \E dirfd \in {"dirfd", "-1"} :
  Call(IF dirfd = "-1" THEN <<"mkdir", "path", "mode">>
       ELSE <<"mkdirat", dirfd, "path", "mode">>,
       make_makedirat(dirfd, "path", "mode", common_vars))

Symlinkat == \E newdirfd \in {"newdirfd", "-1"} :
  Call(IF newdirfd = "-1" THEN <<"symlink", "target", "linkpath">>
       ELSE <<"symlinkat", "target", newdirfd, "linkpath">>,
       make_symlinkat("target", newdirfd, "linkpath", common_vars))

Linkat == \E olddirfd \in {"olddirfd", "-1"}, newdirfd \in {"newdirfd", "-1"} :
  Call(IF "-1" \in {olddirfd, newdirfd} THEN <<"link", "oldpath", "newpath", "flags">>
       ELSE <<"linkat", olddirfd, "oldpath", newdirfd, "newpath", "flags">>,
       make_linkat(olddirfd, "oldpath", newdirfd, "newpath", "flags", common_vars))

MsgRing ==
  Call(<<"msg_ring", "fd", "data_32", "data_64", "flags">>,
       make_msgring("fd", "data_32", "data_64", "flags", common_vars))

Fsetxattr ==
  Call(<<"fsetxattr", "fd", "name", "value", "flags", "len">>,
       make_fsetxattr("fd", "name", "value", "flags", "len", common_vars))

Setxattr ==
  Call(<<"setxattr", "name", "value", "path", "flags", "len">>,
       make_setxattr("path", "name", "value", "flags", "len", common_vars))

Fgetxattr ==
  Call(<<"fgetxattr", "fd", "name", "value", "len">>,
       make_fgetxattr("fd", "name", "value", "len", common_vars))

Getxattr ==
  Call(<<"getxattr", "name", "value", "path", "len">>,
       make_getxattr("path", "name", "value", "len", common_vars))

Socket ==
  Call(<<"socket", "domain", "type", "protocol", "flags">>,
       make_socket("domain", "type", "protocol", "flags", common_vars))

SendZc ==
  Call(<<"send_zc", "fd", "buf", "len", "flags", "zc_flags">>,
       make_sendzc("fd", "buf", "len", "flags", "zc_flags", common_vars))

SendMsgZc ==
  Call(<<"sendmsg_zc", "fd", "msghdr", "flags">>,
       make_sendmsgzc("fd", "msghdr", "flags", common_vars))

-----------------------------------------------------------------------------

Calls ==
  \/ Socket \/ SendZc \/ SendMsgZc
  \/ Noop \/ ReadVector \/ WriteVector \/ Fsync \/ ReadFixed \/ WriteFixed
  \/ PollAdd \/ PollRemove \/ PollUpdate \/ FileSyncRange \/ SendMsg \/ RecvMsg
  \/ Timeout \/ TimeoutRemove \/ TimeoutUpdate \/ Accept
  \/ Cancel \/ Cancel64 \/ CancelFd \/ LinkTimeout \/ Connect \/ Fallocate
  \/ Openat \/ Close \/ FilesUpdate \/ Statx \/ Read \/ Write \/ Fadvise \/ Madvise
  \/ Send \/ Recv \/ Openat2 \/ EpollCtl \/ Splice \/ ProvideBuffer \/ RemoveBuffer
  \/ Tee \/ Shutdown \/ Renameat \/ Uninkat \/ Makrdirat \/ Symlinkat \/ Linkat
  \/ MsgRing \/ Fsetxattr \/ Setxattr \/ Fgetxattr \/ Getxattr

Next == SetCommonVars \/ Calls \/ PrepareSqe \/ Submit

Spec == Init /\ [][Next]_vars

-----------------------------------------------------------------------------
(* What the kernel will do with the entry.                                  *)

\* With IOSQE_FIXED_FILE a descriptor is an index of the table of registered files.
FileAt(index) == IF index = "slot" THEN "registered_fd" ELSE "another file"

Resolved(does) ==
  IF "FIXED_FILE" \in sqe.flags /\ Len(does) > 1
  THEN [does EXCEPT ![2] = FileAt(does[2])]
  ELSE does

\* preadv and pwritev are preadv2 and pwritev2 without flags.
Canonical(does) ==
  CASE does[1] = "readv" -> <<"readv2", does[2], does[3], does[4], "0">>
    [] does[1] = "writev" -> <<"writev2", does[2], does[3], does[4], "0">>
    [] OTHER -> does

Performed ==
  [does |-> Canonical(Resolved(sqe.does)),
   group |-> IF "BUFFER_SELECT" \in sqe.flags THEN sqe.group ELSE None,
   link |-> "IO_LINK" \in sqe.flags]

-----------------------------------------------------------------------------
(* Properties.                                                              *)

\* The kernel performs the call, and tells its completion.
AsAsked == sqe.user_data /\ Performed = asked

\* Calls no io_uring_prep_* function is called for.
Unwritten ==
  asked.does \in {<<"close", "0">>, <<"cancel", "null", "flags">>, <<"cancel64", "0", "flags">>}
    \cup {<<"timeout_remove", "user_data", "flags">>,
          <<"timeout_update", "timeout", "user_data", "flags">>}

\* Calls that become another one on the way: by a wrong opcode, an inverted test, a
\* missing else, IOSQE_FIXED_FILE for an index that is no descriptor's, a timespec that is
\* gone, or for want of the multishot version.
Misdirected ==
  asked.does[1] \in
    {"socket", "getxattr", "openat2", "openat2_direct", "send_zc", "link",
     "accept_direct", "multishot_accept_direct", "openat_direct", "close_direct",
     "timeout", "link_timeout", "recv_multishot"}

\* Whatever the entry of the ring was used for before, and whatever common_vars say, each
\* other call reaches the kernel as it is documented, with all its arguments.
PerformsAsDocumented ==
  step = "prepared" /\ ~ Unwritten /\ ~ Misdirected => AsAsked

\* A request for which PrepareSqe reports no error is completed through its own
\* completion, and the link asked for is in its SQE and in linked_sqe_: the worker holds a
\* chain back as long as the caller meant it to.
LinksAndCompletesItsOwn ==
  step = "prepared" /\ ~ error =>
    /\ sqe.user_data
    /\ Performed.link = asked.link
    /\ linked_sqe = asked.link

\* The kernel repeats what an earlier request left in the ring for the calls in
\* Unwritten, and for no other.
RepeatsNothingElse == step = "prepared" => (sqe.written <=> ~ Unwritten)

\* The kernel performs the operation the call is documented as, with whatever arguments:
\* "Creates a socket, equivalent to `socket(2)`" (io_uring_api.h:1010), "Close the file
\* descriptor indicated by fd" (507), and so on.
PerformsItsOperation ==
  step = "prepared" => sqe.written /\ Performed.does[1] = asked.does[1]
=============================================================================
