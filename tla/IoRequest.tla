------------------------------ MODULE IoRequest ------------------------------
(***************************************************************************)
(* IoRequest and IoApiCommonVars (src/iouring/io_request.h): how the       *)
(* arguments of an API call become a request.                              *)
(*                                                                         *)
(* A request has an opcode, the member of the union that its make_*        *)
(* function fills (of), and SQE flags.  An argument is a string, its name  *)
(* at the API, unless the code asks for its value.                         *)
(***************************************************************************)

None == "none"  \* IOURING_INVALID_BUFF_GID, IOURING_INVALID_FILEINDEX

IoApiCommonVars ==
  [sqe_flag : SUBSET {"IO_LINK"}, multishot : BOOLEAN, buf_gid : {None, "gid"},
   file_index : {None, "index"}, direct_alloc : BOOLEAN]

Request(operation, of, cv) ==
  [operation |-> operation, of |-> of, sqe_flag |-> cv.sqe_flag]

\* Flags the make_* functions add to those of the application.
With(request, flag, condition) ==
  [request EXCEPT !.sqe_flag = @ \cup {f \in {flag} : condition}]

FixedFile(request, cv) == With(request, "FIXED_FILE", cv.file_index # None)
BufferSelect(request, cv) == With(request, "BUFFER_SELECT", cv.buf_gid # None)

-----------------------------------------------------------------------------
(* Files.                                                                   *)

make_noop(cv) == Request("NOP", <<>>, cv)

make_readv(fd, offset, iov, rw_flags, cv) ==
  Request("READV", [fd |-> fd, offset |-> offset, iov |-> iov, rw_flags |-> rw_flags], cv)

make_writev(fd, offset, iov, rw_flags, cv) ==
  Request("WRITEV", [fd |-> fd, offset |-> offset, iov |-> iov, rw_flags |-> rw_flags], cv)

make_fsync(fd, flags, cv) == Request("FSYNC", [fd |-> fd, flags |-> flags], cv)

Fixed(operation, fd, offset, addr, size, index, cv) ==
  Request(operation,
          [fd |-> fd, offset |-> offset, addr |-> addr, size |-> size, index |-> index], cv)

make_read_fixed(fd, offset, addr, size, index, cv) ==
  Fixed("READ_FIXED", fd, offset, addr, size, index, cv)

make_write_fixed(fd, offset, addr, size, index, cv) ==
  Fixed("WRITE_FIXED", fd, offset, addr, size, index, cv)

make_sync_filerange(fd, len, offset, flags, cv) ==
  Request("SYNC_FILE_RANGE", [fd |-> fd, len |-> len, offset |-> offset, flags |-> flags], cv)

make_fallocate(fd, mode, offset, len, cv) ==
  Request("FALLOCATE", [fd |-> fd, mode |-> mode, offset |-> offset, len |-> len], cv)

make_openat(dirfd, path_name, flags, mode, cv) ==
  FixedFile(Request("OPENAT",
                    [dirfd |-> dirfd, path_name |-> path_name, flags |-> flags, mode |-> mode,
                     file_index |-> cv.file_index], cv), cv)

make_close(fd, cv) ==
  FixedFile(Request("CLOSE", [fd |-> fd, file_index |-> cv.file_index], cv), cv)

make_files_update(fds, offset, cv) ==
  Request("FILES_UPDATE", [fds |-> fds, offset |-> offset], cv)

make_statx(dirfd, path_name, flags, mask, statxbuf, cv) ==
  Request("STATX", [dirfd |-> dirfd, path_name |-> path_name, flags |-> flags, mask |-> mask,
                    statxbuf |-> statxbuf], cv)

make_read(fd, offset, addr, size, cv) ==
  BufferSelect(Request("READ", [fd |-> fd, offset |-> offset, addr |-> addr, size |-> size,
                                buf_gid |-> cv.buf_gid], cv), cv)

make_write(fd, offset, addr, size, cv) ==
  Request("WRITE", [fd |-> fd, offset |-> offset, addr |-> addr, size |-> size], cv)

make_fadvise(fd, offset, len, advice, cv) ==
  Request("FADVISE", [fd |-> fd, offset |-> offset, len |-> len, advice |-> advice], cv)

make_madvise(addr, len, advice, cv) ==
  Request("MADVISE", [addr |-> addr, len |-> len, advice |-> advice], cv)

make_openat2(dirfd, path_name, flags, how, cv) ==
  FixedFile(Request("OPENAT2",
                    [dirfd |-> dirfd, path_name |-> path_name, flags |-> flags, how |-> how,
                     file_index |-> cv.file_index], cv), cv)

make_splice(in_fd, in_offset, out_fd, out_offset, size, flags, cv) ==
  Request("SPLICE", [in_fd |-> in_fd, in_offset |-> in_offset, out_fd |-> out_fd,
                     out_offset |-> out_offset, size |-> size, flags |-> flags], cv)

make_tee(in_fd, out_fd, size, flags, cv) ==
  Request("TEE", [in_fd |-> in_fd, out_fd |-> out_fd, size |-> size, flags |-> flags], cv)

-----------------------------------------------------------------------------
(* Polls, timeouts and cancellation.                                        *)

make_poll_add(fd, events, cv) ==
  Request("POLL_ADD", [fd |-> fd, events |-> events, multishot |-> cv.multishot], cv)

make_poll_update(old_user_data, new_user_data, events, flags, cv) ==
  Request("POLL_REMOVE", [user_data |-> old_user_data, new_user_data |-> new_user_data,
                          events |-> events, flags |-> flags], cv)

make_poll_remove(user_data, cv) == make_poll_update(user_data, "null", "0", "0", cv)

make_timeout(timeout, count, flags, cv) ==
  Request("TIMEOUT", [timeout |-> timeout, count |-> count, flags |-> flags], cv)

make_timeout_update(timeout, user_data, flags, cv) ==
  Request("TIMEOUT_REMOVE", [timeout |-> timeout, user_data |-> user_data, flags |-> flags],
          cv)

make_timeout_remove(user_data, flags, cv) == make_timeout_update("0", user_data, flags, cv)

make_link_timeout(timeout, flags, cv) ==
  Request("LINK_TIMEOUT", [timeout |-> timeout, flags |-> flags], cv)

make_cancel(user_data, user_data_64, fd, flags, cv) ==
  Request("ASYNC_CANCEL", [user_data |-> user_data, user_data_64 |-> user_data_64, fd |-> fd,
                           flags |-> flags], cv)

make_epoll_ctl(epfd, fd, op, event, cv) ==
  Request("EPOLL_CTL", [epfd |-> epfd, fd |-> fd, op |-> op, event |-> event], cv)

-----------------------------------------------------------------------------
(* Sockets and messages.                                                    *)

make_sendmsg(fd, msghdr, flags, cv) ==
  Request("SENDMSG", [fd |-> fd, msghdr |-> msghdr, flags |-> flags], cv)

make_recvmsg(fd, msghdr, flags, cv) ==
  Request("RECVMSG", [fd |-> fd, msghdr |-> msghdr, flags |-> flags,
                      multishot |-> cv.multishot, buf_gid |-> cv.buf_gid], cv)

make_accept(fd, sockaddr, socklen, flags, cv) ==
  FixedFile(Request("ACCEPT",
                    [fd |-> fd, sockaddr |-> sockaddr, socklen |-> socklen, flags |-> flags,
                     file_index |-> cv.file_index, multishot |-> cv.multishot], cv), cv)

make_connect(fd, sockaddr, socklen, cv) ==
  Request("CONNECT", [fd |-> fd, sockaddr |-> sockaddr, socklen |-> socklen], cv)

SendOf(operation, fd, addr, size, flags, zc_flags, cv) ==
  Request(operation, [fd |-> fd, addr |-> addr, size |-> size, flags |-> flags,
                      zc_flags |-> zc_flags, file_index |-> cv.file_index], cv)

make_send(fd, addr, size, flags, cv) == SendOf("SEND", fd, addr, size, flags, "0", cv)

make_sendzc(fd, addr, size, flags, zc_flags, cv) ==
  SendOf("SEND_ZC", fd, addr, size, flags, zc_flags, cv)

make_sendmsgzc(fd, msghdr, flags, cv) ==
  Request("SENDMSG_ZC", [fd |-> fd, msghdr |-> msghdr, flags |-> flags], cv)

\* A multishot receive gets MSG_WAITALL.
make_recv(fd, addr, size, flags, cv) ==
  BufferSelect(Request("RECV",
                       [fd |-> fd, addr |-> addr, size |-> size,
                        flags |-> IF cv.multishot THEN "MSG_WAITALL" ELSE flags,
                        buf_gid |-> cv.buf_gid], cv), cv)

make_shutdown(fd, how, cv) == Request("SHUTDOWN", [fd |-> fd, how |-> how], cv)

make_msgring(fd, data_32, data_64, flags, cv) ==
  Request("MSG_RING", [fd |-> fd, data_32 |-> data_32, data_64 |-> data_64, flags |-> flags],
          cv)

\* The opcode is FGETXATTR.
make_socket(domain, type, protocol, flags, cv) ==
  Request("FGETXATTR", [domain |-> domain, type |-> type, protocol |-> protocol,
                        flags |-> flags, file_index |-> cv.file_index,
                        direct_alloc |-> cv.direct_alloc], cv)

-----------------------------------------------------------------------------
(* Provided buffers.                                                        *)

make_provide_buffer(buffer, len, nbufs, gid, bid, cv) ==
  Request("PROVIDE_BUFFERS",
          [buffer |-> buffer, len |-> len, nbufs |-> nbufs, gid |-> gid, bid |-> bid], cv)

make_remove_buffer(nbufs, gid, cv) ==
  Request("REMOVE_BUFFERS",
          [buffer |-> "null", len |-> "0", nbufs |-> nbufs, gid |-> gid, bid |-> "0"], cv)

-----------------------------------------------------------------------------
(* Paths and attributes.                                                    *)

make_renameat(olddirfd, oldpath, newdirfd, newpath, flags, cv) ==
  Request("RENAMEAT", [olddirfd |-> olddirfd, oldpath |-> oldpath, newdirfd |-> newdirfd,
                       newpath |-> newpath, flags |-> flags], cv)

make_unlinkat(dirfd, path, flags, cv) ==
  Request("UNLINKAT", [dirfd |-> dirfd, path |-> path, flags |-> flags], cv)

make_makedirat(dirfd, path, mode, cv) ==
  Request("MKDIRAT", [dirfd |-> dirfd, path |-> path, mode |-> mode], cv)

make_symlinkat(target, newdirfd, linkpath, cv) ==
  Request("SYMLINKAT", [target |-> target, newdirfd |-> newdirfd, linkpath |-> linkpath], cv)

make_linkat(olddirfd, oldpath, newdirfd, newpath, flags, cv) ==
  Request("LINKAT", [olddirfd |-> olddirfd, oldpath |-> oldpath, newdirfd |-> newdirfd,
                     newpath |-> newpath, flags |-> flags], cv)

Xattr(operation, fd, path, name, value, flags, len, cv) ==
  Request(operation, [fd |-> fd, path |-> path, name |-> name, value |-> value,
                      flags |-> flags, len |-> len], cv)

make_fsetxattr(fd, name, value, flags, len, cv) ==
  Xattr("FSETXATTR", fd, "null", name, value, flags, len, cv)

make_setxattr(path, name, value, flags, len, cv) ==
  Xattr("SETXATTR", "-1", path, name, value, flags, len, cv)

make_fgetxattr(fd, name, value, len, cv) ==
  Xattr("FGETXATTR", fd, "null", name, value, "0", len, cv)

\* The opcode is FGETXATTR, as for a descriptor.
make_getxattr(path, name, value, len, cv) ==
  Xattr("FGETXATTR", "-1", path, name, value, "0", len, cv)

-----------------------------------------------------------------------------

\* As<FGETXATTR> reads the bytes of the union as an XattrOp: of a SocketOp, the first
\* integer is the descriptor and the rest is no attribute.
AsXattr(of) ==
  IF "domain" \in DOMAIN of
  THEN [fd |-> of.domain, name |-> "garbage", value |-> "garbage", len |-> "garbage"]
  ELSE of
=============================================================================
