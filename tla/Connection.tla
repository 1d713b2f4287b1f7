----------------------------- MODULE Connection -----------------------------
(***************************************************************************)
(* cppws::net::Connection (src/net/connection.cpp): the write side and the *)
(* state of one TCP connection.  Everything here runs on the event loop    *)
(* thread, between two system calls that other parties can observe, so a   *)
(* method is an operator from a connection to a connection.                *)
(*                                                                         *)
(* Bytes are abstracted to units.  A response r is the unit <<r, 0>> (its  *)
(* serialized headers, and its body unless that is a file) followed, for a *)
(* file, by the units <<r, 1>>, <<r, 2>>, ... of the file.                 *)
(***************************************************************************)
EXTENDS Naturals, Sequences

NoFd == 0                       \* a closed Socket: INVALID_FD

\* sendfile_op_ = nullopt.  In an engaged one, remaining is what the op still
\* promises to send and length the number of units the file really has.
NoSendfile == [r |-> 0, offset |-> 0, remaining |-> 0, length |-> 0]

\* sendfile_op_ && sendfile_op_->active()
Active(op) == op.r # 0 /\ op.remaining > 0

NewConnection(fd) ==
    [fd |-> fd, state |-> "Reading", keep_alive |-> TRUE,
     write_buf |-> <<>>, sendfile_op |-> NoSendfile]

IsAlive(conn) == conn.state # "Closed"

\* The close callback, which takes the fd out of epoll, belongs to EventLoop.
OnClosed(conn) ==
    IF IsAlive(conn)
    THEN [conn EXCEPT !.state = "Closed", !.sendfile_op = NoSendfile, !.fd = NoFd]
    ELSE conn

EnqueueWrite(conn, data) ==
    [conn EXCEPT !.write_buf = @ \o data, !.state = "Writing"]

\* emplace() destroys an operation that is still in progress.
BeginSendfile(conn, r, size, length) ==
    [conn EXCEPT !.sendfile_op = [r |-> r, offset |-> 0, remaining |-> size,
                                  length |-> length],
                 !.state = "Writing"]

-----------------------------------------------------------------------------
Smaller(a, b) == IF a <= b THEN a ELSE b

\* Mutant: sendfile is not given the offset.
FileUnits_FromStart(op, n) == [k \in 1 .. n |-> <<op.r, k>>]

FileUnits(op, n) == [k \in 1 .. n |-> <<op.r, op.offset + k>>]

\* What sendfile(2) can still deliver of the file: nothing once the file ends,
\* even if the op promised more.
Deliverable(op) == IF Active(op) THEN Smaller(op.remaining, op.length - op.offset) ELSE 0

HasUnsent(conn) == conn.write_buf # <<>> \/ Deliverable(conn.sendfile_op) > 0

\* flush_write() on a socket that takes room more units before EAGAIN, or
\* whose sends fail (broken): the connection after it, the units the kernel
\* took, and the number returned.
FlushWrite(conn, room, broken) ==
    IF broken /\ HasUnsent(conn)
    THEN [conn |-> OnClosed(conn), sent |-> <<>>, remaining |-> 0]
    ELSE LET op == conn.sendfile_op
             fromBuf == Smaller(Len(conn.write_buf), room)
             buf == SubSeq(conn.write_buf, fromBuf + 1, Len(conn.write_buf))
             fromFile == IF buf = <<>> THEN Smaller(Deliverable(op), room - fromBuf) ELSE 0
             rest == [op EXCEPT !.offset = @ + fromFile, !.remaining = @ - fromFile]
             drained == buf = <<>> /\ ~Active(rest)
         IN  [conn |-> [conn EXCEPT
                           !.write_buf = buf,
                           !.sendfile_op = IF drained THEN NoSendfile ELSE rest,
                           !.state = IF drained
                                     THEN IF conn.keep_alive THEN "Reading" ELSE "Closing"
                                     ELSE @],
              sent |-> SubSeq(conn.write_buf, 1, fromBuf) \o FileUnits(op, fromFile),
              remaining |-> Len(buf) + rest.remaining]

=============================================================================
