---------------------------- MODULE StatePipe ----------------------------
(***************************************************************************)
(* The pipe through which the session processes report to the daemon       *)
(* (state.c, seek_pipe in util.c).  A report is a fixed header followed by *)
(* a body whose length depends on the type of the report; nothing in the   *)
(* byte stream marks where a report ends, so reader and writers stay in    *)
(* step only because their ideas of the body's length agree.               *)
(*                                                                         *)
(* The stream is a sequence of cells.  A header is one cell, a body is as  *)
(* many cells as its length says, in units chosen by the model.  A cell    *)
(* remembers the report it belongs to and its offset in it (0 = header).   *)
(***************************************************************************)
EXTENDS Integers, Sequences

CONSTANTS
  LOGIN_BUF,        \* the literal 64 in the state_ops table
  MAX_LOGIN_NAME,   \* child.h
  FTP_MAX_PATH,     \* server.h
  FTP_MAX_NAME,     \* server.h
  XFER_INFO_SIZE,   \* sizeof(ftp_xfer_info_t)
  SEEK_BUFFER_SIZE, \* util.h: how much seek_pipe discards per read
  PIPE_BUF,         \* POSIX: writes up to this size are not interleaved
  PIPE_CAPACITY     \* a write that does not fit blocks until it does

Types == {"T_LOGIN", "T_CHDIR", "T_XFER_START", "T_XFER", "T_XFER_STOP"}

\* state_ops[].buf_size: the length of the body that send_state writes and
\* that recv_state skips when the sender is unknown.
buf_size(type) ==
  CASE type = "T_LOGIN"      -> LOGIN_BUF
    [] type = "T_CHDIR"      -> FTP_MAX_PATH
    [] type = "T_XFER_START" -> FTP_MAX_NAME
    [] type = "T_XFER"       -> XFER_INFO_SIZE
    [] type = "T_XFER_STOP"  -> XFER_INFO_SIZE

\* The length that recv_login, recv_chdir, recv_xfer_start, recv_xfer and
\* recv_xfer_stop read when the sender is known.
recv_size(type) ==
  CASE type = "T_LOGIN"      -> MAX_LOGIN_NAME
    [] type = "T_CHDIR"      -> FTP_MAX_PATH
    [] type = "T_XFER_START" -> FTP_MAX_NAME
    [] type = "T_XFER"       -> XFER_INFO_SIZE
    [] type = "T_XFER_STOP"  -> XFER_INFO_SIZE

\* Mutant of seek_pipe: the remainder is forgotten.
seek_pipe_whole_buffers(offset) ==
  (offset \div SEEK_BUFFER_SIZE) * SEEK_BUFFER_SIZE

\* What seek_pipe consumes: whole buffers, then the remainder.
seek_pipe(offset) ==
  ((offset \div SEEK_BUFFER_SIZE) * SEEK_BUFFER_SIZE)
    + (offset % SEEK_BUFFER_SIZE)

ASSUME SizeAssumption ==
  /\ LOGIN_BUF \in Nat \ {0} /\ FTP_MAX_PATH \in Nat \ {0}
  /\ FTP_MAX_NAME \in Nat \ {0} /\ XFER_INFO_SIZE \in Nat \ {0}
  /\ SEEK_BUFFER_SIZE \in Nat \ {0}
  /\ PIPE_BUF \in Nat /\ PIPE_CAPACITY \in Nat

\* The table's 64 is the header's MAX_LOGIN_NAME.
ASSUME LoginSizeAssumption == LOGIN_BUF = MAX_LOGIN_NAME

\* send_state relies on writev() of header and body being atomic: 12 + 1024
\* bytes at most, PIPE_BUF being 4096 on Linux.
ASSUME AtomicWriteAssumption ==
  /\ \A type \in Types : 1 + buf_size(type) <= PIPE_BUF
  /\ PIPE_BUF <= PIPE_CAPACITY

-----------------------------------------------------------------------------

\* The cells that one writev() in send_state adds to the stream.
Cells(msg) ==
  [k \in 1..(1 + buf_size(msg.type)) |-> [msg |-> msg, off |-> k - 1]]

\* Whether the write returns at once (otherwise send_state blocks in it).
HasRoom(pipe, msg) == Len(pipe) + 1 + buf_size(msg.type) <= PIPE_CAPACITY

\* read() of n cells takes what there is, up to n, from the front.
Consume(pipe, n) == SubSeq(pipe, n + 1, Len(pipe))

\* Whether the header read() brings in passes the STATE_MAGIC test: the
\* magic number only occurs in headers.
MagicOK(pipe) == pipe[1].off = 0

\* The i-th cell belongs to a report that is in the stream from its header
\* to the last cell of its body, contiguously.
FrameAt(pipe, i) ==
  LET c == pipe[i]  start == i - c.off  size == buf_size(c.msg.type) IN
  /\ c.off \in 0..size
  /\ start >= 1
  /\ start + size <= Len(pipe)
  /\ \A k \in 0..size : pipe[start + k] = [msg |-> c.msg, off |-> k]

\* Every cell does.  In particular the next read() meets a header and the
\* whole body behind it.
CompleteReports(pipe) == \A i \in 1..Len(pipe) : FrameAt(pipe, i)

\* Reports of this process that the daemon has not read yet.
PendingFrom(pipe, pid) == {i \in 1..Len(pipe) : pipe[i].msg.pid = pid}

=============================================================================
