----------------------------- MODULE Transfer -----------------------------
(***************************************************************************)
(* The data of a session's transfers: dorest, doretr, transfer_file,       *)
(* dostor and store_file in core.c, splice_stream in stream.c.  Session    *)
(* models the commands around them (replies, descriptors, reports); this   *)
(* module follows the bytes, for one file, from REST to the end of each    *)
(* transfer, under the cap of Throttle.                                    *)
(*                                                                         *)
(* The file is a sequence of cells.  Cell k of what a client uploads is k, *)
(* and 0 is a hole or what was there at first.  pc is                      *)
(*   "idle"   between commands,                                            *)
(*   "block"  in the loop of transfer_file, before splice_stream,          *)
(*   "pause"  in that loop, before throttle_pause,                         *)
(*   "tail"   before the splice_stream of the remainder,                   *)
(*   "store"  in the loop of store_file, before splice_stream,             *)
(*   "spause" in that loop, before throttle_pause,                         *)
(*   "end"    back in doretr or dostor, with ret.                          *)
(***************************************************************************)
EXTENDS Throttle, Sequences, FiniteSetsExt

CONSTANTS
  XFER_BLOCK_SIZE, \* command.h
  MaxSize,         \* bound on the size of the file, and of an upload
  Delays,          \* times a system call on the connection may take
  Jumps,           \* amounts the clock is set forward (or back) by
  MaxJumps,        \* bound on how often that happens during a transfer
  Faults           \* what may go wrong, see AllFaults

\* A call returns less than it could; another program truncates the file; the
\* client resets the connection; a system call fails; the session is told to
\* terminate.
AllFaults == {"short", "truncate", "hangup", "error", "signal"}

ASSUME TransferAssumption ==
  /\ XFER_BLOCK_SIZE \in Nat \ {0}
  /\ MaxSize \in Nat /\ MaxJumps \in Nat
  /\ Delays \subseteq Nat /\ Jumps \subseteq Int
  /\ Faults \subseteq AllFaults

VARIABLES
  pc,          \* where the session is
  cmd,         \* the transfer under way: "RETR", "STOR" or ""
  restart_pos, \* session->restart_pos
  promised,    \* where, as the client was told, the next transfer restarts
  stale,       \* is restart_pos that of a STOR which is over?
  file,        \* the contents of the file
  count,       \* RETR: what transfer_file was asked to send
  i,           \* RETR: the loop variable of transfer_file
  offset,      \* the argument of transfer_file; the variable of store_file
  xfer_len,    \* session->info.xfer_len
  ret,         \* what transfer_file or store_file returned, "" before that
  moved,       \* what went over the data connection: RETR, the positions of
               \*   the cells of the file; STOR, cells of the upload
  lost,        \* did a short count, or another program, lose any of it?
  jumps        \* how often the clock was set during this transfer

restVars == <<restart_pos, promised, stale>>
fileVars == <<count, i, offset, xfer_len, ret, moved, lost>>
vars == <<throttleVars, pc, cmd, restVars, file, fileVars, jumps>>

Rets == {"FTP_SUCCESS", "FTP_ABOR", "FTP_ERROR", "FTP_QUIT"}

Init ==
  /\ now = 0 /\ skew = 0 /\ xfer_probe = 0 /\ probe_len = 0
  /\ pc = "idle" /\ cmd = "" /\ restart_pos = 0 /\ promised = 0
  /\ stale = FALSE
  /\ file \in {[k \in 1..n |-> 0] : n \in 0..MaxSize}
  /\ count = 0 /\ i = 0 /\ offset = 0 /\ xfer_len = 0 /\ ret = ""
  /\ moved = <<>> /\ lost = FALSE /\ jumps = 0

-----------------------------------------------------------------------------

\* dorest: a reply 350 with this offset, or 501 and 0.
dorest(n) ==
  /\ pc = "idle"
  /\ restart_pos' = n /\ promised' = n /\ stale' = FALSE
  /\ UNCHANGED <<throttleVars, pc, cmd, file, fileVars, jumps>>

\* Both transfers begin by taking the time and clearing the counters.
Begin(name, where, from, n) ==
  /\ ResetProbe
  /\ cmd' = name /\ pc' = where /\ offset' = from /\ count' = n
  /\ i' = 0 /\ xfer_len' = 0 /\ ret' = "" /\ moved' = <<>>
  /\ lost' = FALSE /\ jumps' = 0
  /\ UNCHANGED restVars

\* The end of transfer_file or store_file.
Return(r) ==
  /\ pc' = "end" /\ ret' = r

-----------------------------------------------------------------------------
(***************************************************************************)
(* RETR                                                                    *)
(***************************************************************************)

\* doretr, with file and connection open, and an offset not beyond the file
\* (451 otherwise, with which nothing changes).
doretr ==
  /\ pc = "idle" /\ restart_pos <= Len(file)
  /\ Begin("RETR", "block", restart_pos, Len(file) - restart_pos)
  /\ UNCHANGED file

blocks == count \div XFER_BLOCK_SIZE
remainder == count % XFER_BLOCK_SIZE

\* Mutant of block_offset: the offset of the transfer is forgotten.
block_offset_zero == i * XFER_BLOCK_SIZE

block_offset == offset + i * XFER_BLOCK_SIZE
remainder_offset == offset + count - remainder

\* What splice_stream (sendfile()) can deliver when it is asked for n cells
\* behind position from: as many as there are, or fewer when it is cut short.
Sent(from, n) ==
  LET there == Max({0, Min({n, Len(file) - from})})
  IN  IF "short" \in Faults /\ there > 0 THEN 1..there ELSE {there}

\* The client gets n cells, of the m that it should have got.
Deliver(from, n, m) ==
  /\ moved' = moved \o [k \in 1..n |-> from + k]
  /\ lost' = (lost \/ n < m)

\* splice_stream returns more than 0, which is taken for the whole block.
SendBlock ==
  /\ pc = "block" /\ i < blocks
  /\ \E n \in Sent(block_offset, XFER_BLOCK_SIZE), delay \in Delays :
       /\ n > 0
       /\ Deliver(block_offset, n, XFER_BLOCK_SIZE)
       /\ Probe(delay, XFER_BLOCK_SIZE)
  /\ xfer_len' = xfer_len + XFER_BLOCK_SIZE
  /\ pc' = "pause"
  /\ UNCHANGED <<cmd, restVars, file, count, i, offset, ret, jumps>>

\* The file ends before the block begins: FTP_ABOR.
BlockMissing ==
  /\ pc = "block" /\ i < blocks /\ Sent(block_offset, XFER_BLOCK_SIZE) = {0}
  /\ Return("FTP_ABOR")
  /\ UNCHANGED <<throttleVars, cmd, restVars, file, count, i, offset>>
  /\ UNCHANGED <<xfer_len, moved, lost, jumps>>

\* throttle_pause, then the signals, at the end of the loop's body.
PauseBlock ==
  /\ pc = "pause"
  /\ throttle_pause
  /\ \/ pc' = "block" /\ i' = i + 1 /\ UNCHANGED ret
     \/ "signal" \in Faults /\ Return("FTP_QUIT") /\ UNCHANGED i
  /\ UNCHANGED <<cmd, restVars, file, count, offset, xfer_len, moved>>
  /\ UNCHANGED <<lost, jumps>>

LoopDone ==
  /\ pc = "block" /\ i = blocks
  /\ pc' = "tail"
  /\ UNCHANGED <<throttleVars, cmd, restVars, file, fileVars, jumps>>

\* The remainder: any count but -1 is success.
SendTail ==
  /\ pc = "tail"
  /\ \E n \in Sent(remainder_offset, remainder) :
       Deliver(remainder_offset, n, remainder)
  /\ xfer_len' = xfer_len + remainder
  /\ Return("FTP_SUCCESS")
  /\ UNCHANGED <<throttleVars, cmd, restVars, file, count, i, offset>>
  /\ UNCHANGED jumps

\* The results that -1 from splice_stream amounts to.  A call that is
\* interrupted without a terminating signal is made again, with the same
\* arguments: nothing changes.  (write() to a file is not interrupted.)
Failures ==
  (IF "hangup" \in Faults THEN {"FTP_ABOR"} ELSE {})
    \cup (IF "error" \in Faults THEN {"FTP_ERROR"} ELSE {})
    \cup (IF "signal" \in Faults THEN {"FTP_QUIT"} ELSE {})

SpliceFails ==
  /\ pc \in {"tail", "store"} \/ (pc = "block" /\ i < blocks)
  /\ \E r \in Failures : Return(r)
  /\ UNCHANGED <<throttleVars, cmd, restVars, file, count, i, offset>>
  /\ UNCHANGED <<xfer_len, moved, lost, jumps>>

-----------------------------------------------------------------------------
(***************************************************************************)
(* STOR                                                                    *)
(***************************************************************************)

\* Mutant of dostor: the file is opened without O_TRUNC.
dostor_no_trunc ==
  /\ pc = "idle"
  /\ UNCHANGED file
  /\ Begin("STOR", "store", restart_pos, 0)

\* dostor: vfs_creat truncates the file; the first write is at restart_pos.
dostor ==
  /\ pc = "idle"
  /\ file' = <<>>
  /\ Begin("STOR", "store", restart_pos, 0)

\* dostor, when accept_data_conn fails: the file is truncated already.
StorRefused ==
  /\ pc = "idle"
  /\ file' = <<>>
  /\ UNCHANGED <<throttleVars, pc, cmd, restVars, fileVars, jumps>>

\* write() of these cells at position from: the file grows as it must.
Written(from, cells) ==
  [k \in 1..Max({Len(file), from + Len(cells)}) |->
     IF k \in (from + 1)..(from + Len(cells)) THEN cells[k - from]
     ELSE IF k <= Len(file) THEN file[k] ELSE 0]

\* Mutant of Advance: the offset counts what was read.
Advance_read(read, written) == offset + read

\* *out_offset += ret.
Advance(read, written) == offset + written

\* splice_stream of at most a block from the connection to the file.  Less
\* may be written than was read, and the rest is dropped.
StoreBlock ==
  /\ pc = "store"
  /\ \E n \in 1..XFER_BLOCK_SIZE, delay \in Delays :
       LET got == [k \in 1..n |-> Len(moved) + k] IN
       /\ restart_pos + Len(moved) + n <= MaxSize
       /\ moved' = moved \o got
       /\ \E w \in IF "short" \in Faults THEN 1..n ELSE {n} :
            /\ file' = Written(offset, SubSeq(got, 1, w))
            /\ offset' = Advance(n, w)
            /\ lost' = (lost \/ w < n)
            /\ xfer_len' = xfer_len + w
            /\ Probe(delay, w)
  /\ pc' = "spause"
  /\ UNCHANGED <<cmd, restVars, count, i, ret, jumps>>

PauseStore ==
  /\ pc = "spause"
  /\ throttle_pause
  /\ \/ pc' = "store" /\ UNCHANGED ret
     \/ "signal" \in Faults /\ Return("FTP_QUIT")
  /\ UNCHANGED <<cmd, restVars, file, count, i, offset, xfer_len>>
  /\ UNCHANGED <<moved, lost, jumps>>

\* The client closes the data connection: read() returns 0.
StoreDone ==
  /\ pc = "store"
  /\ Return("FTP_SUCCESS")
  /\ UNCHANGED <<throttleVars, cmd, restVars, file, count, i, offset>>
  /\ UNCHANGED <<xfer_len, moved, lost, jumps>>

-----------------------------------------------------------------------------

\* What a transfer leaves in local variables and in session->info is not
\* read before the next one sets it.
Forget ==
  /\ ResetProbe
  /\ cmd' = "" /\ pc' = "idle"
  /\ count' = 0 /\ i' = 0 /\ offset' = 0 /\ xfer_len' = 0 /\ ret' = ""
  /\ moved' = <<>> /\ lost' = FALSE /\ jumps' = 0

\* Mutant of EndRetr: the restart position is kept.
EndRetr_kept ==
  /\ pc = "end" /\ cmd = "RETR"
  /\ promised' = 0 /\ stale' = FALSE
  /\ Forget
  /\ UNCHANGED <<restart_pos, file>>

\* The end of doretr, however the transfer went.
EndRetr ==
  /\ pc = "end" /\ cmd = "RETR"
  /\ restart_pos' = 0 /\ promised' = 0 /\ stale' = FALSE
  /\ Forget
  /\ UNCHANGED file

\* The end of dostor, which keeps the restart position: the next transfer
\* begins there, though no reply has said so.
EndStor ==
  /\ pc = "end" /\ cmd = "STOR"
  /\ promised' = 0 /\ stale' = (restart_pos > 0)
  /\ Forget
  /\ UNCHANGED <<restart_pos, file>>

-----------------------------------------------------------------------------

\* Another program truncates the file while it is being sent.
Truncate ==
  /\ "truncate" \in Faults /\ cmd = "RETR" /\ pc \in {"block", "tail"}
  /\ \E n \in 0..(Len(file) - 1) : file' = SubSeq(file, 1, n)
  /\ UNCHANGED <<throttleVars, pc, cmd, restVars, fileVars, jumps>>

\* The clock is set during a transfer.
JumpClock ==
  /\ pc \in {"pause", "spause"} /\ jumps < MaxJumps
  /\ \E jump \in Jumps : SetClock(jump)
  /\ jumps' = jumps + 1
  /\ UNCHANGED <<pc, cmd, restVars, file, fileVars>>

SessionStep ==
  \/ (\E n \in 0..MaxSize : dorest(n))
  \/ doretr \/ SendBlock \/ BlockMissing \/ PauseBlock \/ LoopDone \/ SendTail
  \/ dostor \/ StorRefused \/ StoreBlock \/ PauseStore \/ StoreDone
  \/ SpliceFails \/ EndRetr \/ EndStor

Next == SessionStep \/ Truncate \/ JumpClock

Spec == Init /\ [][Next]_vars

-----------------------------------------------------------------------------
(***************************************************************************)
(* Properties                                                              *)
(***************************************************************************)

Increasing(s) == \A j \in 1..(Len(s) - 1) : s[j] < s[j + 1]

\* What a client has received, at any point of a RETR and however it ends, is
\* the file from the offset that the client was promised, as far as xfer_len
\* says; and all of it when the reply is 226.  Unless a count was short, or
\* the offset is that of an earlier STOR.
RetrExact ==
  cmd = "RETR" /\ ~lost /\ ~stale =>
    /\ moved = [k \in 1..xfer_len |-> promised + k]
    /\ ret = "FTP_SUCCESS" => xfer_len = count

\* Even then nothing is sent twice, or out of order, or from before the
\* offset.
RetrInOrder ==
  cmd = "RETR" => /\ Increasing(moved)
                  /\ \A k \in 1..Len(moved) : moved[k] > promised

\* After a STOR the file is what the client sent, from the offset that it was
\* promised, as far as xfer_len says.  Unless a write was short, or the offset
\* is that of an earlier STOR.
StorExact ==
  cmd = "STOR" /\ pc = "end" /\ ~lost /\ ~stale /\ moved # <<>> =>
    /\ file = [k \in 1..promised |-> 0] \o moved
    /\ xfer_len = Len(moved)

\* Even then the file has what the client sent in the order in which it was
\* sent, and no holes in it but those that the client asked for, with the REST
\* before this STOR or before an earlier one.
StorInOrder ==
  cmd = "STOR" =>
    /\ \A j, k \in 1..Len(file) :
         j < k /\ file[j] # 0 /\ file[k] # 0 => file[j] < file[k]
    /\ \A k \in 1..Len(file) :
         file[k] = 0 => k <= (IF stale THEN restart_pos ELSE promised)

\* The throttle lets a transfer exceed the cap, whatever the connection's speed,
\* but by no more than a block and what the division rounds off in each window.
\* Setting the clock, forward or back, is good for what may be sent in a window
\* and one more block, each time.
RateBound ==
  LET window == PROBE_INTERVAL + 1
      over == XFER_BLOCK_SIZE + throttle_rate - 1
  IN  throttle_rate >= 1 /\ pc \in {"block", "store"} =>
        window * (xfer_len - (throttle_rate - 1))
          <= (throttle_rate * window + over) * now
               + window * (throttle_rate * PROBE_INTERVAL + over) * jumps

-----------------------------------------------------------------------------
(***************************************************************************)
(* What a comment in the source says, and the code does not do             *)
(***************************************************************************)

\* throttle.c:8 "Pause for an amount af time so the total transfer speed of
\* this transfer does not exceed the bandwidth cap."
WithinCap ==
  pc = "block" /\ throttle_rate >= 1 => xfer_len <= throttle_rate * now

=============================================================================
