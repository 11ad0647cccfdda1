-------------------------- MODULE TransferProofs --------------------------
(***************************************************************************)
(* Proofs about Transfer, for any size of a block, sizes of files, rates,  *)
(* delays, settings of the clock and faults.                               *)
(***************************************************************************)
EXTENDS Transfer, SequenceTheorems, TLAPS

USE DEF restVars

Types ==
  /\ pc \in {"idle", "block", "pause", "tail", "store", "spause", "end"}
  /\ cmd \in {"", "RETR", "STOR"}
  /\ restart_pos \in Nat
  /\ file \in Seq(Nat) /\ moved \in Seq(Nat)
  /\ count \in Nat /\ i \in Nat /\ offset \in Nat /\ xfer_len \in Nat
  /\ lost \in BOOLEAN

\* The transfer that each place belongs to.
Places ==
  /\ pc = "idle" => cmd = ""
  /\ pc \in {"block", "pause", "tail"} => cmd = "RETR"
  /\ pc \in {"store", "spause"} => cmd = "STOR"
  /\ ret # "" => pc = "end"

\* xfer_len counts the blocks that were passed, and never lags behind.
Counted ==
  cmd = "RETR" =>
    /\ offset = restart_pos
    /\ pc = "block" => i <= blocks /\ xfer_len = i * XFER_BLOCK_SIZE
    /\ pc = "pause" => i < blocks /\ xfer_len = (i + 1) * XFER_BLOCK_SIZE
    /\ pc = "tail" => xfer_len = blocks * XFER_BLOCK_SIZE
    /\ ret = "FTP_SUCCESS" => xfer_len = count

\* s has cells of the file in order, all of them after position from and none
\* behind position to.
Between(s, from, to) ==
  /\ Increasing(s)
  /\ \A k \in 1..Len(s) : from < s[k] /\ s[k] <= to

\* The cells of the file after position from, n of them.
Run(from, n) == [k \in 1..n |-> from + k]

Received ==
  cmd = "RETR" =>
    /\ Between(moved, restart_pos, restart_pos + xfer_len)
    /\ ~lost => moved = Run(restart_pos, xfer_len)

\* The file that an upload has produced so far.
Uploaded ==
  IF moved = <<>> THEN <<>>
  ELSE [k \in 1..(restart_pos + Len(moved)) |->
          IF k <= restart_pos THEN 0 ELSE moved[k - restart_pos]]

Stored ==
  cmd = "STOR" /\ ~lost =>
    /\ xfer_len = Len(moved) /\ offset = restart_pos + Len(moved)
    /\ file = Uploaded

Inv == Types /\ Places /\ Counted /\ Received /\ Stored

-----------------------------------------------------------------------------

\* A transfer is a whole number of blocks and the remainder.
LEMMA BlocksOf ==
  ASSUME NEW c \in Nat, NEW q, q = c \div XFER_BLOCK_SIZE,
         NEW r, r = c % XFER_BLOCK_SIZE
  PROVE  q \in Nat /\ r \in Nat /\ c = q * XFER_BLOCK_SIZE + r
<1>1. XFER_BLOCK_SIZE \in Nat /\ XFER_BLOCK_SIZE > 0
  BY TransferAssumption
<1>2. ASSUME NEW b \in Nat, b > 0, q = c \div b, r = c % b
      PROVE  q \in Nat /\ r \in Nat
  BY <1>2
<1>3. q \in Nat /\ r \in Nat
  BY <1>1, <1>2
<1>4. ASSUME NEW b \in Nat, b > 0, q = c \div b, r = c % b
      PROVE  c = q * b + r
  BY <1>3, <1>4
<1> QED
  BY <1>1, <1>3, <1>4

\* One more block.
LEMMA OneMore ==
  ASSUME NEW n \in Nat, NEW b \in Nat
  PROVE  n * b \in Nat /\ (n + 1) * b = n * b + b /\ 0 * b = 0
  OBVIOUS

\* splice_stream delivers no more than it is asked for.
LEMMA SentAtMost ==
  ASSUME NEW from \in Nat, NEW n \in Nat, Len(file) \in Nat, NEW s \in Sent(from, n)
  PROVE  s \in 0..n
<1>1. ASSUME NEW a \in Int, NEW b \in Int
      PROVE  Min({a, b}) \in Int /\ Min({a, b}) <= a
  <2>1. \E x \in {a, b} : \A y \in {a, b} : x <= y
    OBVIOUS
  <2> QED
    BY <2>1 DEF Min
<1>2. ASSUME NEW b \in Int, b <= n
      PROVE  Max({0, b}) \in 0..n
  <2>1. \E x \in {0, b} : \A y \in {0, b} : x >= y
    OBVIOUS
  <2> QED
    BY <1>2, <2>1, SMTT(30) DEF Max
<1> DEFINE least == Min({n, Len(file) - from})
<1>3. least \in Int /\ least <= n
  BY <1>1
<1> HIDE DEF least
<1>4. Max({0, least}) \in 0..n
  BY <1>2, <1>3
<1> QED
  BY <1>4 DEF Sent, least

LEMMA MaxOf ==
  ASSUME NEW a \in Nat, NEW b \in Nat
  PROVE  Max({a, b}) \in Nat /\ (a <= b => Max({a, b}) = b)
<1>1. \E x \in {a, b} : \A y \in {a, b} : x >= y
  OBVIOUS
<1> QED
  BY <1>1 DEF Max

\* The facts about types that arithmetic and sequences need.
LEMMA Facts ==
  ASSUME Inv
  PROVE  /\ file \in Seq(Nat) /\ Len(file) \in Nat
         /\ moved \in Seq(Nat) /\ Len(moved) \in Nat
         /\ restart_pos \in Nat
         /\ count \in Nat /\ i \in Nat /\ offset \in Nat /\ xfer_len \in Nat
         /\ XFER_BLOCK_SIZE \in Nat
<1>1. /\ file \in Seq(Nat) /\ moved \in Seq(Nat)
      /\ restart_pos \in Nat
      /\ count \in Nat /\ i \in Nat /\ offset \in Nat /\ xfer_len \in Nat
  BY DEF Inv, Types
<1>2. Len(file) \in Nat
  BY <1>1
<1>3. Len(moved) \in Nat
  BY <1>1
<1> QED
  BY <1>1, <1>2, <1>3, TransferAssumption

\* write() leaves a file.
LEMMA WrittenType ==
  ASSUME Inv, NEW from \in Nat, NEW cells \in Seq(Nat)
  PROVE  Written(from, cells) \in Seq(Nat)
<1> DEFINE size == Max({Len(file), from + Len(cells)})
<1>0. Len(file) \in Nat /\ from + Len(cells) \in Nat
  BY Facts
<1>1. size \in Nat
  BY <1>0, MaxOf
<1> HIDE DEF size
<1>2. ASSUME NEW k \in 1..size
      PROVE  (IF k \in (from + 1)..(from + Len(cells)) THEN cells[k - from]
              ELSE IF k <= Len(file) THEN file[k] ELSE 0) \in Nat
  <2>1. CASE k \in (from + 1)..(from + Len(cells))
    <3>1. k - from \in 1..Len(cells)
      BY <2>1
    <3> QED
      BY <2>1, <3>1
  <2>2. CASE k \notin (from + 1)..(from + Len(cells)) /\ k <= Len(file)
    <3>1. k \in 1..Len(file)
      BY <1>0, <1>1, <2>2
    <3> QED
      BY <2>2, <3>1, Facts, SMTT(30)
  <2> QED
    BY <2>1, <2>2
<1>3. Written(from, cells) \in [1..size -> Nat]
  BY <1>2, Zenon DEF Written, size
<1> QED
  BY <1>1, <1>3

\* Writing all of what was read, where the last write ended, gives what has
\* been uploaded now.
LEMMA WrittenAll ==
  ASSUME Inv, file = Uploaded, offset = restart_pos + Len(moved),
         NEW cells \in Seq(Nat), cells # <<>>
  PROVE  Written(offset, cells) =
           [k \in 1..(restart_pos + Len(moved \o cells)) |->
              IF k <= restart_pos THEN 0 ELSE (moved \o cells)[k - restart_pos]]
<1>1. restart_pos \in Nat /\ moved \in Seq(Nat) /\ Len(cells) \in Nat /\ Len(cells) > 0
  BY Facts, EmptySeq
<1>2. Len(file) = IF moved = <<>> THEN 0 ELSE restart_pos + Len(moved)
  BY <1>1 DEF Uploaded
<1>3. Max({Len(file), offset + Len(cells)}) = restart_pos + Len(moved \o cells)
  BY <1>1, <1>2, MaxOf
<1>4. ASSUME NEW k \in 1..(restart_pos + Len(moved \o cells))
      PROVE  (IF k \in (offset + 1)..(offset + Len(cells)) THEN cells[k - offset]
              ELSE IF k <= Len(file) THEN file[k] ELSE 0)
               = IF k <= restart_pos THEN 0 ELSE (moved \o cells)[k - restart_pos]
  <2>1. CASE k <= restart_pos
    BY <1>1, <1>2, <2>1 DEF Uploaded
  <2>2. CASE restart_pos < k /\ k <= offset
    BY <1>1, <1>2, <2>2 DEF Uploaded
  <2>3. CASE offset < k
    BY <1>1, <2>3
  <2> QED
    BY <1>1, <2>1, <2>2, <2>3
<1> QED
  BY <1>3, <1>4 DEF Written

\* n more cells of the file, those after position p.
More(s, p, n) == s \o [k \in 1..n |-> p + k]

\* A part of the next m cells keeps what was received in order; all of them
\* keep it complete.
LEMMA Continued ==
  ASSUME NEW s \in Seq(Nat), NEW p \in Nat, NEW x \in Nat, NEW m \in Nat,
         NEW n \in 0..m, Between(s, p, p + x)
  PROVE  /\ More(s, p + x, n) \in Seq(Nat)
         /\ Between(More(s, p + x, n), p, p + (x + m))
         /\ s = Run(p, x) /\ n = m => More(s, p + x, n) = Run(p, x + m)
<1> DEFINE r == [k \in 1..n |-> p + x + k]
           t == s \o r
<1>1. r \in Seq(Nat) /\ Len(r) = n /\ \A k \in 1..n : r[k] = p + x + k
  OBVIOUS
<1>2. /\ t \in Seq(Nat) /\ Len(t) = Len(s) + n
      /\ \A k \in 1..Len(s) : t[k] = s[k]
      /\ \A k \in (Len(s) + 1)..(Len(s) + n) : t[k] = p + x + (k - Len(s))
  BY <1>1
<1>3. Between(t, p, p + (x + m))
  BY <1>2, SMTT(30) DEF Between, Increasing
<1>4. ASSUME s = Run(p, x), n = m PROVE t = Run(p, x + m)
  <2>1. Len(s) = x /\ \A k \in 1..x : s[k] = p + k
    BY <1>4 DEF Run
  <2>2. /\ Run(p, x + m) \in Seq(Nat) /\ Len(Run(p, x + m)) = x + m
        /\ \A k \in 1..(x + m) : Run(p, x + m)[k] = p + k
    BY DEF Run
  <2>3. Len(t) = x + m /\ \A k \in 1..(x + m) : t[k] = p + k
    BY <1>2, <1>4, <2>1
  <2> HIDE DEF t
  <2> QED
    BY <1>2, <2>2, <2>3, SeqEqual
<1>5. t = More(s, p + x, n)
  BY DEF More
<1> HIDE DEF t
<1> QED
  BY <1>2, <1>3, <1>4, <1>5

\* What a client is delivered, of the m cells that it should get.
LEMMA Delivered ==
  ASSUME Inv, cmd = "RETR", NEW m \in Nat, NEW n \in 0..m,
         Deliver(restart_pos + xfer_len, n, m), xfer_len' = xfer_len + m,
         UNCHANGED <<cmd, restVars>>
  PROVE  moved' \in Seq(Nat) /\ lost' \in BOOLEAN /\ Received'
<1>1. moved' = More(moved, restart_pos + xfer_len, n) /\ lost' = (lost \/ n < m)
  BY DEF Deliver, More
<1>2. /\ Between(moved, restart_pos, restart_pos + xfer_len)
      /\ ~lost => moved = Run(restart_pos, xfer_len)
  BY DEF Inv, Received
<1>3. moved \in Seq(Nat) /\ restart_pos \in Nat /\ xfer_len \in Nat
  BY Facts
<1>4. /\ moved' \in Seq(Nat) /\ Between(moved', restart_pos, restart_pos + (xfer_len + m))
      /\ moved = Run(restart_pos, xfer_len) /\ n = m => moved' = Run(restart_pos, xfer_len + m)
  BY <1>1, <1>2, <1>3, Continued, ZenonT(30)
<1>5. lost' \in BOOLEAN
  BY <1>1 DEF Inv, Types
<1>6. ~lost' => ~lost /\ n = m
  <2>1. ~lost' => ~lost /\ ~(n < m)
    BY <1>1
  <2>2. ~(n < m) => n = m
    OBVIOUS
  <2> QED
    BY <2>1, <2>2
<1>7. Received'
  BY <1>2, <1>4, <1>6 DEF Received
<1> QED
  BY <1>4, <1>5, <1>7

-----------------------------------------------------------------------------

\* Nothing was received or uploaded before a transfer begins.
LEMMA NothingYet ==
  ASSUME NEW p \in Nat
  PROVE  <<>> \in Seq(Nat) /\ Between(<<>>, p, p + 0) /\ Run(p, 0) = <<>>
  BY DEF Between, Increasing, Run

LEMMA InitInv == Init => Inv
<1> SUFFICES ASSUME Init PROVE Inv
  OBVIOUS
<1>1. PICK n \in 0..MaxSize : file = [k \in 1..n |-> 0]
  BY DEF Init
<1>2. file \in Seq(Nat)
  BY <1>1, TransferAssumption
<1>3. moved \in Seq(Nat)
  BY EmptySeq DEF Init
<1>4. /\ pc = "idle" /\ cmd = "" /\ restart_pos = 0 /\ ret = ""
      /\ count = 0 /\ i = 0 /\ offset = 0 /\ xfer_len = 0 /\ lost = FALSE
  BY DEF Init
<1>5. Types
  BY <1>2, <1>3, <1>4 DEF Types
<1> QED
  BY <1>4, <1>5 DEF Inv, Places, Counted, Received, Stored

LEMMA RestInv == ASSUME Inv, NEW n \in 0..MaxSize, dorest(n) PROVE Inv'
<1>1. /\ pc = "idle" /\ restart_pos' = n
      /\ UNCHANGED <<pc, cmd, file, count, i, offset, xfer_len, ret, moved, lost>>
  BY DEF dorest, fileVars
<1>2. cmd = ""
  BY <1>1 DEF Inv, Places
<1>0. n \in Nat
  BY TransferAssumption
<1>3. Types'
  BY <1>0, <1>1, <1>2 DEF Inv, Types
<1> QED
  BY <1>1, <1>2, <1>3 DEF Inv, Places, Counted, Received, Stored

\* A STOR without a data connection has emptied the file.
LEMMA StorRefusedInv == ASSUME Inv, StorRefused PROVE Inv'
<1>1. /\ pc = "idle" /\ file' = <<>>
      /\ UNCHANGED <<pc, cmd, restVars, count, i, offset, xfer_len, ret, moved, lost>>
  BY DEF StorRefused, fileVars
<1>2. cmd = ""
  BY <1>1 DEF Inv, Places
<1>3. Types'
  BY <1>1, EmptySeq DEF Inv, Types
<1> QED
  BY <1>1, <1>2, <1>3 DEF Inv, Places, Counted, Received, Stored

LEMMA RetrInv == ASSUME Inv, doretr PROVE Inv'
<1>1. /\ pc' = "block" /\ cmd' = "RETR" /\ offset' = restart_pos
      /\ count' = Len(file) - restart_pos
      /\ i' = 0 /\ xfer_len' = 0 /\ ret' = "" /\ moved' = <<>> /\ lost' = FALSE
      /\ UNCHANGED <<restVars, file>>
  BY DEF doretr, Begin
<1>2. restart_pos <= Len(file) /\ count' = Len(file) - restart_pos
  BY DEF doretr, Begin
<1>3. count' \in Nat
  BY <1>2, Facts
<1>4. Types'
  BY <1>1, <1>3, EmptySeq, Facts DEF Types
<1>5. Places'
  BY <1>1 DEF Inv, Places
<1>6. Counted'
  <2>1. blocks' \in Nat
    BY <1>3, BlocksOf DEF blocks
  <2>2. 0 * XFER_BLOCK_SIZE = 0 /\ 0 <= blocks'
    BY <2>1, OneMore, TransferAssumption
  <2>3. offset' = restart_pos'
    BY <1>1, Facts
  <2> QED
    BY <1>1, <2>2, <2>3 DEF Counted
<1>7. Received'
  BY <1>1, Facts, NothingYet DEF Received
<1> QED
  BY <1>1, <1>4, <1>5, <1>6, <1>7 DEF Inv, Stored

\* A block is sent from where the last one ended, and is counted whole.
LEMMA BlockInv == ASSUME Inv, SendBlock PROVE Inv'
<1>1. PICK n \in Sent(block_offset, XFER_BLOCK_SIZE) :
        Deliver(block_offset, n, XFER_BLOCK_SIZE)
  BY DEF SendBlock
<1>2. /\ pc = "block" /\ i < blocks /\ pc' = "pause"
      /\ xfer_len' = xfer_len + XFER_BLOCK_SIZE
      /\ UNCHANGED <<cmd, restVars, file, count, i, offset, ret>>
  BY DEF SendBlock
<1>3. cmd = "RETR" /\ offset = restart_pos /\ xfer_len = i * XFER_BLOCK_SIZE
  BY <1>2 DEF Inv, Places, Counted
<1>4. block_offset = restart_pos + xfer_len
  BY <1>3 DEF block_offset
<1>5. n \in 0..XFER_BLOCK_SIZE
  BY <1>1, <1>4, Facts, SentAtMost
<1>6. Deliver(restart_pos + xfer_len, n, XFER_BLOCK_SIZE)
  BY <1>1, <1>4
<1>a. XFER_BLOCK_SIZE \in Nat /\ xfer_len' = xfer_len + XFER_BLOCK_SIZE
  BY <1>2, Facts
<1>b. UNCHANGED <<cmd, restVars>>
  BY <1>2
<1>7. moved' \in Seq(Nat) /\ lost' \in BOOLEAN /\ Received'
  BY <1>a, <1>b, <1>3, <1>5, <1>6, Delivered
<1>8. xfer_len' = (i + 1) * XFER_BLOCK_SIZE /\ xfer_len' \in Nat
  BY <1>2, <1>3, Facts, OneMore
<1>9. Types'
  BY <1>2, <1>7, <1>8 DEF Inv, Types
<1>10. Places'
  BY <1>2, <1>3 DEF Inv, Places
<1>11. Counted'
  BY <1>2, <1>3, <1>8 DEF Inv, Places, Counted, blocks
<1> QED
  BY <1>2, <1>3, <1>7, <1>9, <1>10, <1>11 DEF Inv, Stored

\* The steps of a transfer that move nothing, and do not change the place in
\* the loop either, only where the session is.
LEMMA ReturnInv ==
  ASSUME Inv, pc \in {"block", "pause", "tail", "store", "spause"}, pc' = "end",
         ret' \in {"FTP_ABOR", "FTP_ERROR", "FTP_QUIT"}
                    \cup (IF cmd = "STOR" THEN {"FTP_SUCCESS"} ELSE {}),
         UNCHANGED <<cmd, restVars, file, count, i, offset>>,
         UNCHANGED <<xfer_len, moved, lost>>
  PROVE  Inv'
<1>1. cmd = "STOR" \/ (cmd = "RETR" /\ ret' # "FTP_SUCCESS")
  BY DEF Inv, Places
<1>2. Types'
  BY DEF Inv, Types
<1>3. Places'
  BY <1>1 DEF Inv, Places
<1>4. Counted'
  BY <1>1 DEF Inv, Counted
<1>5. Received'
  BY DEF Inv, Received
<1>6. Stored'
  BY DEF Inv, Stored, Uploaded
<1> QED
  BY <1>2, <1>3, <1>4, <1>5, <1>6 DEF Inv

LEMMA MissingInv == ASSUME Inv, BlockMissing PROVE Inv'
  BY ReturnInv DEF BlockMissing, Return

LEMMA FailsInv == ASSUME Inv, SpliceFails PROVE Inv'
<1>1. pc \in {"tail", "store", "block"}
  BY DEF SpliceFails
<1>2. PICK r \in Failures : pc' = "end" /\ ret' = r
  BY DEF SpliceFails, Return
<1>3. r \in {"FTP_ABOR", "FTP_ERROR", "FTP_QUIT"}
  BY <1>2 DEF Failures
<1> QED
  BY <1>1, <1>2, <1>3, ReturnInv DEF SpliceFails

LEMMA StoreDoneInv == ASSUME Inv, StoreDone PROVE Inv'
<1>1. cmd = "STOR"
  BY DEF Inv, Places, StoreDone
<1> QED
  BY <1>1, ReturnInv DEF StoreDone, Return

\* A pause ends the passage of the loop's body.
LEMMA PauseBlockInv == ASSUME Inv, PauseBlock PROVE Inv'
<1>1. /\ pc = "pause"
      /\ UNCHANGED <<cmd, restVars, file, count, offset>>
      /\ UNCHANGED <<xfer_len, moved, lost>>
  BY DEF PauseBlock
<1>2. CASE pc' = "block" /\ i' = i + 1 /\ UNCHANGED ret
  <2>1. cmd = "RETR" /\ i < blocks /\ xfer_len = (i + 1) * XFER_BLOCK_SIZE
    BY <1>1 DEF Inv, Places, Counted
  <2>2. i' <= blocks' /\ i' \in Nat
    <3>1. blocks \in Nat /\ blocks' = blocks
      BY <1>1, Facts, BlocksOf DEF blocks
    <3> QED
      BY <1>2, <2>1, <3>1, Facts
  <2>3. Types'
    BY <1>1, <1>2, <2>2 DEF Inv, Types
  <2>4. Places'
    BY <1>1, <1>2, <2>1 DEF Inv, Places
  <2>5. Counted'
    BY <1>1, <1>2, <2>1, <2>2 DEF Inv, Places, Counted
  <2>6. Received'
    BY <1>1 DEF Inv, Received
  <2> QED
    BY <1>1, <2>1, <2>3, <2>4, <2>5, <2>6 DEF Inv, Stored
<1>3. CASE Return("FTP_QUIT") /\ UNCHANGED i
  BY <1>1, <1>3, ReturnInv DEF Return
<1> QED
  BY <1>2, <1>3 DEF PauseBlock

LEMMA LoopDoneInv == ASSUME Inv, LoopDone PROVE Inv'
<1>1. /\ pc = "block" /\ i = blocks /\ pc' = "tail"
      /\ UNCHANGED <<cmd, restVars, file, ret>>
      /\ UNCHANGED <<count, i, offset, xfer_len, moved, lost>>
  BY DEF LoopDone, fileVars
<1>2. cmd = "RETR" /\ xfer_len = blocks * XFER_BLOCK_SIZE
  BY <1>1 DEF Inv, Places, Counted
<1>3. Types'
  BY <1>1 DEF Inv, Types
<1>4. Places'
  BY <1>1, <1>2 DEF Inv, Places
<1>5. Counted'
  BY <1>1, <1>2 DEF Inv, Places, Counted, blocks
<1>6. Received'
  BY <1>1 DEF Inv, Received
<1> QED
  BY <1>1, <1>2, <1>3, <1>4, <1>5, <1>6 DEF Inv, Stored

\* The remainder begins where the last block ended, and makes the count full.
LEMMA TailInv == ASSUME Inv, SendTail PROVE Inv'
<1>1. PICK n \in Sent(remainder_offset, remainder) :
        Deliver(remainder_offset, n, remainder)
  BY DEF SendTail
<1>2. /\ pc = "tail" /\ pc' = "end" /\ ret' = "FTP_SUCCESS"
      /\ xfer_len' = xfer_len + remainder
      /\ UNCHANGED <<cmd, restVars, file, count, i, offset>>
  BY DEF SendTail, Return
<1>3. cmd = "RETR" /\ offset = restart_pos /\ xfer_len = blocks * XFER_BLOCK_SIZE
  BY <1>2 DEF Inv, Places, Counted
<1>4. remainder \in Nat /\ count = xfer_len + remainder
  <2>1. remainder \in Nat /\ count = blocks * XFER_BLOCK_SIZE + remainder
    BY Facts, BlocksOf DEF blocks, remainder
  <2> QED
    BY <1>3, <2>1
<1>5. remainder_offset = restart_pos + xfer_len
  BY <1>3, <1>4, Facts DEF remainder_offset
<1>6. n \in 0..remainder /\ Deliver(restart_pos + xfer_len, n, remainder)
  BY <1>1, <1>4, <1>5, Facts, SentAtMost
<1>7. moved' \in Seq(Nat) /\ lost' \in BOOLEAN /\ Received'
  BY <1>2, <1>3, <1>4, <1>6, Delivered
<1>8. xfer_len' = count /\ xfer_len' \in Nat
  BY <1>2, <1>4, Facts
<1>9. Types'
  BY <1>2, <1>7, <1>8 DEF Inv, Types
<1>10. Places'
  BY <1>2, <1>3 DEF Inv, Places
<1>11. Counted'
  BY <1>2, <1>3, <1>8 DEF Inv, Counted
<1> QED
  BY <1>2, <1>3, <1>7, <1>9, <1>10, <1>11 DEF Inv, Stored

LEMMA StorInv == ASSUME Inv, dostor PROVE Inv'
<1>1. /\ pc' = "store" /\ cmd' = "STOR" /\ offset' = restart_pos /\ count' = 0
      /\ i' = 0 /\ xfer_len' = 0 /\ ret' = "" /\ moved' = <<>> /\ lost' = FALSE
      /\ file' = <<>> /\ UNCHANGED restVars
  BY DEF dostor, Begin
<1>2. Types'
  BY <1>1, EmptySeq, Facts DEF Types
<1>3. Places'
  BY <1>1 DEF Inv, Places
<1>4. xfer_len' = Len(moved') /\ offset' = restart_pos' + Len(moved')
  <2>1. Len(moved') = 0
    BY <1>1
  <2>2. restart_pos' = restart_pos /\ offset' = restart_pos /\ restart_pos \in Nat
    BY <1>1, Facts
  <2>3. xfer_len' = 0
    BY <1>1
  <2> QED
    BY <2>1, <2>2, <2>3
<1>5. Stored'
  BY <1>1, <1>4 DEF Stored, Uploaded
<1> QED
  BY <1>1, <1>2, <1>3, <1>5 DEF Inv, Counted, Received

\* A block is written behind the last one.
LEMMA StoreBlockInv == ASSUME Inv, StoreBlock PROVE Inv'
<1> DEFINE Got(n) == [k \in 1..n |-> Len(moved) + k]
<1>1. PICK n \in 1..XFER_BLOCK_SIZE :
        /\ moved' = moved \o Got(n)
        /\ \E w \in IF "short" \in Faults THEN 1..n ELSE {n} :
             /\ file' = Written(offset, SubSeq(Got(n), 1, w))
             /\ offset' = Advance(n, w)
             /\ lost' = (lost \/ w < n)
             /\ xfer_len' = xfer_len + w
  BY DEF StoreBlock
<1>2. PICK w \in 1..n :
        /\ file' = Written(offset, SubSeq(Got(n), 1, w))
        /\ offset' = offset + w
        /\ lost' = (lost \/ w < n)
        /\ xfer_len' = xfer_len + w
  BY <1>1 DEF Advance
<1> DEFINE got == Got(n)
<1>3. /\ pc = "store" /\ pc' = "spause"
      /\ UNCHANGED <<cmd, restVars, count, i, ret>>
  BY DEF StoreBlock
<1>4. cmd = "STOR"
  BY <1>3 DEF Inv, Places
<1>5. n \in Nat /\ n > 0 /\ w \in Nat
  BY Facts
<1>6. got \in Seq(Nat) /\ Len(got) = n
  BY <1>5, Facts
<1>7. moved' = moved \o got /\ file' = Written(offset, SubSeq(got, 1, w))
  BY <1>1, <1>2
<1> HIDE DEF Got, got
<1>8. SubSeq(got, 1, w) \in Seq(Nat) /\ (w = n => SubSeq(got, 1, w) = got)
  BY <1>2, <1>5, <1>6
<1>9. /\ file' \in Seq(Nat) /\ moved' \in Seq(Nat) /\ Len(moved') = Len(moved) + n
      /\ offset' \in Nat /\ xfer_len' \in Nat
  <2>1. file' \in Seq(Nat)
    BY <1>7, <1>8, Facts, WrittenType
  <2>2. moved' \in Seq(Nat) /\ Len(moved') = Len(moved) + n
    BY <1>6, <1>7, Facts, ConcatProperties
  <2>3. offset' \in Nat /\ xfer_len' \in Nat
    BY <1>2, <1>5, Facts, SMTT(30)
  <2> QED
    BY <2>1, <2>2, <2>3
<1>10. lost' \in BOOLEAN /\ (~lost' => ~lost /\ w = n)
  <2>1. lost' \in BOOLEAN
    BY <1>2 DEF Inv, Types
  <2>2. ~lost' => ~lost /\ ~(w < n)
    BY <1>2
  <2>3. ~(w < n) => w = n
    BY <1>5
  <2> QED
    BY <2>1, <2>2, <2>3
<1>11. Types'
  BY <1>3, <1>4, <1>9, <1>10 DEF Inv, Types
<1>12. Places'
  BY <1>3, <1>4 DEF Inv, Places
<1>13. ASSUME ~lost'
       PROVE  /\ xfer_len' = Len(moved') /\ offset' = restart_pos' + Len(moved')
              /\ file' = Uploaded'
  <2>1. /\ ~lost /\ w = n
        /\ xfer_len = Len(moved) /\ offset = restart_pos + Len(moved) /\ file = Uploaded
    BY <1>4, <1>10, <1>13 DEF Inv, Stored
  <2>2. file' = Written(offset, got)
    BY <1>7, <1>8, <2>1
  <2>3. got # <<>> /\ moved' # <<>>
    BY <1>5, <1>6, <1>9, Facts, EmptySeq
  <2>4. Written(offset, got) =
          [k \in 1..(restart_pos + Len(moved \o got)) |->
             IF k <= restart_pos THEN 0 ELSE (moved \o got)[k - restart_pos]]
    BY <1>6, <2>1, <2>3, WrittenAll
  <2>5. file' = Uploaded'
    BY <1>3, <1>7, <2>2, <2>3, <2>4 DEF Uploaded
  <2>6. xfer_len' = Len(moved') /\ offset' = restart_pos + Len(moved')
    BY <1>2, <1>5, <1>9, <2>1, Facts, SMTT(30)
  <2> QED
    BY <1>3, <2>5, <2>6
<1>14. Stored'
  BY <1>13 DEF Stored
<1> QED
  BY <1>3, <1>4, <1>11, <1>12, <1>14 DEF Inv, Counted, Received

LEMMA PauseStoreInv == ASSUME Inv, PauseStore PROVE Inv'
<1>1. /\ pc = "spause"
      /\ UNCHANGED <<cmd, restVars, file, count, i, offset>>
      /\ UNCHANGED <<xfer_len, moved, lost>>
  BY DEF PauseStore
<1>2. CASE pc' = "store" /\ UNCHANGED ret
  <2>1. cmd = "STOR"
    BY <1>1 DEF Inv, Places
  <2>2. Types'
    BY <1>1, <1>2 DEF Inv, Types
  <2>3. Places'
    BY <1>1, <1>2, <2>1 DEF Inv, Places
  <2>4. Stored'
    BY <1>1 DEF Inv, Stored, Uploaded
  <2> QED
    BY <1>1, <2>1, <2>2, <2>3, <2>4 DEF Inv, Counted, Received
<1>3. CASE Return("FTP_QUIT")
  BY <1>1, <1>3, ReturnInv DEF Return
<1> QED
  BY <1>2, <1>3 DEF PauseStore

\* Nothing of a transfer matters when it is over.
LEMMA EndInv == ASSUME Inv, EndRetr \/ EndStor PROVE Inv'
<1>1. /\ cmd' = "" /\ pc' = "idle" /\ ret' = "" /\ file' = file
      /\ count' = 0 /\ i' = 0 /\ offset' = 0 /\ xfer_len' = 0
      /\ moved' = <<>> /\ lost' = FALSE
  BY DEF EndRetr, EndStor, Forget
<1>2. restart_pos' \in Nat
  BY Facts DEF EndRetr, EndStor
<1>3. Types'
  BY <1>1, <1>2, EmptySeq, Facts DEF Types
<1> QED
  BY <1>1, <1>3 DEF Inv, Places, Counted, Received, Stored

\* What another program leaves of the file does not matter to a RETR, which
\* has its count.
LEMMA TruncateInv == ASSUME Inv, Truncate PROVE Inv'
<1>1. /\ cmd = "RETR"
      /\ UNCHANGED <<pc, cmd, restVars, ret>>
      /\ UNCHANGED <<count, i, offset, xfer_len, moved, lost>>
  BY DEF Truncate, fileVars
<1>2. PICK n \in 0..(Len(file) - 1) : file' = SubSeq(file, 1, n)
  BY DEF Truncate
<1>3. file' \in Seq(Nat)
  BY <1>2, Facts, SMTT(30)
<1>4. Types'
  BY <1>1, <1>3 DEF Inv, Types
<1>5. Places'
  BY <1>1 DEF Inv, Places
<1>6. Counted'
  BY <1>1 DEF Inv, Counted, blocks
<1>7. Received'
  BY <1>1 DEF Inv, Received
<1> QED
  BY <1>1, <1>4, <1>5, <1>6, <1>7 DEF Inv, Stored

\* Neither does the clock, or a step of nobody.
LEMMA SameInv ==
  ASSUME Inv, UNCHANGED <<pc, cmd, restVars, file, fileVars>>
  PROVE  Inv'
<1>1. /\ UNCHANGED <<pc, cmd, restVars, file, ret>>
      /\ UNCHANGED <<count, i, offset, xfer_len, moved, lost>>
  BY DEF fileVars
<1>2. Types'
  BY <1>1 DEF Inv, Types
<1>3. Places'
  BY <1>1 DEF Inv, Places
<1>4. Counted'
  BY <1>1 DEF Inv, Counted, blocks
<1>5. Received'
  BY <1>1 DEF Inv, Received
<1>6. Stored'
  BY <1>1 DEF Inv, Stored, Uploaded
<1> QED
  BY <1>2, <1>3, <1>4, <1>5, <1>6 DEF Inv

LEMMA StepInv == Inv /\ [Next]_vars => Inv'
<1> SUFFICES ASSUME Inv, [Next]_vars PROVE Inv'
  OBVIOUS
<1>1. CASE SessionStep
  BY <1>1, RestInv, RetrInv, BlockInv, MissingInv, PauseBlockInv, LoopDoneInv, TailInv,
     StorInv, StorRefusedInv, StoreBlockInv, PauseStoreInv, StoreDoneInv, FailsInv, EndInv
     DEF SessionStep
<1>2. CASE Truncate
  BY <1>2, TruncateInv
<1>3. CASE JumpClock
  BY <1>3, SameInv DEF JumpClock
<1>4. CASE UNCHANGED vars
  BY <1>4, SameInv DEF vars
<1> QED
  BY <1>1, <1>2, <1>3, <1>4 DEF Next

\* The inductive invariant of transfers: the counters, what arrived and the
\* file agree, at every place in the loops of core.c.
THEOREM TransferInvariant == Spec => []Inv
<1> QED
  BY InitInv, StepInv, PTL DEF Spec

-----------------------------------------------------------------------------

\* The client knows where a transfer restarts, unless that is left over from a
\* STOR.
Promised ==
  /\ promised \in Nat /\ promised <= restart_pos
  /\ stale \/ promised = restart_pos

\* REST promises what it sets, doretr leaves nothing of it, and dostor leaves it
\* without a promise.
LEMMA StepPromised == Inv /\ Promised /\ [Next]_vars => Promised'
<1> SUFFICES ASSUME Inv, Promised, [Next]_vars PROVE Promised'
  OBVIOUS
<1>1. ASSUME UNCHANGED restVars PROVE Promised'
  BY <1>1 DEF Promised
<1>2. ASSUME NEW n \in 0..MaxSize, dorest(n) PROVE Promised'
  <2>1. n \in Nat
    BY TransferAssumption
  <2>2. restart_pos' = n /\ promised' = n
    BY <1>2 DEF dorest
  <2> QED
    BY <2>1, <2>2 DEF Promised
<1>3. CASE EndRetr
  <2>1. restart_pos' = 0 /\ promised' = 0
    BY <1>3 DEF EndRetr
  <2> QED
    BY <2>1 DEF Promised
<1>4. CASE EndStor
  <2>1. restart_pos' = restart_pos /\ promised' = 0 /\ stale' = (restart_pos > 0)
    BY <1>4 DEF EndStor
  <2>2. restart_pos \in Nat /\ 0 <= restart_pos
        /\ (restart_pos > 0 \/ 0 = restart_pos)
    BY Facts
  <2>3. stale' \/ promised' = restart_pos'
    BY <2>1, <2>2
  <2>4. promised' \in Nat /\ promised' <= restart_pos'
    BY <2>1, <2>2
  <2> QED
    BY <2>3, <2>4 DEF Promised
<1>5. CASE doretr \/ dostor
  BY <1>1, <1>5 DEF doretr, dostor, Begin
<1>6. CASE \/ SendBlock \/ BlockMissing \/ PauseBlock \/ LoopDone \/ SendTail
           \/ StorRefused \/ StoreBlock \/ PauseStore \/ StoreDone \/ SpliceFails
           \/ Truncate \/ JumpClock \/ UNCHANGED vars
  BY <1>1, <1>6 DEF SendBlock, BlockMissing, PauseBlock, LoopDone, SendTail,
     StorRefused, StoreBlock, PauseStore, StoreDone, SpliceFails, Truncate, JumpClock,
     vars
<1> QED
  BY <1>2, <1>3, <1>4, <1>5, <1>6 DEF Next, SessionStep

LEMMA TransferPromised == Spec => []Promised
<1>1. ASSUME Init PROVE Promised
  <2>1. restart_pos = 0 /\ promised = 0
    BY <1>1 DEF Init
  <2> QED
    BY <2>1 DEF Promised
<1> QED
  BY <1>1, StepPromised, TransferInvariant, PTL DEF Spec

\* A client receives the file from the offset that it was promised, and all of
\* it with a 226, unless a count of splice_stream was short, or dostor has left
\* an offset that was never promised.
THEOREM TransferRetrExact == Spec => []RetrExact
<1>1. Inv /\ Promised => RetrExact
  BY DEF Inv, Promised, Counted, Received, RetrExact, Run
<1> QED
  BY <1>1, TransferInvariant, TransferPromised, PTL

\* Even then transfer_file sends nothing twice, out of order, or from before
\* the offset.
THEOREM TransferRetrInOrder == Spec => []RetrInOrder
<1>1. Inv /\ Promised => RetrInOrder
  <2> SUFFICES ASSUME Inv, Promised, cmd = "RETR"
               PROVE  /\ Increasing(moved)
                      /\ \A k \in 1..Len(moved) : moved[k] > promised
    BY DEF RetrInOrder
  <2>1. Between(moved, restart_pos, restart_pos + xfer_len)
    BY DEF Inv, Received
  <2>2. moved \in Seq(Nat) /\ restart_pos \in Nat
    BY Facts
  <2>3. promised \in Nat /\ promised <= restart_pos
    BY DEF Promised
  <2> QED
    BY <2>1, <2>2, <2>3 DEF Between
<1> QED
  BY <1>1, TransferInvariant, TransferPromised, PTL

\* store_file leaves the file as the client sent it, from the offset that it
\* was promised, unless a write was short, or an earlier STOR has left an
\* offset that was never promised.
THEOREM TransferStorExact == Spec => []StorExact
<1>1. Inv /\ Promised => StorExact
  <2> SUFFICES ASSUME Inv, cmd = "STOR", ~lost, moved # <<>>
               PROVE  /\ file = [k \in 1..restart_pos |-> 0] \o moved
                      /\ xfer_len = Len(moved)
    BY DEF StorExact, Promised
  <2>1. xfer_len = Len(moved) /\ file = Uploaded
    BY DEF Inv, Stored
  <2>2. file = [k \in 1..(restart_pos + Len(moved)) |->
                  IF k <= restart_pos THEN 0 ELSE moved[k - restart_pos]]
    BY <2>1 DEF Uploaded
  <2>3. restart_pos \in Nat /\ moved \in Seq(Nat)
    BY Facts
  <2>4. /\ [k \in 1..restart_pos |-> 0] \in Seq(Nat)
        /\ Len([k \in 1..restart_pos |-> 0]) = restart_pos
    BY <2>3
  <2> DEFINE s == [k \in 1..restart_pos |-> 0] \o moved
  <2>5. /\ s \in Seq(Nat) /\ Len(s) = restart_pos + Len(moved)
        /\ \A k \in 1..Len(s) :
             s[k] = IF k <= restart_pos THEN 0 ELSE moved[k - restart_pos]
    BY <2>3, <2>4
  <2>6. /\ file \in Seq(Nat) /\ Len(file) = restart_pos + Len(moved)
        /\ \A k \in 1..Len(file) :
             file[k] = IF k <= restart_pos THEN 0 ELSE moved[k - restart_pos]
    BY <2>2, <2>3, Facts
  <2> HIDE DEF s
  <2>7. file = s
    BY <2>5, <2>6, SeqEqual
  <2> QED
    BY <2>1, <2>7 DEF s
<1> QED
  BY <1>1, TransferInvariant, TransferPromised, PTL

-----------------------------------------------------------------------------
(***************************************************************************)
(* Uploads whose writes may be short.                                      *)
(***************************************************************************)

\* f has a hole up to position p, and then cells of an upload in the order in
\* which they were sent, m being the last that was read.
Laid(f, p, m) ==
  /\ \A k \in 1..Len(f) : IF k <= p THEN f[k] = 0 ELSE f[k] > 0 /\ f[k] <= m
  /\ \A j, k \in 1..Len(f) : p < j /\ j < k => f[j] < f[k]

\* The next write of store_file is at the end of the file, which it makes as
\* long as the offset says.
Ordered ==
  cmd = "STOR" =>
    /\ restart_pos <= offset
    /\ Len(file) = offset \/ (Len(file) = 0 /\ offset = restart_pos)
    /\ Laid(file, restart_pos, Len(moved))

\* f with w more cells behind position o, those that follow cell m.
Longer(f, o, m, w) ==
  [k \in 1..(o + w) |-> IF k > o THEN m + (k - o)
                        ELSE IF k <= Len(f) THEN f[k] ELSE 0]

\* A part of what was read, at the end of the file.
LEMMA LaidOn ==
  ASSUME NEW f \in Seq(Nat), NEW p \in Nat, NEW o \in Nat, NEW m \in Nat,
         NEW n \in Nat, NEW w \in Nat, 0 < w, w <= n,
         p <= o, Len(f) = o \/ (Len(f) = 0 /\ o = p), Laid(f, p, m)
  PROVE  Len(Longer(f, o, m, w)) = o + w /\ Laid(Longer(f, o, m, w), p, m + n)
<1> DEFINE g == Longer(f, o, m, w)
<1>1. Len(f) \in Nat /\ \A k \in 1..Len(f) : f[k] \in Nat
  OBVIOUS
<1>2. o + w \in Nat
  OBVIOUS
<1>3. Len(g) = o + w
  BY <1>2 DEF Longer
<1>4. \A k \in 1..(o + w) : g[k] = IF k > o THEN m + (k - o)
                                   ELSE IF k <= Len(f) THEN f[k] ELSE 0
  BY DEF Longer
<1> HIDE DEF g
<1>5. ASSUME NEW k \in 1..(o + w)
      PROVE  IF k <= p THEN g[k] = 0 ELSE g[k] > 0 /\ g[k] <= m + n
  BY <1>1, <1>4 DEF Laid
<1>6. ASSUME NEW j \in 1..(o + w), NEW k \in 1..(o + w), p < j, j < k
      PROVE  g[j] < g[k]
  <2>1. CASE k > o /\ j > o
    BY <1>4, <1>6, <2>1
  <2>2. CASE k > o /\ j <= o
    <3>1. j \in 1..Len(f) /\ f[j] \in Nat /\ f[j] <= m
      BY <1>1, <1>6, <2>2 DEF Laid
    <3> QED
      BY <1>4, <1>6, <2>2, <3>1
  <2>3. CASE k <= o
    <3>1. j \in 1..Len(f) /\ k \in 1..Len(f)
      BY <1>1, <1>6, <2>3
    <3>2. f[j] < f[k]
      BY <1>6, <3>1 DEF Laid
    <3> QED
      BY <1>4, <1>6, <2>3, <3>1, <3>2
  <2> QED
    BY <2>1, <2>2, <2>3
<1>7. Len(g) = o + w /\ Laid(g, p, m + n)
  BY <1>3, <1>5, <1>6 DEF Laid
<1> QED
  BY <1>7 DEF g

\* splice_stream writes the first w of n cells that it has read.
LEMMA StoreBlockOrdered == ASSUME Inv, Ordered, StoreBlock PROVE Ordered'
<1> DEFINE Got(n) == [k \in 1..n |-> Len(moved) + k]
<1>1. PICK n \in 1..XFER_BLOCK_SIZE :
        /\ moved' = moved \o Got(n)
        /\ \E w \in IF "short" \in Faults THEN 1..n ELSE {n} :
             /\ file' = Written(offset, SubSeq(Got(n), 1, w))
             /\ offset' = Advance(n, w)
  BY DEF StoreBlock
<1>2. PICK w \in 1..n :
        /\ file' = Written(offset, SubSeq(Got(n), 1, w))
        /\ offset' = offset + w
  BY <1>1 DEF Advance
<1>3. cmd = "STOR" /\ UNCHANGED <<cmd, restVars>>
  BY DEF StoreBlock, Inv, Places
<1>4. /\ file \in Seq(Nat) /\ Len(file) \in Nat /\ Len(moved) \in Nat
      /\ moved \in Seq(Nat) /\ restart_pos \in Nat /\ offset \in Nat
      /\ n \in Nat /\ w \in Nat /\ 0 < w /\ w <= n
  BY Facts
<1>5. /\ restart_pos <= offset
      /\ Len(file) = offset \/ (Len(file) = 0 /\ offset = restart_pos)
      /\ Laid(file, restart_pos, Len(moved))
  BY <1>3 DEF Ordered
<1> DEFINE got == Got(n)
           cells == SubSeq(got, 1, w)
<1>6. got \in Seq(Nat) /\ Len(got) = n /\ \A k \in 1..n : got[k] = Len(moved) + k
  BY <1>4
<1>9. moved' = moved \o got /\ file' = Written(offset, cells)
  BY <1>1, <1>2
<1> HIDE DEF Got, got
<1>7. Len(cells) = w /\ \A k \in 1..w : cells[k] = Len(moved) + k
  BY <1>4, <1>6
<1>8. Len(moved') = Len(moved) + n
  BY <1>4, <1>6, <1>9, ConcatProperties
<1> HIDE DEF cells
<1>10. Max({Len(file), offset + w}) = offset + w
  <2>1. Len(file) <= offset
    BY <1>4, <1>5
  <2>2. Len(file) \in Nat /\ offset + w \in Nat /\ Len(file) <= offset + w
    BY <1>4, <2>1
  <2> QED
    BY <2>2, MaxOf
<1>11. file' = Longer(file, offset, Len(moved), w)
  <2>1. ASSUME NEW k \in 1..(offset + w)
        PROVE  (IF k \in (offset + 1)..(offset + Len(cells)) THEN cells[k - offset]
                ELSE IF k <= Len(file) THEN file[k] ELSE 0)
                 = IF k > offset THEN Len(moved) + (k - offset)
                   ELSE IF k <= Len(file) THEN file[k] ELSE 0
    <3>1. CASE k > offset
      <4>1. k \in (offset + 1)..(offset + Len(cells)) /\ k - offset \in 1..w
        BY <1>4, <1>7, <3>1
      <4> QED
        BY <1>7, <3>1, <4>1
    <3>2. CASE ~(k > offset)
      <4>1. k \notin (offset + 1)..(offset + Len(cells))
        BY <1>4, <1>7, <3>2
      <4> QED
        BY <3>2, <4>1
    <3> QED
      BY <3>1, <3>2
  <2>2. offset + Len(cells) = offset + w
    BY <1>7
  <2> QED
    BY <1>9, <1>10, <2>1, <2>2 DEF Written, Longer
<1>12. Len(file') = offset + w /\ Laid(file', restart_pos, Len(moved) + n)
  <2>1. LET g == Longer(file, offset, Len(moved), w)
        IN  Len(g) = offset + w /\ Laid(g, restart_pos, Len(moved) + n)
    BY <1>4, <1>5, LaidOn, Zenon
  <2> QED
    BY <1>11, <2>1
<1> QED
  BY <1>2, <1>3, <1>4, <1>5, <1>8, <1>12 DEF Ordered

LEMMA StepOrdered == Inv /\ Ordered /\ [Next]_vars => Ordered'
<1> SUFFICES ASSUME Inv, Ordered, [Next]_vars PROVE Ordered'
  OBVIOUS
<1>1. ASSUME UNCHANGED <<cmd, restVars, offset, file, moved>> PROVE Ordered'
  BY <1>1 DEF Ordered
<1>2. CASE UNCHANGED cmd /\ cmd # "STOR"
  BY <1>2 DEF Ordered
<1>3. CASE (\E n \in 0..MaxSize : dorest(n)) \/ StorRefused
  BY <1>2, <1>3 DEF dorest, StorRefused, Inv, Places
<1>4. CASE doretr \/ EndRetr \/ EndStor
  BY <1>4 DEF doretr, Begin, EndRetr, EndStor, Forget, Ordered
<1>5. CASE SendBlock \/ SendTail \/ Truncate
  BY <1>2, <1>5 DEF SendBlock, SendTail, Truncate, Inv, Places
<1>6. CASE BlockMissing \/ PauseBlock \/ LoopDone \/ PauseStore
           \/ StoreDone \/ SpliceFails \/ JumpClock \/ UNCHANGED vars
  BY <1>1, <1>6 DEF BlockMissing, PauseBlock, LoopDone, PauseStore, StoreDone,
     SpliceFails, JumpClock, vars, fileVars
<1>7. CASE dostor
  <2>1. /\ cmd' = "STOR" /\ offset' = restart_pos /\ moved' = <<>> /\ file' = <<>>
        /\ restart_pos' = restart_pos
    BY <1>7 DEF dostor, Begin
  <2>2. restart_pos \in Nat /\ offset' = restart_pos
    BY <2>1, Facts
  <2>3. Len(file') = 0 /\ Len(moved') = 0
    BY <2>1
  <2>4. Laid(file', restart_pos', Len(moved'))
    BY <2>3 DEF Laid
  <2> QED
    BY <2>1, <2>2, <2>3, <2>4 DEF Ordered
<1>8. CASE StoreBlock
  BY <1>8, StoreBlockOrdered
<1> QED
  BY <1>3, <1>4, <1>5, <1>6, <1>7, <1>8 DEF Next, SessionStep

\* Even when writes of splice_stream are short, and what they left is dropped,
\* store_file leaves the file with what the client sent in the order in which
\* it was sent, and with no hole but the one in front of the offset.
THEOREM TransferStorInOrder == Spec => []StorInOrder
<1>1. Init => Ordered
  BY DEF Init, Ordered
<1>2. Inv /\ Promised /\ Ordered => StorInOrder
  <2> SUFFICES ASSUME Inv, Ordered, cmd = "STOR"
               PROVE  /\ \A j, k \in 1..Len(file) :
                           j < k /\ file[j] # 0 /\ file[k] # 0 => file[j] < file[k]
                      /\ \A k \in 1..Len(file) : file[k] = 0 => k <= restart_pos
    BY DEF StorInOrder, Promised
  <2>1. Laid(file, restart_pos, Len(moved))
    BY DEF Ordered
  <2>2. file \in Seq(Nat) /\ restart_pos \in Nat /\ Len(file) \in Nat
    BY Facts
  <2> QED
    BY <2>1, <2>2 DEF Laid
<1> QED
  BY <1>1, <1>2, StepOrdered, TransferInvariant, TransferPromised, PTL DEF Spec

-----------------------------------------------------------------------------
(***************************************************************************)
(* How fast a transfer is.                                                 *)
(***************************************************************************)

\* The shortest time that ends a window, by how much a window exceeds the cap,
\* what may be sent in that time with both, and what setting the clock is
\* worth.
Window == PROBE_INTERVAL + 1
Over == XFER_BLOCK_SIZE + throttle_rate - 1
Due == throttle_rate * Window
Pace == Due + Over
Gift == Window * (throttle_rate * PROBE_INTERVAL + Over)

\* total was sent by time n, part of it in windows that are over; the window
\* began at time y; the clock was set j times.  Before a block is sent, what
\* was sent is paid for, but for the excess of the windows that are over.
Paid(total, part, y, n, j) ==
  /\ y <= n
  /\ Window * part <= Pace * y + Gift * j
  /\ Window * (total - (throttle_rate - 1)) <= Due * n + Over * y + Gift * j

\* After a block and before throttle_pause another block is not paid for.  When
\* the clock was set in the meantime, nothing is known of the window but that
\* the gift is not used up.
Owed(total, part, y, n, j) ==
  \/ /\ y <= n
     /\ Window * part <= Pace * y + Gift * j
     /\ Window * (total - Over) <= Due * n + Over * y + Gift * j
  \/ /\ j >= 1
     /\ Window * part <= Pace * n + Gift * (j - 1)
     /\ Window * (total - Over) <= Pace * n + Gift * (j - 1)

\* Products of the constants with times and sizes.
LEMMA Times ==
  ASSUME NEW a \in Nat, NEW b \in Int, NEW c \in Int
  PROVE  /\ a * b \in Int /\ a * (b + c) = a * b + a * c /\ a * (b - c) = a * b - a * c
         /\ b <= c => a * b <= a * c
         /\ a * 0 = 0 /\ a * 1 = a
<1>1. b <= c => a * b <= a * c
  <2> SUFFICES ASSUME b <= c PROVE a * b <= a * c
    OBVIOUS
  <2>1. PICK d \in Nat : d = c - b
    OBVIOUS
  <2>2. a * d \in Nat /\ a * c = a * b + a * d
    BY <2>1
  <2> QED
    BY <2>2
<1> QED
  BY <1>1

LEMMA RateConstants ==
  ASSUME throttle_rate >= 1
  PROVE  /\ throttle_rate \in Nat /\ PROBE_INTERVAL \in Nat /\ XFER_BLOCK_SIZE \in Nat
         /\ Window \in Nat /\ Window = PROBE_INTERVAL + 1
         /\ Over \in Nat /\ Over = XFER_BLOCK_SIZE + (throttle_rate - 1)
         /\ Due \in Nat /\ Pace \in Nat /\ Gift \in Nat
         /\ Due <= Pace /\ Pace * PROBE_INTERVAL <= Gift /\ Window * Over <= Gift
<1> DEFINE R == throttle_rate
           P == PROBE_INTERVAL
           B == XFER_BLOCK_SIZE
<1>1. R \in Nat /\ R >= 1 /\ P \in Nat /\ B \in Nat
  BY ThrottleAssumption, TransferAssumption
<1>2. Window \in Nat /\ Window = P + 1 /\ Over \in Nat /\ Over = B + (R - 1)
  BY <1>1 DEF Window, Over
<1>3. Due = R * Window /\ Due \in Nat /\ Pace = Due + Over /\ Pace \in Nat
  <2>1. R * Window \in Nat
    BY <1>1, <1>2
  <2> QED
    BY <1>2, <2>1 DEF Due, Pace
<1>4. R * P \in Nat /\ Gift = Window * (R * P + Over) /\ Gift \in Nat
  <2>1. R * P \in Nat
    BY <1>1
  <2>2. R * P + Over \in Nat
    BY <1>2, <2>1
  <2>3. Window * (R * P + Over) \in Nat
    BY <1>2, <2>2
  <2> QED
    BY <2>1, <2>3 DEF Gift
<1> HIDE DEF R, P, B
<1>5. Gift = Window * (R * P) + Window * Over
  BY <1>2, <1>4, Times
<1>6. Window * Over = P * Over + Over /\ P * Over \in Nat
  BY <1>1, <1>2
<1>7. Pace * P = P * Due + P * Over
  BY <1>1, <1>2, <1>3
<1>8. P * Due = Window * (R * P) /\ Window * (R * P) \in Nat
  BY <1>1, <1>2, <1>3
<1>9. Due <= Pace /\ Pace * P <= Gift /\ Window * Over <= Gift
  BY <1>2, <1>3, <1>5, <1>6, <1>7, <1>8
<1> QED
  BY <1>1, <1>2, <1>3, <1>4, <1>9 DEF R, P, B

\* A block is sent.
LEMMA BlockOwed ==
  ASSUME throttle_rate >= 1, NEW total \in Int, NEW part \in Int, NEW y \in Int,
         NEW n \in Int, NEW j \in Int, NEW t \in Int, t <= total + XFER_BLOCK_SIZE,
         NEW m \in Int, n <= m, Paid(total, part, y, n, j)
  PROVE  Owed(t, part, y, m, j)
<1>1. /\ Window \in Nat /\ Due \in Nat /\ Over \in Nat /\ throttle_rate \in Nat
      /\ Over = XFER_BLOCK_SIZE + (throttle_rate - 1) /\ XFER_BLOCK_SIZE \in Nat
      /\ Gift \in Nat /\ Pace \in Nat
  BY RateConstants
<1>2. /\ y <= n
      /\ Window * part <= Pace * y + Gift * j
      /\ Window * (total - (throttle_rate - 1)) <= Due * n + Over * y + Gift * j
  BY DEF Paid
<1>3. t - Over \in Int /\ total - (throttle_rate - 1) \in Int
  BY <1>1
<1>4. Window * (t - Over) <= Window * (total - (throttle_rate - 1))
  <2>1. t - Over <= total - (throttle_rate - 1)
    BY <1>1
  <2> QED
    BY <1>1, <1>3, <2>1, Times
<1>5. Due * n <= Due * m
  BY <1>1, Times
<1>6. /\ Window * (t - Over) \in Int /\ Window * (total - (throttle_rate - 1)) \in Int
      /\ Due * n \in Int /\ Due * m \in Int /\ Over * y \in Int /\ Gift * j \in Int
  BY <1>1, <1>3, Times
<1>7. Window * (t - Over) <= Due * m + Over * y + Gift * j
  BY <1>2, <1>4, <1>5, <1>6
<1>8. y <= m
  BY <1>2
<1> QED
  BY <1>2, <1>7, <1>8 DEF Owed

\* The clock is set, which changes when the window began.
LEMMA JumpOwed ==
  ASSUME throttle_rate >= 1, NEW total \in Int, NEW part \in Int, NEW y \in Int,
         NEW n \in Int, NEW j \in Nat, NEW z, Owed(total, part, y, n, j)
  PROVE  Owed(total, part, z, n, j + 1)
<1>1. /\ Window \in Nat /\ Due \in Nat /\ Over \in Nat
      /\ Gift \in Nat /\ Pace \in Nat /\ Pace = Due + Over
  BY RateConstants DEF Pace
<1>2. /\ Window * part \in Int /\ Pace * n \in Int /\ Pace * y \in Int
      /\ Over * n \in Int /\ Over * y \in Int /\ Due * n \in Int
      /\ Gift * j \in Int /\ Gift * (j - 1) \in Int
  <2>1. j - 1 \in Int
    OBVIOUS
  <2> QED
    BY <1>1, <2>1, Times
<1>3. Window * (total - Over) \in Int
  <2>1. total - Over \in Int
    BY <1>1
  <2> QED
    BY <1>1, <2>1, Times
<1>4. Gift * (j - 1) <= Gift * j
  <2>1. j - 1 \in Int /\ j - 1 <= j
    OBVIOUS
  <2> QED
    BY <1>1, <2>1, Times
<1>5. Pace * n = Due * n + Over * n
  BY <1>1
<1>6. Window * part <= Pace * n + Gift * j /\ Window * (total - Over) <= Pace * n + Gift * j
  <2>1. CASE /\ y <= n
             /\ Window * part <= Pace * y + Gift * j
             /\ Window * (total - Over) <= Due * n + Over * y + Gift * j
    <3>1. Pace * y <= Pace * n /\ Over * y <= Over * n
      BY <1>1, <2>1, Times
    <3> QED
      BY <1>2, <1>3, <1>5, <2>1, <3>1
  <2>2. CASE /\ Window * part <= Pace * n + Gift * (j - 1)
             /\ Window * (total - Over) <= Pace * n + Gift * (j - 1)
    BY <1>2, <1>3, <1>4, <2>2
  <2> QED
    BY <2>1, <2>2 DEF Owed
<1>7. j + 1 >= 1 /\ j + 1 - 1 = j
  OBVIOUS
<1> QED
  BY <1>6, <1>7 DEF Owed

\* nanosleep() makes up for all but what the division rounds off.
LEMMA SleepPays ==
  ASSUME throttle_rate >= 1, NEW size \in Nat, NEW elapsed \in Nat
  PROVE  /\ Sleep(size, elapsed) \in Nat
         /\ size - (throttle_rate - 1) <= throttle_rate * (elapsed + Sleep(size, elapsed))
<1>1. throttle_rate \in Nat
  BY RateConstants
<1>2. ASSUME NEW R \in Nat, R >= 1, NEW d, d = size \div R
      PROVE  d \in Nat /\ size - (R - 1) <= R * d
  <2>1. d \in Nat /\ size = R * d + (size % R) /\ size % R \in 0..(R - 1)
    BY <1>2
  <2> QED
    BY <1>2, <2>1
<1> DEFINE d == size \div throttle_rate
<1>3. d \in Nat /\ size - (throttle_rate - 1) <= throttle_rate * d
  BY <1>1, <1>2
<1>4. Sleep(size, elapsed) = IF d < elapsed THEN 0 ELSE d - elapsed
  BY <1>1 DEF Sleep
<1> HIDE DEF d
<1>5. Sleep(size, elapsed) \in Nat /\ d <= elapsed + Sleep(size, elapsed)
  BY <1>3, <1>4
<1>6. throttle_rate * d <= throttle_rate * (elapsed + Sleep(size, elapsed))
  BY <1>1, <1>3, <1>5, Times
<1>7. /\ throttle_rate * d \in Int /\ throttle_rate * (elapsed + Sleep(size, elapsed)) \in Int
      /\ size - (throttle_rate - 1) \in Int
  <2>1. elapsed + Sleep(size, elapsed) \in Int
    BY <1>5
  <2> QED
    BY <1>1, <1>3, <2>1, Times
<1> QED
  BY <1>3, <1>5, <1>6, <1>7

\* What is sent in the window is paid for when throttle_pause does not end it.
LEMMA SleepPaid ==
  ASSUME throttle_rate >= 1, NEW total \in Int, NEW part \in Int, NEW y \in Int,
         NEW n \in Int, NEW j \in Int, NEW m \in Int, y <= n,
         total - part \in Nat, m = n + Sleep(total - part, n - y),
         Window * part <= Pace * y + Gift * j
  PROVE  Paid(total, part, y, m, j)
<1> DEFINE R == throttle_rate
           late == m - y
<1>1. /\ Window \in Nat /\ Due \in Nat /\ Over \in Nat /\ R \in Nat
      /\ Gift \in Nat /\ Pace \in Nat /\ Pace = Due + Over /\ Due = R * Window
  BY RateConstants DEF Pace, Due
<1>2. n - y \in Nat
  OBVIOUS
<1>3. /\ Sleep(total - part, n - y) \in Nat
      /\ total - part - (R - 1) <= R * (n - y + Sleep(total - part, n - y))
  BY <1>2, SleepPays
<1>4. n - y + Sleep(total - part, n - y) = late /\ late \in Nat
  BY <1>2, <1>3
<1>5. total - part - (R - 1) <= R * late
  BY <1>3, <1>4
<1>6. y <= m
  BY <1>4
<1>7. late = m - y
  OBVIOUS
<1> HIDE DEF late, R
<1>8. R * late \in Int /\ total - part - (R - 1) \in Int
  BY <1>1, <1>4
<1>9. Window * (total - part - (R - 1)) <= Window * (R * late)
  BY <1>1, <1>5, <1>8, Times
<1>10. Window * (total - part - (R - 1)) = Window * (total - (R - 1)) - Window * part
  <2>1. total - (R - 1) \in Int /\ total - part - (R - 1) = (total - (R - 1)) - part
    BY <1>1
  <2> QED
    BY <1>1, <2>1, Times
<1>11. Window * (R * late) = Due * late
  BY <1>1, <1>4
<1>12. Due * late = Due * m - Due * y
  BY <1>1, <1>7, Times
<1>13. Pace * y = Due * y + Over * y
  BY <1>1
<1>14. /\ Window * (total - (R - 1)) \in Int /\ Window * part \in Int /\ Due * m \in Int
       /\ Due * y \in Int /\ Over * y \in Int /\ Gift * j \in Int
  <2>1. total - (R - 1) \in Int
    BY <1>1
  <2> QED
    BY <1>1, <2>1, Times
<1>15. Window * (total - (R - 1)) <= Due * m + Over * y + Gift * j
  BY <1>9, <1>10, <1>11, <1>12, <1>13, <1>14
<1> QED
  BY <1>6, <1>15 DEF Paid, R

\* A window begins anew, ended by its length, or by the clock.
LEMMA AnewPaid ==
  ASSUME throttle_rate >= 1, NEW total \in Int, NEW part \in Int, NEW y \in Int,
         NEW n \in Int, NEW j \in Nat, NEW m \in Int, n <= m, NEW rest \in Int,
         Owed(total, part, y, n, j),
         \/ y + PROBE_INTERVAL < n /\ rest = total
         \/ n < y /\ rest = part
  PROVE  Paid(total, rest, n, m, j)
<1> DEFINE R == throttle_rate
<1>1. /\ Window \in Nat /\ Due \in Nat /\ Over \in Nat /\ R \in Nat
      /\ Gift \in Nat /\ Pace \in Nat /\ Pace = Due + Over
      /\ Window * Over <= Gift /\ Over = XFER_BLOCK_SIZE + (R - 1)
      /\ PROBE_INTERVAL \in Nat /\ Window = PROBE_INTERVAL + 1 /\ XFER_BLOCK_SIZE \in Nat
  BY RateConstants DEF Pace
<1> HIDE DEF R
<1>2. /\ Window * part \in Int /\ Window * total \in Int /\ Window * Over \in Int
      /\ Pace * n \in Int /\ Pace * y \in Int /\ Over * Window \in Int
      /\ Over * n \in Int /\ Over * y \in Int /\ Due * n \in Int /\ Due * m \in Int
      /\ Gift * j \in Int
  BY <1>1, Times
<1>3. Window * (total - Over) = Window * total - Window * Over
  BY <1>1, Times
<1>4. Pace * n = Due * n + Over * n
  BY <1>1
<1>5. Due * n <= Due * m
  BY <1>1, Times
<1>6. Gift * (j - 1) = Gift * j - Gift
  BY <1>1, Times
<1>7. /\ Window * total <= Pace * n + Gift * j
      /\ n < y => Window * part <= Pace * n + Gift * j
  <2>1. CASE /\ y <= n
             /\ Window * (total - Over) <= Due * n + Over * y + Gift * j
    <3>1. y + Window \in Int /\ y + Window <= n
      BY <1>1, <2>1
    <3>2. Over * (y + Window) <= Over * n
      BY <1>1, <3>1, Times
    <3>3. Over * (y + Window) = Over * y + Over * Window
      BY <1>1, Times
    <3>4. Over * Window = Window * Over
      BY <1>1
    <3> QED
      BY <1>2, <1>3, <1>4, <2>1, <3>2, <3>3, <3>4
  <2>2. CASE /\ Window * part <= Pace * n + Gift * (j - 1)
             /\ Window * (total - Over) <= Pace * n + Gift * (j - 1)
    BY <1>1, <1>2, <1>3, <1>6, <2>2
  <2> QED
    BY <2>1, <2>2 DEF Owed
<1>8. Window * rest <= Pace * n + Gift * j
  <2>1. CASE rest = total
    BY <1>7, <2>1
  <2>2. CASE n < y /\ rest = part
    BY <1>7, <2>2
  <2> QED
    BY <2>1, <2>2
<1>9. Window * (total - (R - 1)) <= Window * total /\ Window * (total - (R - 1)) \in Int
  <2>1. total - (R - 1) \in Int /\ total - (R - 1) <= total
    BY <1>1 DEF R
  <2> QED
    BY <1>1, <2>1, Times
<1>10. Window * (total - (R - 1)) <= Due * m + Over * n + Gift * j
  BY <1>2, <1>4, <1>5, <1>7, <1>9
<1> QED
  BY <1>8, <1>10 DEF Paid, R

\* throttle_pause pays for what was sent, as far as it does.
LEMMA PausePaid ==
  ASSUME throttle_rate >= 1, NEW total \in Nat, NEW l \in Nat, l <= total,
         NEW y \in Int, NEW n \in Nat, NEW j \in Nat,
         Owed(total, total - l, y, n, j)
  PROVE  /\ n < y => Paid(total, total - l, n, n, j)
         /\ y + PROBE_INTERVAL < n => Paid(total, total, n, n + Sleep(l, n - y), j)
         /\ y <= n /\ n <= y + PROBE_INTERVAL =>
              Paid(total, total - l, y, n + Sleep(l, n - y), j)
<1>1. PROBE_INTERVAL \in Nat /\ Gift \in Nat /\ Pace \in Nat /\ Window \in Nat
      /\ Pace * PROBE_INTERVAL <= Gift
  BY RateConstants
<1>2. total - l \in Int /\ total - (total - l) = l
  OBVIOUS
<1>3. ASSUME n < y PROVE Paid(total, total - l, n, n, j)
  BY <1>2, <1>3, AnewPaid, SMTT(30)
<1>4. ASSUME y <= n PROVE Sleep(l, n - y) \in Nat
  <2>1. n - y \in Nat
    BY <1>4
  <2> QED
    BY <2>1, SleepPays
<1>5. ASSUME y + PROBE_INTERVAL < n PROVE Paid(total, total, n, n + Sleep(l, n - y), j)
  <2>1. Sleep(l, n - y) \in Nat
    BY <1>1, <1>4, <1>5
  <2>2. n + Sleep(l, n - y) \in Int /\ n <= n + Sleep(l, n - y)
    BY <2>1
  <2>3. ASSUME NEW m \in Int, n <= m PROVE Paid(total, total, n, m, j)
    BY <1>2, <1>5, <2>3, AnewPaid, SMTT(30)
  <2> QED
    BY <2>2, <2>3
<1>6. ASSUME y <= n, n <= y + PROBE_INTERVAL
      PROVE  Paid(total, total - l, y, n + Sleep(l, n - y), j)
  <2>1. n + Sleep(l, n - y) \in Int
    BY <1>4, <1>6
  <2>2. /\ Window * (total - l) \in Int /\ Pace * y \in Int /\ Pace * n \in Int
        /\ Pace * PROBE_INTERVAL \in Int /\ Gift * j \in Int
    BY <1>1, <1>2, Times
  <2>3. Pace * n <= Pace * (y + PROBE_INTERVAL)
    <3>1. y + PROBE_INTERVAL \in Int
      BY <1>1
    <3> QED
      BY <1>1, <1>6, <3>1, Times
  <2>4. Pace * (y + PROBE_INTERVAL) = Pace * y + Pace * PROBE_INTERVAL
    BY <1>1, Times
  <2>5. Gift * (j - 1) = Gift * j - Gift
    BY <1>1, Times
  <2>6. Window * (total - l) <= Pace * y + Gift * j
    <3>1. CASE Window * (total - l) <= Pace * n + Gift * (j - 1)
      BY <1>1, <2>2, <2>3, <2>4, <2>5, <3>1
    <3> QED
      BY <3>1 DEF Owed
  <2> QED
    BY <1>2, <1>6, <2>1, <2>6, SleepPaid
<1> QED
  BY <1>3, <1>5, <1>6

-----------------------------------------------------------------------------

ClockTypes ==
  /\ now \in Nat /\ skew \in Int /\ xfer_probe \in Int /\ probe_len \in Nat
  /\ jumps \in Nat
  /\ probe_len <= xfer_len

\* When the window began, in real time.
began == xfer_probe - skew

Throttled ==
  throttle_rate >= 1 =>
    /\ pc \in {"block", "store"} =>
         Paid(xfer_len, xfer_len - probe_len, began, now, jumps)
    /\ pc \in {"pause", "spause"} =>
         Owed(xfer_len, xfer_len - probe_len, began, now, jumps)

RateInv == ClockTypes /\ Throttled

\* Nothing was sent when a transfer begins.
LEMMA BeginPaid == ASSUME throttle_rate >= 1 PROVE Paid(0, 0 - 0, 0 - 0, 0, 0)
<1>1. /\ Window \in Nat /\ Due \in Nat /\ Over \in Nat /\ throttle_rate \in Nat
      /\ Gift \in Nat /\ Pace \in Nat
  BY RateConstants
<1>2. Window * 0 = 0 /\ Pace * 0 = 0 /\ Gift * 0 = 0 /\ Due * 0 = 0 /\ Over * 0 = 0
  BY <1>1
<1>3. 0 - (throttle_rate - 1) \in Int /\ 0 - (throttle_rate - 1) <= 0
  BY <1>1
<1>4. Window * (0 - (throttle_rate - 1)) <= 0
  BY <1>1, <1>2, <1>3, Times
<1> QED
  BY <1>2, <1>4 DEF Paid

LEMMA ClockFacts ==
  ASSUME Inv, ClockTypes
  PROVE  /\ now \in Nat /\ skew \in Int /\ xfer_probe \in Int /\ probe_len \in Nat
         /\ jumps \in Nat /\ xfer_len \in Nat /\ probe_len <= xfer_len
         /\ began \in Int /\ xfer_len - probe_len \in Int
         /\ diff = now - began /\ XFER_BLOCK_SIZE \in Nat
<1>1. /\ now \in Nat /\ skew \in Int /\ xfer_probe \in Int /\ probe_len \in Nat
      /\ jumps \in Nat /\ xfer_len \in Nat /\ probe_len <= xfer_len
      /\ XFER_BLOCK_SIZE \in Nat
  BY Facts DEF ClockTypes
<1> QED
  BY <1>1 DEF began, diff, Clock

\* A block of either transfer, of which size is counted.
LEMMA ProbeRate ==
  ASSUME Inv, RateInv, pc \in {"block", "store"}, pc' \in {"pause", "spause"},
         NEW delay \in Delays, NEW size \in 0..XFER_BLOCK_SIZE, Probe(delay, size),
         xfer_len' = xfer_len + size, UNCHANGED jumps
  PROVE  RateInv'
<1>1. /\ now' = now + delay /\ probe_len' = probe_len + size
      /\ skew' = skew /\ xfer_probe' = xfer_probe /\ began' = began
  BY DEF Probe, began
<1>2. delay \in Nat /\ size \in Nat /\ size <= XFER_BLOCK_SIZE
  BY Facts, TransferAssumption
<1>3. ClockTypes'
  BY <1>1, <1>2, ClockFacts DEF RateInv, ClockTypes
<1>4. /\ xfer_len' - probe_len' = xfer_len - probe_len
      /\ xfer_len' \in Int /\ xfer_len' <= xfer_len + XFER_BLOCK_SIZE
      /\ now' \in Int /\ now <= now'
  BY <1>1, <1>2, ClockFacts DEF RateInv
<1>5. ASSUME throttle_rate >= 1
      PROVE  Owed(xfer_len', xfer_len - probe_len, began, now', jumps)
  <2>1. Paid(xfer_len, xfer_len - probe_len, began, now, jumps)
    BY <1>5 DEF RateInv, Throttled
  <2>2. /\ xfer_len \in Int /\ xfer_len - probe_len \in Int /\ began \in Int
        /\ now \in Int /\ jumps \in Int
    BY ClockFacts DEF RateInv
  <2> QED
    BY <1>4, <1>5, <2>1, <2>2, BlockOwed
<1>6. Throttled'
  BY <1>1, <1>4, <1>5 DEF Throttled
<1> QED
  BY <1>3, <1>6 DEF RateInv

\* throttle_pause in either transfer.
LEMMA PauseRate ==
  ASSUME Inv, RateInv, pc \in {"pause", "spause"}, pc' \in {"block", "store", "end"},
         throttle_pause, UNCHANGED <<xfer_len, jumps>>
  PROVE  RateInv'
<1>1. /\ now \in Nat /\ skew \in Int /\ xfer_probe \in Int /\ probe_len \in Nat
      /\ jumps \in Nat /\ xfer_len \in Nat /\ probe_len <= xfer_len
      /\ began \in Int /\ diff = now - began /\ diff \in Int
  BY ClockFacts DEF RateInv
<1>2. Clock \in Int /\ Clock - skew = now
  BY <1>1 DEF Clock
<1>3. PROBE_INTERVAL \in Nat
  BY ThrottleAssumption
<1>4. ASSUME throttle_rate >= 1
      PROVE  /\ now < began => Paid(xfer_len, xfer_len - probe_len, now, now, jumps)
             /\ began + PROBE_INTERVAL < now =>
                  Paid(xfer_len, xfer_len, now, now + Sleep(probe_len, now - began), jumps)
             /\ began <= now /\ now <= began + PROBE_INTERVAL =>
                  Paid(xfer_len, xfer_len - probe_len, began,
                       now + Sleep(probe_len, now - began), jumps)
  <2>1. Owed(xfer_len, xfer_len - probe_len, began, now, jumps)
    BY <1>4 DEF RateInv, Throttled
  <2> QED
    BY <1>1, <1>4, <2>1, PausePaid
<1>5. ASSUME diff >= 0 PROVE Sleep(probe_len, diff) \in Nat
  <2>1. CASE throttle_rate >= 1
    <3>1. diff \in Nat
      BY <1>1, <1>5
    <3> QED
      BY <1>1, <2>1, <3>1, SleepPays
  <2>2. CASE throttle_rate < 1
    BY <2>2 DEF Sleep
  <2> QED
    BY <2>1, <2>2, ThrottleAssumption
<1>6. CASE /\ diff < 0 /\ xfer_probe' = Clock /\ UNCHANGED <<now, skew, probe_len>>
  <2>1. ClockTypes'
    BY <1>1, <1>2, <1>6 DEF ClockTypes
  <2>2. began' = now /\ now < began
    BY <1>1, <1>2, <1>6 DEF began
  <2>3. Throttled'
    BY <1>4, <1>6, <2>2 DEF Throttled
  <2> QED
    BY <2>1, <2>3 DEF RateInv
<1>7. CASE /\ diff >= 0 /\ diff > PROBE_INTERVAL
           /\ xfer_probe' = Clock /\ probe_len' = 0
           /\ now' = now + Sleep(probe_len, diff) /\ UNCHANGED skew
  <2>1. ClockTypes'
    BY <1>1, <1>2, <1>5, <1>7 DEF ClockTypes
  <2>2. began' = now /\ began + PROBE_INTERVAL < now /\ xfer_len' - probe_len' = xfer_len
    BY <1>1, <1>2, <1>3, <1>7 DEF began
  <2>3. now' = now + Sleep(probe_len, now - began)
    BY <1>1, <1>7
  <2>4. Throttled'
    BY <1>4, <2>2, <2>3 DEF Throttled
  <2> QED
    BY <2>1, <2>4 DEF RateInv
<1>8. CASE /\ diff >= 0 /\ ~(diff > PROBE_INTERVAL)
           /\ UNCHANGED <<xfer_probe, probe_len, skew>>
           /\ now' = now + Sleep(probe_len, diff)
  <2>1. ClockTypes'
    BY <1>1, <1>5, <1>8 DEF ClockTypes
  <2>2. began' = began /\ began <= now /\ now <= began + PROBE_INTERVAL
    BY <1>1, <1>3, <1>8 DEF began
  <2>3. now' = now + Sleep(probe_len, now - began)
    BY <1>1, <1>8
  <2>4. Throttled'
    BY <1>4, <1>8, <2>2, <2>3 DEF Throttled
  <2> QED
    BY <2>1, <2>4 DEF RateInv
<1> QED
  BY <1>6, <1>7, <1>8 DEF throttle_pause

\* The clock is set before a pause.
LEMMA JumpRate == ASSUME Inv, RateInv, JumpClock PROVE RateInv'
<1>1. PICK jump \in Jumps : skew' = skew + jump
  BY DEF JumpClock, SetClock
<1>2. /\ pc \in {"pause", "spause"} /\ jumps' = jumps + 1
      /\ UNCHANGED <<now, xfer_probe, probe_len, pc, xfer_len>>
  BY DEF JumpClock, SetClock, fileVars
<1>3. jump \in Int
  BY TransferAssumption
<1>4. ClockTypes'
  BY <1>1, <1>2, <1>3, ClockFacts DEF RateInv, ClockTypes
<1>5. ASSUME throttle_rate >= 1, NEW z
      PROVE  Owed(xfer_len, xfer_len - probe_len, z, now, jumps + 1)
  <2>1. Owed(xfer_len, xfer_len - probe_len, began, now, jumps)
    BY <1>2, <1>5 DEF RateInv, Throttled
  <2>2. /\ xfer_len \in Int /\ xfer_len - probe_len \in Int /\ began \in Int
        /\ now \in Int /\ jumps \in Nat
    BY ClockFacts DEF RateInv
  <2> QED
    BY <1>5, <2>1, <2>2, JumpOwed
<1>6. Throttled'
  BY <1>2, <1>5 DEF Throttled
<1> QED
  BY <1>4, <1>6 DEF RateInv

LEMMA InitRate == Init => RateInv
<1> SUFFICES ASSUME Init PROVE RateInv
  OBVIOUS
<1>1. /\ now = 0 /\ skew = 0 /\ xfer_probe = 0 /\ probe_len = 0 /\ pc = "idle"
      /\ xfer_len = 0 /\ jumps = 0
  BY DEF Init
<1> QED
  BY <1>1 DEF RateInv, ClockTypes, Throttled

LEMMA StepRate == Inv /\ RateInv /\ [Next]_vars => RateInv'
<1> SUFFICES ASSUME Inv, RateInv, [Next]_vars PROVE RateInv'
  OBVIOUS
<1>1. ASSUME UNCHANGED <<throttleVars, xfer_len, jumps>>,
             pc' = pc \/ pc' \in {"tail", "end", "idle"}
      PROVE  RateInv'
  BY <1>1 DEF throttleVars, RateInv, ClockTypes, Throttled, began
<1>2. ASSUME ResetProbe, xfer_len' = 0, jumps' = 0, pc' \in {"block", "store", "idle"}
      PROVE  RateInv'
  <2>1. /\ now' = 0 /\ skew' = 0 /\ xfer_probe' = 0 /\ probe_len' = 0
        /\ began' = 0 - 0
    BY <1>2 DEF ResetProbe, began
  <2>2. ClockTypes'
    BY <1>2, <2>1 DEF ClockTypes
  <2>3. Throttled'
    BY <1>2, <2>1, BeginPaid DEF Throttled
  <2> QED
    BY <2>2, <2>3 DEF RateInv
<1>3. CASE doretr \/ dostor \/ EndRetr \/ EndStor
  BY <1>2, <1>3 DEF doretr, dostor, Begin, EndRetr, EndStor, Forget
<1>4. CASE (\E n \in 0..MaxSize : dorest(n)) \/ BlockMissing \/ LoopDone
           \/ StorRefused \/ StoreDone \/ SpliceFails \/ Truncate \/ UNCHANGED vars
  BY <1>1, <1>4 DEF dorest, StorRefused, BlockMissing, LoopDone, StoreDone, SpliceFails,
     Truncate, Return, vars, fileVars
<1>5. CASE SendTail
  <2>1. /\ pc' = "end" /\ UNCHANGED <<now, skew, xfer_probe, probe_len, jumps>>
        /\ xfer_len' = xfer_len + remainder
    BY <1>5 DEF SendTail, Return, throttleVars
  <2>2. remainder \in Nat
    BY Facts, BlocksOf DEF remainder
  <2>3. ClockTypes'
    BY <2>1, <2>2, ClockFacts DEF RateInv, ClockTypes
  <2> QED
    BY <2>1, <2>3 DEF RateInv, Throttled
<1>6. CASE SendBlock
  <2>1. PICK delay \in Delays : Probe(delay, XFER_BLOCK_SIZE)
    BY <1>6 DEF SendBlock
  <2>2. /\ pc = "block" /\ pc' = "pause" /\ xfer_len' = xfer_len + XFER_BLOCK_SIZE
        /\ UNCHANGED jumps
    BY <1>6 DEF SendBlock
  <2>3. XFER_BLOCK_SIZE \in 0..XFER_BLOCK_SIZE
    BY Facts
  <2> QED
    BY <2>1, <2>2, <2>3, ProbeRate
<1>7. CASE StoreBlock
  <2>0. PICK delay \in Delays, n \in 1..XFER_BLOCK_SIZE :
          \E w \in 1..n : xfer_len' = xfer_len + w /\ Probe(delay, w)
    BY <1>7 DEF StoreBlock
  <2>1. PICK w \in 1..n : xfer_len' = xfer_len + w /\ Probe(delay, w)
    BY <2>0
  <2>2. pc = "store" /\ pc' = "spause" /\ UNCHANGED jumps
    BY <1>7 DEF StoreBlock
  <2>3. w \in 0..XFER_BLOCK_SIZE
    BY Facts
  <2> QED
    BY <2>1, <2>2, <2>3, ProbeRate
<1>8. CASE PauseBlock \/ PauseStore
  <2>1. /\ pc \in {"pause", "spause"} /\ pc' \in {"block", "store", "end"}
        /\ throttle_pause /\ UNCHANGED <<xfer_len, jumps>>
    BY <1>8 DEF PauseBlock, PauseStore, Return
  <2> QED
    BY <2>1, PauseRate
<1>9. CASE JumpClock
  BY <1>9, JumpRate
<1> QED
  BY <1>3, <1>4, <1>5, <1>6, <1>7, <1>8, <1>9 DEF Next, SessionStep

\* throttle_pause lets a transfer exceed the cap by no more than a block and
\* what its division rounds off in each window, and by a window's worth each
\* time the clock is set: for every cap, window, size of a block, speed of the
\* connection and setting of the clock.
THEOREM TransferRateBound == Spec => []RateBound
<1>1. Inv /\ RateInv => RateBound
  <2> SUFFICES ASSUME Inv, RateInv, throttle_rate >= 1, pc \in {"block", "store"}
               PROVE  Window * (xfer_len - (throttle_rate - 1)) <= Pace * now + Gift * jumps
    BY DEF RateBound, Window, Over, Due, Pace, Gift
  <2>1. Paid(xfer_len, xfer_len - probe_len, began, now, jumps)
    BY DEF RateInv, Throttled
  <2>2. /\ began <= now
        /\ Window * (xfer_len - (throttle_rate - 1))
             <= Due * now + Over * began + Gift * jumps
    BY <2>1 DEF Paid
  <2>3. /\ now \in Int /\ began \in Int /\ jumps \in Int /\ xfer_len \in Int
        /\ Window \in Nat /\ Due \in Nat /\ Over \in Nat /\ Gift \in Nat
        /\ throttle_rate \in Nat /\ Pace = Due + Over
    BY ClockFacts, RateConstants DEF RateInv, Pace
  <2>4. Over * began <= Over * now /\ Pace * now = Due * now + Over * now
    BY <2>2, <2>3, Times
  <2>5. /\ Due * now \in Int /\ Over * began \in Int /\ Over * now \in Int
        /\ Gift * jumps \in Int /\ Window * (xfer_len - (throttle_rate - 1)) \in Int
    <3>1. xfer_len - (throttle_rate - 1) \in Int
      BY <2>3
    <3> QED
      BY <2>3, <3>1, Times
  <2> QED
    BY <2>2, <2>4, <2>5
<1> QED
  BY <1>1, InitRate, StepRate, TransferInvariant, PTL DEF Spec

=============================================================================
