--------------------------- MODULE DaemonProofs ---------------------------
(***************************************************************************)
(* Theorems about the daemon for every number of pids, every table of      *)
(* report sizes that StatePipe assumes, and every set of faults.           *)
(***************************************************************************)
EXTENDS Daemon, FiniteSetTheorems, TLAPS

-----------------------------------------------------------------------------
(***************************************************************************)
(* The pipe                                                                *)
(***************************************************************************)

\* buf_size is a positive number for every type of report, and the two ends
\* of the pipe agree on it (state.c: the table and the recv_ functions).
LEMMA SizesAgree ==
  \A type \in Types : buf_size(type) \in Nat \ {0}
                        /\ recv_size(type) = buf_size(type)
BY SizeAssumption, LoginSizeAssumption DEF Types, buf_size, recv_size

\* seek_pipe discards exactly as much as it is asked to.
LEMMA SeekPipeExact == \A n \in Nat : seek_pipe(n) = n
BY SizeAssumption DEF seek_pipe

\* The type of a report is one of the five in the table.
LEMMA MessageTypes == \A msg \in Messages : msg.type \in Types /\ msg.pid \in Pids
BY DEF Messages, Types

\* A cell of the stream is a byte of a report, at an offset.
LEMMA CellParts == \A c \in Cell : c.msg \in Messages /\ c.off \in Nat
BY DEF Cell

\* What one writev() adds is a sequence of cells, of the size it should have.
LEMMA CellsType ==
  ASSUME NEW msg \in Messages
  PROVE  /\ Cells(msg) \in Seq(Cell)
         /\ Len(Cells(msg)) = 1 + buf_size(msg.type)
         /\ \A k \in 1..(1 + buf_size(msg.type)) :
              Cells(msg)[k] = [msg |-> msg, off |-> k - 1]
<1>1. buf_size(msg.type) \in Nat
  BY MessageTypes, SizesAgree
<1>2. \A k \in 1..(1 + buf_size(msg.type)) :
        k - 1 \in Nat /\ [msg |-> msg, off |-> k - 1] \in Cell
  BY <1>1 DEF Cell
<1>3. Cells(msg) \in [1..(1 + buf_size(msg.type)) -> Cell]
  BY <1>2 DEF Cells
<1>4. Cells(msg) \in Seq(Cell) /\ Len(Cells(msg)) = 1 + buf_size(msg.type)
  <2> HIDE DEF Cell
  <2> QED BY <1>1, <1>3
<1> QED
  BY <1>4 DEF Cells

\* read() leaves a sequence of cells, however much it takes.
LEMMA ConsumeType ==
  ASSUME NEW s \in Seq(Cell), NEW n \in Nat
  PROVE  Consume(s, 1 + n) \in Seq(Cell)
BY DEF Consume

\* The stream after a report was written.
LEMMA WriteCells ==
  ASSUME NEW s \in Seq(Cell), NEW msg \in Messages
  PROVE  /\ buf_size(msg.type) \in Nat
         /\ s \o Cells(msg) \in Seq(Cell)
         /\ Len(s \o Cells(msg)) = Len(s) + 1 + buf_size(msg.type)
         /\ \A i \in 1..Len(s) : (s \o Cells(msg))[i] = s[i]
         /\ \A k \in 0..buf_size(msg.type) :
              (s \o Cells(msg))[Len(s) + 1 + k] = [msg |-> msg, off |-> k]
<1>1. buf_size(msg.type) \in Nat
  BY MessageTypes, SizesAgree
<1> QED
  BY <1>1, CellsType

\* Writing a report in one piece keeps the stream framed.
LEMMA WriteKeepsFrames ==
  ASSUME NEW s \in Seq(Cell), CompleteReports(s), NEW msg \in Messages
  PROVE  CompleteReports(s \o Cells(msg))
<1> DEFINE t == s \o Cells(msg)
           b == buf_size(msg.type)
<1>1. b \in Nat
  BY WriteCells
<1>2. /\ t \in Seq(Cell) /\ Len(t) = Len(s) + 1 + b
      /\ \A i \in 1..Len(s) : t[i] = s[i]
      /\ \A k \in 0..b : t[Len(s) + 1 + k] = [msg |-> msg, off |-> k]
  BY WriteCells
<1> HIDE DEF t
<1> SUFFICES ASSUME NEW i \in 1..Len(t)
             PROVE  FrameAt(t, i)
  BY DEF CompleteReports, t
<1>3. CASE i \in 1..Len(s)
  <2>1. t[i] = s[i] /\ s[i] \in Cell /\ s[i].msg \in Messages
    BY <1>2, <1>3, CellParts
  <2>2. buf_size(s[i].msg.type) \in Nat
    BY <2>1, MessageTypes, SizesAgree
  <2>3. FrameAt(s, i)
    BY <1>3 DEF CompleteReports
  <2> DEFINE c == s[i]
             size == buf_size(c.msg.type)
             start == i - c.off
  <2>4. /\ c.off \in 0..size /\ start >= 1 /\ start + size <= Len(s)
        /\ \A k \in 0..size : s[start + k] = [msg |-> c.msg, off |-> k]
    BY <2>3 DEF FrameAt
  <2>5. c.off \in Nat /\ size \in Nat
    BY <2>1, <2>2 DEF Cell
  <2> HIDE DEF c, size
  <2>6. \A k \in 0..size : start + k \in 1..Len(s)
    BY <1>3, <2>4, <2>5
  <2>7. \A k \in 0..size : t[start + k] = [msg |-> c.msg, off |-> k]
    BY <1>2, <2>4, <2>6
  <2>8. t[i] = c
    BY <2>1 DEF c
  <2> QED
    BY <1>1, <1>2, <1>3, <2>4, <2>5, <2>7, <2>8 DEF FrameAt, size
<1>4. CASE i \notin 1..Len(s)
  <2>1. PICK k \in 0..b : i = Len(s) + 1 + k
    <3>1. i - Len(s) - 1 \in 0..b
      BY <1>1, <1>2, <1>4
    <3> QED
      BY <3>1, <1>2
  <2>2. t[i] = [msg |-> msg, off |-> k]
    BY <1>2, <2>1
  <2>3. /\ t[i].off = k /\ t[i].msg = msg /\ i - k = Len(s) + 1
        /\ Len(s) + 1 + b <= Len(t)
    BY <1>1, <1>2, <2>1, <2>2
  <2> QED
    BY <1>1, <1>2, <2>1, <2>3 DEF FrameAt
<1> QED
  BY <1>3, <1>4

\* Reading the report at the front, header and body, keeps it framed.
LEMMA ReadKeepsFrames ==
  ASSUME NEW s \in Seq(Cell), s # <<>>, CompleteReports(s)
  PROVE  /\ s[1].off = 0
         /\ Consume(s, 1 + buf_size(s[1].msg.type)) \in Seq(Cell)
         /\ CompleteReports(Consume(s, 1 + buf_size(s[1].msg.type)))
<1> DEFINE b == buf_size(s[1].msg.type)
           n == 1 + b
           t == Consume(s, n)
<1>1. Len(s) >= 1 /\ s[1] \in Cell /\ s[1].msg \in Messages /\ s[1].off \in Nat
  <2>1. Len(s) >= 1 /\ s[1] \in Cell
    OBVIOUS
  <2> QED BY <2>1, CellParts
<1>2. b \in Nat
  BY <1>1, MessageTypes, SizesAgree
<1>3. s[1].off = 0 /\ n <= Len(s)
      /\ \A k \in 0..b : s[1 + k] = [msg |-> s[1].msg, off |-> k]
  BY <1>1, <1>2 DEF CompleteReports, FrameAt
<1>4. t \in Seq(Cell) /\ Len(t) = Len(s) - n
      /\ \A i \in 1..Len(t) : t[i] = s[n + i]
  BY <1>1, <1>2, <1>3, SMTT(30) DEF Consume
<1> HIDE DEF t, n, b
<1>5. CompleteReports(t)
  <2> SUFFICES ASSUME NEW i \in 1..Len(t)
               PROVE  FrameAt(t, i)
    BY DEF CompleteReports
  <2> DEFINE j == n + i
             c == s[j]
             size == buf_size(c.msg.type)
             start == j - c.off
  <2>0. /\ j \in 1..Len(s) /\ j = n + i /\ n = 1 + b
        /\ i \in Nat /\ n \in Nat /\ Len(t) \in Nat /\ Len(s) \in Nat
    BY <1>1, <1>2, <1>3, <1>4 DEF n
  <2> HIDE DEF j
  <2>1. c \in Cell /\ c.msg \in Messages /\ c.off \in Nat
    BY <2>0, CellParts
  <2>2. size \in Nat
    BY <2>1, MessageTypes, SizesAgree
  <2>3. /\ c.off \in 0..size
        /\ start >= 1
        /\ start + size <= Len(s)
        /\ \A k \in 0..size : s[start + k] = [msg |-> c.msg, off |-> k]
    <3>1. FrameAt(s, j)
      BY <2>0 DEF CompleteReports
    <3> QED BY <3>1 DEF FrameAt
  <2> HIDE DEF c, size
  <2>4. start > n
    <3> SUFFICES ASSUME start <= n PROVE FALSE
      BY <2>0, <2>1, <2>2, <2>3, <1>2
    <3>1. start - 1 \in 0..b /\ start = 1 + (start - 1)
      BY <2>0, <2>1, <2>2, <2>3, <1>2, SMTT(30)
    <3>2. s[start] = [msg |-> s[1].msg, off |-> start - 1]
      BY <3>1, <1>3
    <3>3. s[start] = [msg |-> c.msg, off |-> 0]
      <4>1. 0 \in 0..size /\ start + 0 = start
        BY <2>0, <2>1, <2>2
      <4> QED BY <4>1, <2>3
    <3>4. start = 1 /\ c.msg = s[1].msg
      BY <3>2, <3>3, <3>1
    <3>5. size = b
      BY <3>4 DEF size, b
    <3> QED
      BY <3>4, <3>5, <2>0, <2>1, <2>2, <2>3, <1>2
  <2>5. t[i] = c
    BY <1>4, <2>0 DEF c
  <2>6. \A k \in 0..size : t[(i - c.off) + k] = [msg |-> c.msg, off |-> k]
    <3> TAKE k \in 0..size
    <3>0. k \in Nat /\ k <= size /\ start > n /\ start + size <= Len(s)
      BY <2>2, <2>3, <2>4
    <3>1. (i - c.off) + k \in 1..Len(t) /\ n + ((i - c.off) + k) = start + k
      <4> DEFINE o == c.off
      <4>1. o \in Nat /\ start = n + i - o /\ Len(t) = Len(s) - n
        BY <2>0, <2>1, <1>4
      <4> HIDE DEF o
      <4>2. (i - o) + k \in 1..Len(t)
        BY <4>1, <3>0, <2>0, <2>2, SMTT(30)
      <4>3. n + ((i - o) + k) = start + k
        BY <4>1, <3>0, <2>0
      <4> QED BY <4>2, <4>3 DEF o
    <3>2. t[(i - c.off) + k] = s[n + ((i - c.off) + k)]
      BY <3>1, <1>4
    <3> QED
      BY <3>1, <3>2, <2>3
  <2> QED
    BY <2>0, <2>1, <2>2, <2>3, <2>4, <2>5, <2>6, <1>2, <1>4 DEF size, FrameAt
<1> QED
  BY <1>3, <1>4, <1>5 DEF t, n, b

-----------------------------------------------------------------------------
(***************************************************************************)
(* The client list                                                         *)
(***************************************************************************)

\* add_client adds one pid, and no second node for it if there was none.
LEMMA AddClient ==
  ASSUME NEW l \in Seq(Pids), NEW p \in Pids
  PROVE  /\ add_client(l, p) \in Seq(Pids)
         /\ PidsOf(add_client(l, p)) = PidsOf(l) \cup {p}
         /\ Distinct(l) /\ p \notin PidsOf(l) => Distinct(add_client(l, p))
<1> DEFINE m == add_client(l, p)
<1>1. /\ m \in Seq(Pids) /\ Len(m) = Len(l) + 1 /\ m[Len(l) + 1] = p
      /\ \A i \in 1..Len(l) : m[i] = l[i]
  BY DEF add_client
<1> HIDE DEF m
<1>2. PidsOf(m) = PidsOf(l) \cup {p}
  <2>1. 1..Len(m) = 1..Len(l) \cup {Len(l) + 1}
    BY <1>1
  <2> QED BY <1>1, <2>1 DEF PidsOf
<1>3. Distinct(l) /\ p \notin PidsOf(l) => Distinct(m)
  BY <1>1 DEF Distinct, PidsOf
<1> QED
  BY <1>1, <1>2, <1>3 DEF m

\* remove_client removes the node of the pid and no other.
LEMMA RemoveClient ==
  ASSUME NEW l \in Seq(Pids), Distinct(l), NEW p \in PidsOf(l)
  PROVE  /\ remove_client(l, p) \in Seq(Pids)
         /\ PidsOf(remove_client(l, p)) = PidsOf(l) \ {p}
         /\ Distinct(remove_client(l, p))
<1>1. PICK n \in 1..Len(l) : l[n] = p
  BY DEF PidsOf
<1>2. \A i \in 1..Len(l) : (l[i] = p /\ \A j \in 1..(i - 1) : l[j] # p) <=> i = n
  BY <1>1 DEF Distinct
<1>3. n = CHOOSE i \in 1..Len(l) : l[i] = p /\ \A j \in 1..(i - 1) : l[j] # p
  BY <1>2
<1> DEFINE m == Unlink(l, n)
<1>4. remove_client(l, p) = m
  BY <1>3 DEF remove_client
<1>5. m \in [1..(Len(l) - 1) -> Pids]
  BY <1>1 DEF Unlink
<1>6. /\ m \in Seq(Pids) /\ Len(m) = Len(l) - 1
      /\ \A i \in 1..Len(m) : m[i] = IF i < n THEN l[i] ELSE l[i + 1]
  <2>1. Len(l) - 1 \in Nat
    BY <1>1
  <2>2. m \in Seq(Pids) /\ Len(m) = Len(l) - 1
    <3> HIDE DEF m
    <3> QED BY <1>5, <2>1
  <2> QED
    BY <2>1, <2>2 DEF Unlink
<1> HIDE DEF m
<1>7. PidsOf(m) = PidsOf(l) \ {p}
  <2>1. ASSUME NEW q \in PidsOf(m) PROVE q \in PidsOf(l) /\ q # p
    BY <1>1, <1>6 DEF PidsOf, Distinct
  <2>2. ASSUME NEW q \in PidsOf(l), q # p PROVE q \in PidsOf(m)
    <3>1. PICK i \in 1..Len(l) : l[i] = q
      BY DEF PidsOf
    <3>2. CASE i < n
      BY <3>1, <3>2, <1>1, <1>6 DEF PidsOf
    <3>3. CASE i > n
      <4>1. i - 1 \in 1..Len(m) /\ m[i - 1] = q
        BY <3>1, <3>3, <1>1, <1>6
      <4> QED BY <4>1 DEF PidsOf
    <3> QED
      BY <3>1, <3>2, <3>3, <1>1, <2>2
  <2> QED BY <2>1, <2>2
<1>8. Distinct(m)
  BY <1>1, <1>6 DEF Distinct
<1> QED
  BY <1>4, <1>6, <1>7, <1>8

-----------------------------------------------------------------------------
(***************************************************************************)
(* Type correctness                                                        *)
(***************************************************************************)

\* recv_login and the others keep the record of a client well typed.
LEMMA ApplyType ==
  ASSUME NEW rec \in Records, NEW msg \in Messages
  PROVE  Apply(rec, msg) \in Records
<1>1. CASE msg.type = "T_LOGIN"
  <2>1. msg.val \in Names
    BY <1>1 DEF Messages
  <2>2. Apply(rec, msg) = [rec EXCEPT !.login_name = msg.val]
    BY <1>1 DEF Apply
  <2> QED BY <2>1, <2>2 DEF Records
<1>2. CASE msg.type = "T_CHDIR"
  <2>1. msg.val \in Paths
    BY <1>2 DEF Messages
  <2>2. Apply(rec, msg) = [rec EXCEPT !.path = msg.val]
    BY <1>2 DEF Apply
  <2> QED BY <2>1, <2>2 DEF Records
<1>3. CASE msg.type = "T_XFER_START"
  <2>1. msg.val \in Names
    BY <1>3 DEF Messages
  <2>2. Apply(rec, msg) = [rec EXCEPT !.filename = msg.val, !.xfer_in_progress = TRUE]
    BY <1>3 DEF Apply
  <2> QED BY <2>1, <2>2 DEF Records
<1>4. CASE msg.type \in {"T_XFER", "T_XFER_STOP"}
  <2>1. msg.val \in Infos
    BY <1>4 DEF Messages
  <2>2. \/ Apply(rec, msg) = [rec EXCEPT !.xfer_info = msg.val]
        \/ Apply(rec, msg) = [rec EXCEPT !.xfer_info = msg.val, !.xfer_in_progress = FALSE]
    BY <1>4 DEF Apply
  <2> QED BY <2>1, <2>2 DEF Records
<1> QED
  BY <1>1, <1>2, <1>3, <1>4, MessageTypes DEF Types

\* new_client allocates a record.
LEMMA NewClientType == new_client \in Records
BY DaemonAssumption DEF new_client, Records

\* send_state sends reports of the five types only.
LEMMA NextReportsType ==
  ASSUME NEW p \in Pids, NEW msg \in NextReports(p)
  PROVE  msg \in Messages /\ msg.pid = p
BY DEF NextReports, Messages

\* What recv_state finds in the pipe is a report, and either way to consume
\* its body consumes as much as was written.
LEMMA RecvTypes ==
  ASSUME TypeOK, pc = "recv"
  PROVE  /\ pipe[1].msg \in Messages /\ pipe[1].msg.pid \in Pids
         /\ buf_size(pipe[1].msg.type) \in Nat
         /\ recv_size(pipe[1].msg.type) = buf_size(pipe[1].msg.type)
         /\ seek_pipe(buf_size(pipe[1].msg.type)) = buf_size(pipe[1].msg.type)
<1>1. pipe[1] \in Cell
  BY DEF TypeOK
<1> QED
  BY <1>1, CellParts, MessageTypes, SizesAgree, SeekPipeExact

\* A process is started on a copy of the daemon's list.
LEMMA StartSessionType ==
  ASSUME TypeOK, NEW p \in Pids, StartSession(p)
  PROVE  /\ proc' \in [Pids -> {"free", "running", "zombie"}]
         /\ inherited' \in [Pids -> Seq(Pids)]
         /\ reported' \in [Pids -> Records]
         /\ sent' \in [Pids -> 0..MaxReports]
         /\ clean' \in [Pids -> BOOLEAN]
<1>1. 0 \in 0..MaxReports /\ \A g \in {0, 1} : 1 - g \in {0, 1}
  BY DaemonAssumption
<1> QED
  BY <1>1, NewClientType DEF TypeOK, StartSession

\* The clients that are sent SIGTERM are processes of the list.
LEMMA KilledType ==
  ASSUME NEW l \in Seq(Pids), NEW ret
  PROVE  KilledBy(l, ret) \in SUBSET Pids
BY DEF KilledBy, remove_all_clients, PidsOf

\* Every step of the daemon and of its environment keeps the types: the
\* backlog never goes below zero, recv_state is only called on data.
LEMMA TypeStep ==
  ASSUME TypeOK, ListIsChildren, [Next]_vars
  PROVE  TypeOK'
<1> USE DaemonAssumption
<1>1. CASE HandleSignal
  <2>1. /\ killed' \in SUBSET Pids /\ signal_flag' = {} /\ list' \in Seq(Pids)
        /\ pc' \in {"poll", "stopped"}
    <3>1. KilledBy(list, FTP_SUCCESS) \in SUBSET Pids /\ list \in Seq(Pids) /\ killed \in SUBSET Pids
      BY KilledType DEF TypeOK
    <3>2. TestFlags(signal_flag, list)
      BY <1>1 DEF HandleSignal
    <3>3. \/ killed' = killed /\ list' = list /\ pc' = "poll"
          \/ killed' = killed \cup KilledBy(list, FTP_SUCCESS) /\ list' = <<>> /\ pc' = "stopped"
      BY <3>2 DEF TestFlags, Shutdown
    <3>4. signal_flag' = {}
      BY <3>2 DEF TestFlags
    <3>5. killed' \in SUBSET Pids
      BY <3>1, <3>3
    <3>6. list' \in Seq(Pids)
      <4>1. CASE list' = list
        BY <3>1, <4>1
      <4>2. CASE list' = <<>>
        BY <4>2
      <4> QED BY <3>3, <4>1, <4>2
    <3>7. pc' \in {"poll", "stopped"}
      BY <3>3
    <3> QED BY <3>4, <3>5, <3>6, <3>7
  <2> QED
    BY <1>1, <2>1 DEF HandleSignal, TypeOK, procVars
<1>2. CASE ReapChild
  <2>1. PICK dead \in Zombies :
          /\ find_client(list, dead)
          /\ FreePid(dead)
          /\ child' = [child EXCEPT ![dead] = new_client]
          /\ TestFlags(ClearSigchld(signal_flag), remove_client(list, dead))
    BY <1>2 DEF ReapChild
  <2>2. remove_client(list, dead) \in Seq(Pids)
    BY <1>2, <2>1, RemoveClient DEF ReapChild, ListIsChildren, Down, find_client, TypeOK
  <2>3. dead \in Pids /\ child' \in [Pids -> Records]
    BY <2>1, NewClientType DEF Zombies, TypeOK
  <2>4. /\ proc' \in [Pids -> {"free", "running", "zombie"}]
        /\ inherited' \in [Pids -> Seq(Pids)]
        /\ reported' \in [Pids -> Records]
        /\ sent' \in [Pids -> 0..MaxReports]
    BY <2>1, <2>3, NewClientType DEF FreePid, TypeOK
  <2>5. /\ killed' \in SUBSET Pids /\ signal_flag' = {} /\ list' \in Seq(Pids)
        /\ pc' \in {"poll", "stopped"}
    BY <2>1, <2>2 DEF TestFlags, ClearSigchld, TypeOK
  <2> QED
    BY <1>2, <2>3, <2>4, <2>5 DEF ReapChild, TypeOK
<1>3. CASE ReapNobody
  BY <1>3 DEF ReapNobody, TypeOK, procVars
<1>4. CASE EnterPoll
  BY <1>4 DEF EnterPoll, TypeOK, procVars
<1>5. CASE PollReturns
  BY <1>5 DEF PollReturns, Readable, TypeOK, procVars
<1>6. CASE PollFails
  BY <1>6, KilledType DEF PollFails, Shutdown, TypeOK, procVars
<1>7. CASE RefuseClient
  BY <1>7 DEF RefuseClient, AfterAccept, TypeOK, procVars, AllSignals
<1>8. ASSUME NEW p \in Pids, ForkClient(p) PROVE TypeOK'
  <2>1. list' \in Seq(Pids) /\ child' \in [Pids -> Records]
    BY <1>8, NewClientType, AddClient DEF ForkClient, TypeOK
  <2>2. StartSession(p) /\ backlog' \in 0..MaxBacklog
    BY <1>8 DEF ForkClient, TypeOK
  <2> QED
    BY <1>8, <2>1, <2>2, StartSessionType DEF ForkClient, AfterAccept, TypeOK
<1>9. ASSUME NEW p \in Pids, NewClientFails(p) PROVE TypeOK'
  <2>1. StartSession(p) /\ backlog' \in 0..MaxBacklog
    BY <1>9 DEF NewClientFails, TypeOK
  <2>2. killed' \in SUBSET Pids /\ list' = <<>> /\ pc' = "stopped"
    BY <1>9, KilledType DEF NewClientFails, Shutdown, TypeOK
  <2> QED
    BY <1>9, <2>1, <2>2, StartSessionType, SMTT(30) DEF NewClientFails, TypeOK
<1>10. CASE ForkFails
  BY <1>10 DEF ForkFails, AfterAccept, TypeOK, procVars
<1>11. CASE AcceptInterrupted
  BY <1>11 DEF AcceptInterrupted, AfterAccept, TypeOK, procVars
<1>12. CASE AcceptFails
  BY <1>12, KilledType DEF AcceptFails, Shutdown, TypeOK, procVars
<1>13. CASE RecvKnown
  <2>1. child' \in [Pids -> Records]
    BY <1>13, RecvTypes, ApplyType DEF RecvKnown, TypeOK
  <2>2. pipe' \in Seq(Cell)
    <3>1. pipe' = Consume(pipe, 1 + buf_size(pipe[1].msg.type))
      BY <1>13, RecvTypes DEF RecvKnown
    <3> QED
      BY <1>13, <3>1, RecvTypes, ConsumeType DEF RecvKnown, TypeOK
  <2> QED
    BY <1>13, <2>1, <2>2 DEF RecvKnown, TypeOK, procVars
<1>14. CASE RecvUnknown
  <2>1. pipe' = Consume(pipe, 1 + buf_size(pipe[1].msg.type))
    BY <1>14, RecvTypes DEF RecvUnknown
  <2>2. pipe' \in Seq(Cell)
    BY <1>14, <2>1, RecvTypes, ConsumeType DEF RecvUnknown, TypeOK
  <2> QED
    BY <1>14, <2>2 DEF RecvUnknown, TypeOK, procVars
<1>15. CASE RecvFails
  BY <1>15, KilledType DEF RecvFails, Shutdown, TypeOK, procVars
<1>16. CASE Connect
  BY <1>16 DEF Connect, TypeOK, daemonVars, procVars
<1>17. ASSUME NEW sig \in Signals, Signal(sig) PROVE TypeOK'
  BY <1>17 DEF Signal, signal_handler, TypeOK, procVars, AllSignals
<1>18. ASSUME NEW p \in Pids, send_state(p) PROVE TypeOK'
  <2>1. PICK msg \in NextReports(p) :
          /\ pipe' = pipe \o Cells(msg)
          /\ reported' = [reported EXCEPT ![p] = Apply(@, msg)]
    BY <1>18 DEF send_state
  <2>2. msg \in Messages
    BY NextReportsType DEF TypeOK
  <2>3. reported' \in [Pids -> Records]
    BY <2>1, <2>2, ApplyType DEF TypeOK
  <2>4. pipe' \in Seq(Cell) /\ pipe' # <<>>
    <3>1. buf_size(msg.type) \in Nat
      BY <2>2, MessageTypes, SizesAgree
    <3> QED
      BY <2>1, <2>2, <3>1, CellsType DEF TypeOK
  <2> QED
    BY <1>18, <2>3, <2>4 DEF send_state, TypeOK, daemonVars
<1>19. ASSUME NEW p \in Pids, ExitSession(p) PROVE TypeOK'
  <2>1. killed' = killed
    BY <1>19 DEF ExitSession, KilledBy, remove_all_clients
  <2>2. CASE ~Down
    BY <1>19, <2>1, <2>2 DEF ExitSession, signal_handler, TypeOK, AllSignals
  <2>3. CASE Down
    <3>1. FreePid(p) /\ UNCHANGED <<signal_flag, pc>>
      BY <1>19, <2>3 DEF ExitSession
    <3>2. /\ proc' \in [Pids -> {"free", "running", "zombie"}]
          /\ inherited' \in [Pids -> Seq(Pids)]
          /\ reported' \in [Pids -> Records]
          /\ sent' \in [Pids -> 0..MaxReports]
      BY <3>1, NewClientType DEF FreePid, TypeOK
    <3> QED
      BY <1>19, <2>1, <3>1, <3>2 DEF ExitSession, TypeOK
  <2> QED BY <2>2, <2>3
<1>20. ASSUME NEW p \in Pids, StopSession(p) PROVE TypeOK'
  BY <1>20 DEF StopSession, signal_handler, TypeOK, procVars, AllSignals
<1>21. CASE UNCHANGED vars
  BY <1>21 DEF vars, daemonVars, procVars, TypeOK
<1> QED
  BY <1>1, <1>2, <1>3, <1>4, <1>5, <1>6, <1>7, <1>8, <1>9, <1>10, <1>11, <1>12,
    <1>13, <1>14, <1>15, <1>16, <1>17, <1>18, <1>19, <1>20, <1>21
    DEF Next, DaemonStep, DaemonFault, Environment

-----------------------------------------------------------------------------
(***************************************************************************)
(* Safety                                                                  *)
(***************************************************************************)

\* The list stays the set of children through fork, exit and waitpid().
LEMMA ListStep ==
  ASSUME TypeOK, ListIsChildren, [Next]_vars
  PROVE  ListIsChildren'
<1> DEFINE Kids == {p \in Pids : proc[p] # "free"}
<1>1. CASE HandleSignal
  BY <1>1 DEF HandleSignal, TestFlags, Shutdown, ListIsChildren, Down, PidsOf, Distinct, procVars
<1>2. CASE ReapChild
  <2>1. PICK dead \in Zombies :
          /\ find_client(list, dead)
          /\ FreePid(dead)
          /\ TestFlags(ClearSigchld(signal_flag), remove_client(list, dead))
    BY <1>2 DEF ReapChild
  <2>2. list' = remove_client(list, dead)
    BY <2>1 DEF TestFlags, ClearSigchld
  <2>3. PidsOf(list) = Kids /\ Distinct(list) /\ list \in Seq(Pids)
    BY <1>2 DEF ReapChild, ListIsChildren, Down, TypeOK
  <2>4. PidsOf(list') = Kids \ {dead} /\ Distinct(list')
    BY <2>1, <2>2, <2>3, RemoveClient DEF find_client
  <2>5. Kids' = Kids \ {dead}
    BY <2>1 DEF FreePid, TypeOK, Zombies
  <2> QED
    BY <2>4, <2>5 DEF ListIsChildren
<1>3. CASE ReapNobody
  BY <1>3 DEF ReapNobody, ListIsChildren, Down
<1>4. CASE EnterPoll \/ PollReturns \/ RefuseClient \/ ForkFails \/ AcceptInterrupted
             \/ RecvKnown \/ RecvUnknown
  <2>1. UNCHANGED <<list, proc>> /\ ~Down
    BY <1>4 DEF EnterPoll, PollReturns, RefuseClient, ForkFails, AcceptInterrupted,
      RecvKnown, RecvUnknown, procVars, Down
  <2> QED
    BY <2>1 DEF ListIsChildren, PidsOf, Distinct
<1>5. CASE PollFails \/ AcceptFails \/ RecvFails \/ \E p \in Pids : NewClientFails(p)
  BY <1>5 DEF PollFails, AcceptFails, RecvFails, NewClientFails, Shutdown, ListIsChildren, Down
<1>6. ASSUME NEW p \in Pids, ForkClient(p) PROVE ListIsChildren'
  <2>1. PidsOf(list) = Kids /\ Distinct(list) /\ list \in Seq(Pids)
    BY <1>6 DEF ForkClient, ListIsChildren, Down, TypeOK
  <2>2. list' = add_client(list, p) /\ proc[p] = "free"
        /\ proc' = [proc EXCEPT ![p] = "running"]
    BY <1>6 DEF ForkClient, FreshPid, StartSession
  <2>3. PidsOf(list') = Kids \cup {p} /\ Distinct(list')
    BY <2>1, <2>2, AddClient
  <2>4. Kids' = Kids \cup {p}
    BY <2>2 DEF TypeOK
  <2> QED
    BY <2>3, <2>4 DEF ListIsChildren
<1>7. CASE Connect \/ \E p \in Pids : send_state(p)
  BY <1>7 DEF Connect, send_state, daemonVars, procVars, ListIsChildren, Down, PidsOf, Distinct
<1>8. CASE \/ \E sig \in Signals : Signal(sig)
          \/ \E p \in Pids : StopSession(p)
  BY <1>8 DEF Signal, StopSession, signal_handler, procVars, ListIsChildren, Down, PidsOf, Distinct
<1>9. ASSUME NEW p \in Pids, ExitSession(p) PROVE ListIsChildren'
  <2>1. CASE ~Down
    <3>1. list' = list /\ proc' = [proc EXCEPT ![p] = "zombie"] /\ proc[p] = "running"
      BY <1>9, <2>1 DEF ExitSession
    <3>2. Kids' = Kids
      BY <3>1 DEF TypeOK
    <3> QED
      BY <2>1, <3>1, <3>2 DEF ListIsChildren, PidsOf, Distinct
  <2>2. CASE Down
    BY <1>9, <2>2 DEF ExitSession, ListIsChildren, Down
  <2> QED BY <2>1, <2>2
<1>10. CASE UNCHANGED vars
  BY <1>10 DEF vars, daemonVars, procVars, ListIsChildren, Down, PidsOf, Distinct
<1> QED
  BY <1>1, <1>2, <1>3, <1>4, <1>5, <1>6, <1>7, <1>8, <1>9, <1>10
    DEF Next, DaemonStep, DaemonFault, Environment

\* Every write and every read is a whole report.
LEMMA FramedStep ==
  ASSUME TypeOK, ReportsFramed, [Next]_vars
  PROVE  ReportsFramed'
<1>1. CASE UNCHANGED pipe
  BY <1>1 DEF ReportsFramed, CompleteReports, FrameAt
<1>2. ASSUME NEW p \in Pids, send_state(p) PROVE ReportsFramed'
  <2>1. PICK msg \in NextReports(p) : pipe' = pipe \o Cells(msg)
    BY <1>2 DEF send_state
  <2>2. msg \in Messages /\ pipe \in Seq(Cell)
    BY NextReportsType DEF TypeOK
  <2> QED
    BY <2>1, <2>2, WriteKeepsFrames DEF ReportsFramed
<1>3. CASE RecvKnown \/ RecvUnknown
  <2>1. pc = "recv"
    BY <1>3 DEF RecvKnown, RecvUnknown
  <2>2. pipe \in Seq(Cell) /\ pipe # <<>>
    BY <2>1 DEF TypeOK
  <2>3. pipe' = Consume(pipe, 1 + buf_size(pipe[1].msg.type))
    BY <1>3, <2>1, RecvTypes DEF RecvKnown, RecvUnknown
  <2> QED
    BY <2>2, <2>3, ReadKeepsFrames DEF ReportsFramed
<1> QED
  BY <1>1, <1>2, <1>3 DEF Next, DaemonStep, DaemonFault, Environment, HandleSignal,
    ReapChild, ReapNobody, EnterPoll, PollReturns, PollFails, RefuseClient, ForkClient,
    NewClientFails, ForkFails, AcceptInterrupted, AcceptFails, RecvFails, Connect,
    Signal, ExitSession, StopSession, vars

\* Without job control, a SIGCHLD that was noted stands for at least one dead
\* child that waitpid() has not collected: several deaths may be merged into
\* one flag, but a flag is never left over.
SigchldHasZombie ==
  "jobctl" \notin Faults /\ ~Down /\ "SIGCHLD" \in signal_flag => Zombies # {}

\* A flagged SIGCHLD announces a zombie, as long as no child is stopped:
\* no step sets the flag without one or collects one without clearing it.
LEMMA SigchldStep ==
  ASSUME TypeOK, SigchldHasZombie, [Next]_vars
  PROVE  SigchldHasZombie'
<1> SUFFICES ASSUME "jobctl" \notin Faults PROVE SigchldHasZombie'
  BY DEF SigchldHasZombie
<1>1. CASE HandleSignal \/ ReapChild
  BY <1>1 DEF HandleSignal, ReapChild, TestFlags, SigchldHasZombie
<1>2. CASE ReapNobody \/ PollFails \/ AcceptFails \/ RecvFails
             \/ \E p \in Pids : NewClientFails(p)
  BY <1>2 DEF ReapNobody, PollFails, AcceptFails, RecvFails, NewClientFails, Shutdown,
    SigchldHasZombie, Down
<1>3. CASE EnterPoll \/ PollReturns \/ ForkFails \/ AcceptInterrupted
             \/ RecvKnown \/ RecvUnknown
  BY <1>3 DEF EnterPoll, PollReturns, ForkFails, AcceptInterrupted, RecvKnown,
    RecvUnknown, procVars, SigchldHasZombie, Down, Zombies
<1>4. CASE RefuseClient
  BY <1>4 DEF RefuseClient, procVars, SigchldHasZombie, Down, Zombies
<1>5. ASSUME NEW p \in Pids, ForkClient(p) PROVE SigchldHasZombie'
  BY <1>5 DEF ForkClient, FreshPid, StartSession, SigchldHasZombie, Down, Zombies, TypeOK
<1>6. CASE Connect \/ \E p \in Pids : send_state(p)
  BY <1>6 DEF Connect, send_state, daemonVars, procVars, SigchldHasZombie, Down, Zombies
<1>7. ASSUME NEW sig \in Signals, Signal(sig) PROVE SigchldHasZombie'
  BY <1>7, DaemonAssumption DEF Signal, signal_handler, procVars, SigchldHasZombie,
    Down, Zombies, TermSignals
<1>8. ASSUME NEW p \in Pids, ExitSession(p) PROVE SigchldHasZombie'
  <2>1. CASE ~Down
    BY <1>8, <2>1 DEF ExitSession, SigchldHasZombie, Zombies, TypeOK
  <2>2. CASE Down
    BY <1>8, <2>2 DEF ExitSession, SigchldHasZombie, Down
  <2> QED BY <2>1, <2>2
<1>9. ASSUME NEW p \in Pids, StopSession(p) PROVE FALSE
  BY <1>9 DEF StopSession
<1>10. CASE UNCHANGED vars
  BY <1>10 DEF vars, daemonVars, procVars, SigchldHasZombie, Down, Zombies
<1> QED
  BY <1>1, <1>2, <1>3, <1>4, <1>5, <1>6, <1>7, <1>8, <1>9, <1>10
    DEF Next, DaemonStep, DaemonFault, Environment

\* The inductive invariant: types, the list, the framing of the pipe and the
\* meaning of a noted SIGCHLD.
Inv == TypeOK /\ ListIsChildren /\ ReportsFramed /\ SigchldHasZombie

\* The invariant holds when daemon_main enters its loop.
LEMMA InitInv == Init => Inv
<1> SUFFICES ASSUME Init PROVE Inv
  OBVIOUS
<1>1. TypeOK
  BY DaemonAssumption, NewClientType DEF Init, TypeOK
<1>2. ListIsChildren
  BY DEF Init, ListIsChildren, PidsOf, Distinct
<1>3. ReportsFramed
  BY DEF Init, ReportsFramed, CompleteReports
<1>4. SigchldHasZombie
  BY DEF Init, SigchldHasZombie
<1> QED
  BY <1>1, <1>2, <1>3, <1>4 DEF Inv

\* Every step of the daemon and of its environment keeps the invariant.
LEMMA StepInv == Inv /\ [Next]_vars => Inv'
BY TypeStep, ListStep, FramedStep, SigchldStep DEF Inv

\* The daemon keeps its inductive invariant, whatever fails around it.
THEOREM DaemonInvariant == Spec => []Inv
BY InitInv, StepInv, PTL DEF Spec

\* Type correctness.
THEOREM DaemonTypes == Spec => []TypeOK
<1>1. Inv => TypeOK
  BY DEF Inv
<1> QED BY DaemonInvariant, <1>1, PTL

\* The client list is the set of uncollected children, without duplicates.
THEOREM DaemonListIsChildren == Spec => []ListIsChildren
<1>1. Inv => ListIsChildren
  BY DEF Inv
<1> QED BY DaemonInvariant, <1>1, PTL

\* recv_state and send_state never lose step, for any table of sizes on which
\* the two sides agree.
THEOREM DaemonReportsFramed == Spec => []ReportsFramed
<1>1. Inv => ReportsFramed
  BY DEF Inv
<1> QED BY DaemonInvariant, <1>1, PTL

\* remove_client never runs off the end of the list when SIGCHLD is only
\* raised by the death of a child.
THEOREM DaemonNeverCrashes == Spec => []NeverCrashesUnlessStopped
<1>1. Init => NeverCrashesUnlessStopped
  BY DEF Init, NeverCrashesUnlessStopped, NeverCrashes
<1>2. Inv /\ NeverCrashesUnlessStopped /\ [Next]_vars => NeverCrashesUnlessStopped'
  <2> SUFFICES ASSUME Inv, pc # "crashed", [Next]_vars, "jobctl" \notin Faults
               PROVE  pc' # "crashed"
    BY DEF NeverCrashesUnlessStopped, NeverCrashes
  <2>1. ~ReapNobody
    <3> SUFFICES ASSUME ReapNobody PROVE FALSE
      OBVIOUS
    <3>1. PICK dead \in Zombies : TRUE
      BY DEF Inv, SigchldHasZombie, ReapNobody, Down
    <3>2. dead \in PidsOf(list)
      BY <3>1 DEF Inv, ListIsChildren, ReapNobody, Down, Zombies
    <3> QED
      BY <3>1, <3>2 DEF ReapNobody, find_client
  <2>2. CASE DaemonStep
    BY <2>1, <2>2 DEF DaemonStep, HandleSignal, ReapChild, TestFlags, Shutdown, EnterPoll,
      PollReturns, RefuseClient, ForkFails, ForkClient, AfterAccept, RecvKnown, RecvUnknown
  <2>3. CASE DaemonFault
    BY <2>3 DEF DaemonFault, PollFails, AcceptInterrupted, AfterAccept, AcceptFails,
      RecvFails, NewClientFails, Shutdown
  <2>4. CASE Environment
    BY <2>4 DEF Environment, Connect, Signal, send_state, ExitSession, StopSession,
      signal_handler, daemonVars
  <2> QED
    BY <2>2, <2>3, <2>4 DEF Next, vars, daemonVars
<1> QED
  BY DaemonInvariant, <1>1, <1>2, PTL DEF Spec

\* A shutdown sends SIGTERM to everything in the list.
LEMMA ShutdownKillsAll ==
  ASSUME Inv, ~Down, NEW ret, ret # FTP_QUIT,
         killed' = killed \cup KilledBy(list, ret), UNCHANGED proc
  PROVE  \A p \in Pids : proc'[p] = "running" => p \in killed'
BY DEF Inv, ListIsChildren, KilledBy, remove_all_clients

\* No session outlives the daemon without having been sent SIGTERM.
THEOREM DaemonNoOrphans == Spec => []NoOrphansUnlessNoMemory
<1>1. Init => NoOrphansUnlessNoMemory
  BY DEF Init, NoOrphansUnlessNoMemory, NoOrphans
<1>2. Inv /\ NoOrphansUnlessNoMemory /\ [Next]_vars => NoOrphansUnlessNoMemory'
  <2> SUFFICES ASSUME Inv, NoOrphans, [Next]_vars, "malloc" \notin Faults, pc' = "stopped"
               PROVE  \A p \in Pids : proc'[p] = "running" => p \in killed'
    BY DEF NoOrphansUnlessNoMemory, NoOrphans
  <2> USE DEF FTP_SUCCESS, FTP_ERROR, FTP_QUIT
  <2>1. CASE pc = "stopped"
    <3>1. ASSUME NEW q \in Pids, ExitSession(q)
          PROVE  proc' = [proc EXCEPT ![q] = "free"] /\ killed \subseteq killed'
      BY <2>1, <3>1 DEF ExitSession, FreePid, Down
    <3>2. \/ UNCHANGED <<proc, killed>>
          \/ \E q \in Pids : ExitSession(q)
      BY <2>1 DEF Next, DaemonStep, DaemonFault, Environment, HandleSignal, ReapChild,
        ReapNobody, EnterPoll, PollReturns, RefuseClient, ForkFails, ForkClient, RecvKnown,
        RecvUnknown, PollFails, AcceptInterrupted, AcceptFails, RecvFails, NewClientFails,
        Connect, Signal, send_state, StopSession, Down, vars, daemonVars, procVars
    <3> QED
      BY <2>1, <3>1, <3>2 DEF NoOrphans, Inv, TypeOK
  <2>2. CASE HandleSignal
    <3>1. ~Down /\ UNCHANGED proc /\ killed' = killed \cup KilledBy(list, FTP_SUCCESS)
      BY <2>2 DEF HandleSignal, TestFlags, Shutdown, Down, procVars
    <3> QED
      BY <3>1, ShutdownKillsAll
  <2>3. CASE PollFails
    <3>1. ~Down /\ UNCHANGED proc /\ killed' = killed \cup KilledBy(list, FTP_SUCCESS)
      BY <2>3 DEF PollFails, Shutdown, Down, procVars
    <3> QED
      BY <3>1, ShutdownKillsAll
  <2>4. CASE AcceptFails \/ RecvFails
    <3>1. ~Down /\ UNCHANGED proc /\ killed' = killed \cup KilledBy(list, FTP_ERROR)
      BY <2>4 DEF AcceptFails, RecvFails, Shutdown, Down, procVars
    <3> QED
      BY <3>1, ShutdownKillsAll
  <2>5. pc # "stopped" => HandleSignal \/ PollFails \/ AcceptFails \/ RecvFails
    BY DEF Next, DaemonStep, DaemonFault, Environment, ReapChild, TestFlags, ClearSigchld,
      ReapNobody, EnterPoll, PollReturns, RefuseClient, ForkFails, ForkClient, AfterAccept,
      RecvKnown, RecvUnknown, AcceptInterrupted, NewClientFails, Connect, Signal, send_state,
      ExitSession, StopSession, signal_handler, vars, daemonVars
  <2> QED
    BY <2>1, <2>2, <2>3, <2>4, <2>5
<1> QED
  BY DaemonInvariant, <1>1, <1>2, PTL DEF Spec

Running == {p \in Pids : proc[p] = "running"}

\* The list has room for all the processes that run.
LEMMA RunningInList ==
  ASSUME Inv, ~Down
  PROVE  IsFiniteSet(Running) /\ Cardinality(Running) <= Len(list)
<1>1. list \in Seq(Pids) /\ Running \subseteq PidsOf(list)
  BY DEF Inv, TypeOK, ListIsChildren, Running
<1>2. list \in Surjection(1..Len(list), PidsOf(list))
  BY <1>1 DEF Surjection, PidsOf
<1>3. IsFiniteSet(1..Len(list)) /\ Cardinality(1..Len(list)) = Len(list)
  <2>1. 1 \in Int /\ Len(list) \in Int /\ Len(list) >= 0
    BY <1>1
  <2>2. /\ IsFiniteSet(1..Len(list))
        /\ Cardinality(1..Len(list)) = IF 1 > Len(list) THEN 0 ELSE Len(list) - 1 + 1
    BY <2>1, FS_Interval
  <2> QED BY <2>1, <2>2
<1>4. IsFiniteSet(PidsOf(list)) /\ Cardinality(PidsOf(list)) <= Len(list)
  BY <1>2, <1>3, FS_Surjection
<1>5. IsFiniteSet(Running) /\ Cardinality(Running) <= Cardinality(PidsOf(list))
  BY <1>1, <1>4, FS_Subset
<1>6. /\ Cardinality(Running) \in Nat /\ Cardinality(PidsOf(list)) \in Nat
      /\ Len(list) \in Nat
  BY <1>1, <1>4, <1>5, FS_CardinalityType
<1> QED
  BY <1>4, <1>5, <1>6

\* MaxClients bounds the number of running sessions, because a session keeps
\* its node in the list at least until it is dead.
THEOREM DaemonSessionsBounded == Spec => []SessionsBounded
<1> DEFINE Bounded == IsFiniteSet(Running) /\ SessionsBounded
<1>1. Init => Bounded
  <2> SUFFICES ASSUME Init PROVE Bounded
    OBVIOUS
  <2>1. Running = {}
    BY DEF Init, Running
  <2> QED
    BY <2>1, FS_EmptySet, DaemonAssumption DEF SessionsBounded, Running
<1>2. Inv /\ Bounded /\ [Next]_vars => Bounded'
  <2> SUFFICES ASSUME Inv, Bounded, [Next]_vars PROVE Bounded'
    OBVIOUS
  <2>1. CASE Running' \subseteq Running
    <3>1. IsFiniteSet(Running') /\ Cardinality(Running') <= Cardinality(Running)
      BY <2>1, FS_Subset
    <3>2. Cardinality(Running') \in Nat /\ Cardinality(Running) \in Nat
      BY <3>1, FS_CardinalityType
    <3> QED
      BY <3>1, <3>2, DaemonAssumption DEF SessionsBounded, Running
  <2>2. ASSUME NEW p \in Pids, ForkClient(p) \/ NewClientFails(p) PROVE Bounded'
    <3>1. ~Down /\ ~TooManyClients /\ proc' = [proc EXCEPT ![p] = "running"]
      BY <2>2 DEF ForkClient, NewClientFails, StartSession, Down
    <3>2. Running' = Running \cup {p}
      BY <3>1 DEF Running, Inv, TypeOK
    <3>3. IsFiniteSet(Running') /\ Cardinality(Running') <= Cardinality(Running) + 1
      <4>1. /\ IsFiniteSet(Running')
            /\ Cardinality(Running') =
                 IF p \in Running THEN Cardinality(Running) ELSE Cardinality(Running) + 1
        BY <3>2, FS_AddElement
      <4>2. Cardinality(Running) \in Nat
        BY FS_CardinalityType
      <4> QED BY <4>1, <4>2
    <3>4. Cardinality(Running) <= Len(list) /\ (max_clients # -1 => Len(list) < max_clients)
      BY <3>1, RunningInList, DaemonAssumption DEF TooManyClients, count_clients, Inv, TypeOK
    <3>5. Cardinality(Running') \in Nat /\ Cardinality(Running) \in Nat /\ Len(list) \in Nat
      BY <3>3, FS_CardinalityType DEF Inv, TypeOK
    <3> QED
      BY <3>3, <3>4, <3>5, DaemonAssumption DEF SessionsBounded, Running
  <2>3. \/ Running' \subseteq Running
        \/ \E p \in Pids : ForkClient(p) \/ NewClientFails(p)
    <3> USE DEF Running, Inv, TypeOK
    <3>1. CASE DaemonStep
      BY <3>1 DEF DaemonStep, HandleSignal, ReapChild, FreePid, ReapNobody, EnterPoll,
        PollReturns, RefuseClient, ForkFails, RecvKnown, RecvUnknown, procVars
    <3>2. CASE DaemonFault
      BY <3>2 DEF DaemonFault, PollFails, AcceptInterrupted, AcceptFails, RecvFails, procVars
    <3>3. CASE Environment
      BY <3>3 DEF Environment, Connect, Signal, send_state, ExitSession, FreePid,
        StopSession, procVars
    <3> QED
      BY <3>1, <3>2, <3>3 DEF Next, vars, procVars
  <2> QED
    BY <2>1, <2>2, <2>3
<1> QED
  BY DaemonInvariant, <1>1, <1>2, PTL DEF Spec

\* SIGTERM is sent by the daemon as it goes down, to its children only; the
\* same call in a session process that ends sends nothing.
THEOREM DaemonKillsOnlyChildren == Spec => KillsOnlyChildren
<1> DEFINE Step == killed' # killed => /\ ~Down /\ Down'
                                       /\ \A p \in killed' \ killed : proc[p] # "free"
<1>1. Inv /\ [Next]_vars => [Step]_vars
  <2> SUFFICES ASSUME Inv, [Next]_vars, killed' # killed PROVE Step
    OBVIOUS
  <2>1. /\ ~Down /\ Down'
        /\ \E ret : killed' = killed \cup KilledBy(list, ret)
    BY DEF Next, DaemonStep, DaemonFault, Environment, HandleSignal, ReapChild, TestFlags,
      ClearSigchld, Shutdown, ReapNobody, EnterPoll, PollReturns, RefuseClient, ForkFails,
      ForkClient, RecvKnown, RecvUnknown, PollFails, AcceptInterrupted, AcceptFails,
      RecvFails, NewClientFails, Connect, Signal, send_state, ExitSession, StopSession,
      KilledBy, remove_all_clients, Down, vars, daemonVars, procVars
  <2> QED
    BY <2>1 DEF Inv, ListIsChildren, KilledBy, remove_all_clients
<1> QED
  BY DaemonInvariant, <1>1, PTL DEF Spec, KillsOnlyChildren

-----------------------------------------------------------------------------
(***************************************************************************)
(* What the daemon knows of its clients                                    *)
(***************************************************************************)

\* A report of process p begins at the k-th cell.
ReportAt(s, p, k) == s[k].off = 0 /\ s[k].msg.pid = p

\* Reading the stream s to its end turns the record first of process p into
\* last: h is the record after each cell.  It only changes where a report of p
\* begins.
History(h, s, p, first, last) ==
  /\ h[0] = first /\ h[Len(s)] = last
  /\ \A k \in 1..Len(s) : ReportAt(s, p, k) => h[k] = Apply(h[k - 1], s[k].msg)
  /\ \A j, k \in 0..Len(s) :
       j <= k /\ (\A m \in (j + 1)..k : ~ReportAt(s, p, m)) => h[j] = h[k]

LeadsTo(s, p, first, last) ==
  \E h \in [0..Len(s) -> Records] : History(h, s, p, first, last)

\* Without reports of p, nothing changes.
LEMMA NothingPending ==
  ASSUME NEW s \in Seq(Cell), NEW p, PendingFrom(s, p) = {}, NEW a \in Records
  PROVE  LeadsTo(s, p, a, a) /\ \A b : LeadsTo(s, p, a, b) => a = b
<1>1. \A k \in 1..Len(s) : ~ReportAt(s, p, k)
  BY DEF PendingFrom, ReportAt
<1>2. 0 \in 0..Len(s) /\ Len(s) \in 0..Len(s) /\ 0 <= Len(s)
  OBVIOUS
<1>3. LeadsTo(s, p, a, a)
  <2> DEFINE h == [k \in 0..Len(s) |-> a]
  <2>1. h \in [0..Len(s) -> Records] /\ \A k \in 0..Len(s) : h[k] = a
    OBVIOUS
  <2> HIDE DEF h
  <2> QED
    BY <1>1, <1>2, <2>1 DEF LeadsTo, History
<1>4. ASSUME NEW b, LeadsTo(s, p, a, b) PROVE a = b
  BY <1>1, <1>2, <1>4 DEF LeadsTo, History
<1> QED
  BY <1>3, <1>4

\* send_state adds one report at the end, which matters to its sender only.
LEMMA WriteLeadsTo ==
  ASSUME NEW s \in Seq(Cell), NEW p, NEW a \in Records, NEW b \in Records,
         LeadsTo(s, p, a, b), NEW msg \in Messages
  PROVE  LeadsTo(s \o Cells(msg), p, a, IF msg.pid = p THEN Apply(b, msg) ELSE b)
<1> DEFINE t == s \o Cells(msg)
           n == buf_size(msg.type)
           c == IF msg.pid = p THEN Apply(b, msg) ELSE b
<1>2. n \in Nat /\ Len(s) \in Nat
  BY WriteCells
<1>3. /\ t \in Seq(Cell) /\ Len(t) = Len(s) + 1 + n
      /\ \A k \in 1..Len(s) : t[k] = s[k]
      /\ \A k \in 0..n : t[Len(s) + 1 + k] = [msg |-> msg, off |-> k]
  BY WriteCells
<1>4. c \in Records
  BY ApplyType
<1> HIDE DEF t, n, c
<1>1. PICK h \in [0..Len(s) -> Records] : History(h, s, p, a, b)
  BY DEF LeadsTo
<1> DEFINE g == [k \in 0..Len(t) |-> IF k <= Len(s) THEN h[k] ELSE c]
<1>5. /\ g \in [0..Len(t) -> Records]
      /\ \A k \in 0..Len(s) : g[k] = h[k]
      /\ \A k \in (Len(s) + 1)..Len(t) : g[k] = c
  BY <1>2, <1>3, <1>4
<1> HIDE DEF g
<1>6. /\ \A k \in 1..Len(s) : ReportAt(t, p, k) <=> ReportAt(s, p, k)
      /\ ReportAt(t, p, Len(s) + 1) <=> msg.pid = p
      /\ \A k \in (Len(s) + 2)..Len(t) : ~ReportAt(t, p, k)
  <2>1. t[Len(s) + 1] = [msg |-> msg, off |-> 0]
    <3>1. 0 \in 0..n /\ Len(s) + 1 + 0 = Len(s) + 1
      BY <1>2
    <3>2. t[Len(s) + 1 + 0] = [msg |-> msg, off |-> 0]
      BY <1>3, <3>1
    <3> QED
      BY <3>1, <3>2
  <2>2. ASSUME NEW k \in (Len(s) + 2)..Len(t) PROVE ~ReportAt(t, p, k)
    <3>1. k - Len(s) - 1 \in 1..n /\ k = Len(s) + 1 + (k - Len(s) - 1)
      BY <1>2, <1>3
    <3>2. t[k] = [msg |-> msg, off |-> k - Len(s) - 1]
      <4> DEFINE d == k - Len(s) - 1
      <4>1. d \in 0..n /\ k = Len(s) + 1 + d
        BY <3>1
      <4> HIDE DEF d
      <4>2. t[k] = [msg |-> msg, off |-> d]
        BY <1>3, <4>1
      <4> QED
        BY <4>2 DEF d
    <3> QED
      BY <3>1, <3>2 DEF ReportAt
  <2> QED
    BY <1>3, <2>1, <2>2 DEF ReportAt
<1>7. h[0] = a /\ h[Len(s)] = b
  BY <1>1 DEF History
<1>8. \A k \in 1..Len(t) : ReportAt(t, p, k) => g[k] = Apply(g[k - 1], t[k].msg)
  <2> SUFFICES ASSUME NEW k \in 1..Len(t), ReportAt(t, p, k)
               PROVE  g[k] = Apply(g[k - 1], t[k].msg)
    OBVIOUS
  <2>1. CASE k \in 1..Len(s)
    <3>1. k - 1 \in 0..Len(s) /\ k \in 0..Len(s)
      BY <1>2, <2>1
    <3>2. h[k] = Apply(h[k - 1], s[k].msg)
      BY <1>1, <1>6, <2>1 DEF History
    <3> QED
      BY <1>3, <1>5, <2>1, <3>1, <3>2
  <2>2. CASE k = Len(s) + 1
    <3>1. k - 1 = Len(s) /\ Len(s) \in 0..Len(s) /\ k \in (Len(s) + 1)..Len(t)
      BY <1>2, <2>2
    <3>2. t[k].msg = msg /\ msg.pid = p
      <4>1. t[Len(s) + 1 + 0] = [msg |-> msg, off |-> 0] /\ Len(s) + 1 + 0 = k
        BY <1>2, <1>3, <2>2, SMTT(30)
      <4> QED
        BY <1>6, <2>2, <4>1
    <3> QED
      BY <1>5, <1>7, <3>1, <3>2 DEF c
  <2> QED
    BY <1>2, <1>3, <1>6, <2>1, <2>2
<1>9. \A j, k \in 0..Len(t) :
        j <= k /\ (\A m \in (j + 1)..k : ~ReportAt(t, p, m)) => g[j] = g[k]
  <2> SUFFICES ASSUME NEW j \in 0..Len(t), NEW k \in 0..Len(t), j <= k,
                      \A m \in (j + 1)..k : ~ReportAt(t, p, m)
               PROVE  g[j] = g[k]
    OBVIOUS
  <2>1. CASE k <= Len(s)
    <3>1. j \in 0..Len(s) /\ k \in 0..Len(s)
      BY <1>2, <1>3, <2>1
    <3>2. \A m \in (j + 1)..k : ~ReportAt(s, p, m)
      BY <1>6, <3>1
    <3> QED
      BY <1>1, <1>5, <3>1, <3>2 DEF History
  <2>2. CASE j <= Len(s) /\ k > Len(s)
    <3>1. j \in 0..Len(s) /\ Len(s) \in 0..Len(s) /\ k \in (Len(s) + 1)..Len(t)
          /\ Len(s) + 1 \in (j + 1)..k
      BY <1>2, <1>3, <2>2
    <3>2. \A m \in (j + 1)..Len(s) : ~ReportAt(s, p, m)
      BY <1>6, <2>2, <3>1
    <3>3. h[j] = b
      BY <1>1, <1>7, <2>2, <3>1, <3>2 DEF History
    <3>4. msg.pid # p
      BY <1>6, <3>1
    <3> QED
      BY <1>5, <3>1, <3>3, <3>4 DEF c
  <2>3. CASE j > Len(s)
    <3>1. j \in (Len(s) + 1)..Len(t) /\ k \in (Len(s) + 1)..Len(t)
      BY <1>2, <1>3, <2>3
    <3> QED
      BY <1>5, <3>1
  <2> QED
    BY <1>2, <1>3, <2>1, <2>2, <2>3
<1>10. g[0] = a /\ g[Len(t)] = c
  <2>1. 0 \in 0..Len(s) /\ Len(t) \in (Len(s) + 1)..Len(t)
    BY <1>2, <1>3
  <2> QED
    BY <1>5, <1>7, <2>1
<1>11. LeadsTo(t, p, a, c)
  BY <1>5, <1>8, <1>9, <1>10 DEF LeadsTo, History
<1> QED
  BY <1>11 DEF t, c

\* recv_state takes one report from the front, which matters to its sender
\* only, whether or not that is still in the list.
LEMMA ReadLeadsTo ==
  ASSUME NEW s \in Seq(Cell), s # <<>>, CompleteReports(s),
         NEW p, NEW a, NEW b, LeadsTo(s, p, a, b)
  PROVE  LeadsTo(Consume(s, 1 + buf_size(s[1].msg.type)), p,
                 IF s[1].msg.pid = p THEN Apply(a, s[1].msg) ELSE a, b)
<1> DEFINE n == 1 + buf_size(s[1].msg.type)
           t == Consume(s, n)
           c == IF s[1].msg.pid = p THEN Apply(a, s[1].msg) ELSE a
<1>1. PICK h \in [0..Len(s) -> Records] : History(h, s, p, a, b)
  BY DEF LeadsTo
<1>2. Len(s) >= 1 /\ s[1] \in Cell /\ n \in Nat /\ n >= 1
  <2>1. Len(s) >= 1 /\ s[1] \in Cell
    OBVIOUS
  <2> QED
    BY <2>1, CellParts, MessageTypes, SizesAgree
<1>3. n <= Len(s) /\ \A k \in 1..n : s[k].msg = s[1].msg /\ s[k].off = k - 1
  <2> DEFINE d == buf_size(s[1].msg.type)
  <2>1. FrameAt(s, 1) /\ s[1].off \in Nat /\ d \in Nat /\ n = 1 + d
    BY <1>2, CellParts, MessageTypes, SizesAgree DEF CompleteReports
  <2> HIDE DEF n
  <2>2. s[1].off = 0 /\ 1 + d <= Len(s)
        /\ \A k \in 0..d : s[1 + k] = [msg |-> s[1].msg, off |-> k]
    BY <1>2, <2>1 DEF FrameAt
  <2> HIDE DEF d
  <2>3. ASSUME NEW k \in 1..n PROVE s[k].msg = s[1].msg /\ s[k].off = k - 1
    <3>1. k - 1 \in 0..d /\ 1 + (k - 1) = k
      BY <2>1
    <3>2. s[k] = [msg |-> s[1].msg, off |-> k - 1]
      BY <2>2, <3>1
    <3> QED
      BY <3>2
  <2> QED
    BY <2>1, <2>2, <2>3
<1>4. /\ t \in Seq(Cell) /\ Len(t) = Len(s) - n /\ Len(t) \in Nat
      /\ \A k \in 1..Len(t) : t[k] = s[n + k]
  <2> HIDE DEF n
  <2> QED
    BY <1>2, <1>3 DEF Consume
<1> HIDE DEF t, n, c
<1> DEFINE g == [k \in 0..Len(t) |-> h[n + k]]
<1>5. g \in [0..Len(t) -> Records] /\ \A k \in 0..Len(t) : g[k] = h[n + k]
  BY <1>2, <1>3, <1>4
<1> HIDE DEF g
<1>6. \A k \in 1..Len(t) : ReportAt(t, p, k) <=> ReportAt(s, p, n + k)
  BY <1>4 DEF ReportAt
<1>7. g[0] = c
  <2>1. h[0] = a /\ h[1] = c
    <3>1. h[0] = a
      BY <1>1 DEF History
    <3>2. ReportAt(s, p, 1) <=> s[1].msg.pid = p
      BY <1>2, <1>3 DEF ReportAt
    <3>3. CASE s[1].msg.pid = p
      BY <1>1, <1>2, <3>1, <3>2, <3>3 DEF History, c
    <3>4. CASE s[1].msg.pid # p
      <4>1. 0 \in 0..Len(s) /\ 1 \in 0..Len(s) /\ \A m \in (0 + 1)..1 : ~ReportAt(s, p, m)
        BY <1>2, <3>2, <3>4
      <4>2. h[0] = h[1]
        BY <1>1, <4>1 DEF History
      <4> QED
        BY <3>1, <3>4, <4>2 DEF c
    <3> QED
      BY <3>1, <3>3, <3>4
  <2>2. \A m \in (1 + 1)..n : ~ReportAt(s, p, m)
    BY <1>2, <1>3 DEF ReportAt
  <2>3. 1 \in 0..Len(s) /\ n \in 0..Len(s) /\ 1 <= n
    BY <1>2, <1>3
  <2>4. h[1] = h[n]
    BY <1>1, <2>2, <2>3 DEF History
  <2> QED
    BY <1>2, <1>4, <1>5, <2>1, <2>4
<1>8. g[Len(t)] = b
  <2>1. h[Len(s)] = b /\ n + Len(t) = Len(s) /\ Len(t) \in 0..Len(t)
    BY <1>1, <1>2, <1>4 DEF History
  <2> QED
    BY <1>5, <2>1
<1>9. ASSUME NEW k \in 1..Len(t), ReportAt(t, p, k) PROVE g[k] = Apply(g[k - 1], t[k].msg)
  <2>1. n + k \in 1..Len(s) /\ (n + k) - 1 = n + (k - 1) /\ k \in 0..Len(t) /\ k - 1 \in 0..Len(t)
    BY <1>2, <1>4
  <2>2. h[n + k] = Apply(h[(n + k) - 1], s[n + k].msg)
    BY <1>1, <1>6, <1>9, <2>1 DEF History
  <2> QED
    BY <1>4, <1>5, <2>1, <2>2
<1>10. ASSUME NEW j \in 0..Len(t), NEW k \in 0..Len(t), j <= k,
              \A m \in (j + 1)..k : ~ReportAt(t, p, m)
       PROVE  g[j] = g[k]
  <2>1. n + j \in 0..Len(s) /\ n + k \in 0..Len(s) /\ n + j <= n + k
    BY <1>2, <1>4, <1>10
  <2>2. \A m \in ((n + j) + 1)..(n + k) : ~ReportAt(s, p, m)
    <3> SUFFICES ASSUME NEW m \in ((n + j) + 1)..(n + k) PROVE ~ReportAt(s, p, m)
      OBVIOUS
    <3>1. m - n \in (j + 1)..k /\ m - n \in 1..Len(t) /\ n + (m - n) = m
      BY <1>2, <1>4
    <3> QED
      BY <1>6, <1>10, <3>1
  <2>3. h[n + j] = h[n + k]
    BY <1>1, <2>1, <2>2 DEF History
  <2> QED
    BY <1>5, <2>3
<1>11. LeadsTo(t, p, c, b)
  BY <1>5, <1>7, <1>8, <1>9, <1>10 DEF LeadsTo, History
<1> QED
  BY <1>11 DEF t, n, c

\* What a client has reported is what the daemon will know of it when it has
\* read the pipe: the inductive form of RecordsFaithful.
Known ==
  ~Down => \A p \in PidsOf(list) :
             clean[p] => LeadsTo(pipe, p, child[p], reported[p])

\* A report reaches the record of its sender and no other, and nothing else
\* touches a record while its client is in the list.
LEMMA KnownStep ==
  ASSUME Inv, Known, [Next]_vars
  PROVE  Known'
<1> USE DEF Inv
<1>1. CASE /\ UNCHANGED <<child, reported, clean, pipe>>
           /\ ~Down' => ~Down /\ list' = list
  BY <1>1 DEF Known, PidsOf
<1>2. CASE ReapChild
  <2>1. PICK dead \in Zombies :
          /\ find_client(list, dead)
          /\ FreePid(dead)
          /\ child' = [child EXCEPT ![dead] = new_client]
          /\ TestFlags(ClearSigchld(signal_flag), remove_client(list, dead))
    BY <1>2 DEF ReapChild
  <2>2. ~Down /\ list' = remove_client(list, dead) /\ UNCHANGED <<clean, pipe>>
    BY <1>2, <2>1 DEF ReapChild, Down, TestFlags, ClearSigchld
  <2>3. PidsOf(list') = PidsOf(list) \ {dead}
    BY <2>1, <2>2, RemoveClient DEF ListIsChildren, find_client, TypeOK
  <2>4. \A p \in Pids : p # dead => child'[p] = child[p] /\ reported'[p] = reported[p]
    BY <2>1 DEF FreePid, TypeOK
  <2>5. PidsOf(list) \subseteq Pids
    BY DEF TypeOK, PidsOf
  <2> QED
    BY <2>2, <2>3, <2>4, <2>5 DEF Known
<1>3. ASSUME NEW p \in Pids, ForkClient(p) PROVE Known'
  <2>1. /\ ~Down /\ pipe' = pipe /\ list' = add_client(list, p)
        /\ child' = [child EXCEPT ![p] = new_client]
        /\ reported' = [reported EXCEPT ![p] = new_client]
        /\ clean' = [clean EXCEPT ![p] = PendingFrom(pipe, p) = {}]
    BY <1>3 DEF ForkClient, StartSession, Down
  <2>2. PidsOf(list') = PidsOf(list) \cup {p} /\ PidsOf(list) \subseteq Pids
    <3>1. list \in Seq(Pids)
      BY DEF TypeOK
    <3>2. PidsOf(list) \subseteq Pids
      BY <3>1 DEF PidsOf
    <3> QED
      BY <2>1, <3>1, <3>2, AddClient
  <2>3. child'[p] = new_client /\ reported'[p] = new_client
    BY <2>1 DEF TypeOK
  <2>4. clean'[p] => PendingFrom(pipe, p) = {}
    BY <2>1, Zenon DEF TypeOK
  <2>5. clean'[p] => LeadsTo(pipe', p, child'[p], reported'[p])
    BY <2>1, <2>3, <2>4, NothingPending, NewClientType DEF TypeOK
  <2>6. \A q \in PidsOf(list) : q # p =>
          child'[q] = child[q] /\ reported'[q] = reported[q] /\ clean'[q] = clean[q]
    BY <2>1, <2>2 DEF TypeOK
  <2> QED
    BY <2>1, <2>2, <2>5, <2>6 DEF Known
<1>4. CASE RecvKnown \/ RecvUnknown
  <2> DEFINE msg == pipe[1].msg
  <2>1. pc = "recv" /\ ~Down /\ UNCHANGED <<list, reported, clean>>
    BY <1>4 DEF RecvKnown, RecvUnknown, Down, procVars
  <2>2. pipe \in Seq(Cell) /\ pipe # <<>> /\ CompleteReports(pipe)
    BY <2>1 DEF TypeOK, ReportsFramed
  <2>3. pipe' = Consume(pipe, 1 + buf_size(msg.type))
    BY <1>4, <2>1, RecvTypes DEF RecvKnown, RecvUnknown
  <2>4. \A p \in PidsOf(list) :
          child'[p] = IF msg.pid = p THEN Apply(child[p], msg) ELSE child[p]
    <3>1. PidsOf(list) \subseteq Pids
      BY DEF TypeOK, PidsOf
    <3>2. CASE RecvKnown
      BY <2>1, <3>1, <3>2, RecvTypes DEF RecvKnown, TypeOK
    <3>3. CASE RecvUnknown
      BY <3>3 DEF RecvUnknown, find_client
    <3> QED
      BY <1>4, <3>2, <3>3
  <2>5. ASSUME NEW p \in PidsOf(list), clean[p]
        PROVE  LeadsTo(pipe', p, child'[p], reported[p])
    <3>1. LeadsTo(pipe, p, child[p], reported[p])
      BY <2>1, <2>5 DEF Known
    <3> QED
      BY <2>2, <2>3, <2>4, <3>1, ReadLeadsTo
  <2> QED
    BY <2>1, <2>5 DEF Known, PidsOf
<1>5. ASSUME NEW p \in Pids, send_state(p) PROVE Known'
  <2>1. PICK msg \in NextReports(p) :
          /\ pipe' = pipe \o Cells(msg)
          /\ reported' = [reported EXCEPT ![p] = Apply(@, msg)]
    BY <1>5 DEF send_state
  <2>2. ~Down /\ UNCHANGED <<list, child, clean, pc>>
    BY <1>5 DEF send_state, daemonVars
  <2>3. msg \in Messages /\ msg.pid = p
    BY NextReportsType
  <2>4. ASSUME NEW q \in PidsOf(list), clean[q]
        PROVE  LeadsTo(pipe', q, child[q], reported'[q])
    <3>1. LeadsTo(pipe, q, child[q], reported[q])
      BY <2>2, <2>4 DEF Known
    <3>2. /\ pipe \in Seq(Cell) /\ child[q] \in Records /\ reported[q] \in Records
          /\ q \in Pids
      BY DEF TypeOK, PidsOf
    <3>3. reported'[q] = IF msg.pid = q THEN Apply(reported[q], msg) ELSE reported[q]
      BY <2>1, <2>3, <3>2 DEF TypeOK
    <3> QED
      BY <2>1, <2>3, <3>1, <3>2, <3>3, WriteLeadsTo
  <2> QED
    BY <2>2, <2>4 DEF Known, PidsOf, Down
<1>6. CASE HandleSignal
  BY <1>1, <1>6 DEF HandleSignal, TestFlags, Shutdown, Down, procVars
<1>7. CASE EnterPoll \/ PollReturns \/ RefuseClient \/ ForkFails \/ AcceptInterrupted
  BY <1>1, <1>7 DEF EnterPoll, PollReturns, RefuseClient, ForkFails, AcceptInterrupted,
    Down, procVars
<1>8. CASE ReapNobody \/ DaemonFault
  <2>1. CASE Down'
    BY <2>1 DEF Known
  <2>2. CASE AcceptInterrupted
    BY <1>7, <2>2
  <2> QED
    BY <1>8, <2>1, <2>2 DEF ReapNobody, DaemonFault, PollFails, AcceptFails, RecvFails,
      NewClientFails, Shutdown, Down
<1>9. CASE \/ Connect
           \/ \E sig \in Signals : Signal(sig)
           \/ \E p \in Pids : StopSession(p)
  BY <1>1, <1>9 DEF Connect, Signal, StopSession, signal_handler, Down, daemonVars, procVars
<1>10. ASSUME NEW p \in Pids, ExitSession(p) PROVE Known'
  <2>1. CASE ~Down
    BY <1>1, <1>10, <2>1 DEF ExitSession
  <2>2. CASE Down
    BY <1>10, <2>2 DEF ExitSession, Known, Down
  <2> QED
    BY <2>1, <2>2
<1>11. CASE UNCHANGED vars
  BY <1>1, <1>11 DEF vars, daemonVars, procVars, Down
<1> QED
  BY <1>2, <1>3, <1>4, <1>5, <1>6, <1>7, <1>8, <1>9, <1>10, <1>11
    DEF Next, DaemonStep, Environment

\* What the daemon knows of a client is what the client has reported, once
\* everything is read: for any number of clients, any interleaving of their
\* reports, and pids that the kernel hands out again.
THEOREM DaemonRecordsFaithful == Spec => []RecordsFaithful
<1>1. Init => Known
  BY DEF Init, Known, PidsOf
<1>2. Inv /\ Known /\ [Next]_vars => Known'
  BY KnownStep
<1>3. Inv /\ Known => RecordsFaithful
  <2> SUFFICES ASSUME Inv, Known, ~Down, NEW p \in PidsOf(list), clean[p],
                      PendingFrom(pipe, p) = {}
               PROVE  child[p] = reported[p]
    BY DEF RecordsFaithful
  <2>1. LeadsTo(pipe, p, child[p], reported[p])
    BY DEF Known
  <2>2. pipe \in Seq(Cell) /\ child[p] \in Records
    BY DEF Inv, TypeOK, PidsOf
  <2> QED
    BY <2>1, <2>2, NothingPending
<1> QED
  BY DaemonInvariant, <1>1, <1>2, <1>3, PTL DEF Spec

=============================================================================
