-------------------------- MODULE SessionProofs --------------------------
(***************************************************************************)
(* Proofs about Session, for any users, paths, file sizes, signals and     *)
(* failing calls.                                                          *)
(***************************************************************************)
EXTENDS Session, TLAPS

\* Where a session is inside a transfer command, and inside the transfer.
InCommand == {"accepting", "accept_eintr", "xfer", "xfer_eintr", "moved", "listing"}
InXfer == {"xfer", "xfer_eintr", "moved", "listing"}

\* What pre_command has let through stays true until the command is over,
\* and what the main loop is interrupted by was sent.
Places ==
  /\ pc \in InCommand => login.logged_in /\ cmd.name \in Transfers
  /\ pc \in {"xfer_eintr", "moved"} => cmd.name # "LIST"
  /\ pc = "listing" => cmd.name = "LIST"
  /\ pc \in {"eintr", "accept_eintr"} => Signals # {}

\* The replies counted at each place.
Replies ==
  /\ pc \in {"start", "command"} \cup InCommand =>
       finals = 0 /\ "list_unopened" \notin history
  /\ pc \in {"loop", "polling", "eintr"} =>
       finals = IF "list_unopened" \in history THEN 2 ELSE 1

\* The descriptors open at each place: DescriptorsClosed, and what it needs
\* of the places it does not name.
Descriptors ==
  /\ ~Ended => fds \ ({"pasv"} \cup
       (IF pc \in InCommand THEN FileOf(cmd.name) ELSE {}) \cup
       (IF pc \in InXfer THEN {"data"} ELSE {})) \subseteq
       (IF "refused_stor" \in history THEN {"lost_file"} ELSE {})
  /\ pc \in InCommand => "pasv" \in fds /\ FileOf(cmd.name) \subseteq fds
  /\ "data" \in fds <=> pc \in InXfer

\* A user with a name was given both pools, and nobody has one before dopass.
Pools ==
  /\ login.logged_in /\ ~login.anonymous /\ ~Ended => pools = {"state", "vfs"}
  /\ ~login.logged_in /\ pc # "bye" /\ ~Ended => pools = {}

\* A transfer is reported as long as it lasts, and no longer.
Reports ==
  last # "unread" => (R!InTransfer <=> pc \in InXfer /\ cmd.name # "LIST")

\* CwdReported, and what a listing has put aside to return to.
Directory ==
  last # "unread" /\ "strayed" \notin history =>
    told_path = IF pc = "listing" THEN saved_path ELSE virt_path

\* TypeOK, in parts.
ControlTypes ==
  /\ pc \in {"start", "loop", "polling", "eintr", "command", "accepting", "accept_eintr",
             "xfer", "xfer_eintr", "moved", "listing", "bye", "exited", "crashed"}
  /\ cmd \in Lines

IdentityTypes ==
  /\ login \in [logged_in : BOOLEAN, anonymous : BOOLEAN,
                user : Users \cup {"NULL", "GARBAGE", ""}]
  /\ uid \in Users \cup {"root"}
  /\ root_dir \in Users \cup {"none", "anon_root_dir"}
  /\ pools \in SUBSET {"state", "vfs"}

FileTypes ==
  /\ fds \in SUBSET {"pasv", "data", "retr_file", "stor_file", "lost_file"}
  /\ virt_path \in Paths /\ told_path \in Paths /\ saved_path \in Paths
  /\ history \in SUBSET Histories
  /\ restart_pos \in {"0", "n"}
  /\ erange \in BOOLEAN

SignalTypes == signal_flag \in SUBSET AllSignals

ReportTypes ==
  /\ last \in {"none", "T_LOGIN", "T_CHDIR", "T_XFER_START", "T_XFER", "T_XFER_STOP",
              "unread"}
  /\ toggle \in {0, 1}

Inv ==
  /\ TypeOK /\ LoginSound /\ Places /\ Replies /\ Descriptors
  /\ Pools /\ CrashesOnlyWithoutPools /\ Reports /\ Directory

-----------------------------------------------------------------------------

\* The argument of a command, by its name.
LEMMA LineArgs ==
  ASSUME NEW line \in Lines
  PROVE  /\ line.name = "USER" => line.arg \in Users \cup {"anonymous", ""}
         /\ line.name = "REST" => line.arg \in {"0", "n", "negative", "huge", ""}
         /\ line.name \in {"CWD", "LIST"} => line.arg \in Paths \cup {""}
<1>1. PICK name \in Commands \cup {"?"} :
        \E arg \in Args(name) : line = [name |-> name, arg |-> arg]
  BY DEF Lines
<1>2. line.name = name /\ line.arg \in Args(name)
  BY <1>1
<1>3. /\ Args("USER") = {""} \cup Users \cup {"anonymous"}
      /\ Args("REST") = {"", "0", "n", "negative", "huge"}
      /\ Args("CWD") = {""} \cup Paths
      /\ Args("LIST") = {""} \cup Paths
  BY DEF Args, needs_arg
<1> QED
  BY <1>2, <1>3

\* The empty buffer is a line.
LEMMA NoLineIsLine == NoLine \in Lines
<1>1. "" \in Args("?")
  BY DEF Args
<1>2. NoLine \in {[name |-> "?", arg |-> arg] : arg \in Args("?")}
  BY <1>1 DEF NoLine
<1> DEFINE Of(name) == {[name |-> name, arg |-> arg] : arg \in Args(name)}
<1>3. Of("?") \in {Of(name) : name \in Commands \cup {"?"}}
  OBVIOUS
<1> QED
  BY <1>2, <1>3 DEF Lines

\* A new session has done nothing.
LEMMA InitInv == Init => Inv
<1> SUFFICES ASSUME Init PROVE Inv
  OBVIOUS
<1>1. ControlTypes /\ ReportTypes /\ SignalTypes
  BY NoLineIsLine DEF Init, ControlTypes, ReportTypes, SignalTypes
<1>2. IdentityTypes
  BY DEF Init, IdentityTypes
<1>3. FileTypes
  BY SessionAssumption DEF Init, FileTypes
<1>4. finals \in 0..3 /\ left \in 0..MaxBlocks
  BY SessionAssumption DEF Init
<1>5. TypeOK
  BY <1>1, <1>2, <1>3, <1>4 DEF TypeOK, ControlTypes, IdentityTypes,
    FileTypes, SignalTypes, ReportTypes
<1> QED
  BY <1>5 DEF Init, Inv, LoginSound, Places, Replies, Descriptors, Pools,
    CrashesOnlyWithoutPools, Reports, Directory, R!InTransfer, InCommand, InXfer, Ended

\* What Answer, Leave and send_state do, with the arithmetic done.
LEMMA Answered ==
  ASSUME Inv, pc \in {"start", "command"} \cup InCommand, NEW n \in {1, 2}, Answer(n)
  PROVE  finals' = n /\ cmd' \in Lines /\ cmd' = NoLine /\ pc' = "loop"
<1>1. finals = 0 /\ finals' = finals + n
  BY DEF Inv, Replies, Answer
<1>2. finals' = n
  BY <1>1
<1> QED
  BY <1>2, NoLineIsLine DEF Answer

LEMMA Left ==
  ASSUME Inv, pc \in {"command", "polling"} \cup InCommand, NEW n \in {0, 1}, Leave(n)
  PROVE  finals' \in 0..3 /\ cmd' \in Lines /\ pc' = "bye"
<1>1. finals \in {0, 1, 2} /\ finals' = finals + n
  BY DEF Inv, Replies, Leave
<1>2. finals' \in 0..3
  BY <1>1
<1> QED
  BY <1>2, NoLineIsLine DEF Leave

LEMMA Sent ==
  ASSUME Inv, NEW type, send_state(type)
  PROVE  last' \in {last, type} /\ toggle' \in {0, 1}
<1>1. /\ toggle \in {0, 1} /\ toggle' \in {toggle, 1 - toggle}
      /\ last' \in {last, type}
  BY DEF Inv, TypeOK, send_state, reportVars
<1> QED
  BY <1>1

\* The commands that need a login, among them all that use files.
LEMMA NeedLogin ==
  ASSUME NEW line, pre_command(line), line.name \in VfsCommands \cup {"PASV", "REST"}
  PROVE  /\ login.logged_in
         /\ line.name \in Transfers => "pasv" \in fds
  BY DEF needs_data, pre_command, needs_login, VfsCommands, Commands, Chdirs,
    Transfers, VfsOnly

-----------------------------------------------------------------------------

\* The commands are parsed lines, and every place is one of those listed.
LEMMA ControlTypesInv == ASSUME Inv, [Next]_vars PROVE ControlTypes'
<1> USE DEF Inv, TypeOK, ControlTypes, Answer, Leave
<1>1. CASE Main
  BY NoLineIsLine, <1>1 DEF Main, Start, StartFails, EnterPoll, read_cmd,
    NoCommand, PollInterrupted, Exit
<1>2. CASE Reply
  BY NoLineIsLine, <1>2 DEF Reply, Refuse, JustReply, doquit, dorest
<1>3. CASE LogIn
  BY NoLineIsLine, <1>3 DEF LogIn, douser, UserNoMemory, PassRefused,
    PassAnonymous, PassAnonymousNoRoot, PassUser, PassFails
<1>4. CASE Files
  BY NoLineIsLine, <1>4 DEF Files, VfsAssertFails, VfsFails, VfsReply, docwd,
    StateAssertFails
<1>5. CASE DataConnection
  BY NoLineIsLine, <1>5 DEF DataConnection, dopasv, PasvFails, OpenTransfer,
    AcceptFails, AcceptAborted, AcceptInterrupted, RestartTooLarge,
    BeginTransfer, BeginAssertFails
<1>6. CASE Transfer
  BY NoLineIsLine, <1>6 DEF Transfer, MoveBlock, TransferSignals,
    TransferDone, TransferFails, ListFile, OpenListing, ListOpendirFails,
    EndListing, EndTransfer
<1>7. CASE PipeBreaks \/ DaemonDies
  BY <1>7 DEF PipeBreaks, DaemonDies
<1>8. ASSUME NEW sig \in Signals, Signal(sig) PROVE ControlTypes'
  BY <1>8 DEF Signal
<1>9. CASE UNCHANGED vars
  BY <1>9 DEF vars
<1> QED
  BY <1>1, <1>2, <1>3, <1>4, <1>5, <1>6, <1>7, <1>8, <1>9 DEF Next,
    SessionStep

\* What douser stores is a name; what dopass takes from it is one of a user.
LEMMA IdentityTypesInv == ASSUME Inv, [Next]_vars PROVE IdentityTypes'
<1> USE DEF Inv, TypeOK, Doing, loginVars, IdentityTypes
<1>1. CASE Main
  BY <1>1 DEF Main, Start, StartFails, EnterPoll, read_cmd, NoCommand,
    PollInterrupted, Exit
<1>2. CASE Reply
  BY <1>2 DEF Reply, Refuse, JustReply, doquit, dorest
<1>3. CASE LogIn
  <2>1. CASE douser
    BY LineArgs, <2>1 DEF douser
  <2>2. CASE UserNoMemory
    BY <2>2 DEF UserNoMemory
  <2>3. CASE PassRefused
    BY <2>3 DEF PassRefused
  <2>4. CASE PassAnonymous
    BY <2>4 DEF PassAnonymous, Allocated
  <2>5. CASE PassUser
    BY <2>5 DEF PassUser
  <2>6. CASE PassFails
    BY <2>6 DEF PassFails
  <2>7. CASE PassAnonymousNoRoot
    BY <2>7 DEF PassAnonymousNoRoot
  <2> QED
    BY <1>3, <2>1, <2>2, <2>3, <2>4, <2>5, <2>6, <2>7 DEF LogIn
<1>4. CASE Files
  BY <1>4 DEF Files, VfsAssertFails, VfsFails, VfsReply, docwd,
    StateAssertFails
<1>5. CASE DataConnection
  BY <1>5 DEF DataConnection, dopasv, PasvFails, OpenTransfer, AcceptFails,
    AcceptAborted, AcceptInterrupted, RestartTooLarge, BeginTransfer,
    BeginAssertFails
<1>6. CASE Transfer
  BY <1>6 DEF Transfer, MoveBlock, TransferSignals, TransferDone,
    TransferFails, ListFile, OpenListing, ListOpendirFails,
    EndListing
<1>7. CASE PipeBreaks \/ DaemonDies
  BY <1>7 DEF PipeBreaks, DaemonDies
<1>8. ASSUME NEW sig \in Signals, Signal(sig) PROVE IdentityTypes'
  BY <1>8 DEF Signal
<1>9. CASE UNCHANGED vars
  BY <1>9 DEF vars
<1> QED
  BY <1>1, <1>2, <1>3, <1>4, <1>5, <1>6, <1>7, <1>8, <1>9 DEF Next,
    SessionStep

\* Paths come from the arguments that pre_command demands.
LEMMA FileTypesInv == ASSUME Inv, [Next]_vars PROVE FileTypes'
<1> USE DEF Inv, TypeOK, Doing, pathVars, FileTypes, SetErrno, FileOf,
    NoDataConnection, Histories
<1>1. CASE Main
  BY <1>1 DEF Main, Start, StartFails, EnterPoll, read_cmd, NoCommand,
    PollInterrupted, Exit
<1>2. CASE Reply
  BY <1>2 DEF Reply, Refuse, JustReply, doquit, dorest
<1>3. CASE LogIn
  BY <1>3 DEF LogIn, douser, UserNoMemory, PassRefused, PassAnonymous,
    PassAnonymousNoRoot, PassUser, PassFails
<1>4. CASE Files
  <2>1. CASE VfsAssertFails
    BY <2>1 DEF VfsAssertFails
  <2>2. CASE VfsFails
    BY <2>2 DEF VfsFails
  <2>3. CASE VfsReply
    BY <2>3 DEF VfsReply
  <2>4. CASE docwd
    BY LineArgs, <2>4 DEF docwd, pre_command, needs_arg, Chdirs
  <2>5. CASE StateAssertFails
    BY <2>5 DEF StateAssertFails
  <2> QED
    BY <1>4, <2>1, <2>2, <2>3, <2>4, <2>5 DEF Files
<1>5. CASE DataConnection
  BY <1>5 DEF DataConnection, dopasv, PasvFails, OpenTransfer, AcceptFails,
    AcceptAborted, AcceptInterrupted, RestartTooLarge, BeginTransfer,
    BeginAssertFails
<1>6. CASE Transfer
  <2>1. CASE MoveBlock
    BY <2>1 DEF MoveBlock
  <2>2. CASE TransferSignals
    BY <2>2 DEF TransferSignals, EndTransfer
  <2>3. CASE TransferDone
    BY <2>3 DEF TransferDone, EndTransfer
  <2>4. CASE TransferFails
    BY <2>4 DEF TransferFails, EndTransfer
  <2>5. CASE ListFile
    BY <2>5 DEF ListFile
  <2>6. CASE ListOpendirFails
    BY LineArgs, <2>6 DEF ListOpendirFails, Transferring, Listed
  <2>7. CASE OpenListing
    BY LineArgs, <2>7 DEF OpenListing, Transferring, Listed
  <2>8. CASE EndListing
    BY SessionAssumption, <2>8 DEF EndListing
  <2> QED
    BY <1>6, <2>1, <2>2, <2>3, <2>4, <2>5, <2>6, <2>7, <2>8 DEF Transfer
<1>7. CASE PipeBreaks \/ DaemonDies
  BY <1>7 DEF PipeBreaks, DaemonDies
<1>8. ASSUME NEW sig \in Signals, Signal(sig) PROVE FileTypes'
  BY <1>8 DEF Signal
<1>9. CASE UNCHANGED vars
  BY <1>9 DEF vars
<1> QED
  BY <1>1, <1>2, <1>3, <1>4, <1>5, <1>6, <1>7, <1>8, <1>9 DEF Next,
    SessionStep

\* Signals are caught, forgotten, and raised by replies.
LEMMA SignalTypesInv == ASSUME Inv, [Next]_vars PROVE SignalTypes'
<1> USE DEF Inv, TypeOK, SignalTypes, AllSignals
<1>1. CASE Main
  BY <1>1 DEF Main, Start, StartFails, EnterPoll, read_cmd, NoCommand,
    PollInterrupted, Exit
<1>2. CASE Reply
  BY <1>2 DEF Reply, Refuse, JustReply, doquit, dorest
<1>3. CASE LogIn
  BY <1>3 DEF LogIn, douser, UserNoMemory, PassRefused, PassAnonymous,
    PassAnonymousNoRoot, PassUser, PassFails
<1>4. CASE Files
  BY <1>4 DEF Files, VfsAssertFails, VfsFails, VfsReply, docwd,
    StateAssertFails
<1>5. CASE DataConnection
  BY <1>5 DEF DataConnection, dopasv, PasvFails, OpenTransfer, AcceptFails,
    AcceptAborted, AcceptInterrupted, RestartTooLarge, BeginTransfer,
    BeginAssertFails
<1>6. CASE Transfer
  BY <1>6 DEF Transfer, MoveBlock, TransferSignals, TransferDone,
    TransferFails, ListFile, OpenListing, ListOpendirFails,
    EndListing
<1>7. CASE PipeBreaks \/ DaemonDies
  BY <1>7 DEF PipeBreaks, DaemonDies
<1>8. ASSUME NEW sig \in Signals, Signal(sig) PROVE SignalTypes'
  BY SessionAssumption, <1>8 DEF Signal
<1>9. CASE UNCHANGED vars
  BY <1>9 DEF vars
<1> QED
  BY <1>1, <1>2, <1>3, <1>4, <1>5, <1>6, <1>7, <1>8, <1>9 DEF Next,
    SessionStep

\* Every report is of a type in the table of state.c.
LEMMA ReportTypesInv == ASSUME Inv, [Next]_vars PROVE ReportTypes'
<1> USE DEF Inv, TypeOK, reportVars, ReportTypes
<1>1. CASE Main
  BY <1>1 DEF Main, Start, StartFails, EnterPoll, read_cmd, NoCommand,
    PollInterrupted, Exit
<1>2. CASE Reply
  BY <1>2 DEF Reply, Refuse, JustReply, doquit, dorest
<1>3. CASE LogIn
  BY Sent, <1>3 DEF LogIn, douser, UserNoMemory, PassRefused, PassAnonymous,
    PassAnonymousNoRoot, PassUser, PassFails
<1>4. CASE Files
  BY Sent, <1>4 DEF Files, VfsAssertFails, VfsFails, VfsReply, docwd,
    StateAssertFails
<1>5. CASE DataConnection
  BY Sent, <1>5 DEF DataConnection, dopasv, PasvFails, OpenTransfer,
    AcceptFails, AcceptAborted, AcceptInterrupted, RestartTooLarge,
    BeginTransfer, BeginAssertFails
<1>6. CASE Transfer
  BY Sent, <1>6 DEF Transfer, MoveBlock, TransferSignals, TransferDone,
    TransferFails, ListFile, OpenListing, ListOpendirFails,
    EndListing, EndTransfer
<1>7. CASE PipeBreaks \/ DaemonDies
  BY <1>7 DEF PipeBreaks, DaemonDies
<1>8. ASSUME NEW sig \in Signals, Signal(sig) PROVE ReportTypes'
  BY <1>8 DEF Signal
<1>9. CASE UNCHANGED vars
  BY <1>9 DEF vars
<1> QED
  BY <1>1, <1>2, <1>3, <1>4, <1>5, <1>6, <1>7, <1>8, <1>9 DEF Next,
    SessionStep

\* The blocks of a file are counted down to 0, and not further.
LEMMA LeftInv == ASSUME Inv, [Next]_vars PROVE (left \in 0..MaxBlocks)'
<1> USE DEF Inv, Transferring
<1>0. left \in 0..MaxBlocks
  BY DEF TypeOK
<1>1. CASE Main
  BY <1>0, <1>1 DEF Main, Start, StartFails, EnterPoll, read_cmd, NoCommand,
    PollInterrupted, Exit
<1>2. CASE Reply
  BY <1>0, <1>2 DEF Reply, Refuse, JustReply, doquit, dorest
<1>3. CASE LogIn
  BY <1>0, <1>3 DEF LogIn, douser, UserNoMemory, PassRefused, PassAnonymous,
    PassAnonymousNoRoot, PassUser, PassFails
<1>4. CASE Files
  BY <1>0, <1>4 DEF Files, VfsAssertFails, VfsFails, VfsReply, docwd,
    StateAssertFails
<1>5. CASE DataConnection
  <2>1. CASE dopasv
    BY <1>0, <2>1 DEF dopasv
  <2>2. CASE PasvFails
    BY <1>0, <2>2 DEF PasvFails
  <2>3. CASE OpenTransfer
    BY <1>0, <2>3 DEF OpenTransfer
  <2>4. CASE AcceptFails
    BY <1>0, <2>4 DEF AcceptFails
  <2>5. CASE AcceptAborted
    BY <1>0, <2>5 DEF AcceptAborted
  <2>6. CASE AcceptInterrupted
    BY <1>0, <2>6 DEF AcceptInterrupted
  <2>7. CASE RestartTooLarge
    BY <1>0, <2>7 DEF RestartTooLarge
  <2>8. CASE BeginTransfer
    BY SessionAssumption, <2>8 DEF BeginTransfer
  <2>9. CASE BeginAssertFails
    BY <1>0, <2>9 DEF BeginAssertFails
  <2> QED
    BY <1>5, <2>1, <2>2, <2>3, <2>4, <2>5, <2>6, <2>7, <2>8, <2>9 DEF
      DataConnection
<1>6. CASE Transfer
  <2>1. CASE MoveBlock
    BY SessionAssumption, <1>0, <2>1 DEF MoveBlock
  <2>2. CASE TransferSignals
    BY SessionAssumption, <1>0, <2>2 DEF TransferSignals, EndTransfer
  <2>3. CASE TransferDone
    BY <1>0, <2>3 DEF TransferDone, EndTransfer
  <2>4. CASE TransferFails
    BY SessionAssumption, <2>4 DEF TransferFails, EndTransfer
  <2>5. CASE ListFile
    BY <1>0, <2>5 DEF ListFile
  <2>6. CASE ListOpendirFails
    BY <1>0, <2>6 DEF ListOpendirFails
  <2>7. CASE OpenListing
    BY <1>0, <2>7 DEF OpenListing
  <2>8. CASE EndListing
    BY <1>0, <2>8 DEF EndListing
  <2> QED
    BY <1>6, <2>1, <2>2, <2>3, <2>4, <2>5, <2>6, <2>7, <2>8 DEF Transfer
<1>7. CASE PipeBreaks \/ DaemonDies
  BY <1>0, <1>7 DEF PipeBreaks, DaemonDies
<1>8. ASSUME NEW sig \in Signals, Signal(sig) PROVE (left \in 0..MaxBlocks)'
  BY <1>0, <1>8 DEF Signal
<1>9. CASE UNCHANGED vars
  BY <1>0, <1>9 DEF vars
<1> QED
  BY <1>1, <1>2, <1>3, <1>4, <1>5, <1>6, <1>7, <1>8, <1>9 DEF Next,
    SessionStep

\* Each handler answers once, however it ends, and starts from 0.
LEMMA RepliesInv == ASSUME Inv, [Next]_vars PROVE (finals \in 0..3 /\ Replies)'
<1> USE DEF Inv, Doing, Replies, InCommand, Places, pathVars, NoDataConnection
<1>0. finals \in 0..3
  BY DEF TypeOK
<1>1. CASE Main
  <2>1. CASE Start
    BY Answered, <2>1 DEF Start
  <2>2. CASE StartFails
    BY <2>2 DEF StartFails
  <2>3. CASE EnterPoll
    BY <2>3 DEF EnterPoll
  <2>4. CASE read_cmd
    BY <2>4 DEF read_cmd
  <2>5. CASE NoCommand
    BY Left, <2>5 DEF NoCommand
  <2>6. CASE PollInterrupted
    BY <2>6 DEF PollInterrupted
  <2>7. CASE Exit
    BY <1>0, <2>7 DEF Exit
  <2> QED
    BY <1>1, <2>1, <2>2, <2>3, <2>4, <2>5, <2>6, <2>7 DEF Main
<1>2. CASE Reply
  BY Answered, Left, <1>2 DEF Reply, Refuse, JustReply, doquit, dorest
<1>3. CASE LogIn
  <2>1. CASE douser
    BY Answered, <2>1 DEF douser
  <2>2. CASE UserNoMemory
    BY Left, <2>2 DEF UserNoMemory
  <2>3. CASE PassRefused
    BY Answered, <2>3 DEF PassRefused
  <2>4. CASE PassAnonymous
    BY Answered, <2>4 DEF PassAnonymous
  <2>5. CASE PassUser
    BY Answered, <2>5 DEF PassUser
  <2>6. CASE PassFails
    BY Left, <2>6 DEF PassFails
  <2>7. CASE PassAnonymousNoRoot
    BY <2>7 DEF PassAnonymousNoRoot
  <2> QED
    BY <1>3, <2>1, <2>2, <2>3, <2>4, <2>5, <2>6, <2>7 DEF LogIn
<1>4. CASE Files
  BY Answered, <1>4 DEF Files, VfsAssertFails, VfsFails, VfsReply, docwd,
    StateAssertFails
<1>5. CASE DataConnection
  <2>1. CASE dopasv
    BY Answered, <2>1 DEF dopasv
  <2>2. CASE PasvFails
    BY Answered, Left, <2>2 DEF PasvFails
  <2>3. CASE OpenTransfer
    BY <2>3 DEF OpenTransfer
  <2>4. CASE AcceptFails
    BY Answered, <2>4 DEF AcceptFails
  <2>5. CASE AcceptAborted
    BY Left, <2>5 DEF AcceptAborted
  <2>6. CASE AcceptInterrupted
    BY Answered, Left, <2>6 DEF AcceptInterrupted
  <2>7. CASE RestartTooLarge
    BY Answered, <2>7 DEF RestartTooLarge
  <2>8. CASE BeginTransfer
    BY <2>8 DEF BeginTransfer
  <2>9. CASE BeginAssertFails
    BY <2>9 DEF BeginAssertFails
  <2> QED
    BY <1>5, <2>1, <2>2, <2>3, <2>4, <2>5, <2>6, <2>7, <2>8, <2>9 DEF
      DataConnection
<1>6. CASE Transfer
  <2>1. CASE MoveBlock
    BY <2>1 DEF MoveBlock, Transferring
  <2>2. CASE TransferSignals
    BY Answered, <2>2 DEF TransferSignals, EndTransfer
  <2>3. CASE TransferDone
    BY Answered, <2>3 DEF TransferDone, EndTransfer, Transferring
  <2>4. CASE TransferFails
    BY Answered, <2>4 DEF TransferFails, EndTransfer, Transferring
  <2>5. CASE ListFile
    BY Answered, <2>5 DEF ListFile, Transferring
  <2>6. CASE ListOpendirFails
    <3>1. finals' = 2 /\ pc' = "loop"
      BY Answered, <2>6 DEF ListOpendirFails, Transferring
    <3>2. finals' \in 0..3
      BY <3>1
    <3> QED
      BY <3>1, <3>2, <2>6 DEF ListOpendirFails
  <2>7. CASE OpenListing
    BY Answered, <2>7 DEF OpenListing, Transferring
  <2>8. CASE EndListing
    BY Answered, <2>8 DEF EndListing, Transferring
  <2> QED
    BY <1>6, <2>1, <2>2, <2>3, <2>4, <2>5, <2>6, <2>7, <2>8 DEF Transfer
<1>7. CASE PipeBreaks \/ DaemonDies
  BY <1>0, <1>7 DEF PipeBreaks, DaemonDies
<1>8. ASSUME NEW sig \in Signals, Signal(sig) PROVE (finals \in 0..3 /\ Replies)'
  BY <1>0, <1>8 DEF Signal, Transferring
<1>9. CASE UNCHANGED vars
  BY <1>0, <1>9 DEF vars
<1> QED
  BY <1>1, <1>2, <1>3, <1>4, <1>5, <1>6, <1>7, <1>8, <1>9 DEF Next,
    SessionStep

-----------------------------------------------------------------------------

\* The session stays logged in, and a command is itself until it is answered.
LEMMA PlacesInv == ASSUME Inv, [Next]_vars PROVE Places'
<1> USE DEF Inv, loginVars, Doing, Answer, Leave, Places, InCommand
<1>1. CASE Main
  BY <1>1 DEF Main, Start, StartFails, EnterPoll, read_cmd, NoCommand,
    PollInterrupted, Exit
<1>2. CASE Reply
  BY <1>2 DEF Reply, Refuse, JustReply, doquit, dorest
<1>3. CASE LogIn
  BY <1>3 DEF LogIn, douser, UserNoMemory, PassRefused, PassAnonymous,
    PassAnonymousNoRoot, PassUser, PassFails
<1>4. CASE Files
  BY <1>4 DEF Files, VfsAssertFails, VfsFails, VfsReply, docwd,
    StateAssertFails
<1>5. CASE DataConnection
  <2>1. CASE dopasv
    BY <2>1 DEF dopasv
  <2>2. CASE PasvFails
    BY <2>2 DEF PasvFails
  <2>3. CASE OpenTransfer
    BY NeedLogin, <2>3 DEF OpenTransfer, VfsCommands
  <2>4. CASE AcceptFails
    BY <2>4 DEF AcceptFails
  <2>5. CASE AcceptAborted
    BY <2>5 DEF AcceptAborted
  <2>6. CASE AcceptInterrupted
    BY <2>6 DEF AcceptInterrupted
  <2>7. CASE RestartTooLarge
    BY <2>7 DEF RestartTooLarge
  <2>8. CASE BeginTransfer
    BY <2>8 DEF BeginTransfer
  <2>9. CASE BeginAssertFails
    BY <2>9 DEF BeginAssertFails
  <2> QED
    BY <1>5, <2>1, <2>2, <2>3, <2>4, <2>5, <2>6, <2>7, <2>8, <2>9 DEF
      DataConnection
<1>6. CASE Transfer
  BY <1>6 DEF Transfer, MoveBlock, TransferSignals, TransferDone,
    TransferFails, ListFile, OpenListing, ListOpendirFails,
    EndListing, EndTransfer, Transferring
<1>7. CASE PipeBreaks \/ DaemonDies
  BY <1>7 DEF PipeBreaks, DaemonDies
<1>8. ASSUME NEW sig \in Signals, Signal(sig) PROVE Places'
  BY <1>8 DEF Signal, Transferring
<1>9. CASE UNCHANGED vars
  BY <1>9 DEF vars
<1> QED
  BY <1>1, <1>2, <1>3, <1>4, <1>5, <1>6, <1>7, <1>8, <1>9 DEF Next,
    SessionStep

\* dopass takes the uid, the root directory and the login from one user, and
\* nobody gets past pre_command to change anything before.
LEMMA LoginInv == ASSUME Inv, [Next]_vars PROVE LoginSound'
<1> USE DEF Inv, loginVars, pathVars, reportVars, Doing, send_state,
    LoginSound, Places, InCommand, NoDataConnection
<1>1. CASE Main
  BY <1>1 DEF Main, Start, StartFails, EnterPoll, read_cmd, NoCommand,
    PollInterrupted, Exit
<1>2. CASE Reply
  <2>1. CASE Refuse
    BY <2>1 DEF Refuse
  <2>2. CASE JustReply
    BY <2>2 DEF JustReply
  <2>3. CASE doquit
    BY <2>3 DEF doquit
  <2>4. CASE dorest
    BY NeedLogin, <2>4 DEF dorest
  <2> QED
    BY <1>2, <2>1, <2>2, <2>3, <2>4 DEF Reply
<1>3. CASE LogIn
  <2>1. CASE douser
    BY <2>1 DEF douser
  <2>2. CASE UserNoMemory
    BY <2>2 DEF UserNoMemory
  <2>3. CASE PassRefused
    BY <2>3 DEF PassRefused
  <2>4. CASE PassAnonymous
    BY <2>4 DEF PassAnonymous
  <2>5. CASE PassUser
    BY <2>5 DEF PassUser
  <2>6. CASE PassFails
    BY <2>6 DEF PassFails
  <2>7. CASE PassAnonymousNoRoot
    BY <2>7 DEF PassAnonymousNoRoot
  <2> QED
    BY <1>3, <2>1, <2>2, <2>3, <2>4, <2>5, <2>6, <2>7 DEF LogIn
<1>4. CASE Files
  <2>1. CASE VfsAssertFails
    BY <2>1 DEF VfsAssertFails
  <2>2. CASE VfsFails
    BY <2>2 DEF VfsFails
  <2>3. CASE VfsReply
    BY <2>3 DEF VfsReply
  <2>4. CASE docwd
    BY NeedLogin, <2>4 DEF docwd, VfsCommands
  <2>5. CASE StateAssertFails
    BY <2>5 DEF StateAssertFails
  <2> QED
    BY <1>4, <2>1, <2>2, <2>3, <2>4, <2>5 DEF Files
<1>5. CASE DataConnection
  <2>1. CASE dopasv
    BY NeedLogin, <2>1 DEF dopasv
  <2>2. CASE PasvFails
    BY <2>2 DEF PasvFails
  <2>3. CASE OpenTransfer
    BY NeedLogin, <2>3 DEF OpenTransfer, VfsCommands
  <2>4. CASE AcceptFails
    BY <2>4 DEF AcceptFails
  <2>5. CASE AcceptAborted
    BY <2>5 DEF AcceptAborted
  <2>6. CASE AcceptInterrupted
    BY <2>6 DEF AcceptInterrupted
  <2>7. CASE RestartTooLarge
    BY <2>7 DEF RestartTooLarge
  <2>8. CASE BeginTransfer
    BY <2>8 DEF BeginTransfer
  <2>9. CASE BeginAssertFails
    BY <2>9 DEF BeginAssertFails
  <2> QED
    BY <1>5, <2>1, <2>2, <2>3, <2>4, <2>5, <2>6, <2>7, <2>8, <2>9 DEF
      DataConnection
<1>6. CASE Transfer
  BY <1>6 DEF Transfer, MoveBlock, TransferSignals, TransferDone,
    TransferFails, ListFile, OpenListing, ListOpendirFails,
    EndListing, Transferring
<1>7. CASE PipeBreaks \/ DaemonDies
  BY <1>7 DEF PipeBreaks, DaemonDies
<1>8. ASSUME NEW sig \in Signals, Signal(sig) PROVE LoginSound'
  BY <1>8 DEF Signal
<1>9. CASE UNCHANGED vars
  BY <1>9 DEF vars
<1> QED
  BY <1>1, <1>2, <1>3, <1>4, <1>5, <1>6, <1>7, <1>8, <1>9 DEF Next,
    SessionStep

\* login_user succeeds only when it has allocated both pools.
LEMMA PoolsInv == ASSUME Inv, [Next]_vars PROVE Pools'
<1> USE DEF Inv, loginVars, Doing, Pools, LoginSound, Ended
<1>1. CASE Main
  BY <1>1 DEF Main, Start, StartFails, EnterPoll, read_cmd, NoCommand,
    PollInterrupted, Exit
<1>2. CASE Reply
  BY <1>2 DEF Reply, Refuse, JustReply, doquit, dorest
<1>3. CASE LogIn
  <2>1. CASE douser
    BY <2>1 DEF douser
  <2>2. CASE UserNoMemory
    BY <2>2 DEF UserNoMemory
  <2>3. CASE PassRefused
    BY <2>3 DEF PassRefused
  <2>4. CASE PassAnonymous
    BY <2>4 DEF PassAnonymous
  <2>5. CASE PassUser
    BY <2>5 DEF PassUser
  <2>6. CASE PassFails
    BY <2>6 DEF PassFails, Leave
  <2>7. CASE PassAnonymousNoRoot
    BY <2>7 DEF PassAnonymousNoRoot
  <2> QED
    BY <1>3, <2>1, <2>2, <2>3, <2>4, <2>5, <2>6, <2>7 DEF LogIn
<1>4. CASE Files
  BY <1>4 DEF Files, VfsAssertFails, VfsFails, VfsReply, docwd,
    StateAssertFails
<1>5. CASE DataConnection
  BY <1>5 DEF DataConnection, dopasv, PasvFails, OpenTransfer, AcceptFails,
    AcceptAborted, AcceptInterrupted, RestartTooLarge, BeginTransfer,
    BeginAssertFails
<1>6. CASE Transfer
  BY <1>6 DEF Transfer, MoveBlock, TransferSignals, TransferDone,
    TransferFails, ListFile, OpenListing, ListOpendirFails,
    EndListing, Transferring
<1>7. CASE PipeBreaks \/ DaemonDies
  BY <1>7 DEF PipeBreaks, DaemonDies
<1>8. ASSUME NEW sig \in Signals, Signal(sig) PROVE Pools'
  BY <1>8 DEF Signal, Transferring
<1>9. CASE UNCHANGED vars
  BY <1>9 DEF vars
<1> QED
  BY <1>1, <1>2, <1>3, <1>4, <1>5, <1>6, <1>7, <1>8, <1>9 DEF Next,
    SessionStep

\* A command that uses a pool needs a login, hence a user with both pools or
\* an anonymous one; all other crashes are wild pointers.
LEMMA CrashInv == ASSUME Inv, [Next]_vars PROVE CrashesOnlyWithoutPools'
<1> USE DEF Inv, loginVars, Doing, Answer, Leave, CrashesOnlyWithoutPools,
    Pools, Places, InCommand, Ended
<1>1. CASE Main
  BY <1>1 DEF Main, Start, StartFails, EnterPoll, read_cmd, NoCommand,
    PollInterrupted, Exit
<1>2. CASE Reply
  BY <1>2 DEF Reply, Refuse, JustReply, doquit, dorest
<1>3. CASE LogIn
  BY <1>3 DEF LogIn, douser, UserNoMemory, PassRefused, PassAnonymous,
    PassAnonymousNoRoot, PassUser, PassFails
<1>4. CASE Files
  <2>1. CASE VfsAssertFails
    BY NeedLogin, <2>1 DEF VfsAssertFails
  <2>2. CASE VfsFails
    BY <2>2 DEF VfsFails
  <2>3. CASE VfsReply
    BY <2>3 DEF VfsReply
  <2>4. CASE docwd
    BY <2>4 DEF docwd
  <2>5. CASE StateAssertFails
    BY NeedLogin, <2>5 DEF StateAssertFails, VfsCommands
  <2> QED
    BY <1>4, <2>1, <2>2, <2>3, <2>4, <2>5 DEF Files
<1>5. CASE DataConnection
  BY <1>5 DEF DataConnection, dopasv, PasvFails, OpenTransfer, AcceptFails,
    AcceptAborted, AcceptInterrupted, RestartTooLarge, BeginTransfer,
    BeginAssertFails
<1>6. CASE Transfer
  BY <1>6 DEF Transfer, MoveBlock, TransferSignals, TransferDone,
    TransferFails, ListFile, OpenListing, ListOpendirFails,
    EndListing, EndTransfer
<1>7. CASE PipeBreaks \/ DaemonDies
  BY <1>7 DEF PipeBreaks, DaemonDies
<1>8. ASSUME NEW sig \in Signals, Signal(sig) PROVE CrashesOnlyWithoutPools'
  BY <1>8 DEF Signal
<1>9. CASE UNCHANGED vars
  BY <1>9 DEF vars
<1> QED
  BY <1>1, <1>2, <1>3, <1>4, <1>5, <1>6, <1>7, <1>8, <1>9 DEF Next,
    SessionStep

\* What a transfer command opens, it closes on every way out; but for the file
\* of a STOR, and only if accept() may fail or be interrupted.
LEMMA DescriptorsInv == ASSUME Inv, [Next]_vars PROVE Descriptors'
<1> USE DEF Inv, Doing, Answer, Leave, Descriptors, InCommand, InXfer, FileOf,
    LoginSound, Ended, pathVars
<1>1. CASE Main
  BY <1>1 DEF Main, Start, StartFails, EnterPoll, read_cmd, NoCommand,
    PollInterrupted, Exit
<1>2. CASE Reply
  BY <1>2 DEF Reply, Refuse, JustReply, doquit, dorest
<1>3. CASE LogIn
  BY <1>3 DEF LogIn, douser, UserNoMemory, PassRefused, PassAnonymous,
    PassAnonymousNoRoot, PassUser, PassFails
<1>4. CASE Files
  BY <1>4 DEF Files, VfsAssertFails, VfsFails, VfsReply, docwd,
    StateAssertFails
<1>5. CASE DataConnection
  <2>1. CASE dopasv
    BY <2>1 DEF dopasv, Places
  <2>2. CASE PasvFails
    BY <2>2 DEF PasvFails, Places
  <2>3. CASE OpenTransfer
    BY NeedLogin, <2>3 DEF OpenTransfer, VfsCommands
  <2>4. CASE AcceptFails
    BY <2>4 DEF AcceptFails, NoDataConnection, Places
  <2>5. CASE AcceptAborted
    BY <2>5 DEF AcceptAborted, NoDataConnection, Places
  <2>6. CASE AcceptInterrupted
    BY <2>6 DEF AcceptInterrupted, NoDataConnection, Places
  <2>7. CASE RestartTooLarge
    BY <2>7 DEF RestartTooLarge, Places
  <2>8. CASE BeginTransfer
    BY <2>8 DEF BeginTransfer, Places
  <2>9. CASE BeginAssertFails
    BY <2>9 DEF BeginAssertFails, Places
  <2> QED
    BY <1>5, <2>1, <2>2, <2>3, <2>4, <2>5, <2>6, <2>7, <2>8, <2>9 DEF
      DataConnection
<1>6. CASE Transfer
  <2>1. CASE MoveBlock
    BY <2>1 DEF MoveBlock, Transferring
  <2>2. CASE TransferSignals
    BY <2>2 DEF TransferSignals, EndTransfer, Places
  <2>3. CASE TransferDone
    BY <2>3 DEF TransferDone, EndTransfer, Transferring
  <2>4. CASE TransferFails
    BY <2>4 DEF TransferFails, EndTransfer, Transferring
  <2>5. CASE ListFile
    BY <2>5 DEF ListFile, Transferring
  <2>6. CASE ListOpendirFails
    BY <2>6 DEF ListOpendirFails, Transferring
  <2>7. CASE OpenListing
    BY <2>7 DEF OpenListing, Transferring
  <2>8. CASE EndListing
    BY <2>8 DEF EndListing, Places
  <2> QED
    BY <1>6, <2>1, <2>2, <2>3, <2>4, <2>5, <2>6, <2>7, <2>8 DEF Transfer
<1>7. CASE PipeBreaks \/ DaemonDies
  BY <1>7 DEF PipeBreaks, DaemonDies
<1>8. ASSUME NEW sig \in Signals, Signal(sig) PROVE Descriptors'
  BY <1>8 DEF Signal, Transferring
<1>9. CASE UNCHANGED vars
  BY <1>9 DEF vars
<1> QED
  BY <1>1, <1>2, <1>3, <1>4, <1>5, <1>6, <1>7, <1>8, <1>9 DEF Next,
    SessionStep

\* T_XFER_START is sent on the only way into a transfer, T_XFER_STOP on each
\* way out.
LEMMA ReportsInv == ASSUME Inv, [Next]_vars PROVE Reports'
<1> USE DEF Inv, reportVars, Doing, Answer, Leave, send_state, Reports,
    R!InTransfer, InXfer
<1>1. CASE Main
  BY <1>1 DEF Main, Start, StartFails, EnterPoll, read_cmd, NoCommand,
    PollInterrupted, Exit
<1>2. CASE Reply
  BY <1>2 DEF Reply, Refuse, JustReply, doquit, dorest
<1>3. CASE LogIn
  BY <1>3 DEF LogIn, douser, UserNoMemory, PassRefused, PassAnonymous,
    PassAnonymousNoRoot, PassUser, PassFails
<1>4. CASE Files
  BY <1>4 DEF Files, VfsAssertFails, VfsFails, VfsReply, docwd,
    StateAssertFails
<1>5. CASE DataConnection
  BY <1>5 DEF DataConnection, dopasv, PasvFails, OpenTransfer, AcceptFails,
    AcceptAborted, AcceptInterrupted, RestartTooLarge, BeginTransfer,
    BeginAssertFails
<1>6. CASE Transfer
  <2>1. CASE MoveBlock
    BY <2>1 DEF MoveBlock, Transferring
  <2>2. CASE TransferSignals
    BY <2>2 DEF TransferSignals, EndTransfer, Places
  <2>3. CASE TransferDone
    BY <2>3 DEF TransferDone, EndTransfer, Transferring
  <2>4. CASE TransferFails
    BY <2>4 DEF TransferFails, EndTransfer, Transferring
  <2>5. CASE ListFile
    BY <2>5 DEF ListFile, Transferring
  <2>6. CASE ListOpendirFails
    BY <2>6 DEF ListOpendirFails, Transferring
  <2>7. CASE OpenListing
    BY <2>7 DEF OpenListing, Transferring
  <2>8. CASE EndListing
    BY <2>8 DEF EndListing, Places
  <2> QED
    BY <1>6, <2>1, <2>2, <2>3, <2>4, <2>5, <2>6, <2>7, <2>8 DEF Transfer
<1>7. CASE PipeBreaks \/ DaemonDies
  BY <1>7 DEF PipeBreaks, DaemonDies
<1>8. ASSUME NEW sig \in Signals, Signal(sig) PROVE Reports'
  BY <1>8 DEF Signal, Transferring
<1>9. CASE UNCHANGED vars
  BY <1>9 DEF vars
<1> QED
  BY <1>1, <1>2, <1>3, <1>4, <1>5, <1>6, <1>7, <1>8, <1>9 DEF Next,
    SessionStep

\* docwd reports where it went, and a listing returns to where it came from;
\* only a failed one does not.
LEMMA DirectoryInv == ASSUME Inv, [Next]_vars PROVE Directory'
<1> USE DEF Inv, pathVars, reportVars, Doing, Answer, Leave, Directory,
    NoDataConnection, Transferring
<1>1. CASE Main
  BY <1>1 DEF Main, Start, StartFails, EnterPoll, read_cmd, NoCommand,
    PollInterrupted, Exit
<1>2. CASE Reply
  BY <1>2 DEF Reply, Refuse, JustReply, doquit, dorest
<1>3. CASE LogIn
  BY <1>3 DEF LogIn, douser, UserNoMemory, PassRefused, PassAnonymous,
    PassAnonymousNoRoot, PassUser, PassFails, send_state
<1>4. CASE Files
  BY <1>4 DEF Files, VfsAssertFails, VfsFails, VfsReply, docwd,
    StateAssertFails, send_state
<1>5. CASE DataConnection
  BY <1>5 DEF DataConnection, dopasv, PasvFails, OpenTransfer, AcceptFails,
    AcceptAborted, AcceptInterrupted, RestartTooLarge, BeginTransfer,
    BeginAssertFails, send_state
<1>6. CASE Transfer
  BY <1>6 DEF Transfer, MoveBlock, TransferSignals, TransferDone,
    TransferFails, EndTransfer, ListFile, OpenListing, ListOpendirFails,
    EndListing, send_state
<1>7. CASE PipeBreaks \/ DaemonDies
  BY <1>7 DEF PipeBreaks, DaemonDies
<1>8. ASSUME NEW sig \in Signals, Signal(sig) PROVE Directory'
  BY <1>8 DEF Signal
<1>9. CASE UNCHANGED vars
  BY <1>9 DEF vars
<1> QED
  BY <1>1, <1>2, <1>3, <1>4, <1>5, <1>6, <1>7, <1>8, <1>9 DEF Next,
    SessionStep

\* Each part of the invariant is kept by every step.
LEMMA StepInv == Inv /\ [Next]_vars => Inv'
  BY ControlTypesInv, IdentityTypesInv, FileTypesInv, SignalTypesInv,
    ReportTypesInv, LeftInv, RepliesInv, PlacesInv, LoginInv, PoolsInv,
    CrashInv, DescriptorsInv, ReportsInv, DirectoryInv DEF Inv, TypeOK, ControlTypes,
    IdentityTypes, FileTypes, SignalTypes, ReportTypes

-----------------------------------------------------------------------------

\* What douser and dopass do to a client that is logged in: nothing.
LEMMA LoginStep ==
  ASSUME [Next]_vars
  PROVE  login.logged_in => UNCHANGED <<login, uid, root_dir>>
<1> USE DEF loginVars
<1>1. CASE Main
  BY <1>1 DEF Main, Start, StartFails, EnterPoll, read_cmd, NoCommand,
    PollInterrupted, Exit
<1>2. CASE Reply
  BY <1>2 DEF Reply, Refuse, JustReply, doquit, dorest
<1>3. CASE LogIn
  BY <1>3 DEF LogIn, douser, UserNoMemory, PassRefused, PassAnonymous,
    PassAnonymousNoRoot, PassUser, PassFails
<1>4. CASE Files
  BY <1>4 DEF Files, VfsAssertFails, VfsFails, VfsReply, docwd,
    StateAssertFails
<1>5. CASE DataConnection
  BY <1>5 DEF DataConnection, dopasv, PasvFails, OpenTransfer, AcceptFails,
    AcceptAborted, AcceptInterrupted, RestartTooLarge, BeginTransfer,
    BeginAssertFails
<1>6. CASE Transfer
  BY <1>6 DEF Transfer, MoveBlock, TransferSignals, TransferDone,
    TransferFails, ListFile, OpenListing, ListOpendirFails,
    EndListing
<1>7. CASE PipeBreaks \/ DaemonDies
  BY <1>7 DEF PipeBreaks, DaemonDies
<1>8. ASSUME NEW sig \in Signals, Signal(sig)
      PROVE  login.logged_in => UNCHANGED <<login, uid, root_dir>>
  BY <1>8 DEF Signal
<1>9. CASE UNCHANGED vars
  BY <1>9 DEF vars
<1> QED
  BY <1>1, <1>2, <1>3, <1>4, <1>5, <1>6, <1>7, <1>8, <1>9 DEF Next,
    SessionStep

\* Every step of the session is a report that Reporter allows, or none.
LEMMA ReportStep == ASSUME Inv, [Next]_vars PROVE [R!Next]_<<last, toggle>>
<1> USE DEF Inv, Doing, reportVars, LoginSound, Reports, InXfer, R!Next,
    R!Login, R!Chdir, R!Start, R!Progress, R!Stop, R!ReaderGone,
    R!InTransfer, R!Report, send_state
<1>1. CASE Main
  BY <1>1 DEF Main, Start, StartFails, EnterPoll, read_cmd, NoCommand,
    PollInterrupted, Exit
<1>2. CASE Reply
  BY <1>2 DEF Reply, Refuse, JustReply, doquit, dorest
<1>3. CASE LogIn
  <2>1. CASE douser
    BY <2>1 DEF douser
  <2>2. CASE UserNoMemory
    BY <2>2 DEF UserNoMemory
  <2>3. CASE PassRefused
    BY <2>3 DEF PassRefused
  <2>4. CASE PassAnonymous
    BY <2>4 DEF PassAnonymous
  <2>5. CASE PassUser
    BY <2>5 DEF PassUser
  <2>6. CASE PassFails
    BY <2>6 DEF PassFails
  <2>7. CASE PassAnonymousNoRoot
    BY <2>7 DEF PassAnonymousNoRoot
  <2> QED
    BY <1>3, <2>1, <2>2, <2>3, <2>4, <2>5, <2>6, <2>7 DEF LogIn
<1>4. CASE Files
  <2>1. CASE VfsAssertFails
    BY <2>1 DEF VfsAssertFails
  <2>2. CASE VfsFails
    BY <2>2 DEF VfsFails
  <2>3. CASE VfsReply
    BY <2>3 DEF VfsReply
  <2>4. CASE docwd
    BY <2>4 DEF docwd
  <2>5. CASE StateAssertFails
    BY <2>5 DEF StateAssertFails
  <2> QED
    BY <1>4, <2>1, <2>2, <2>3, <2>4, <2>5 DEF Files
<1>5. CASE DataConnection
  BY <1>5 DEF DataConnection, dopasv, PasvFails, OpenTransfer, AcceptFails,
    AcceptAborted, AcceptInterrupted, RestartTooLarge, BeginTransfer,
    BeginAssertFails
<1>6. CASE Transfer
  <2>1. CASE MoveBlock
    BY <2>1 DEF MoveBlock, Transferring
  <2>2. CASE TransferSignals
    BY <2>2 DEF TransferSignals, EndTransfer, Places
  <2>3. CASE TransferDone
    BY <2>3 DEF TransferDone, EndTransfer, Transferring
  <2>4. CASE TransferFails
    BY <2>4 DEF TransferFails, EndTransfer, Transferring
  <2>5. CASE ListFile
    BY <2>5 DEF ListFile
  <2>6. CASE ListOpendirFails
    BY <2>6 DEF ListOpendirFails
  <2>7. CASE OpenListing
    BY <2>7 DEF OpenListing
  <2>8. CASE EndListing
    BY <2>8 DEF EndListing
  <2> QED
    BY <1>6, <2>1, <2>2, <2>3, <2>4, <2>5, <2>6, <2>7, <2>8 DEF Transfer
<1>7. CASE PipeBreaks \/ DaemonDies
  BY <1>7 DEF PipeBreaks, DaemonDies
<1>8. ASSUME NEW sig \in Signals, Signal(sig) PROVE [R!Next]_<<last, toggle>>
  BY <1>8 DEF Signal
<1>9. CASE UNCHANGED vars
  BY <1>9 DEF vars
<1> QED
  BY <1>1, <1>2, <1>3, <1>4, <1>5, <1>6, <1>7, <1>8, <1>9 DEF Next,
    SessionStep

-----------------------------------------------------------------------------

\* The inductive invariant.
THEOREM SessionInvariant == Spec => []Inv
  BY InitInv, StepInv, PTL DEF Spec

\* Type correctness, for any users, paths, files, signals and failures.
THEOREM SessionTypes == Spec => []TypeOK
<1>1. Inv => TypeOK
  BY DEF Inv
<1> QED
  BY <1>1, SessionInvariant, PTL

\* A client that is logged in is one user throughout: login record, uid and
\* root directory agree, whatever USER, PASS and other commands came before
\* and whatever failed; before that, no command has had an effect.
THEOREM SessionLoginSound == Spec => []LoginSound
<1>1. Inv => LoginSound
  BY DEF Inv
<1> QED
  BY <1>1, SessionInvariant, PTL

\* douser and dopass leave the identity of a client alone that is logged in.
THEOREM SessionLoginStable == Spec => LoginStable
<1>1. [Next]_vars => [login.logged_in => UNCHANGED <<login, uid, root_dir>>]_vars
  BY LoginStep
<1> QED
  BY <1>1, PTL DEF Spec, LoginStable

\* Each command is answered once before the next one is read, on each way
\* through each handler; twice only by a LIST whose opendir() failed.
THEOREM SessionAnswers == Spec => []EveryCommandAnswered
<1>1. Inv => EveryCommandAnswered
  BY DEF Inv, Replies, EveryCommandAnswered
<1> QED
  BY <1>1, SessionInvariant, PTL

\* No handler leaves a descriptor open but dostor, accept() has a listening
\* socket, and the data connection is open exactly during a transfer.
THEOREM SessionDescriptorsClosed == Spec => []DescriptorsClosed
<1>1. Inv => DescriptorsClosed
  BY DEF Inv, Descriptors, DescriptorsClosed, InCommand, InXfer, Ended
<1> QED
  BY <1>1, SessionInvariant, PTL

\* The assertions in vfs.c and state.c hold for every user with a name.
THEOREM SessionCrashes == Spec => []CrashesOnlyWithoutPools
<1>1. Inv => CrashesOnlyWithoutPools
  BY DEF Inv
<1> QED
  BY <1>1, SessionInvariant, PTL

\* Outside of a listing, and as long as the daemon reads, the session is where
\* it has last said it is, however its listings and transfers have ended; but
\* for a LIST whose opendir() failed, until the next CWD.
THEOREM SessionCwdReported == Spec => []CwdReported
<1>1. Inv => CwdReported
  BY DEF Inv, Directory, CwdReported
<1> QED
  BY <1>1, SessionInvariant, PTL

\* A session implements Reporter: its reports come in the order that
\* recv_xfer_stop and the others in state.c rely on, however its transfers end.
THEOREM SessionReportsInOrder == Spec => ReportsInOrder
<1>1. Init => R!Init
  BY DEF Init, R!Init
<1>2. Inv /\ [Next]_vars => [R!Next]_<<last, toggle>>
  BY ReportStep
<1> QED
  BY <1>1, <1>2, SessionInvariant, PTL DEF Spec, ReportsInOrder, R!Spec

=============================================================================
