------------------------------ MODULE Session ------------------------------
(***************************************************************************)
(* One session process: ftp_main and the command handlers (server.c,       *)
(* command.c, core.c, auth.c, ls.c).  The commands come from CommandBuffer *)
(* already cut into lines and parsed.  What the file system and the        *)
(* network answer is nondeterministic: other processes may change both     *)
(* between any two calls.                                                  *)
(*                                                                         *)
(* The program counter pc is                                               *)
(*   "start"      in ftp_main, before the greeting,                        *)
(*   "loop"       at the top of read_cmd, about to call poll(),            *)
(*   "polling"    asleep in poll(),                                        *)
(*   "eintr"      poll() was interrupted by a signal,                      *)
(*   "command"    at do_cmd with a parsed command,                         *)
(*   "accepting"  asleep in accept() for the data connection,              *)
(*   "accept_eintr"  accept() was interrupted by a signal,                 *)
(*   "xfer"       moving a block of a transfer, or about to list,          *)
(*   "listing"    in the loop of list_directory,                           *)
(*   "xfer_eintr" the same, interrupted by a signal,                       *)
(*   "moved"      past throttle_pause, about to look at the signals,       *)
(*   "bye"        past the loop of ftp_main,                               *)
(*   "exited"     ftp_main has returned,                                   *)
(*   "crashed"    killed by a failed assertion or a wild pointer.          *)
(* Signals arrive between any two of these steps.                          *)
(***************************************************************************)
EXTENDS Naturals

CONSTANTS
  Users,      \* accounts a client can log in to
  Paths,      \* canonical virtual paths
  Root,       \* the path "/"
  allow_anon, \* config.allow_anon
  MaxBlocks,  \* bound on the blocks of a file that is sent
  Signals,    \* signals that the session can be sent
  Faults      \* what may fail, see AllFaults

\* Besides calls: "daemon", the daemon dies; "log", logging overwrites errno;
\* "anon_root_dir", the configuration names no directory for anonymous users.
AllFaults == {"malloc", "setuid", "socket", "accept", "opendir", "xfer",
              "daemon", "log", "anon_root_dir"}

AllSignals == {"SIGINT", "SIGTERM", "SIGHUP", "SIGOTHER", "SIGPIPE", "SIGCHLD"}

ASSUME SessionAssumption ==
  /\ Root \in Paths
  /\ allow_anon \in BOOLEAN
  /\ MaxBlocks \in Nat
  /\ Signals \subseteq AllSignals
  /\ Faults \subseteq AllFaults
  /\ "NULL" \notin Users /\ "GARBAGE" \notin Users
  /\ "nobody" \notin Users /\ "anon_root_dir" \notin Users

VARIABLES
  pc,          \* where the session is
  cmd,         \* the command in the buffer
  finals,      \* final replies sent since the command was read
  login,       \* session->login
  uid,         \* "root" until setuid()
  root_dir,    \* what init_vfs_pool was called with, "none" before
  pools,       \* which of the state and vfs pools are allocated
  fds,         \* open descriptors besides the control connection
  virt_path,   \* session->virt_path
  told_path,   \* the directory last reported to the daemon
  saved_path,  \* temp_path_buffer of list_directory, Root outside of it
  history,     \* what the properties remember, see Histories
  restart_pos, \* "0", or "n" for any other offset
  erange,      \* is errno ERANGE?
  left,        \* blocks of the file still to be sent
  signal_flag, \* signals caught and not yet looked at
  last,        \* type of the last report sent to the daemon; "unread" when
               \*   the daemon is dead and nobody reads master_pipe
  toggle       \* changes with every report

loginVars == <<login, uid, root_dir, pools>>
pathVars == <<virt_path, told_path, saved_path, history>>
reportVars == <<last, toggle>>
vars == <<pc, cmd, finals, loginVars, fds, pathVars, restart_pos, erange, left,
          signal_flag, reportVars>>

-----------------------------------------------------------------------------
(***************************************************************************)
(* Commands                                                                *)
(***************************************************************************)

\* core_command_list.  The commands that only reply, whatever the state:
ReplyOnly == {"ABOR", "ACCT", "ALLO", "CLNT", "FEAT", "NOOP", "OPTS", "PWD",
              "SYST", "TYPE"}
\* the ones that ask the file system and reply:
VfsOnly == {"MDTM", "MKD", "DELE", "RMD", "SIZE"}
Chdirs == {"CDUP", "CWD"}
Transfers == {"LIST", "RETR", "STOR"}
Commands == ReplyOnly \cup VfsOnly \cup Chdirs \cup Transfers
              \cup {"PASS", "PASV", "QUIT", "REST", "USER"}

needs_login == Commands \ {"FEAT", "NOOP", "OPTS", "PASS", "QUIT", "SYST", "USER"}
needs_data == {"LIST", "RETR", "STOR"}
needs_arg == {"CWD", "MDTM", "MKD", "REST", "DELE", "RETR", "RMD", "SIZE",
              "TYPE", "STOR"}

\* The arguments that make a difference; "" when there is none.
Args(name) ==
  {""} \cup CASE name = "USER" -> Users \cup {"anonymous"}
              [] name = "PASS" -> {"right", "wrong"}
              [] name = "REST" -> {"0", "n", "negative", "huge"}
              [] name \in {"CWD", "LIST"} -> Paths
              [] name \in needs_arg \ {"CWD", "REST"} -> {"x"}
              [] OTHER -> {}

\* The buffer without a command.
NoLine == [name |-> "?", arg |-> ""]

\* A name that is not in the list is "?".
Lines == UNION {{[name |-> name, arg |-> arg] : arg \in Args(name)} :
                  name \in Commands \cup {"?"}}

\* "list_unopened": the last command was a LIST whose opendir() failed;
\* "strayed": such a LIST has moved the session, and no CWD has since;
\* "refused_stor": a STOR has opened its file and got no data connection.
Histories == {"list_unopened", "strayed", "refused_stor"}

Init ==
  /\ pc = "start"
  /\ cmd = NoLine
  /\ finals = 0
  \* new_session leaves login.user uninitialised.
  /\ login \in [logged_in : {FALSE}, anonymous : {FALSE}, user : {"NULL", "GARBAGE"}]
  /\ uid = "root" /\ root_dir = "none" /\ pools = {}
  /\ fds = {}
  /\ virt_path = Root /\ told_path = Root /\ saved_path = Root /\ history = {}
  /\ restart_pos = "0" /\ erange = FALSE /\ left = 0
  /\ signal_flag = {}
  /\ last = "none" /\ toggle = 0

\* send_state.  writev() is tried again after a signal; without a reader it
\* fails, and no caller looks at the result.
send_state(type) ==
  IF last = "unread"
  THEN UNCHANGED reportVars
  ELSE last' = type /\ toggle' = 1 - toggle

\* A call that fails overwrites errno; one that succeeds may.
SetErrno == erange' \in {erange, FALSE}

\* Mutant of Answer: the handler forgets to reply to some commands.
Answer_forgotten(n) ==
  /\ finals' = IF cmd.name = "LIST" THEN finals ELSE finals + n
  /\ cmd' = NoLine
  /\ pc' = "loop"

\* reply with a final code, and on to the next command (remove_cmd).
Answer(n) ==
  /\ finals' = finals + n
  /\ cmd' = NoLine
  /\ pc' = "loop"

\* The command handler returned FTP_QUIT or FTP_ERROR.
Leave(n) ==
  /\ finals' = finals + n
  /\ cmd' = NoLine
  /\ pc' = "bye"

\* Mutant of Terminating: an ignored signal hides the others.
Terminating_hidden(flags) == flags # {} /\ flags \cap {"SIGCHLD", "SIGPIPE"} = {}

\* server_handle_signal: SIGCHLD and SIGPIPE are ignored, any other signal
\* means that we terminate; nothing stays flagged.
Terminating(flags) == flags \ {"SIGCHLD", "SIGPIPE"} # {}

\* Mutant of pre_command: the flag needs_data is not looked at.
pre_command_no_data(line) ==
  /\ line.name \in needs_login => login.logged_in
  /\ line.name \in needs_arg => line.arg # ""

\* pre_command.
pre_command(line) ==
  /\ line.name \in needs_login => login.logged_in
  /\ line.name \in needs_data => "pasv" \in fds
  /\ line.name \in needs_arg => line.arg # ""

\* The session is at do_cmd, with a command that gets past pre_command.
Doing(names) ==
  /\ pc = "command" /\ cmd.name \in names
  /\ pre_command(cmd)

-----------------------------------------------------------------------------
(***************************************************************************)
(* ftp_main, read_cmd and read_poll                                        *)
(***************************************************************************)

\* ftp_main sends its greeting.
Start ==
  /\ pc = "start"
  /\ Answer(1)
  /\ UNCHANGED <<loginVars, fds, pathVars, restart_pos, erange, left>>
  /\ UNCHANGED <<signal_flag, reportVars>>

\* init_reply_pool or new_session fails.
StartFails ==
  /\ pc = "start" /\ Faults \cap {"malloc", "socket"} # {}
  /\ pc' = "exited"
  /\ UNCHANGED <<cmd, finals, loginVars, fds, pathVars, restart_pos, erange, left>>
  /\ UNCHANGED <<signal_flag, reportVars>>

\* read_poll calls poll(), without a look at signals that are flagged.
EnterPoll ==
  /\ pc = "loop"
  /\ pc' = "polling"
  /\ UNCHANGED <<cmd, finals, loginVars, fds, pathVars, restart_pos, erange, left>>
  /\ UNCHANGED <<signal_flag, reportVars>>

\* A command is there, in the buffer already or after waiting for it.
read_cmd ==
  /\ pc \in {"loop", "polling"}
  /\ cmd' \in Lines
  /\ finals' = 0
  /\ pc' = "command"
  /\ history' = history \ {"list_unopened"}
  /\ SetErrno
  /\ UNCHANGED <<loginVars, fds, virt_path, told_path, saved_path, restart_pos, left>>
  /\ UNCHANGED <<signal_flag, reportVars>>

\* The client is gone or timed out, or its line is too long (421), or the
\* socket fails.
NoCommand ==
  /\ pc = "polling"
  /\ \/ Leave(0)
     \/ Leave(1)
  /\ UNCHANGED <<loginVars, fds, pathVars, restart_pos, erange, left>>
  /\ UNCHANGED <<signal_flag, reportVars>>

\* poll() returned EINTR: read_poll, and then read_cmd, look at the signals;
\* another one may come between the two.  read_cmd reads errno after read_poll
\* has logged, and takes any value but EINTR for an error.
PollInterrupted ==
  /\ pc = "eintr"
  /\ signal_flag' = {}
  /\ IF Terminating(signal_flag)
     THEN pc' = "bye"
     ELSE pc' \in {"eintr", "loop"} \cup IF "log" \in Faults THEN {"bye"} ELSE {}
  /\ erange' = FALSE
  /\ UNCHANGED <<cmd, finals, loginVars, fds, pathVars, restart_pos, left, reportVars>>

\* The end of ftp_main: the 421 goodbye is no command's reply; the pools are
\* freed, destroy_session closes the passive socket and frees login.user,
\* whatever it points to.
Exit ==
  /\ pc = "bye"
  /\ pc' \in {"exited"} \cup IF login.user = "GARBAGE" THEN {"crashed"} ELSE {}
  /\ pools' = {}
  /\ fds' = fds \ {"pasv"}
  /\ UNCHANGED <<cmd, finals, login, uid, root_dir, pathVars, restart_pos, erange>>
  /\ UNCHANGED <<left, signal_flag, reportVars>>

-----------------------------------------------------------------------------
(***************************************************************************)
(* do_cmd, and the handlers that only reply                                *)
(***************************************************************************)

\* do_cmd: an unknown command, or one that pre_command turns away.
Refuse ==
  /\ pc = "command"
  /\ cmd.name = "?" \/ ~pre_command(cmd)
  /\ Answer(1)
  /\ UNCHANGED <<loginVars, fds, pathVars, restart_pos, erange, left>>
  /\ UNCHANGED <<signal_flag, reportVars>>

\* doabor, doacct, doallo, doclnt, dofeat, donoop, doopts, dopwd, dosyst, dotype.
JustReply ==
  /\ Doing(ReplyOnly)
  /\ Answer(1)
  /\ UNCHANGED <<loginVars, fds, pathVars, restart_pos, erange, left>>
  /\ UNCHANGED <<signal_flag, reportVars>>

doquit ==
  /\ Doing({"QUIT"})
  /\ Leave(1)
  /\ UNCHANGED <<loginVars, fds, pathVars, restart_pos, erange, left>>
  /\ UNCHANGED <<signal_flag, reportVars>>

\* Mutant of dorest: a negative offset is accepted.
dorest_negative ==
  /\ Doing({"REST"})
  /\ erange' = (erange \/ cmd.arg = "huge")
  /\ restart_pos' = IF cmd.arg # "huge" /\ ~erange THEN cmd.arg ELSE "0"
  /\ Answer(1)
  /\ UNCHANGED <<loginVars, fds, pathVars, left, signal_flag, reportVars>>

\* dorest.  strtoll() leaves ERANGE in errno when the number is out of range,
\* and does not clear it when it is not.
dorest ==
  /\ Doing({"REST"})
  /\ erange' = (erange \/ cmd.arg = "huge")
  /\ restart_pos' = IF cmd.arg \in {"0", "n"} /\ ~erange THEN cmd.arg ELSE "0"
  /\ Answer(1)
  /\ UNCHANGED <<loginVars, fds, pathVars, left, signal_flag, reportVars>>

-----------------------------------------------------------------------------
(***************************************************************************)
(* Logging in                                                              *)
(***************************************************************************)

\* Mutant of douser: an anonymous client may name another user.
douser_again ==
  /\ Doing({"USER"})
  /\ login' = IF login.logged_in /\ ~login.anonymous THEN login
              ELSE IF cmd.arg = "anonymous"
                   THEN [login EXCEPT !.user = "NULL", !.anonymous = allow_anon \/ @]
                   ELSE [login EXCEPT !.user = cmd.arg]
  /\ Answer(1)
  /\ UNCHANGED <<uid, root_dir, pools, fds, pathVars, restart_pos, erange>>
  /\ UNCHANGED <<left, signal_flag, reportVars>>

\* douser.  strdup("") succeeds: a USER without a name is remembered as "".
douser ==
  /\ Doing({"USER"})
  /\ login' = IF login.logged_in THEN login
              ELSE IF cmd.arg = "anonymous"
                   THEN [login EXCEPT !.user = "NULL", !.anonymous = allow_anon \/ @]
                   ELSE [login EXCEPT !.user = cmd.arg]
  /\ Answer(1)
  /\ UNCHANGED <<uid, root_dir, pools, fds, pathVars, restart_pos, erange>>
  /\ UNCHANGED <<left, signal_flag, reportVars>>

\* douser when strdup() fails.
UserNoMemory ==
  /\ Doing({"USER"}) /\ "malloc" \in Faults
  /\ ~login.logged_in /\ cmd.arg # "anonymous"
  /\ login' = [login EXCEPT !.user = "NULL"]
  /\ Leave(0)
  /\ UNCHANGED <<uid, root_dir, pools, fds, pathVars, restart_pos, erange>>
  /\ UNCHANGED <<left, signal_flag, reportVars>>

\* dopass refuses: already logged in, or no user yet.
PassRefused ==
  /\ Doing({"PASS"})
  /\ login.logged_in \/ (~login.anonymous /\ login.user = "NULL")
  /\ Answer(1)
  /\ UNCHANGED <<loginVars, fds, pathVars, restart_pos, erange, left>>
  /\ UNCHANGED <<signal_flag, reportVars>>

\* The pools that get allocated when init_state_pool and init_vfs_pool are
\* both called, whatever they return.
Allocated == IF "malloc" \in Faults THEN SUBSET {"state", "vfs"} ELSE {{"state", "vfs"}}

\* dopass for an anonymous user: the results of the two calls are ignored,
\* and nothing is reported to the daemon.
PassAnonymous ==
  /\ Doing({"PASS"}) /\ ~login.logged_in /\ login.anonymous
  /\ pools' \in Allocated
  /\ root_dir' = "anon_root_dir"
  /\ login' = [login EXCEPT !.logged_in = TRUE]
  /\ Answer(1)
  /\ UNCHANGED <<uid, fds, pathVars, restart_pos, erange, left, signal_flag>>
  /\ UNCHANGED reportVars

\* The same without a directory for anonymous users, which is allowed when the
\* configuration file is empty: the strlen() in init_vfs_pool crashes.
PassAnonymousNoRoot ==
  /\ Doing({"PASS"}) /\ ~login.logged_in /\ login.anonymous
  /\ "anon_root_dir" \in Faults
  /\ pc' = "crashed" /\ finals' = finals + 1
  /\ UNCHANGED <<cmd, loginVars, fds, pathVars, restart_pos, erange, left>>
  /\ UNCHANGED <<signal_flag, reportVars>>

\* Mutant of PassUser: init_state_pool is forgotten.
PassUser_no_state ==
  /\ Doing({"PASS"}) /\ ~login.logged_in /\ ~login.anonymous
  /\ login.user \in Users /\ cmd.arg = "right"
  /\ pools' = {"vfs"}
  /\ root_dir' = login.user
  /\ uid' = login.user
  /\ login' = [login EXCEPT !.logged_in = TRUE]
  /\ Answer(1)
  /\ UNCHANGED <<fds, pathVars, restart_pos, erange, left, signal_flag, reportVars>>

\* Mutant of PassUser: setuid() is called after the session may be used.
PassUser_no_setuid ==
  /\ Doing({"PASS"}) /\ ~login.logged_in /\ ~login.anonymous
  /\ login.user \in Users /\ cmd.arg = "right"
  /\ pools' = {"state", "vfs"}
  /\ root_dir' = login.user
  /\ login' = [login EXCEPT !.logged_in = TRUE]
  /\ send_state("T_LOGIN")
  /\ Answer(1)
  /\ SetErrno
  /\ UNCHANGED <<uid, fds, pathVars, restart_pos, left, signal_flag>>

\* dopass for a user: login_user finds the password right and allocates both
\* pools, and setuid() succeeds.
PassUser ==
  /\ Doing({"PASS"}) /\ ~login.logged_in /\ ~login.anonymous
  /\ login.user \in Users /\ cmd.arg = "right"
  /\ pools' = {"state", "vfs"}
  /\ root_dir' = login.user
  /\ uid' = login.user
  /\ login' = [login EXCEPT !.logged_in = TRUE]
  /\ send_state("T_LOGIN")
  /\ Answer(1)
  /\ SetErrno
  /\ UNCHANGED <<fds, pathVars, restart_pos, left, signal_flag>>

\* dopass for a user, in vain: the user or the password is wrong (530), or
\* memory or setuid() fails.  With a wild pointer for a name, looking the
\* user up fails or kills the process.
PassFails ==
  /\ Doing({"PASS"}) /\ ~login.logged_in /\ ~login.anonymous
  /\ login.user # "NULL"
  /\ \/ /\ login.user \notin Users \/ cmd.arg # "right"
        /\ Leave(1)
        /\ UNCHANGED <<pools, root_dir>>
     \/ /\ "malloc" \in Faults /\ login.user \in Users /\ cmd.arg = "right"
        /\ pools' \in {{}, {"state"}}
        /\ Leave(1)
        /\ UNCHANGED root_dir
     \/ /\ "setuid" \in Faults /\ login.user \in Users /\ cmd.arg = "right"
        /\ pools' = {"state", "vfs"} /\ root_dir' = login.user
        /\ Leave(0)
     \/ /\ login.user = "GARBAGE"
        /\ pc' = "crashed" /\ UNCHANGED <<cmd, finals, pools, root_dir>>
  /\ UNCHANGED <<login, uid, fds, pathVars, restart_pos, left, signal_flag>>
  /\ SetErrno /\ UNCHANGED reportVars

-----------------------------------------------------------------------------
(***************************************************************************)
(* Files and directories                                                   *)
(***************************************************************************)

VfsCommands == VfsOnly \cup Chdirs \cup Transfers

\* assert( real_path != NULL ) in vfs_realpath.
VfsAssertFails ==
  /\ Doing(VfsCommands) /\ "vfs" \notin pools
  /\ pc' = "crashed"
  /\ UNCHANGED <<cmd, finals, loginVars, fds, pathVars, restart_pos, erange, left>>
  /\ UNCHANGED <<signal_flag, reportVars>>

\* The name is too long, the file system says no, or the object is of the
\* wrong kind: 550.
VfsFails ==
  /\ Doing(VfsCommands) /\ ("vfs" \in pools \/ cmd.name \in {"RETR", "STOR"})
  /\ Answer(1)
  /\ SetErrno
  /\ UNCHANGED <<loginVars, fds, pathVars, restart_pos, left, signal_flag, reportVars>>

\* domkd, dormd, dodele, dosize, domdtm.
VfsReply ==
  /\ Doing(VfsOnly) /\ "vfs" \in pools
  /\ Answer(1)
  /\ UNCHANGED <<loginVars, fds, pathVars, restart_pos, erange, left>>
  /\ UNCHANGED <<signal_flag, reportVars>>

\* docwd and docdup: vfs_chdir, then a report.
docwd ==
  /\ Doing(Chdirs) /\ pools = {"state", "vfs"}
  /\ virt_path' \in IF cmd.name = "CWD" THEN {cmd.arg} ELSE Paths
  /\ told_path' = IF last = "unread" THEN told_path ELSE virt_path'
  /\ history' = history \ {"strayed"}
  /\ send_state("T_CHDIR")
  /\ Answer(1)
  /\ SetErrno
  /\ UNCHANGED <<loginVars, fds, saved_path, restart_pos, left, signal_flag>>

\* docwd: assert( state_pool != NULL ) in send_state.
StateAssertFails ==
  /\ Doing(Chdirs) /\ pools = {"vfs"}
  /\ pc' = "crashed"
  /\ UNCHANGED <<cmd, finals, loginVars, fds, pathVars, restart_pos, erange, left>>
  /\ UNCHANGED <<signal_flag, reportVars>>

-----------------------------------------------------------------------------
(***************************************************************************)
(* The data connection                                                     *)
(***************************************************************************)

\* dopasv: the old socket is closed; a new one is opened and listens.
dopasv ==
  /\ Doing({"PASV"})
  /\ fds' = fds \cup {"pasv"}
  /\ Answer(1)
  /\ UNCHANGED <<loginVars, pathVars, restart_pos, erange, left, signal_flag>>
  /\ UNCHANGED reportVars

\* dopasv: there is no socket (the session ends), or no port for it (see
\* PasvPorts).
PasvFails ==
  /\ Doing({"PASV"})
  /\ fds' = fds \ {"pasv"}
  /\ \/ Answer(1)
     \/ "socket" \in Faults /\ Leave(1)
  /\ SetErrno
  /\ UNCHANGED <<loginVars, pathVars, restart_pos, left, signal_flag, reportVars>>

\* The descriptor of the file that a transfer command opens.
FileOf(name) == CASE name = "RETR" -> {"retr_file"}
                  [] name = "STOR" -> {"stor_file"}
                  [] OTHER -> {}

\* dolist, doretr, dostor up to accept_data_conn: stat and open succeed.
OpenTransfer ==
  /\ Doing(Transfers) /\ "vfs" \in pools
  /\ fds' = fds \cup FileOf(cmd.name)
  /\ pc' = "accepting"
  /\ UNCHANGED <<cmd, finals, loginVars, pathVars, restart_pos, erange, left>>
  /\ UNCHANGED <<signal_flag, reportVars>>

\* Mutant of NoDataConnection: doretr forgets its file, too.
NoDataConnection_open ==
  /\ fds' = IF cmd.name = "STOR" THEN (fds \ {"stor_file"}) \cup {"lost_file"} ELSE fds
  /\ history' = history \cup IF cmd.name = "STOR" THEN {"refused_stor"} ELSE {}
  /\ UNCHANGED <<virt_path, told_path, saved_path>>

\* What the handlers do when accept_data_conn fails.  doretr closes its file;
\* dostor closes the failed descriptor instead, and nobody knows the file any
\* more: it stays open, with those of other such commands.
NoDataConnection ==
  /\ fds' = IF cmd.name = "STOR"
            THEN (fds \ {"stor_file"}) \cup {"lost_file"}
            ELSE fds \ {"retr_file"}
  /\ history' = history \cup IF cmd.name = "STOR" THEN {"refused_stor"} ELSE {}
  /\ UNCHANGED <<virt_path, told_path, saved_path>>

\* accept_data_conn returns -1, after a 425.
AcceptFails ==
  /\ pc = "accepting" /\ "accept" \in Faults
  /\ NoDataConnection
  /\ Answer(1)
  /\ erange' = FALSE
  /\ UNCHANGED <<loginVars, restart_pos, left, signal_flag, reportVars>>

\* accept_data_conn returns -2: the connection was aborted by the peer.
AcceptAborted ==
  /\ pc = "accepting" /\ "accept" \in Faults
  /\ NoDataConnection
  /\ Leave(0)
  /\ erange' = FALSE
  /\ UNCHANGED <<loginVars, restart_pos, left, signal_flag, reportVars>>

\* accept() returned EINTR.  A signal that does not terminate the session
\* makes it give up the data connection (425).
AcceptInterrupted ==
  /\ pc = "accept_eintr"
  /\ signal_flag' = {}
  /\ NoDataConnection
  /\ IF Terminating(signal_flag) THEN Leave(0) ELSE Answer(1)
  /\ erange' = FALSE
  /\ UNCHANGED <<loginVars, restart_pos, left, reportVars>>

\* doretr: the restart position is behind the end of the file (451).
RestartTooLarge ==
  /\ pc = "accepting" /\ cmd.name = "RETR" /\ restart_pos # "0"
  /\ fds' = fds \ {"retr_file"}
  /\ Answer(1)
  /\ UNCHANGED <<loginVars, pathVars, restart_pos, erange, left, signal_flag>>
  /\ UNCHANGED reportVars

\* The client connects; doretr and dostor report the start of the transfer.
BeginTransfer ==
  /\ pc = "accepting"
  /\ cmd.name # "LIST" => "state" \in pools
  /\ fds' = fds \cup {"data"}
  /\ left' \in IF cmd.name = "RETR" THEN 0..MaxBlocks ELSE {0}
  /\ IF cmd.name = "LIST" THEN UNCHANGED reportVars ELSE send_state("T_XFER_START")
  /\ pc' = "xfer"
  /\ SetErrno
  /\ UNCHANGED <<cmd, finals, loginVars, pathVars, restart_pos, signal_flag>>

\* The same without a state pool: the assertion in send_state fails.
BeginAssertFails ==
  /\ pc = "accepting" /\ cmd.name # "LIST" /\ "state" \notin pools
  /\ pc' = "crashed"
  /\ UNCHANGED <<cmd, finals, loginVars, fds, pathVars, restart_pos, erange, left>>
  /\ UNCHANGED <<signal_flag, reportVars>>

-----------------------------------------------------------------------------
(***************************************************************************)
(* Transfers                                                               *)
(***************************************************************************)

Transferring(names) == pc = "xfer" /\ cmd.name \in names

\* Mutant of EndTransfer: no T_XFER_STOP when the transfer did not succeed.
EndTransfer_silent(ret) ==
  /\ restart_pos' = IF cmd.name = "RETR" THEN "0" ELSE restart_pos
  /\ fds' = fds \ ({"data"} \cup FileOf(cmd.name))
  /\ IF ret = "FTP_SUCCESS" THEN send_state("T_XFER_STOP") ELSE UNCHANGED reportVars
  /\ left' = 0
  /\ Answer(1)

\* The end of doretr and dostor, for whatever transfer_file or store_file
\* returned, FTP_QUIT included: reply, report, close, FTP_SUCCESS.
EndTransfer(ret) ==
  /\ restart_pos' = IF cmd.name = "RETR" THEN "0" ELSE restart_pos
  /\ fds' = fds \ ({"data"} \cup FileOf(cmd.name))
  /\ send_state("T_XFER_STOP")
  /\ left' = 0
  /\ Answer(1)

\* A block was moved; throttle_pause may report progress.
MoveBlock ==
  /\ Transferring({"RETR", "STOR"}) /\ (cmd.name = "RETR" => left > 0)
  /\ left' = IF cmd.name = "RETR" THEN left - 1 ELSE 0
  /\ send_state("T_XFER") \/ UNCHANGED reportVars
  /\ pc' = "moved"
  /\ SetErrno
  /\ UNCHANGED <<cmd, finals, loginVars, fds, pathVars, restart_pos, signal_flag>>

\* transfer_file and store_file look at the signals: after every block, and
\* when splice_stream returned EINTR.
TransferSignals ==
  /\ pc \in {"moved", "xfer_eintr"}
  /\ signal_flag' = {}
  /\ IF Terminating(signal_flag)
     THEN EndTransfer("FTP_QUIT")
     ELSE /\ pc' = "xfer"
          /\ UNCHANGED <<cmd, finals, fds, restart_pos, left, reportVars>>
  /\ SetErrno
  /\ UNCHANGED <<loginVars, pathVars>>

\* The remainder of the file is sent, or the client has sent all of its file.
TransferDone ==
  /\ Transferring({"RETR", "STOR"}) /\ left = 0
  /\ EndTransfer("FTP_SUCCESS")
  /\ SetErrno
  /\ UNCHANGED <<loginVars, pathVars, signal_flag>>

\* The peer closed the data connection, or the transfer failed.  Writing to a
\* closed connection also raises SIGPIPE.
TransferFails ==
  /\ Transferring({"RETR", "STOR"}) /\ "xfer" \in Faults
  /\ \E ret \in {"FTP_ABOR", "FTP_ERROR"} : EndTransfer(ret)
  /\ signal_flag' \in {signal_flag, signal_flag \cup {"SIGPIPE"}}
  /\ erange' = FALSE
  /\ UNCHANGED <<loginVars, pathVars>>

\* dolist after list_file, whatever it returned.
ListFile ==
  /\ Transferring({"LIST"})
  /\ fds' = fds \ {"data"}
  /\ Answer(1)
  /\ SetErrno
  /\ UNCHANGED <<loginVars, pathVars, restart_pos, left, signal_flag, reportVars>>

\* The directory that a LIST asks for.
Listed == IF cmd.arg = "" THEN virt_path ELSE cmd.arg

\* list_directory saves virt_path, moves to the directory and opens it; it
\* stays there while the listing goes out at the speed of the client.
OpenListing ==
  /\ Transferring({"LIST"})
  /\ saved_path' = virt_path
  /\ virt_path' = Listed
  /\ pc' = "listing"
  /\ UNCHANGED <<cmd, finals, loginVars, fds, told_path, history, restart_pos, erange>>
  /\ UNCHANGED <<left, signal_flag, reportVars>>

\* list_directory when opendir() fails: one reply of its own, another one in
\* dolist, and virt_path stays where it was moved to.
ListOpendirFails ==
  /\ Transferring({"LIST"}) /\ "opendir" \in Faults
  /\ virt_path' = Listed
  /\ history' = history \cup {"list_unopened"}
                  \cup IF Listed = virt_path THEN {} ELSE {"strayed"}
  /\ fds' = fds \ {"data"}
  /\ Answer(2)
  /\ erange' = FALSE
  /\ UNCHANGED <<loginVars, told_path, saved_path, restart_pos, left, signal_flag>>
  /\ UNCHANGED reportVars

\* Mutant of EndListing: the loop returns where it should break.
EndListing_returns ==
  /\ pc = "listing"
  /\ virt_path' \in {saved_path, virt_path}
  /\ saved_path' = Root
  /\ fds' = fds \ {"data"}
  /\ Answer(1)
  /\ SetErrno
  /\ UNCHANGED <<loginVars, told_path, history, restart_pos, left, signal_flag>>
  /\ UNCHANGED reportVars

\* The listing is complete, or could not be sent: list_directory puts
\* virt_path back, and dolist replies.
EndListing ==
  /\ pc = "listing"
  /\ virt_path' = saved_path
  /\ saved_path' = Root
  /\ fds' = fds \ {"data"}
  /\ Answer(1)
  /\ SetErrno
  /\ UNCHANGED <<loginVars, told_path, history, restart_pos, left, signal_flag>>
  /\ UNCHANGED reportVars

-----------------------------------------------------------------------------

Ended == pc \in {"exited", "crashed"}

\* signal_handler.  A call that sleeps is interrupted; a transfer is when the
\* signal falls into splice_stream.
Signal(sig) ==
  /\ ~Ended
  /\ signal_flag' = signal_flag \cup {sig}
  /\ pc' \in CASE pc = "polling" -> {"eintr"}
               [] pc = "accepting" -> {"accept_eintr"}
               [] Transferring({"RETR", "STOR"}) -> {"xfer", "xfer_eintr"}
               [] OTHER -> {pc}
  /\ UNCHANGED <<cmd, finals, loginVars, fds, pathVars, restart_pos, erange, left>>
  /\ UNCHANGED reportVars

\* Writing to a client or a daemon that is gone raises SIGPIPE.
PipeBreaks ==
  /\ pc \in {"start", "loop", "command", "xfer", "listing", "moved", "bye"}
  /\ signal_flag' = signal_flag \cup {"SIGPIPE"}
  /\ UNCHANGED <<pc, cmd, finals, loginVars, fds, pathVars, restart_pos, erange, left>>
  /\ UNCHANGED reportVars

\* The daemon dies; its sessions have closed their copies of the reading end.
DaemonDies ==
  /\ ~Ended /\ "daemon" \in Faults
  /\ last' = "unread" /\ toggle' = 0
  /\ UNCHANGED <<pc, cmd, finals, loginVars, fds, pathVars, restart_pos, erange, left>>
  /\ UNCHANGED signal_flag

Main == Start \/ StartFails \/ EnterPoll \/ read_cmd \/ NoCommand \/ PollInterrupted \/ Exit

Reply == Refuse \/ JustReply \/ doquit \/ dorest

LogIn == douser \/ UserNoMemory \/ PassRefused \/ PassAnonymous
           \/ PassAnonymousNoRoot \/ PassUser \/ PassFails

Files == VfsAssertFails \/ VfsFails \/ VfsReply \/ docwd \/ StateAssertFails

DataConnection ==
  \/ dopasv \/ PasvFails \/ OpenTransfer \/ AcceptFails \/ AcceptAborted
  \/ AcceptInterrupted \/ RestartTooLarge \/ BeginTransfer \/ BeginAssertFails

Transfer == MoveBlock \/ TransferSignals \/ TransferDone \/ TransferFails
              \/ ListFile \/ OpenListing \/ ListOpendirFails \/ EndListing

SessionStep == Main \/ Reply \/ LogIn \/ Files \/ DataConnection \/ Transfer

Next == SessionStep \/ PipeBreaks \/ DaemonDies \/ \E sig \in Signals : Signal(sig)

Spec == Init /\ [][Next]_vars

\* The kernel keeps the process running while it does not wait for its peer.
Unblocked == SessionStep /\ pc \notin {"polling", "accepting", "xfer", "listing"}
FairSpec == Spec /\ WF_vars(Unblocked)

-----------------------------------------------------------------------------
(***************************************************************************)
(* Properties                                                              *)
(***************************************************************************)

\* The type invariant.
TypeOK ==
  /\ pc \in {"start", "loop", "polling", "eintr", "command", "accepting", "accept_eintr",
             "xfer", "xfer_eintr", "moved", "listing", "bye", "exited", "crashed"}
  /\ cmd \in Lines
  /\ finals \in 0..3
  /\ login \in [logged_in : BOOLEAN, anonymous : BOOLEAN,
                user : Users \cup {"NULL", "GARBAGE", ""}]
  /\ uid \in Users \cup {"root"}
  /\ root_dir \in Users \cup {"none", "anon_root_dir"}
  /\ pools \in SUBSET {"state", "vfs"}
  /\ fds \in SUBSET {"pasv", "data", "retr_file", "stor_file", "lost_file"}
  /\ virt_path \in Paths /\ told_path \in Paths /\ saved_path \in Paths
  /\ history \in SUBSET Histories
  /\ restart_pos \in {"0", "n"}
  /\ erange \in BOOLEAN
  /\ left \in 0..MaxBlocks
  /\ signal_flag \in SUBSET AllSignals
  /\ last \in {"none", "T_LOGIN", "T_CHDIR", "T_XFER_START", "T_XFER", "T_XFER_STOP",
              "unread"}
  /\ toggle \in {0, 1}

\* A client is logged in as a user only with that user's identity and inside
\* that user's directory; everybody else who is logged in is anonymous and
\* inside the anonymous directory; nobody else has left a trace.
LoginSound ==
  IF login.logged_in
  THEN IF login.anonymous
       THEN uid = "root" /\ root_dir = "anon_root_dir"
       ELSE uid = login.user /\ root_dir = login.user
  ELSE /\ uid = "root" /\ last \in {"none", "unread"}
       /\ virt_path = Root /\ fds = {} /\ restart_pos = "0"

\* Who the client is never changes once it is logged in.
LoginStable == [][login.logged_in => UNCHANGED <<login, uid, root_dir>>]_vars

\* Every command gets one final reply before the next one is read, whichever
\* call fails or is interrupted; only a LIST whose opendir() fails gets two.
EveryCommandAnswered ==
  pc \in {"loop", "polling"} =>
    finals = IF "list_unopened" \in history THEN 2 ELSE 1

\* Between two commands only the passive socket is open, and the files of
\* STORs that got no data connection; accept() is only called on a listening
\* socket, and the data connection is open during the transfer.
DescriptorsClosed ==
  /\ pc \in {"loop", "polling", "command"} =>
       fds \subseteq {"pasv"} \cup
         (IF "refused_stor" \in history THEN {"lost_file"} ELSE {})
  /\ pc \in {"accepting", "xfer", "xfer_eintr", "moved", "listing"} =>
       "pasv" \in fds /\ FileOf(cmd.name) \subseteq fds
  /\ "data" \in fds <=> pc \in {"xfer", "xfer_eintr", "moved", "listing"}

\* Outside of a listing the session is in the directory that the daemon, while
\* it lives, was last told of; only a LIST whose opendir() fails can leave it
\* in another one, and only until the next CWD.
CwdReported ==
  last # "unread" /\ pc # "listing" /\ "strayed" \notin history
    => told_path = virt_path

\* The reports of a session are what the daemon relies on.
R == INSTANCE Reporter
ReportsInOrder == R!Spec

\* A session that waits for its client, and is interrupted by a terminating
\* signal, ends.
TermEndsWaiting ==
  (pc \in {"eintr", "accept_eintr"} /\ Terminating(signal_flag)) ~> Ended

\* The assertions of vfs_realpath and send_state hold for every user with a
\* name, whatever was allocated or failed before: only an anonymous user who
\* has not both pools, or a wild user name, can crash the session.
CrashesOnlyWithoutPools ==
  pc = "crashed" =>
    \/ login.user = "GARBAGE"
    \/ login.anonymous /\ pools # {"state", "vfs"}

-----------------------------------------------------------------------------
(***************************************************************************)
(* What comments and replies in the source say, and the code does not do   *)
(***************************************************************************)

\* server.c:93 "All other signals means we terminate": once a terminating
\* signal has been looked at, the session is on its way out.
TerminationHonoured ==
  [][Terminating(signal_flag) /\ ~Terminating(signal_flag')
       => pc' \in {"bye", "exited"}]_vars

=============================================================================
