------------------------------ MODULE Daemon ------------------------------
(***************************************************************************)
(* The master process of the FTP server (daemon.c, child.c, signals.c and  *)
(* the receiving half of state.c) and the processes around it: the kernel, *)
(* which delivers signals and recycles pids, and the session processes it  *)
(* forks, reduced to what the daemon can observe of them (they report      *)
(* through the pipe, and they exit).                                       *)
(*                                                                         *)
(* The daemon is single threaded.  Its program counter pc is               *)
(*   "signals"  at daemon_handle_signal in the condition of the main loop, *)
(*   "poll"     past it, with signals unblocked, about to call poll(),     *)
(*   "polling"  asleep in poll(),                                          *)
(*   "accept"   at handle_client, because poll() reported the socket,      *)
(*   "recv"     at recv_state, because poll() reported the pipe,           *)
(*   "stopped"  past remove_all_clients,                                   *)
(*   "crashed"  dead of a NULL dereference.                                *)
(* Signals arrive between any two of these steps; inside                   *)
(* daemon_handle_signal they are blocked, so that it is one step.          *)
(***************************************************************************)
EXTENDS ClientList, StatePipe, FiniteSets

CONSTANTS
  Pids,        \* process ids the kernel hands out
  max_clients, \* config.max_clients, -1 for no limit
  Paths,       \* directories a session can report
  Names,       \* user and file names a session can report
  Infos,       \* values of ftp_xfer_info_t, 0 for the cleared one
  MaxBacklog,  \* bound on connections waiting in the listening socket
  MaxReports,  \* bound on the reports one session sends
  Signals,     \* signals the environment sends to the daemon
  Faults       \* system calls that may fail, see AllFaults

AllFaults ==
  {"poll", "accept", "eintr", "epipe", "fork", "malloc", "read", "jobctl"}

TermSignals == {"SIGINT", "SIGTERM", "SIGHUP", "SIGOTHER"}
AllSignals == TermSignals \cup {"SIGPIPE", "SIGCHLD"}

ASSUME DaemonAssumption ==
  /\ max_clients \in Nat \cup {-1}
  /\ 0 \in Infos
  /\ MaxBacklog \in Nat /\ MaxReports \in Nat
  /\ Signals \subseteq TermSignals
  /\ Faults \subseteq AllFaults

\* Results of the handlers (server.h).
FTP_SUCCESS == "FTP_SUCCESS"
FTP_ERROR == "FTP_ERROR"
FTP_QUIT == "FTP_QUIT"

VARIABLES
  pc,          \* where the daemon is
  revents,     \* what the last poll() reported: subset of {"server", "pipe"}
  signal_flag, \* the signals caught and not yet looked at
  list,        \* the client list: sequence of pids
  child,       \* the record (ftp_child_t) behind each pid of the list
  backlog,     \* connections waiting to be accepted
  killed,      \* processes that were sent SIGTERM by remove_all_clients
  proc,        \* pid -> "free", "running" or "zombie"
  inherited,   \* pid -> the client list its process was forked with
  reported,    \* pid -> the record that its reports so far amount to
  sent,        \* pid -> number of reports sent
  clean,       \* pid -> was no report under this pid unread when it was forked?
  pipe         \* the byte stream from the sessions to the daemon

daemonVars == <<pc, revents, signal_flag, list, child, killed>>
procVars == <<proc, inherited, reported, sent, clean>>
vars == <<daemonVars, backlog, procVars, pipe>>

Down == pc \in {"stopped", "crashed"}

\* The node that new_client allocates.
new_client == [login_name |-> "", path |-> "", filename |-> "",
               xfer_in_progress |-> FALSE, xfer_info |-> 0]

Records == [login_name : Names \cup {""}, path : Paths \cup {""},
            filename : Names \cup {""}, xfer_in_progress : BOOLEAN,
            xfer_info : Infos]

\* The daemon and the processes when daemon_main enters its loop.
Init ==
  /\ pc = "signals" /\ revents = {} /\ signal_flag = {}
  /\ list = <<>> /\ child = [p \in Pids |-> new_client]
  /\ backlog = 0 /\ killed = {}
  /\ proc = [p \in Pids |-> "free"]
  /\ inherited = [p \in Pids |-> <<>>]
  /\ reported = [p \in Pids |-> new_client]
  /\ sent = [p \in Pids |-> 0]
  /\ clean = [p \in Pids |-> TRUE]
  /\ pipe = <<>>

-----------------------------------------------------------------------------
(***************************************************************************)
(* Signals                                                                 *)
(***************************************************************************)

\* signal_handler: the signal is noted, and a sleeping poll() returns EINTR,
\* upon which the loop goes round.
signal_handler(sig) ==
  /\ signal_flag' = signal_flag \cup {sig}
  /\ pc' = IF pc = "polling" THEN "signals" ELSE pc

\* signal_flag &= !RECV_SIGCHLD.  The logical negation of a nonzero constant
\* is 0: every flag is cleared, not just the one for SIGCHLD.
ClearSigchld(flags) == {}

\* Mutants of KilledBy: the sense of the test is inverted; no test is made.
KilledBy_inverted(l, ret) == remove_all_clients(l, ret = FTP_QUIT)
KilledBy_untested(l, ret) == remove_all_clients(l, TRUE)

\* The clients in the list l that the end of daemon_main kills: none when
\* this is a session process on its way out.
KilledBy(l, ret) == remove_all_clients(l, ret # FTP_QUIT)

\* The end of daemon_main.
Shutdown(l, ret) ==
  /\ killed' = killed \cup KilledBy(l, ret)
  /\ list' = <<>>
  /\ pc' = "stopped"

\* Mutant of TestFlags: the flags are never cleared.
TestFlags_uncleared(flags, l) ==
  /\ UNCHANGED signal_flag
  /\ \/ /\ flags = {}
        /\ pc' = "poll" /\ list' = l /\ UNCHANGED killed
     \/ /\ flags # {}
        /\ Shutdown(l, FTP_SUCCESS)

\* The second half of daemon_handle_signal, with these flags still set: any
\* of them ends the loop, in which ret is FTP_SUCCESS at this point.
TestFlags(flags, l) ==
  /\ signal_flag' = {}
  /\ \/ /\ flags = {}
        /\ pc' = "poll" /\ list' = l /\ UNCHANGED killed
     \/ /\ flags # {}
        /\ Shutdown(l, FTP_SUCCESS)

\* The pid p becomes available; nothing is left of its process.
FreePid(p) ==
  /\ proc' = [proc EXCEPT ![p] = "free"]
  /\ inherited' = [inherited EXCEPT ![p] = <<>>]
  /\ reported' = [reported EXCEPT ![p] = new_client]
  /\ sent' = [sent EXCEPT ![p] = 0]

Zombies == {p \in Pids : proc[p] = "zombie"}

\* daemon_handle_signal without SIGCHLD.
HandleSignal ==
  /\ pc = "signals" /\ "SIGCHLD" \notin signal_flag
  /\ TestFlags(signal_flag, list)
  /\ UNCHANGED <<revents, child, backlog, procVars, pipe>>

\* daemon_handle_signal with SIGCHLD: waitpid() collects one zombie, and
\* remove_client unlinks its node.
ReapChild ==
  /\ pc = "signals" /\ "SIGCHLD" \in signal_flag
  /\ \E dead \in Zombies :
       /\ find_client(list, dead)
       /\ FreePid(dead)
       /\ child' = [child EXCEPT ![dead] = new_client]
       /\ TestFlags(ClearSigchld(signal_flag), remove_client(list, dead))
  /\ UNCHANGED <<revents, backlog, clean, pipe>>

\* daemon_handle_signal with SIGCHLD, when waitpid() returns a pid that has
\* no node, or 0 or -1 because no child is dead: remove_client runs off the
\* end of the list.
ReapNobody ==
  /\ pc = "signals" /\ "SIGCHLD" \in signal_flag
  /\ \A dead \in Zombies : ~find_client(list, dead)
  /\ pc' = "crashed"
  /\ UNCHANGED <<revents, signal_flag, list, child, killed>>
  /\ UNCHANGED <<backlog, procVars, pipe>>

-----------------------------------------------------------------------------
(***************************************************************************)
(* The main loop                                                           *)
(***************************************************************************)

\* Mutant of EnterPoll: the flags are reset before every poll().
EnterPoll_resets ==
  /\ pc = "poll"
  /\ pc' = "polling" /\ signal_flag' = {}
  /\ UNCHANGED <<revents, list, child, killed, backlog, procVars, pipe>>

\* The daemon calls poll().  A signal that came since the test of the flags
\* does not keep it from sleeping.
EnterPoll ==
  /\ pc = "poll"
  /\ pc' = "polling"
  /\ UNCHANGED <<revents, signal_flag, list, child, killed>>
  /\ UNCHANGED <<backlog, procVars, pipe>>

Readable == (IF backlog > 0 THEN {"server"} ELSE {})
              \cup (IF pipe # <<>> THEN {"pipe"} ELSE {})

PollReturns ==
  /\ pc = "polling" /\ Readable # {}
  /\ revents' = Readable
  /\ pc' = IF "server" \in Readable THEN "accept" ELSE "recv"
  /\ UNCHANGED <<signal_flag, list, child, killed, backlog, procVars, pipe>>

PollFails ==
  /\ pc = "polling" /\ "poll" \in Faults
  /\ Shutdown(list, FTP_SUCCESS)
  /\ UNCHANGED <<revents, signal_flag, child, backlog, procVars, pipe>>

\* Mutants of AfterAccept: the pipe is read without asking poll(); it is only
\* read when there was no connection (an "else" before the second "if").
AfterAccept_unasked == "recv"
AfterAccept_else == "signals"

\* Where the loop body goes when handle_client returned FTP_SUCCESS.
AfterAccept == IF "pipe" \in revents THEN "recv" ELSE "signals"

\* Mutant of TooManyClients: off by one.
TooManyClients_off_by_one == max_clients # -1 /\ count_clients(list) > max_clients

\* pre_server: the limit is on the nodes of the list.
TooManyClients == max_clients # -1 /\ count_clients(list) >= max_clients

\* handle_client refuses the connection with a 421.  When the peer is gone
\* already, writing that reply raises SIGPIPE.
RefuseClient ==
  /\ pc = "accept" /\ TooManyClients
  /\ backlog' = backlog - 1
  /\ pc' = AfterAccept
  /\ \/ UNCHANGED signal_flag
     \/ "epipe" \in Faults /\ signal_flag' = signal_flag \cup {"SIGPIPE"}
  /\ UNCHANGED <<revents, list, child, killed, procVars, pipe>>

\* A pid the kernel can give to a new process: reports of its former owner
\* may still be in the pipe.
FreshPid(p) == proc[p] = "free"

\* The new session process: a copy of the daemon, its list included.
StartSession(p) ==
  /\ proc' = [proc EXCEPT ![p] = "running"]
  /\ inherited' = [inherited EXCEPT ![p] = list]
  /\ reported' = [reported EXCEPT ![p] = new_client]
  /\ sent' = [sent EXCEPT ![p] = 0]
  /\ clean' = [clean EXCEPT ![p] = PendingFrom(pipe, p) = {}]

\* handle_client forks off a session process for the connection.
ForkClient(p) ==
  /\ pc = "accept" /\ ~TooManyClients
  /\ FreshPid(p)
  /\ StartSession(p)
  /\ child' = [child EXCEPT ![p] = new_client]
  /\ list' = add_client(list, p)
  /\ backlog' = backlog - 1
  /\ pc' = AfterAccept
  /\ UNCHANGED <<revents, signal_flag, killed, pipe>>

\* The process exists, but there is no memory for its node.
NewClientFails(p) ==
  /\ pc = "accept" /\ ~TooManyClients /\ "malloc" \in Faults
  /\ FreshPid(p)
  /\ StartSession(p)
  /\ backlog' = backlog - 1
  /\ Shutdown(list, FTP_ERROR)
  /\ UNCHANGED <<revents, signal_flag, child, pipe>>

\* fork() fails, or there is no pid left: the connection is dropped.
ForkFails ==
  /\ pc = "accept" /\ ~TooManyClients
  /\ "fork" \in Faults \/ \A p \in Pids : ~FreshPid(p)
  /\ backlog' = backlog - 1
  /\ pc' = AfterAccept
  /\ UNCHANGED <<revents, signal_flag, list, child, killed, procVars, pipe>>

AcceptInterrupted ==
  /\ pc = "accept" /\ "eintr" \in Faults
  /\ pc' = AfterAccept
  /\ UNCHANGED <<revents, signal_flag, list, child, killed, backlog>>
  /\ UNCHANGED <<procVars, pipe>>

AcceptFails ==
  /\ pc = "accept" /\ "accept" \in Faults
  /\ Shutdown(list, FTP_ERROR)
  /\ UNCHANGED <<revents, signal_flag, child, backlog, procVars, pipe>>

-----------------------------------------------------------------------------
(***************************************************************************)
(* Reports                                                                 *)
(***************************************************************************)

\* What recv_login, recv_chdir, recv_xfer_start, recv_xfer and
\* recv_xfer_stop make of a report.
Apply(rec, msg) ==
  CASE msg.type = "T_LOGIN"      -> [rec EXCEPT !.login_name = msg.val]
    [] msg.type = "T_CHDIR"      -> [rec EXCEPT !.path = msg.val]
    [] msg.type = "T_XFER_START" -> [rec EXCEPT !.filename = msg.val,
                                                !.xfer_in_progress = TRUE]
    [] msg.type = "T_XFER"       -> [rec EXCEPT !.xfer_info = msg.val]
    [] msg.type = "T_XFER_STOP"  -> [rec EXCEPT !.xfer_info = msg.val,
                                                !.xfer_in_progress = FALSE]

\* Mutants of RecvKnown: the report is taken for one of the first client in
\* the list; the end of a transfer is not recorded.
RecvKnown_first ==
  /\ pc = "recv" /\ MagicOK(pipe)
  /\ LET msg == pipe[1].msg
     IN  /\ find_client(list, msg.pid)
         /\ child' = [child EXCEPT ![list[1]] = Apply(@, msg)]
         /\ pipe' = Consume(pipe, 1 + recv_size(msg.type))
  /\ pc' = "signals"
  /\ UNCHANGED <<revents, signal_flag, list, killed, backlog, procVars>>

RecvKnown_no_stop ==
  /\ pc = "recv" /\ MagicOK(pipe)
  /\ LET msg == pipe[1].msg
     IN  /\ find_client(list, msg.pid)
         /\ child' = IF msg.type = "T_XFER_STOP" THEN child
                     ELSE [child EXCEPT ![msg.pid] = Apply(@, msg)]
         /\ pipe' = Consume(pipe, 1 + recv_size(msg.type))
  /\ pc' = "signals"
  /\ UNCHANGED <<revents, signal_flag, list, killed, backlog, procVars>>

\* recv_state, from a process that is in the list.
RecvKnown ==
  /\ pc = "recv" /\ MagicOK(pipe)
  /\ LET msg == pipe[1].msg
     IN  /\ find_client(list, msg.pid)
         /\ child' = [child EXCEPT ![msg.pid] = Apply(@, msg)]
         /\ pipe' = Consume(pipe, 1 + recv_size(msg.type))
  /\ pc' = "signals"
  /\ UNCHANGED <<revents, signal_flag, list, killed, backlog, procVars>>

\* recv_state, from a process that died and was removed: skip the body.
RecvUnknown ==
  /\ pc = "recv" /\ MagicOK(pipe)
  /\ LET msg == pipe[1].msg
     IN  /\ ~find_client(list, msg.pid)
         /\ pipe' = Consume(pipe, 1 + seek_pipe(buf_size(msg.type)))
  /\ pc' = "signals"
  /\ UNCHANGED <<revents, signal_flag, list, child, killed, backlog, procVars>>

\* recv_state returns FTP_ERROR: a read fails, or the magic is wrong.
RecvFails ==
  /\ pc = "recv"
  /\ MagicOK(pipe) => "read" \in Faults
  /\ Shutdown(list, FTP_ERROR)
  /\ UNCHANGED <<revents, signal_flag, child, backlog, procVars, pipe>>

-----------------------------------------------------------------------------
(***************************************************************************)
(* The world around the daemon                                             *)
(***************************************************************************)

Connect ==
  /\ ~Down /\ backlog < MaxBacklog
  /\ backlog' = backlog + 1
  /\ UNCHANGED <<daemonVars, procVars, pipe>>

Signal(sig) ==
  /\ ~Down
  /\ signal_handler(sig)
  /\ UNCHANGED <<revents, list, child, killed, backlog, procVars, pipe>>

\* The reports a session can send next: T_LOGIN before anything else, by a
\* named user; transfers are not nested and nothing else is reported during
\* one (core.c, auth.c, throttle.c).
NextReports(p) ==
  LET in_xfer == reported[p].xfer_in_progress
      Msg(type, val) == [pid |-> p, type |-> type, val |-> val]
  IN  IF in_xfer
      THEN {Msg(type, info) : type \in {"T_XFER", "T_XFER_STOP"}, info \in Infos}
      ELSE {Msg("T_CHDIR", path) : path \in Paths}
             \cup {Msg("T_XFER_START", name) : name \in Names}
             \cup {Msg("T_LOGIN", name) : name \in
                     IF sent[p] = 0 THEN Names ELSE {}}

\* send_state in the session process p.
send_state(p) ==
  /\ ~Down /\ proc[p] = "running" /\ sent[p] < MaxReports
  /\ \E msg \in NextReports(p) :
       /\ HasRoom(pipe, msg)
       /\ pipe' = pipe \o Cells(msg)
       /\ reported' = [reported EXCEPT ![p] = Apply(@, msg)]
  /\ sent' = [sent EXCEPT ![p] = @ + 1]
  /\ UNCHANGED <<daemonVars, backlog, proc, inherited, clean>>

\* The session process p ends, at any point (it may be killed).  If it left
\* ftp_main it runs the end of daemon_main with FTP_QUIT, on its own copy of
\* the list.  While the daemon lives its exit status waits for waitpid().
ExitSession(p) ==
  /\ proc[p] = "running"
  /\ killed' = killed \cup KilledBy(inherited[p], FTP_QUIT)
  /\ \/ /\ ~Down
        /\ proc' = [proc EXCEPT ![p] = "zombie"]
        /\ signal_handler("SIGCHLD")
        /\ UNCHANGED <<inherited, reported, sent>>
     \/ /\ Down
        /\ FreePid(p)
        /\ UNCHANGED <<signal_flag, pc>>
  /\ UNCHANGED <<revents, list, child, backlog, clean, pipe>>

\* A session process is stopped or continued by job control: SIGCHLD without
\* a dead child (sigaction is called without SA_NOCLDSTOP).
StopSession(p) ==
  /\ ~Down /\ proc[p] = "running" /\ "jobctl" \in Faults
  /\ signal_handler("SIGCHLD")
  /\ UNCHANGED <<revents, list, child, killed, backlog, procVars, pipe>>

-----------------------------------------------------------------------------

DaemonStep ==
  \/ HandleSignal \/ ReapChild \/ ReapNobody
  \/ EnterPoll \/ PollReturns
  \/ RefuseClient \/ ForkFails \/ (\E p \in Pids : ForkClient(p))
  \/ RecvKnown \/ RecvUnknown

DaemonFault ==
  \/ PollFails \/ AcceptInterrupted \/ AcceptFails \/ RecvFails
  \/ \E p \in Pids : NewClientFails(p)

Environment ==
  \/ Connect
  \/ \E sig \in Signals : Signal(sig)
  \/ \E p \in Pids : send_state(p) \/ ExitSession(p) \/ StopSession(p)

Next == DaemonStep \/ DaemonFault \/ Environment

Spec == Init /\ [][Next]_vars

\* The daemon keeps running whenever it can: the kernel schedules it.
FairSpec == Spec /\ WF_vars(DaemonStep)

-----------------------------------------------------------------------------
(***************************************************************************)
(* Properties                                                              *)
(***************************************************************************)

Messages == UNION {[pid : Pids, type : {"T_LOGIN"}, val : Names],
                   [pid : Pids, type : {"T_CHDIR"}, val : Paths],
                   [pid : Pids, type : {"T_XFER_START"}, val : Names],
                   [pid : Pids, type : {"T_XFER", "T_XFER_STOP"},
                    val : Infos]}

Cell == [msg : Messages, off : Nat]

\* The type invariant.
TypeOK ==
  /\ pc \in {"signals", "poll", "polling", "accept", "recv", "stopped", "crashed"}
  /\ revents \in SUBSET {"server", "pipe"}
  /\ signal_flag \in SUBSET AllSignals
  /\ list \in Seq(Pids)
  /\ child \in [Pids -> Records]
  /\ backlog \in 0..MaxBacklog
  /\ killed \in SUBSET Pids
  /\ proc \in [Pids -> {"free", "running", "zombie"}]
  /\ inherited \in [Pids -> Seq(Pids)]
  /\ reported \in [Pids -> Records]
  /\ sent \in [Pids -> 0..MaxReports]
  /\ clean \in [Pids -> BOOLEAN]
  /\ pipe \in Seq(Cell)
  /\ pc = "accept" => backlog > 0
  /\ pc = "recv" \/ (pc = "accept" /\ "pipe" \in revents) => pipe # <<>>

\* The client list has exactly one node for every process the daemon has
\* forked and not yet collected with waitpid(), running or zombie.  Hence a
\* pid in the list cannot have been recycled.
ListIsChildren ==
  ~Down => /\ PidsOf(list) = {p \in Pids : proc[p] # "free"}
           /\ Distinct(list)

\* Reader and writers of the pipe agree on where reports begin and end: the
\* daemon always finds a header, with the whole body behind it, whichever
\* sessions wrote in which order and whichever of them are gone.
ReportsFramed == CompleteReports(pipe)

\* MaxClients is a limit on sessions, whatever dies while a client waits.
SessionsBounded ==
  max_clients # -1 =>
    Cardinality({p \in Pids : proc[p] = "running"}) <= max_clients

\* What the daemon knows of a client is what the client reported, as soon as
\* no report of it is in the pipe.  The pid is the only name a client has, so
\* that reports that a former owner of it left behind are taken for its own.
RecordsFaithful ==
  ~Down => \A p \in PidsOf(list) :
             clean[p] /\ PendingFrom(pipe, p) = {} => child[p] = reported[p]

\* SIGTERM is only ever sent by the daemon on its way down, and only to its
\* own children: a session that ends leaves its siblings alone, although it
\* runs the same code on its own copy of the list.
KillsOnlyChildren ==
  [][killed' # killed => /\ ~Down /\ Down'
                         /\ \A p \in killed' \ killed : proc[p] # "free"]_vars

\* When the daemon has stopped, no session is left without a SIGTERM.
NoOrphans ==
  pc = "stopped" => \A p \in Pids : proc[p] = "running" => p \in killed
NoOrphansUnlessNoMemory == "malloc" \in Faults \/ NoOrphans

\* remove_client never runs off the end of the list, if SIGCHLD comes from
\* dead children only.  The unconditional form is what the warning behind the
\* loop, child.c:76 "Client with PID %ld not found", says.
NeverCrashes == pc # "crashed"
NeverCrashesUnlessStopped == "jobctl" \in Faults \/ NeverCrashes

\* Reports do not wait for ever: with any in the pipe the daemon gets to
\* recv_state, however many clients connect, die or fail meanwhile.
ReportsRead == (pipe # <<>>) ~> (pc = "recv" \/ Down)

\* A terminating signal stops the daemon, if it keeps waking up and unless a
\* SIGCHLD is flagged as well: poll() may sleep over it, and the SIGCHLD
\* clears it.
TerminationHeeded ==
  []<>(pc = "signals") =>
    ((signal_flag \cap TermSignals # {} /\ "SIGCHLD" \notin signal_flag)
       ~> (Down \/ "SIGCHLD" \in signal_flag))

\* The SIGCHLD of a dead child is not lost before it is acted upon: if the
\* daemon keeps waking up, the child is collected.  It is not woken by a
\* signal between the test of the flags and poll(), and of two dead children
\* that share a flag, one stays until another child dies.
LoneDeadCollected ==
  []<>(pc = "signals") =>
    \A p \in Pids :
      (Zombies = {p} /\ "SIGCHLD" \in signal_flag) ~> (Zombies # {p} \/ Down)

-----------------------------------------------------------------------------
(***************************************************************************)
(* What comments in the source say, and the code does not do               *)
(***************************************************************************)

\* daemon.c:104 "We stop when we get a terminating signal": a terminating
\* signal that was caught stays flagged until it stops the daemon.
TerminationNotForgotten ==
  [][signal_flag \cap TermSignals \subseteq signal_flag' \/ Down']_vars

=============================================================================
