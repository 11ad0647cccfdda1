# A TLA+ model of the FTP server

This directory holds a TLA+ development of the FTP server in `src/`: modules that
model its processes and its algorithms, configurations with which TLC checks
them on small instances, and proofs that TLAPS checks for every instance.
`PROJECT.json` lists the components, runs, mutants, findings, hazards and theorems,
and maps every definition to the lines of C it stands for.

## 1. The system

The server is a forking daemon. Its *master process* (`daemon.c`) accepts
connections and forks one *session process* (`server.c`) for each. Sessions never
talk to each other; each reports to the master what its client is doing, through
one pipe that all of them share (`state.c`). Both kinds of process catch signals
in one handler that only sets a flag (`signals.c`).

| Component | State | Operations | Interaction |
|---|---|---|---|
| Startup (`main.c`) | command pool, listening socket, pipe | `main`, `parse_args`, `add_command_list`, `init_masterserver` | runs before everything else, and to its end in every process |
| Configuration (`config.c`) | `config` | `load_config`, `parse_config`, `parse_attribute`, `check_config` | read by everyone, written at startup |
| Daemon (`daemon.c`, `signals.c`) | signal flags, poll results | `daemon_main`, `handle_client`, `daemon_handle_signal`, `pre_server` | forks sessions, reads the pipe, kills sessions when it stops |
| Client list (`child.c`) | linked list of pids with a record each | `add_client`, `remove_client`, `find_client`, `count_clients`, `remove_all_clients` | the daemon's; every session inherits a copy |
| State pipe (`state.c`) | a byte stream | `send_state`, `recv_state` and one sender and receiver for each type | many writers, one reader |
| Session (`server.c`, `command.c`) | login, current directory, sockets, restart position | `ftp_main`, `server_handle_signal`, `do_cmd`, `pre_command` | reads commands, calls handlers |
| Command buffer (`server.c`) | line, dirty length | `read_cmd`, `parse_cmd`, `remove_cmd` | between the control connection and `do_cmd` |
| Authentication (`auth.c`) | login record, uid, pools | `douser`, `dopass`, `login_user` | allocates the state and vfs pools |
| Commands (`core.c`, `ls.c`) | that of the session | one handler for each command | file system, data connection, reports |
| Virtual file system (`vfs.c`) | one path buffer | `vfs_realpath`, `vfs_chdir` and wrappers of system calls | called by the commands |
| Passive ports (`core.c`, `server.c`) | listening socket | `dopasv`, `pasv_listen` | sessions compete for ports |
| Streams, throttle (`stream.c`, `throttle.c`) | offsets, counters, the time | `splice_stream`, `sendall`, `throttle_pause` | called for every block of a transfer |
| Replies, logging, utilities | scratch buffers | `convert_time`, `trim_whitespace`, `seek_pipe`, ... | called from everywhere |

What is hard here is what happens between the processes: signals that come
between two instructions, children that die while their reports are still in the
pipe, pids that the kernel hands out again, sessions that are after the same
port, one system call of several failing or doing less than it was asked to, and
clients that send commands in an unexpected order or in pieces. `PROJECT.json`
lists these hazards, each at its line, with the properties that would catch it.

What makes each component correct:

* Startup: the daemon runs with what its configuration file says, and not with
  what does not make sense.
* Daemon and list: one node for every uncollected child; only the daemon kills,
  and it leaves no session behind; the limit on clients holds; the daemon does not
  crash; it stops when told to, and only then.
* Pipe: reader and writers agree on where reports begin and end; records show what
  was reported; reports are read.
* Session: one final reply for every command; nobody gets half an identity;
  descriptors are closed; reports are in order; the session ends when told to.
* Command buffer: the lines sent are the commands executed.
* Virtual file system: names mean what they say, inside the buffer.
* Passive ports: a client is told a port that its own session listens on, or that
  there is none.
* Transfers: what arrives is the file from the promised offset, as far as the count
  says; nothing is sent twice or out of order; the cap on the rate.

## 2. Modules

| Module | Models | State and actions |
|---|---|---|
| `ClientList` | `child.c` | operators on sequences of pids, one for each function |
| `StatePipe` | framing in `state.c`, `seek_pipe` | the stream is a sequence of cells; a header is one cell, a body as many as its length says |
| `Daemon` | `daemon.c`, `signals.c`, receiving half of `state.c` | `pc` is where `daemon_main` is; one action for each way through a handler; the kernel and the sessions are the environment |
| `Reporter` | what `recv_xfer_stop` and the others rely on | abstract specification of the order of one session's reports |
| `Session` | `server.c`, `command.c`, `auth.c`, control flow of `core.c`, `ls.c` | `pc` is where the session may be interrupted; one action for each handler and each way it ends |
| `LineQueue` | what the control connection promises | abstract queue of lines |
| `CommandBuffer` | `read_cmd`, `parse_cmd`, `remove_cmd` | the buffer byte by byte, including what `malloc` left in it |
| `VfsPath` | `vfs.c` | the buffer character by character, one action for each round of the loop |
| `PasvPorts` | `dopasv`, `pasv_listen`, the kernel's rule for `SO_REUSEADDR` | several sessions, one action for each system call and each way it ends; other programs take and give back ports, too |
| `Throttle` | `throttle.c`, `msecdiff` | real time, what the clock is ahead of it, the window that is measured |
| `Transfer` | `stream.c`, `transfer_file`, `store_file`, `dorest`, the ends of `doretr`, `dostor` | the file as a sequence of cells; one action for each block, pause and way to end |
| `Config` | `config.c`, `trim_whitespace` | the file as lines of a kind and a size; one action for each turn of the parser's loop |
| `Startup` | `main.c`, command pool, `init_masterserver`, `load_config` | `pc` is the function that `main` calls next |
| `Calendar` | `is_leap`, `convert_time` | one action for each turn of the two loops |
| `DaemonProofs`, `SessionProofs`, `CommandBufferProofs`, `VfsPathProofs`, `PasvPortsProofs`, `TransferProofs`, `StartupProofs` | | theorems |
| `Induction` | | induction over the natural numbers in a form that the provers can use, and that a recursive function that counts upwards exists |
| `MC*` | | instances for TLC |

`Daemon` composes `ClientList` and `StatePipe`. It assumes of the sessions the order
of reports that `Reporter` states (`Daemon!NextReports`), and `Session` is shown to
implement `Reporter` (`ReportsInOrder`): the assumption of one side is the promise
of the other. `Session` takes commands that are already parsed, which is what
`CommandBuffer` is shown to deliver, and canonical paths, which is what `VfsPath` is
shown to compute. `Session` leaves open whether a PASV finds a port, which is the
subject of `PasvPorts`, and moves blocks without contents, which are the subject of
`Transfer`. `Transfer` composes the blocks of a transfer with the pauses of
`Throttle`, `Startup` the functions that `main` calls with the parser of `Config`.
What `Startup` shows of the configuration (`ConfigMeansFile`: the ports are in range,
the start is not behind the end) is what `PasvPorts` assumes of it.

Abstractions. A report is its type and one value of a small set; a path, user name
or file name in `Daemon` and `Session` is a model value. A reply is counted, not
formatted, but for the two bytes of a port in a 227 (`BigEndian`). The file system
and the network answer nondeterministically, since others change both at any time.
A cell of a file in `Transfer` stands for any number of bytes; what matters of it is
where in the file, or in the upload, it came from. Sizes and times are counted in units
in which the cap is a whole number. Clients do not send NUL bytes, and the
configuration file has none. `errno` is kept as far as
the code depends on a stale value of it (`Session!erange`). An uninitialised
pointer (`login.user`) is nondeterministically NULL or garbage, and a function that
ends without a value (`is_leap`) returns any. Calls that may
fail are listed in the constant `Faults`, so that a property can be checked with
and without a kind of failure.

Definitions whose names end in a suffix after the name of another definition
(`remove_client_last`, `Overflows_exact`) are *mutants*: each is a plausible mistake
in the definition that follows it, and shows that some property would notice it.
No specification uses them.

## 3. Runs

Passing runs:

| Run | Instance | Shows |
|---|---|---|
| `daemon_safety` | 2 pids, limit 2, 1 report each time a pid is used, SIGTERM, no faults | list and records are consistent; stopping kills every session and nothing else; no crash |
| `daemon_faults` | 2 pids, limit 1, 2 reports, SIGTERM, every fault, pids recycled at once, under `FairSpec` | pipe, records and limit under every fault; reports are read; SIGTERM and SIGCHLD are acted upon |
| `session_safety` | 1 user and anonymous ones, 2 paths, files of 1 block, SIGTERM and SIGPIPE, every fault, under `FairSpec` | identity, replies, descriptors; reports in order (refinement of `Reporter`); the session is in the directory it last reported; a waiting session ends when told |
| `buffer_refines` | buffer of 5 bytes, 6 bytes sent, any fragmentation | refinement of `LineQueue`, bounds |
| `vfs_path` | buffer of 5, names of up to 5 characters over `/`, `.`, `a`, any number of calls | canonical names, bounds, refusal of exactly what does not fit |
| `pasv_ports` | 3 sessions, 4 ports, 2 of which other programs use at times, every fault, under `FairSpec` | a client is told a port that its session, and nobody else, listens on; a port is found if there are enough; PASV ends |
| `transfer` | files of up to 7 cells, blocks of 2, any restart position, every fault, the clock set forward or back once | contents and order of what arrives, the restart position, the rate |
| `startup` | files of up to 3 lines of 16 kinds, pages of 5, a line buffer of 3, a pool of 2 that takes 5 commands, every fault | the configuration means what the file says; buffers are large enough; no crash but at the end of a page |

Why the bounds are enough. Two sessions suffice for every interference in the
list and in the pipe that concerns a pair of them, and pids are recycled, so that
the run of a daemon is unbounded in the number of clients. The bodies of reports
have lengths 1 and 3 (2 for a file name under faults) with a seek buffer of 2, so that
`seek_pipe` takes whole buffers
and a remainder. One connection waits at a time; more would only repeat the step
that accepts it. One block makes
the beginning, the middle and the end of a RETR different; a STOR has any number of them, and
with it any number of reports of its progress. One user and an anonymous one are two
identities to mix up. A command buffer of 5 holds a line with a name, a space and an argument,
or several short ones; a path buffer of 5 holds two components and overflows with
the third. The ports are 254
to 257, among which the upper byte changes. While at most one was used by another program there are
exactly enough for the sessions, so that one port that is passed over wrongly is one too many;
when two were, a session may find none. Two sessions may race for a port while the
third, or another program, lets go of another. Seven cells are three blocks and a remainder, from any
offset, aligned or not; with a window of 1 ms and blocks that cost 0 to 2, a window ends
at any place in a transfer. Three lines are enough for one that resizes the buffer
and ones before and after it, and for two options that make sense only together.

`CHECK_DEADLOCK FALSE` stands where the system may stop: the daemon and the session
end, a bounded client stops sending, a date is found. `vfs_path`, `pasv_ports`,
`transfer` and `startup` are checked for deadlock.

Fairness. `Daemon!FairSpec` is weak fairness of the daemon's own steps: it is one
process, and the kernel keeps a process running that is not asleep. Nothing is
assumed of clients, signals or failures. `Session!FairSpec` is weak fairness of the
steps in which the session does not wait for its client: a transfer or a listing may stall
for ever and a client may never send a command. `PasvPorts!FairSpec` is weak fairness of
the steps of each session in `pasv_listen`, none of which blocks: every process is
scheduled. That a command comes, that a process ends or that a call fails is never
assumed.

Runs that find a disagreement with a comment in the source; the
lines are quoted in `PROJECT.json`:

| Run | The code |
|---|---|
| `daemon_term_lost` | `signal_flag &= !RECV_SIGCHLD` clears every flag; a SIGTERM is forgotten |
| `session_term_swallowed` | a SIGTERM during a transfer does not end the session |
| `throttle_cap` | `throttle_pause` begins a new window before the sleep that pays for the old one, so that the sleep counts as time of the new one, and what it sends in it is free |
| `calendar` | every year is a leap year, unless 400 divides it, when anything may happen |

Some passing properties carry the condition under which they hold. Each condition
stands for something the code does, and that the model does too:

* `RecordsFaithful`: the pid is a client's only name. Reports that a dead session left in
  the pipe are applied to a new session that got the same pid (`child.h:16` calls it
  a unique identifier). The ghost variable `clean` says that this was not the case.
* `NoOrphansUnlessNoMemory`: a child whose node could not be allocated
  (`child.c`, `new_client`) is in no list and survives the daemon.
* `NeverCrashesUnlessStopped`: when SIGCHLD stands for a child that was stopped, `waitpid()`
  returns 0, no node has that pid, and `remove_client` dereferences NULL behind the
  last node; its warning (`child.c:76`) is never reached.
* `LoneDeadCollected`, `TerminationHeeded`: one `waitpid()` is called for a flag that
  stands for any number of dead children (`daemon.c:221`), a signal between the test of
  the flags and `poll()` does not wake the daemon (`daemon.c:109`), and handling SIGCHLD
  clears every flag. Both hold if the daemon keeps waking up.
* `TermEndsWaiting`: the same window in the session is as wide as the execution
  of a command (`server.c:234`).
* `CrashesOnlyWithoutPools`: `dopass` logs an anonymous user in without the
  pools when there was no memory for them (`auth.c:77`), and crashes in `init_vfs_pool` if an
  empty configuration has left anonymous users without a directory (`PassAnonymousNoRoot`).
* `EveryCommandAnswered`: a `LIST` whose `opendir()` fails, and no other command, is answered
  twice. `history` remembers that it was one.
* `CwdReported`: such a `LIST` leaves the session in the directory it could not read, although
  `ls.c:176` saves the old one, and the daemon is not told (`strayed`). Every other way out of a
  listing puts the directory back, and the next `CWD` ends the difference. While a listing goes
  out, the session is elsewhere; when the daemon is dead, reports are lost.
* `DescriptorsClosed`: a `STOR` that gets no data connection has lost its file, which stays open for
  as long as the session lives (`lost_file`); no other command loses one.
* `RetrExact`, `StorExact` hold unless the offset is one that a `STOR` has left behind (`stale`):
  `dostor` does not reset `restart_pos` (`core.c:573`), and no reply has promised the next transfer
  that offset. And they hold as long as nothing was `lost`: `transfer_file` takes any
  positive count for a whole block (`core.c:333`) and any count for the remainder, and
  `splice_stream` drops what `write()` did not take (`stream.c:42`); a file that another
  program truncated is sent short, with a 226. What `RetrInOrder` and `StorInOrder` say
  holds even then.
* `RateBound`: what the throttle does guarantee. In each window, of `PROBE_INTERVAL` + 1 ms,
  a transfer may exceed the cap by a block and by what the division in `throttle_pause` rounds
  off, less than the cap for one millisecond: with windows of 500 ms and blocks of 4096 bytes,
  some 8 KiB a second. Each time the clock is set is worth a window and a block.
* `NoFalseExhaustion`: a session that is told of no free port found more sessions than
  ports that no other program has used so far (`used`). A session that loses the race between
  `bind()` and `listen()` gets a 425 although other ports may be free (`ListenFails`).
* `ConfigMeansFile`: an empty file skips `check_config`, which would refuse the defaults
  (anonymous users are allowed, and have no directory). Of a line that is a lone carriage return it
  is assumed that the byte in front of its copy is no blank (`Blank`): that byte is the last one of
  the size that the allocator keeps there.
* `CrashesOnlyAtPageEnd`: the loop of `parse_config` tests where the line before began, goes
  round once more at the end of the file and reads one or two characters behind it.

Other things the actions do because the code does them: any flag stops the daemon,
SIGPIPE from an unread 421 included (`TestFlags`); `login.user` is not initialised,
so that `PASS` as the first command has no defined outcome (`PassFails`); the
anonymous flag outlives a second `USER` (`douser`); a command buffer that is full is
refused as too long although it holds complete lines (`read_cmd`, which tests for
that before it looks for a newline); `STOR` keeps the restart position for the next
transfer, `RETR` does not (`EndStor`, `EndRetr`), a `STOR` from a restart position
starts with a truncated file, hence with a hole, and one that is refused its data connection has
truncated the file all the same (`StorRefused`); what fails in `send_state` nobody looks at, and a
session goes on when the daemon is dead (`DaemonDies`, after which `last` is "unread" and `Reporter` expects nothing); `read_cmd` looks at `errno` after
`read_poll` has logged, so that a signal which should be ignored may end the session
(`PollInterrupted`); of several children that die before the daemon looks, one is collected
for each SIGCHLD (`ReapChild`); a line of blanks and a carriage return
is an error, since `trim_whitespace` passes over its start (`Blank`); a socket without
`SO_REUSEADDR` is used all the same (`dopasv`).

## 4. Theorems

`DaemonProofs` proves, for any set of pids, any limit, any names and paths, any sizes
for which the table in `state.c` and the receivers agree (`LoginSizeAssumption`) and
writes are atomic (`AtomicWriteAssumption`), and any set of faults:

    Inv == TypeOK /\ ListIsChildren /\ ReportsFramed /\ SigchldHasZombie

is inductive. `ListIsChildren` needs the types only. `ReportsFramed` says that every
cell of the pipe lies in a complete report; it is kept by a write because a whole
report is appended, and by a read because what is consumed, by a receiver or by
`seek_pipe`, is exactly the report at the front (`SeekPipeExact`, `SizesAgree`).
`SigchldHasZombie` says that a flagged SIGCHLD comes with a zombie unless children are
stopped by job control; it is what makes `remove_client` find its node, since a zombie
is in the list by `ListIsChildren`. From the invariant follow `DaemonNeverCrashes`,
`DaemonNoOrphans` (everyone who runs is in the list that is killed),
`DaemonSessionsBounded` (the list is as long as there are children, and is tested
before it grows) and `DaemonKillsOnlyChildren`. `DaemonRecordsFaithful` compares a client's
record with its last report when the pipe holds no more of its reports. What is inductive is a
statement about every state (`Known`): the record, and after it the reports of this
client that are still in the pipe, lead to what it reported last. A receiver moves the
first of them to the record, a sender appends one, and reports of others change neither.

`SessionProofs` proves, for any users, paths, sizes of files, signals and set of faults, every
safety property that `session_safety` checks, the refinement of `Reporter` included.
The invariant is

    Inv == TypeOK /\ LoginSound /\ Places /\ Replies /\ Descriptors
             /\ Pools /\ CrashesOnlyWithoutPools /\ Reports /\ Directory

None of the properties is inductive alone. `Places` remembers what `pre_command` has let
through (a transfer has a login, and a command that uses the data connection), without which
a transfer might be that of a client that never logged in. `Replies` and
`Descriptors` say what was answered and what is open at the places where a handler sleeps, from
which `EveryCommandAnswered` and `DescriptorsClosed` follow for the places between commands.
`Pools` is why the assertions in `vfs.c` and `state.c` hold for a user with a name, and
`Reports` relates what was reported last to whether a transfer is going on; with it every
step maps to a step of `Reporter` or to none (`ReportStep`). `Directory` is what `CwdReported` needs
while a listing goes out: it is then the saved directory that the daemon was told of, and
it is the one to which `list_directory` returns. `LoginStable` is an action property, which needs no
invariant.

`CommandBufferProofs` proves, for every size of the buffer, every content and every
fragmentation, that the three functions on the command buffer stay inside it and that
the command that is executed was received (`CommandBufferInBounds`). `parse_cmd` searches
the whole buffer, what `malloc` left in it included; but `read_cmd` only returns when there
is a newline among the received bytes, so that the first one is not behind them (`ParseInv`).
That bytes are taken from the network one by one, and that the length of a command is a
number, completes the invariant. `CommandBufferImplementsLineQueue` is the refinement of
`LineQueue`: the queue is what the buffer holds behind the command that is being executed,
followed by what the network has. It needs in addition that `parse_cmd`, which writes NULs over the
command, has left what follows alone (`Intact`). A `recv()` then moves bytes inside the
queue and is a step that stutters; `parse_cmd` takes the first line, because the first
newline of the buffer is the first newline of the queue; `remove_cmd` shifts the buffer and leaves
the queue as it is.

`VfsPathProofs` proves, for every buffer size above 1 and every length of names, that
`vfs_realpath` stays inside its buffer and that the backward search for a parent
directory stops at the separator at its front (`VfsPathInBounds`). `InBounds` alone is
not inductive: that the new current directory fits depends on the first NUL being
at `dst`, hence on there being none before it (`NoNul`).

It then proves, for the same constants, what `vfs_realpath` computes
(`VfsPathRealpathCorrect`, `VfsPathTooLongCorrect`, `VfsPathCwdCanonical`). The invariant on top
of the first one is

    Meaning == AtHome /\ OnTheWay /\ Arrived /\ Refused

`OnTheWay` says of every turn of the loop that the part of the client's name in front of `start`
ends between two components, that the buffer up to `dst` is the canonical name of the directory
that this part leads to, perhaps with a separator behind it, and that every directory
on the way fitted (`Position`). One component leads on as `Enter` says (`OneComponent`); the loop's
three cases keep `Position` (`Stay`, `Up`, `Down`): `..` goes back to the separator before
the last name, which is the last one in the buffer but for one at its very end
(`LastSeparator`), and a name is put behind exactly one separator (`Push`). If there is no
room, the canonical name of the directory behind this component is what does not fit. `AtHome`
says that the current directory is canonical, also in the sense that it leads
to the directory it was made from: to read a canonical name gives back the directory (`RoundTrip`),
which is what makes the result of one call the right start for the next.

`PasvPortsProofs` proves, for any number of sessions, any range of ports above 0, any ports of
other programs and any faults, that a client reaches the session that sent it a 227 and nobody else
(`PasvPortsToldListening`) and that a session has a listening socket between commands
exactly if its client was told of it (`PasvPortsSocketMeansTold`). The invariant is

    Inv == TypeOK /\ (\A s \in Sessions : Shape(s)) /\ OneListener

where `Shape` says what each place in `dopasv` and `pasv_listen` implies for the socket
and for what the client knows, and `OneListener` is what the kernel's rule for `listen()`
amounts to. That the port in the reply is the port of the socket is arithmetic
(`PortOfBytes`), and needs that ports have 16 bits. `PasvPortsNoFalseExhaustion` is a counting
argument. A session walks past a port that no other program has used only if another session has it; that one
is not beyond the port, and when it lets go it starts again at the front, where it cannot
come past the port unless a third one is there. So for each port that somebody has walked past,
the sessions beyond it and the ports up to it that no other program has used are together no more than
all sessions (`HeldBack`). At the end of the range this says that there are fewer ports than
sessions.

`TransferProofs` proves, for every size of a block, of files and of uploads, every restart
position, every speed and every fault, that a client receives the file from the offset that
it was promised (`TransferRetrExact`), that even short counts repeat and reorder nothing
(`TransferRetrInOrder`), and that a STOR leaves the file as it was sent
(`TransferStorExact`). The invariant is

    Inv == Types /\ Places /\ Counted /\ Received /\ Stored

`Counted` says at each place in the loop of `transfer_file` how many blocks `xfer_len` stands
for, so that the next block, and after the loop the remainder, begins where the last one
ended (`BlocksOf`, `OneMore`); `Received` that what has arrived so far lies between the
offset and `xfer_len` behind it, and is all of it as long as nothing was lost (`Continued`);
`Stored` that the file is what has been uploaded at every turn of the loop of `store_file`,
which `StorExact` says of its end only (`WrittenAll`). That the promise
and `restart_pos` are equal unless the latter is stale is an invariant of its own (`Promised`).
`TransferStorInOrder` needs, at every turn of the loop, that the next write is at the end of the
file and that what is in it was sent before what is read next (`Ordered`), also when a short write
left the offset behind.

`TransferRateBound` is proved for every cap, window, size of a block and speed, from an invariant
that keeps accounts (`RateInv`). Before a block all that was sent is paid for by the time that has
passed, at the cap, but for one excess in each window that is over (`Paid`); between a block
and the pause behind it one block more is not (`Owed`). A pause pays for it, and when the window
is over starts the next one with at most one excess more. When the clock is set, the window means
nothing any more; what it could have hidden is bounded by a gift of one window and one
block. The bound is a sum of products of constants and variables, so that each step is
reduced to linear arithmetic by hand (`Times`).

`StartupProofs` proves, for any configuration file, any size of a page, of the line buffer and of the
pool, any list of commands and any faults, that the parser and the command pool stay in their
bounds (`StartupTypeOK`), that the daemon runs with what its file says (`StartupConfigMeansFile`) and
that it crashes at the end of a page only (`StartupCrashes`). The invariant is

    Inv == FileType /\ PcType /\ ConfigType /\ BufferType /\ PoolType
             /\ Position /\ Meaning

`Position` says where the loop of `parse_config` is: behind a line, at the place where the sizes of
the lines before it add up to (`Starts`), or behind the file, where it looks once more for a
line. `Meaning` says what has been read of the file at each function that `main` calls. For a
crash `Position` gives how far behind the file the parser reads.

Three definitions are recursive functions: `Starts`, `Leads` and `Text`. The library's
induction theorem has a predicate as parameter, which the provers cannot instantiate;
`Induction` states it with a set in its place, derived from the well-foundedness of the natural
numbers, and shows that a function that counts upwards exists (`CountUp`), without which its
recursive definition would say nothing.

Only model-checked: liveness (`ReportsRead`, `TerminationHeeded`, `LoneDeadCollected`,
`TermEndsWaiting`, `PasvAnswered`), which needs fairness and so `ENABLED`. Every invariant and every
action property of a passing run is also a theorem. The four runs that find a disagreement
show it by a counterexample.

## 5. Not modelled

Logging, the text of replies and listings, and symbolic links. The reply to MDTM, which
prints the month counted from 0 (`core.c:233`), and the time of the day in
`convert_time`. Years that 400 divides go wrong in more ways than `Calendar` shows: when
two calls of `is_leap` do not agree, the loop over the months reads behind its table
(`util.c:58`); the actions end there. Milliseconds in 32 bits (`msecdiff` overflows when
the clock is set by more than 24 days) and the rounding of microseconds. `write()` that fails in
`splice_stream` adds -1 to the offset (`stream.c:44`), which matters only if the transfer
goes on, and that it does only after EINTR, which a regular file does not cause. A
`PasvPortStart` of 0, for which the kernel chooses. Accepted data connections, which do not
keep another socket with `SO_REUSEADDR` from their port. `count_clients_addr` is called
nowhere. In `vfs_realpath`, the refusal of a current directory that does not fit
(`vfs.c:90`), which cannot happen: `InBounds` says that it fits. Of the options of the
configuration, those that `check_config` does not look at, but for one.

## 6. Plan

Done: `ClientList`, `StatePipe`, `Daemon`; `Reporter`, `Session`; `LineQueue`, `CommandBuffer`;
`VfsPath`; `PasvPorts`; `Throttle`, `Transfer`; `Config`, `Startup`, each with proofs of all safety
properties that its runs check; `Calendar`.

Next: `FtpServer`, the composition of `Daemon` with sessions that are instances of `Session`, two at
a time, in place of the abstract environment.
